----------------------------- MODULE MusProofs ------------------------------
(***************************************************************************)
(* Proofs about extract(), for every list of facts and every oracle,       *)
(* monotone or not.                                                        *)
(***************************************************************************)
EXTENDS Mus, SequenceTheorems, WellFoundedInduction, TLAPS

Frames == [background : SUBSET All, used : BOOLEAN, lo : Nat, hi : Nat,
           awaits : {"nothing", "right", "left"}, first : SUBSET All]

(* A frame stands on a slice of the list that leaves room for the calls    *)
(* below it, and is asked about a set the oracle rejects.                  *)
FrameOK(f, depth) ==
  /\ f \in Frames
  /\ 1 <= f.lo /\ f.lo <= f.hi /\ f.hi <= Len(facts)
  /\ Size(f) + depth <= Len(facts) + 1
  /\ f.awaits # "nothing" => f.lo < f.hi
  /\ f.background \cup Slice(f.lo, f.hi) \in rejected

(* The background of a call: that of the frame that made it, with the half *)
(* not searched yet, or with what the other half gave.                     *)
Given(f) == f.background \cup (IF f.awaits = "right" THEN Left(f) ELSE f.first)

StackOK ==
  /\ stack \in Seq(Frames)
  /\ \A i \in 1 .. Len(stack) : FrameOK(stack[i], i)
  /\ \A i \in 1 .. Len(stack) : stack[i].awaits = "nothing" <=> pc = "call" /\ i = Len(stack)
  /\ \A i \in 1 .. Len(stack) - 1 : stack[i + 1].background = Given(stack[i])
  /\ stack # <<>> => stack[1].background = {}

(* What a call returned is rejected together with its background.          *)
Answers(out) ==
  IF stack = <<>> THEN out \in rejected ELSE Given(Top) \cup out \in rejected

Stages ==
  /\ pc \in {"start", "call", "returned", "shrink", "done"}
  /\ pc = "call" => stack # <<>>
  /\ pc \in {"start", "shrink", "done"} => stack = <<>>
  /\ relaxed => pc = "done"
  /\ pc = "returned" => Answers(ret)

(* The facts a pass that removed nothing has tried are needed.             *)
Loop ==
  /\ todo \subseteq current /\ current \subseteq All
  /\ ~ removed => \A f \in current \ todo : Accepts(current \ {f})

(* What holds of a list with at least one fact.                            *)
Inv ==
  /\ facts \in Seq(Nat) /\ facts # <<>> /\ Len(facts) <= StackLimit
  /\ removed \in BOOLEAN /\ minimal \in BOOLEAN /\ relaxed \in BOOLEAN
  /\ ret \subseteq All
  /\ StackOK
  /\ Stages
  /\ Loop
  /\ pc \in {"call", "returned"} => All \in rejected
  /\ CoreRejected
  /\ LocallyMinimal

(* What holds of the empty list: each call repeats the one before.         *)
Hopeless ==
  /\ facts = <<>>
  /\ pc \in {"start", "call", "done", "aborted"}
  /\ ret = {} /\ current = {} /\ todo = {} /\ removed = FALSE /\ minimal \in BOOLEAN
  /\ relaxed = (pc = "done")
  /\ stack \in Seq(Frames) /\ Len(stack) <= StackLimit
  /\ pc \in {"call", "aborted"} => stack # <<>> /\ {} \in rejected
  /\ pc \in {"start", "done"} => stack = <<>>
  /\ \A i \in 1 .. Len(stack) :
       /\ stack[i].background = {} /\ ~ stack[i].used /\ stack[i].first = {}
       /\ stack[i].lo = 1 /\ stack[i].hi = 0
       /\ stack[i].awaits = IF i = Len(stack) THEN "nothing" ELSE "right"

IInv == Inv \/ Hopeless

-----------------------------------------------------------------------------
(* The two halves of a slice.                                              *)
LEMMA Halves ==
  ASSUME NEW f, f.lo \in Nat, f.hi \in Nat, f.lo < f.hi
  PROVE  /\ Middle(f) \in Nat
         /\ f.lo < Middle(f) /\ Middle(f) <= f.hi
         /\ Left(f) \cup Slice(Middle(f), f.hi) = Slice(f.lo, f.hi)
<1>1. Size(f) \in Nat /\ 2 <= Size(f)
  BY DEF Size
<1>2. Middle(f) \in Nat /\ f.lo < Middle(f) /\ Middle(f) <= f.hi
  BY <1>1 DEF Middle, Size
<1>3. f.lo .. f.hi = (f.lo .. (Middle(f) - 1)) \cup (Middle(f) .. f.hi)
  BY <1>2
<1> QED  BY <1>2, <1>3 DEF Left, Slice

(* A slice of the list is a part of it.                                    *)
LEMMA Slices ==
  ASSUME facts \in Seq(Nat), NEW lo \in Nat, NEW hi \in Int, 1 <= lo, hi <= Len(facts)
  PROVE  Slice(lo, hi) \subseteq All
BY DEF Slice, All

(* A stack without its top, and with two frames put on it.           *)
LEMMA Popped ==
  ASSUME NEW S, NEW s \in Seq(S), s # <<>>,
         NEW t, t = SubSeq(s, 1, Len(s) - 1)
  PROVE  /\ t \in Seq(S) /\ Len(t) = Len(s) - 1
         /\ \A i \in 1 .. Len(s) - 1 : t[i] = s[i]
<1>1. Len(s) \in Nat /\ 1 <= Len(s)
  OBVIOUS
<1>2. \A i \in 1 .. Len(s) - 1 : s[i] \in S
  BY <1>1, ElementOfSeq
<1> DEFINE n == Len(s) - 1
<1>3. n \in Nat
  BY <1>1
<1>4. t = SubSeq(s, 1, n) /\ \A i \in 1 .. n : s[i] \in S
  BY <1>2
<1> SUFFICES t \in Seq(S) /\ Len(t) = n /\ \A i \in 1 .. n : t[i] = s[i]
  OBVIOUS
<1> HIDE DEF n
<1>5. /\ SubSeq(s, 1, n) \in Seq(S)
      /\ Len(SubSeq(s, 1, n)) = IF 1 <= n THEN n - 1 + 1 ELSE 0
      /\ \A i \in 1 .. n - 1 + 1 : SubSeq(s, 1, n)[i] = s[1 + i - 1]
  BY <1>3, <1>4, SubSeqProperties
<1> QED  BY <1>3, <1>4, <1>5

LEMMA Pushed ==
  ASSUME NEW S, NEW u \in Seq(S), NEW f \in S, NEW g \in S
  PROVE  LET t == Append(Append(u, f), g)
         IN  /\ t \in Seq(S) /\ Len(t) = Len(u) + 2
             /\ \A i \in 1 .. Len(u) : t[i] = u[i]
             /\ t[Len(u) + 1] = f /\ t[Len(u) + 2] = g
<1> DEFINE v == Append(u, f)
<1>1. /\ v \in Seq(S) /\ Len(v) = Len(u) + 1 /\ v[Len(u) + 1] = f
      /\ \A i \in 1 .. Len(u) : v[i] = u[i]
  BY AppendProperties
<1> HIDE DEF v
<1>2. /\ Append(v, g) \in Seq(S) /\ Len(Append(v, g)) = Len(v) + 1 /\ Append(v, g)[Len(v) + 1] = g
      /\ \A i \in 1 .. Len(v) : Append(v, g)[i] = v[i]
  BY <1>1, AppendProperties
<1>3. Len(u) \in Nat
  OBVIOUS
<1> QED  BY <1>1, <1>2, <1>3 DEF v

(* The top of a stack that is not empty.                                   *)
LEMMA TopOK ==
  ASSUME Inv, stack # <<>>
  PROVE  /\ Len(stack) \in Nat /\ 1 <= Len(stack)
         /\ Top \in Frames /\ FrameOK(Top, Len(stack))
         /\ Top.awaits = "nothing" <=> pc = "call"
         /\ Len(stack) <= 1 => Top.background = {}
         /\ Len(stack) > 1 => Top.background = Given(stack[Len(stack) - 1])
<1>1. Len(stack) \in Nat /\ 1 <= Len(stack)
  BY DEF Inv, StackOK
<1>2. Len(stack) \in 1 .. Len(stack)
  BY <1>1
<1>3. Len(stack) > 1 => Len(stack) - 1 \in 1 .. Len(stack) - 1 /\ Len(stack) - 1 + 1 = Len(stack)
  BY <1>1
<1>4. Top \in Frames /\ FrameOK(Top, Len(stack)) /\ (Top.awaits = "nothing" <=> pc = "call")
  BY <1>2 DEF Inv, StackOK, FrameOK, Top
<1>5. CASE Len(stack) <= 1
  <2>1. Top = stack[1]
    BY <1>1, <1>5 DEF Top
  <2> QED  BY <1>1, <1>4, <1>5, <2>1 DEF Inv, StackOK
<1>6. CASE Len(stack) > 1
  BY <1>1, <1>3, <1>4, <1>6 DEF Inv, StackOK, Top
<1> QED  BY <1>1, <1>5, <1>6

(* What returning from the top call does.                                  *)
LEMMA Returning ==
  ASSUME Inv, stack # <<>>, pc \in {"call", "returned"},
         NEW out, out \subseteq All, Return(out),
         Top.background \cup out \in rejected
  PROVE  Inv'
<1>1. /\ stack' = SubSeq(stack, 1, Len(stack) - 1) /\ ret' = out /\ pc' = "returned"
      /\ facts' = facts /\ rejected' = rejected /\ current' = current /\ todo' = todo
      /\ removed' = removed /\ minimal' = minimal /\ relaxed' = relaxed
  BY DEF Return, Below, input, shrinking
<1>2. stack \in Seq(Frames)
  BY DEF Inv, StackOK
<1>3. /\ stack' \in Seq(Frames) /\ Len(stack') = Len(stack) - 1
      /\ \A i \in 1 .. Len(stack) - 1 : stack'[i] = stack[i]
  BY <1>1, <1>2, Popped
<1>4. Len(stack) \in Nat /\ 1 <= Len(stack)
  BY TopOK
<1>5. All' = All /\ Frames' = Frames
  BY <1>1 DEF All, Slice, Frames
<1>8. StackOK'
  <2>1. (\A i \in 1 .. Len(stack) : FrameOK(stack[i], i))'
    <3> SUFFICES ASSUME NEW i \in 1 .. Len(stack')
                 PROVE  FrameOK(stack[i], i)'
      OBVIOUS
    <3>1. i \in 1 .. Len(stack) - 1 /\ i \in 1 .. Len(stack)
      BY <1>3, <1>4
    <3>2. stack'[i] = stack[i] /\ FrameOK(stack[i], i)
      BY <1>3, <3>1 DEF Inv, StackOK
    <3> QED  BY <1>1, <1>5, <3>2 DEF FrameOK, Slice, Size
  <2>2. \A i \in 1 .. Len(stack') : stack'[i].awaits # "nothing"
    BY <1>3, <1>4 DEF Inv, StackOK
  <2>3. (\A i \in 1 .. Len(stack) - 1 : stack[i + 1].background = Given(stack[i]))'
    <3> SUFFICES ASSUME NEW i \in 1 .. Len(stack') - 1
                 PROVE  stack'[i + 1].background = Given(stack[i])'
      OBVIOUS
    <3>1. stack'[i] = stack[i] /\ stack'[i + 1] = stack[i + 1]
      BY <1>3, <1>4
    <3>2. stack[i + 1].background = Given(stack[i])
      BY <1>3, <1>4 DEF Inv, StackOK
    <3> QED  BY <1>1, <3>1, <3>2 DEF Given, Left, Slice, Middle, Size
  <2>4. stack' # <<>> => stack'[1].background = {}
    BY <1>3, <1>4 DEF Inv, StackOK
  <2> QED  BY <1>1, <1>3, <1>5, <2>1, <2>2, <2>3, <2>4 DEF StackOK
<1>9. Stages'
  <2>1. CASE Len(stack) <= 1
    <3>1. stack' = <<>>
      BY <1>3, <2>1, EmptySeq
    <3> QED  BY <1>1, <2>1, <3>1, TopOK DEF Inv, Stages, Answers
  <2>2. CASE Len(stack) > 1
    <3>1. stack' # <<>> /\ Top' = stack[Len(stack) - 1]
      BY <1>3, <1>4, <2>2 DEF Top
    <3>2. Given(Top)' = Top.background
      BY <1>1, <2>2, <3>1, TopOK DEF Given, Left, Slice, Middle, Size
    <3> QED  BY <1>1, <3>1, <3>2 DEF Inv, Stages, Answers
  <2> QED  BY <1>4, <2>1, <2>2
<1> QED  BY <1>1, <1>5, <1>8, <1>9 DEF Inv, Loop, CoreRejected, LocallyMinimal, Accepts, Stages

(* What a call made from the top frame does.                               *)
LEMMA Calling ==
  ASSUME Inv, stack # <<>>, pc \in {"call", "returned"},
         NEW f, NEW g, CallFrom(f, g),
         FrameOK(f, Len(stack)), FrameOK(g, Len(stack) + 1),
         f.background = Top.background, f.awaits # "nothing",
         g.background = Given(f), g.awaits = "nothing"
  PROVE  Inv'
<1>1. /\ stack' = Append(Append(SubSeq(stack, 1, Len(stack) - 1), f), g) /\ pc' = "call"
      /\ facts' = facts /\ rejected' = rejected /\ current' = current /\ todo' = todo
      /\ removed' = removed /\ minimal' = minimal /\ relaxed' = relaxed /\ ret' = ret
  BY DEF CallFrom, Below, input, shrinking
<1>2. stack \in Seq(Frames) /\ f \in Frames /\ g \in Frames
  BY DEF Inv, StackOK, FrameOK
<1>3. /\ stack' \in Seq(Frames) /\ Len(stack') = Len(stack) + 1
      /\ \A i \in 1 .. Len(stack) - 1 : stack'[i] = stack[i]
      /\ stack'[Len(stack)] = f /\ stack'[Len(stack) + 1] = g
  <2>1. /\ Below \in Seq(Frames) /\ Len(Below) = Len(stack) - 1
        /\ \A i \in 1 .. Len(stack) - 1 : Below[i] = stack[i]
    BY <1>2, Popped DEF Below
  <2>2. stack' = Append(Append(Below, f), g)
    BY <1>1 DEF Below
  <2>3. /\ stack' \in Seq(Frames) /\ Len(stack') = Len(Below) + 2
        /\ \A i \in 1 .. Len(Below) : stack'[i] = Below[i]
        /\ stack'[Len(Below) + 1] = f /\ stack'[Len(Below) + 2] = g
    BY <1>2, <2>1, <2>2, Pushed
  <2>4. Len(stack) \in Nat
    BY <1>2
  <2> QED  BY <2>1, <2>3, <2>4
<1>4. Len(stack) \in Nat /\ 1 <= Len(stack)
  BY TopOK
<1>5. All' = All /\ Frames' = Frames
  BY <1>1 DEF All, Slice, Frames
<1>8. \A i \in 1 .. Len(stack') : i \in 1 .. Len(stack) - 1 \/ i = Len(stack) \/ i = Len(stack) + 1
  BY <1>3, <1>4
<1>9. StackOK'
  <2>1. (\A i \in 1 .. Len(stack) : FrameOK(stack[i], i))'
    <3> SUFFICES ASSUME NEW i \in 1 .. Len(stack')
                 PROVE  FrameOK(stack[i], i)'
      OBVIOUS
    <3>1. FrameOK(stack'[i], i)
      BY <1>3, <1>4, <1>8 DEF Inv, StackOK
    <3> QED  BY <1>1, <1>5, <3>1 DEF FrameOK, Slice, Size
  <2>2. ASSUME NEW i \in 1 .. Len(stack')
        PROVE  stack'[i].awaits = "nothing" <=> i = Len(stack')
    <3>1. CASE i \in 1 .. Len(stack) - 1
      <4>1. stack'[i] = stack[i] /\ i \in 1 .. Len(stack) /\ i # Len(stack) /\ i # Len(stack')
        BY <1>3, <1>4, <3>1
      <4> QED  BY <4>1 DEF Inv, StackOK
    <3>2. CASE i = Len(stack) \/ i = Len(stack) + 1
      BY <1>3, <1>4, <3>2
    <3> QED  BY <1>8, <3>1, <3>2
  <2>3. (\A i \in 1 .. Len(stack) - 1 : stack[i + 1].background = Given(stack[i]))'
    <3> SUFFICES ASSUME NEW i \in 1 .. Len(stack') - 1
                 PROVE  stack'[i + 1].background = Given(stack[i])'
      OBVIOUS
    <3> SUFFICES stack'[i + 1].background = Given(stack'[i])
      BY <1>1 DEF Given, Left, Slice, Middle, Size
    <3>1. CASE i = Len(stack)
      BY <1>3, <3>1
    <3>2. CASE i = Len(stack) - 1
      <4>1. stack'[i + 1] = f /\ stack'[i] = stack[i] /\ Len(stack) > 1
        BY <1>3, <1>4, <3>2
      <4> QED  BY <3>2, <4>1, TopOK
    <3>3. CASE i < Len(stack) - 1
      <4>1. stack'[i + 1] = stack[i + 1] /\ stack'[i] = stack[i]
        BY <1>3, <1>4, <3>3
      <4>2. i \in 1 .. Len(stack) - 1
        BY <1>3, <1>4, <3>3
      <4> QED  BY <4>1, <4>2 DEF Inv, StackOK
    <3> QED  BY <1>3, <1>4, <3>1, <3>2, <3>3
  <2>4. stack'[1].background = {}
    <3>1. CASE Len(stack) <= 1
      BY <1>3, <3>1, TopOK
    <3>2. CASE Len(stack) > 1
      <4>1. stack'[1] = stack[1]
        BY <1>3, <1>4, <3>2
      <4> QED  BY <4>1 DEF Inv, StackOK
    <3>3. Len(stack) <= 1 \/ Len(stack) > 1
      BY <1>4
    <3> QED  BY <3>1, <3>2, <3>3
  <2> QED  BY <1>1, <1>3, <1>5, <2>1, <2>2, <2>3, <2>4 DEF StackOK
<1>10. stack' # <<>>
  BY <1>3, <1>4
<1>11. Stages'
  BY <1>1, <1>10 DEF Inv, Stages
<1> QED  BY <1>1, <1>5, <1>9, <1>11 DEF Inv, Loop, CoreRejected, LocallyMinimal, Accepts, Stages

-----------------------------------------------------------------------------
(* The steps of extract() and quickxplain().                               *)
LEMMA Initially == ASSUME Init, facts # <<>> PROVE Inv
<1>1. stack = <<>> /\ Len(stack) = 0 /\ stack \in Seq(Frames)
  BY DEF Init
<1>2. facts \in Seq(Nat) /\ facts # <<>> /\ Len(facts) <= StackLimit
  BY InstancesAssumption DEF Init
<1>3. StackOK
  BY <1>1 DEF StackOK
<1> QED  BY <1>1, <1>2, <1>3 DEF Init, Inv, Stages, Loop, CoreRejected, LocallyMinimal

LEMMA Starting ==
  ASSUME Inv, RelaxationAccepts \/ Begin
  PROVE  Inv'
<1>1. CASE RelaxationAccepts
  BY <1>1 DEF RelaxationAccepts, input, search, shrinking, Inv, StackOK, Stages, Loop,
              CoreRejected, LocallyMinimal, Accepts, All, Slice, Frames, FrameOK, Given, Left, Middle, Size
<1>2. CASE Begin
  <2> DEFINE c == Call({}, FALSE, 1, Len(facts))
  <2>1. /\ facts' = facts /\ rejected' = rejected /\ current' = current /\ todo' = todo
        /\ removed' = removed /\ minimal' = minimal /\ relaxed' = relaxed /\ ret' = ret
        /\ stack' = <<c>> /\ pc = "start" /\ pc' = "call" /\ All \in rejected
    BY <1>2 DEF Begin, input, shrinking, Accepts
  <2>2. Len(facts) \in Nat /\ 1 <= Len(facts)
    BY DEF Inv
  <2>3. c \in Frames /\ c.background = {} /\ c.awaits = "nothing" /\ c.lo = 1 /\ c.hi = Len(facts)
    BY <2>2 DEF Call, Frames
  <2>4. FrameOK(c, 1)
    <3>1. c.background \cup Slice(c.lo, c.hi) = All
      BY <2>3 DEF All
    <3> HIDE DEF c
    <3> QED  BY <2>1, <2>2, <2>3, <3>1 DEF FrameOK, Size
  <2>5. All' = All /\ Frames' = Frames
    BY <2>1 DEF All, Slice, Frames
  <2> HIDE DEF c
  <2>6. stack' \in Seq(Frames) /\ Len(stack') = 1 /\ stack'[1] = c /\ stack' # <<>>
    BY <2>1, <2>3
  <2>7. \A i \in 1 .. Len(stack') : i = 1
    BY <2>6
  <2>8. (\A i \in 1 .. Len(stack) : FrameOK(stack[i], i))'
    BY <2>1, <2>4, <2>5, <2>6, <2>7 DEF FrameOK, Slice, Size
  <2>9. StackOK'
    BY <2>1, <2>3, <2>5, <2>6, <2>7, <2>8 DEF StackOK
  <2> QED  BY <2>1, <2>5, <2>6, <2>9 DEF Inv, Stages, Loop, CoreRejected, LocallyMinimal, Accepts
<1> QED  BY <1>1, <1>2

LEMMA Answering ==
  ASSUME Inv, Prune \/ Single \/ Join
  PROVE  Inv'
<1>1. CASE Prune
  <2>1. stack # <<>> /\ pc = "call"
    BY <1>1 DEF Prune, Inv, Stages
  <2> QED  BY <1>1, <2>1, Returning DEF Prune, BackgroundSuffices, Accepts
<1>2. CASE Single
  <2>1. stack # <<>> /\ pc = "call"
    BY <1>2 DEF Single, Inv, Stages
  <2>2. Slice(Top.lo, Top.hi) \subseteq All
    BY <2>1, TopOK, Slices DEF FrameOK, Frames, Inv
  <2>3. Top.background \cup Slice(Top.lo, Top.hi) \in rejected
    BY <2>1, TopOK DEF FrameOK
  <2> QED  BY <1>2, <2>1, <2>2, <2>3, Returning DEF Single
<1>3. CASE Join
  <2>1. stack # <<>> /\ pc = "returned" /\ Top.awaits = "left" /\ Return(Top.first \cup ret)
    BY <1>3 DEF Join
  <2>2. Top.first \cup ret \subseteq All
    BY <2>1, TopOK DEF Frames, Inv
  <2>3. Top.background \cup (Top.first \cup ret) \in rejected
    <3>1. (Top.background \cup Top.first) \cup ret \in rejected
      BY <2>1 DEF Inv, Stages, Answers, Given
    <3>2. (Top.background \cup Top.first) \cup ret = Top.background \cup (Top.first \cup ret)
      OBVIOUS
    <3> QED  BY <3>1, <3>2
  <2> QED  BY <2>1, <2>2, <2>3, Returning
<1> QED  BY <1>1, <1>2, <1>3

LEMMA Halving ==
  ASSUME Inv, Split \/ LeftHalf
  PROVE  Inv'
<1>1. stack # <<>> /\ pc \in {"call", "returned"}
  BY DEF Split, Divides, LeftHalf, Inv, Stages
<1>2. /\ Top \in Frames /\ FrameOK(Top, Len(stack)) /\ Len(stack) \in Nat
      /\ Top.awaits = "nothing" <=> pc = "call"
      /\ Len(facts) \in Nat
  BY <1>1, TopOK DEF Inv
<1>3. /\ Top.background \subseteq All /\ Top.used \in BOOLEAN /\ Top.lo \in Nat /\ Top.hi \in Nat
      /\ 1 <= Top.lo /\ Top.lo <= Top.hi /\ Top.hi <= Len(facts)
      /\ Top.hi - Top.lo + 1 + Len(stack) <= Len(facts) + 1
      /\ Top.background \cup Slice(Top.lo, Top.hi) \in rejected
      /\ Top.awaits # "nothing" => Top.lo < Top.hi
  BY <1>2 DEF FrameOK, Frames, Size
<1>4. Top.lo < Top.hi
  BY <1>1, <1>2, <1>3 DEF Split, Divides, LeftHalf, OneLeft, Size
<1>5. /\ Middle(Top) \in Nat /\ Top.lo < Middle(Top) /\ Middle(Top) <= Top.hi
      /\ Left(Top) \cup Slice(Middle(Top), Top.hi) = Slice(Top.lo, Top.hi)
  BY <1>3, <1>4, Halves
<1>6. Left(Top) \subseteq All
  BY <1>3, <1>5, Slices DEF Left, Inv
<1>7. CASE Split
  <2> DEFINE f == [Top EXCEPT !.awaits = "right"]
             g == Call(Top.background \cup Left(Top), Left(Top) # {}, Middle(Top), Top.hi)
  <2>1. CallFrom(f, g)
    BY <1>7 DEF Split
  <2>2. /\ f \in Frames /\ f.background = Top.background /\ f.lo = Top.lo /\ f.hi = Top.hi
        /\ f.awaits = "right"
    BY <1>2 DEF Frames
  <2>3. FrameOK(f, Len(stack))
    BY <1>3, <1>4, <2>2 DEF FrameOK, Size
  <2>4. /\ g \in Frames /\ g.background = Top.background \cup Left(Top)
        /\ g.lo = Middle(Top) /\ g.hi = Top.hi /\ g.awaits = "nothing"
    BY <1>3, <1>5, <1>6 DEF Call, Frames
  <2>5. g.background \cup Slice(g.lo, g.hi) = Top.background \cup Slice(Top.lo, Top.hi)
    BY <1>5, <2>4
  <2>6. FrameOK(g, Len(stack) + 1)
    <3> HIDE DEF f, g
    <3>1. /\ 1 <= Middle(Top) /\ Middle(Top) <= Top.hi /\ Top.hi <= Len(facts)
          /\ (Top.hi) - Middle(Top) + 1 + (Len(stack) + 1) <= Len(facts) + 1
      BY <1>2, <1>3, <1>5
    <3>2. g.background \cup Slice(g.lo, g.hi) \in rejected
      BY <1>3, <2>5
    <3> QED  BY <3>1, <3>2, <2>4 DEF FrameOK, Size
  <2>7. Left(f) = Left(Top)
    BY <2>2 DEF Left, Middle, Size
  <2>8. g.background = Given(f)
    BY <2>2, <2>4, <2>7 DEF Given
  <2> HIDE DEF f, g
  <2> QED  BY <1>1, <2>1, <2>2, <2>3, <2>4, <2>6, <2>8, Calling
<1>8. CASE LeftHalf
  <2> DEFINE f == [Top EXCEPT !.awaits = "left", !.first = ret]
             g == Call(Top.background \cup ret, ret # {}, Top.lo, Middle(Top) - 1)
  <2>1. CallFrom(f, g) /\ Top.awaits = "right" /\ pc = "returned"
    BY <1>8 DEF LeftHalf
  <2>2. ret \subseteq All
    BY DEF Inv
  <2>3. /\ f \in Frames /\ f.background = Top.background /\ f.lo = Top.lo /\ f.hi = Top.hi
        /\ f.awaits = "left" /\ f.first = ret
    BY <1>2, <2>2 DEF Frames
  <2>4. FrameOK(f, Len(stack))
    BY <1>3, <1>4, <2>3 DEF FrameOK, Size
  <2>5. /\ g \in Frames /\ g.background = Top.background \cup ret
        /\ g.lo = Top.lo /\ g.hi = Middle(Top) - 1 /\ g.awaits = "nothing"
    BY <1>3, <1>5, <2>2 DEF Call, Frames
  <2>6. Given(Top) \cup ret \in rejected
    BY <1>1, <2>1 DEF Inv, Stages, Answers
  <2>7. g.background \cup Slice(g.lo, g.hi) = Given(Top) \cup ret
    BY <2>1, <2>5 DEF Given, Left
  <2>8. FrameOK(g, Len(stack) + 1)
    <3> HIDE DEF f, g
    <3>1. /\ 1 <= Top.lo /\ Top.lo <= Middle(Top) - 1 /\ Middle(Top) - 1 <= Len(facts)
          /\ (Middle(Top) - 1) - Top.lo + 1 + (Len(stack) + 1) <= Len(facts) + 1
      BY <1>2, <1>3, <1>5
    <3>2. g.background \cup Slice(g.lo, g.hi) \in rejected
      BY <2>6, <2>7
    <3> QED  BY <3>1, <3>2, <2>5 DEF FrameOK, Size
  <2>9. g.background = Given(f)
    BY <2>3, <2>5 DEF Given
  <2> HIDE DEF f, g
  <2> QED  BY <1>1, <2>1, <2>3, <2>4, <2>5, <2>8, <2>9, Calling
<1> QED  BY <1>7, <1>8

(* The steps of shrink().                                                  *)
LEMMA Shrinking ==
  ASSUME Inv, CoreFound \/ Remove \/ Keep \/ NextPass \/ Conclude
  PROVE  Inv'
<1> USE DEF input, search
<1>1. facts' = facts /\ rejected' = rejected /\ stack' = stack /\ ret' = ret /\ relaxed' = relaxed
  BY DEF CoreFound, Remove, Keep, NextPass, Conclude
<1>2. stack = <<>> /\ Len(stack) = 0 /\ pc \in {"shrink", "returned"}
  BY DEF CoreFound, Remove, Keep, NextPass, Conclude, Inv, Stages
<1>3. StackOK'
  <2>1. Frames' = Frames
    BY <1>1 DEF Frames, All, Slice
  <2> QED  BY <1>1, <1>2, <2>1 DEF Inv, StackOK
<1>4. All' = All
  BY <1>1 DEF All, Slice
<1>5. CASE CoreFound
  <2>1. ret \in rejected /\ All \in rejected /\ ret \subseteq All /\ ~ relaxed
    BY <1>2, <1>5 DEF CoreFound, Inv, Stages, Answers
  <2>2. /\ current' \in rejected /\ current' \subseteq All /\ todo' = current'
        /\ removed' = FALSE /\ pc' = "shrink" /\ minimal' = minimal
    BY <1>5, <2>1 DEF CoreFound
  <2> QED  BY <1>1, <1>2, <1>3, <1>4, <2>1, <2>2
           DEF Inv, Stages, Loop, CoreRejected, LocallyMinimal
<1>6. CASE Remove
  <2>1. pc = "shrink" /\ pc' = pc /\ minimal' = minimal /\ removed' = TRUE
    BY <1>6 DEF Remove
  <2>2. /\ current' \in rejected /\ current' \subseteq current /\ todo' \subseteq current'
    BY <1>6 DEF Remove, Accepts, Inv, Loop
  <2> QED  BY <1>1, <1>2, <1>3, <1>4, <2>1, <2>2
           DEF Inv, Stages, Loop, CoreRejected, LocallyMinimal
<1>7. CASE Keep
  <2>1. pc = "shrink" /\ pc' = pc /\ minimal' = minimal /\ removed' = removed /\ current' = current
    BY <1>7 DEF Keep
  <2>2. PICK f \in todo : Accepts(current \ {f}) /\ todo' = todo \ {f}
    BY <1>7 DEF Keep
  <2>3. Loop'
    BY <1>1, <1>4, <2>1, <2>2 DEF Inv, Loop, Accepts
  <2> QED  BY <1>1, <1>2, <1>3, <1>4, <2>1, <2>3
           DEF Inv, Stages, CoreRejected, LocallyMinimal
<1>8. CASE NextPass
  <2>1. /\ pc = "shrink" /\ pc' = pc /\ minimal' = minimal /\ removed' = FALSE
        /\ current' = current /\ todo' = current
    BY <1>8 DEF NextPass
  <2> QED  BY <1>1, <1>2, <1>3, <1>4, <2>1
           DEF Inv, Stages, Loop, CoreRejected, LocallyMinimal
<1>9. CASE Conclude
  <2>1. \A f \in current : Accepts(current \ {f})
    BY <1>9 DEF Conclude, PassAgain, Inv, Loop
  <2>2. /\ pc = "shrink" /\ pc' = "done" /\ minimal' = TRUE /\ removed' = removed
        /\ current' = current /\ todo' = todo
    BY <1>9, <2>1 DEF Conclude, shrinking
  <2>3. Loop' /\ CoreRejected' /\ LocallyMinimal'
    BY <1>1, <1>4, <2>1, <2>2 DEF Inv, Stages, Loop, CoreRejected, LocallyMinimal, Accepts
  <2> QED  BY <1>1, <1>2, <1>3, <1>4, <2>2, <2>3 DEF Inv, Stages
<1> QED  BY <1>5, <1>6, <1>7, <1>8, <1>9

LEMMA Stuttering == ASSUME Inv, UNCHANGED vars PROVE Inv'
<1>1. /\ facts' = facts /\ rejected' = rejected /\ stack' = stack /\ ret' = ret
      /\ current' = current /\ todo' = todo /\ removed' = removed /\ minimal' = minimal
      /\ relaxed' = relaxed /\ pc' = pc
  BY DEF vars
<1>2. All' = All /\ Frames' = Frames
  BY <1>1 DEF All, Slice, Frames
<1>3. (\A i \in 1 .. Len(stack) : FrameOK(stack[i], i))'
  BY <1>1, <1>2 DEF Inv, StackOK, FrameOK, Slice, Size
<1>4. (\A i \in 1 .. Len(stack) - 1 : stack[i + 1].background = Given(stack[i]))'
  BY <1>1 DEF Inv, StackOK, Given, Left, Slice, Middle, Size
<1>5. StackOK'
  BY <1>1, <1>2, <1>3, <1>4 DEF Inv, StackOK
<1>6. Stages'
  BY <1>1 DEF Inv, Stages, Answers, Top, Given, Left, Slice, Middle, Size
<1> QED  BY <1>1, <1>2, <1>5, <1>6 DEF Inv, Loop, CoreRejected, LocallyMinimal, Accepts

(* A list with a fact never uses the stack up: halving leaves a call for    *)
(* every frame below.                                                      *)
LEMMA NeverOverflows == ASSUME Inv, Overflow PROVE FALSE
<1>1. stack # <<>> /\ pc = "call"
  BY DEF Overflow, Divides, Inv, Stages
<1>2. FrameOK(Top, Len(stack)) /\ Top \in Frames /\ Len(stack) \in Nat
  BY <1>1, TopOK
<1>3. /\ Top.lo \in Nat /\ Top.hi \in Nat /\ Top.lo <= Top.hi
      /\ Top.hi - Top.lo + 1 + Len(stack) <= Len(facts) + 1
      /\ Top.hi - Top.lo + 1 # 1
  BY <1>2 DEF FrameOK, Frames, Size, Overflow, Divides, OneLeft
<1>4. Len(facts) \in Nat /\ StackLimit \in Nat /\ Len(facts) <= StackLimit
  BY InstancesAssumption DEF Inv
<1>5. Len(stack) = StackLimit
  BY DEF Overflow
<1> QED  BY <1>2, <1>3, <1>4, <1>5

(* With no fact at all the one thing that happens is another call.         *)
LEMMA HopelessStep == ASSUME Hopeless, [Next]_vars PROVE Hopeless'
<1>1. facts' = facts /\ rejected' = rejected
  BY DEF Next, vars, RelaxationAccepts, Begin, Prune, Single, Split, Overflow, LeftHalf, Join,
         CoreFound, Remove, Keep, NextPass, Conclude, Return, CallFrom, input
<1>2. /\ All = {} /\ Frames' = Frames
      /\ StackLimit \in Nat /\ 1 <= StackLimit
  BY <1>1, InstancesAssumption DEF Hopeless, All, Slice, Frames
<1>3. CASE RelaxationAccepts \/ UNCHANGED vars
  BY <1>1, <1>2, <1>3 DEF Hopeless, RelaxationAccepts, input, search, shrinking, vars
<1>4. CASE Begin
  <2> DEFINE c == Call({}, FALSE, 1, Len(facts))
  <2>1. /\ stack' = <<c>> /\ pc' = "call" /\ pc = "start" /\ {} \in rejected
        /\ UNCHANGED <<ret, current, todo, removed, minimal, relaxed>>
    BY <1>2, <1>4 DEF Begin, input, shrinking, Accepts
  <2>2. /\ c \in Frames /\ c.background = {} /\ ~ c.used /\ c.first = {}
        /\ c.lo = 1 /\ c.hi = 0 /\ c.awaits = "nothing"
    BY DEF Call, Frames, Hopeless
  <2> HIDE DEF c
  <2>3. stack' \in Seq(Frames) /\ Len(stack') = 1 /\ stack'[1] = c /\ stack' # <<>>
    BY <2>1, <2>2
  <2>4. \A i \in 1 .. Len(stack') : i = 1
    BY <2>3
  <2> QED  BY <1>1, <1>2, <2>1, <2>2, <2>3, <2>4 DEF Hopeless
<1>5. ASSUME pc = "call"
      PROVE  /\ Len(stack) \in Nat /\ 1 <= Len(stack) /\ stack \in Seq(Frames)
             /\ Top \in Frames /\ Top.background = {} /\ ~ Top.used /\ Top.first = {}
             /\ Top.lo = 1 /\ Top.hi = 0 /\ Top.awaits = "nothing"
             /\ ~ BackgroundSuffices(Top) /\ ~ OneLeft(Top)
             /\ Middle(Top) = 1 /\ Left(Top) = {}
  <2>1. Len(stack) \in Nat /\ 1 <= Len(stack) /\ stack \in Seq(Frames)
    BY <1>5 DEF Hopeless
  <2>2. Len(stack) \in 1 .. Len(stack)
    BY <2>1
  <2>3. /\ Top \in Frames /\ Top.background = {} /\ ~ Top.used /\ Top.first = {}
        /\ Top.lo = 1 /\ Top.hi = 0 /\ Top.awaits = "nothing"
    BY <2>1, <2>2 DEF Hopeless, Top
  <2>4. Middle(Top) = 1
    BY <2>3 DEF Middle, Size
  <2> QED  BY <2>1, <2>3, <2>4 DEF BackgroundSuffices, OneLeft, Size, Left, Slice
<1>6. CASE Split
  <2> DEFINE f == [Top EXCEPT !.awaits = "right"]
             g == Call(Top.background \cup Left(Top), Left(Top) # {}, Middle(Top), Top.hi)
  <2>1. /\ stack' = Append(Append(Below, f), g) /\ pc = "call" /\ pc' = "call"
        /\ Len(stack) < StackLimit
        /\ UNCHANGED <<ret, current, todo, removed, minimal, relaxed>>
    BY <1>6 DEF Split, Divides, CallFrom, input, shrinking
  <2>2. /\ f \in Frames /\ f.background = {} /\ ~ f.used /\ f.first = {}
        /\ f.lo = 1 /\ f.hi = 0 /\ f.awaits = "right"
    BY <1>5, <2>1 DEF Frames
  <2>3. /\ g \in Frames /\ g.background = {} /\ ~ g.used /\ g.first = {}
        /\ g.lo = 1 /\ g.hi = 0 /\ g.awaits = "nothing"
    BY <1>5, <2>1 DEF Call, Frames
  <2> HIDE DEF f, g
  <2>4. /\ Below \in Seq(Frames) /\ Len(Below) = Len(stack) - 1
        /\ \A i \in 1 .. Len(stack) - 1 : Below[i] = stack[i]
    <3>1. stack \in Seq(Frames) /\ stack # <<>>
      BY <1>5, <2>1 DEF Hopeless
    <3> QED  BY <3>1, Popped DEF Below
  <2>5. /\ stack' \in Seq(Frames) /\ Len(stack') = Len(Below) + 2
        /\ \A i \in 1 .. Len(Below) : stack'[i] = Below[i]
        /\ stack'[Len(Below) + 1] = f /\ stack'[Len(Below) + 2] = g
    BY <2>1, <2>2, <2>3, <2>4, Pushed
  <2>6. Len(stack) \in Nat /\ 1 <= Len(stack) /\ Len(stack') = Len(stack) + 1
    BY <1>5, <2>1, <2>4, <2>5
  <2>7. ASSUME NEW i \in 1 .. Len(stack')
        PROVE  /\ stack'[i].background = {} /\ ~ stack'[i].used /\ stack'[i].first = {}
               /\ stack'[i].lo = 1 /\ stack'[i].hi = 0
               /\ stack'[i].awaits = IF i = Len(stack') THEN "nothing" ELSE "right"
    <3>1. CASE i \in 1 .. Len(stack) - 1
      <4>1. /\ stack'[i] = stack[i] /\ i \in 1 .. Len(stack)
            /\ i # Len(stack) /\ i # Len(stack')
        BY <2>4, <2>5, <2>6, <3>1
      <4> QED  BY <4>1 DEF Hopeless
    <3>2. CASE i = Len(stack)
      BY <2>2, <2>4, <2>5, <2>6, <3>2
    <3>3. CASE i = Len(stack) + 1
      BY <2>3, <2>4, <2>5, <2>6, <3>3
    <3> QED  BY <2>6, <3>1, <3>2, <3>3
  <2>8. stack' # <<>>
    BY <2>6
  <2> QED  BY <1>1, <1>2, <2>1, <2>5, <2>6, <2>7, <2>8 DEF Hopeless
<1>7. CASE Overflow
  BY <1>1, <1>2, <1>7 DEF Overflow, Divides, Hopeless, search, shrinking
<1>8. ASSUME Prune \/ Single PROVE FALSE
  BY <1>5, <1>8 DEF Prune, Single
<1>9. ASSUME LeftHalf \/ Join \/ CoreFound \/ Remove \/ Keep \/ NextPass \/ Conclude PROVE FALSE
  BY <1>9 DEF LeftHalf, Join, CoreFound, Remove, Keep, NextPass, Conclude, Hopeless
<1> QED  BY <1>3, <1>4, <1>6, <1>7, <1>8, <1>9 DEF Next

LEMMA InvStep ==
  ASSUME Inv, [Next]_vars
  PROVE  Inv'
BY Starting, Answering, Halving, Shrinking, Stuttering, NeverOverflows DEF Next

LEMMA Starts == Init => IInv
<1> SUFFICES ASSUME Init, facts = <<>> PROVE Hopeless
  BY Initially DEF IInv
<1>1. stack = <<>> /\ Len(stack) = 0 /\ stack \in Seq(Frames) /\ StackLimit \in Nat
  BY InstancesAssumption DEF Init
<1>2. 1 .. Len(stack) = {} /\ Len(stack) <= StackLimit
  BY <1>1
<1> QED  BY <1>1, <1>2 DEF Init, Hopeless

(* IInv is an invariant of extract(), for any list and any oracle.         *)
THEOREM Invariance == Spec => []IInv
<1>1. IInv /\ [Next]_vars => IInv'
  BY InvStep, HopelessStep DEF IInv
<1> QED  BY <1>1, Starts, PTL DEF Spec

-----------------------------------------------------------------------------
(* Divide and conquer on its own, with a monotone oracle                   *)

(* The half of a frame's slice that the call it made stands on.            *)
Part(f) == IF f.awaits = "right" THEN Slice(Middle(f), f.hi) ELSE Left(f)

(* A call that will not ask about its background was made on one that is   *)
(* accepted, one that went on has seen it accepted, and of what the right  *)
(* half gave nothing can be spared on top of the left half.                *)
SharpFrame(f) ==
  /\ ~ (f.used /\ f.awaits = "nothing") => Accepts(f.background)
  /\ f.awaits = "left" =>
       /\ f.first \subseteq Slice(f.lo, f.hi)
       /\ \A x \in f.first : Accepts(f.background \cup Left(f) \cup (f.first \ {x}))

(* Nothing of what a call returned can be spared on top of its background. *)
SharpAnswer(out) ==
  IF stack = <<>> THEN \A x \in out : Accepts(out \ {x})
  ELSE out \subseteq Part(Top) /\ \A x \in out : Accepts(Given(Top) \cup (out \ {x}))

Sharp ==
  /\ \A i \in 1 .. Len(stack) : SharpFrame(stack[i])
  /\ \A i \in 1 .. Len(stack) - 1 : Slice(stack[i + 1].lo, stack[i + 1].hi) = Part(stack[i])
  /\ pc = "returned" => SharpAnswer(ret)
  /\ pc = "shrink" => \A f \in current : Accepts(current \ {f})

Tame == Monotone /\ Accepts({})

(* A set of numbers that holds 0 and the successor of each member.         *)
LEMMA Induction ==
  ASSUME NEW T \in SUBSET Nat, 0 \in T, \A n \in T : n + 1 \in T
  PROVE  T = Nat
<1> SUFFICES ASSUME Nat \ T # {} PROVE FALSE
  OBVIOUS
<1> DEFINE R == OpToRel(<, Nat)
           U == Nat \ T
<1>1. \A x, y \in Nat : y < x => <<y, x>> \in R
  BY Zenon DEF OpToRel
<1>2. IsWellFoundedOn(R, Nat)
  BY NatLessThanWellFounded, Zenon
<1> HIDE DEF R
<1>3. U \subseteq Nat /\ U # {}
  OBVIOUS
<1>4. PICK x \in U : \A y \in U : ~ (<<y, x>> \in R)
  BY <1>2, <1>3, WFMin
<1>5. x \in Nat /\ x # 0 /\ x - 1 \in Nat /\ x - 1 < x
  BY <1>4
<1>6. x - 1 \notin U
  BY <1>1, <1>4, <1>5
<1> QED  BY <1>4, <1>5, <1>6

(* What is rejected stays rejected when any of the facts are added.        *)
LEMMA RejectedWithMore ==
  ASSUME facts \in Seq(Nat), Monotone, NEW K \in rejected, NEW F, F \subseteq All
  PROVE  K \cup F \in rejected
<1> DEFINE n == Len(facts)
           Upto(m) == {facts[i] : i \in {j \in 1 .. m : facts[j] \in F}}
           T == {m \in Nat : m <= n => K \cup Upto(m) \in rejected}
<1>1. n \in Nat /\ All = {facts[i] : i \in 1 .. n}
  BY DEF All, Slice
<1> HIDE DEF n
<1>2. 0 \in T
  <2>1. Upto(0) = {}
    OBVIOUS
  <2>2. K \cup Upto(0) = K
    BY <2>1
  <2> QED  BY <2>2
<1>3. ASSUME NEW m \in T PROVE m + 1 \in T
  <2> SUFFICES ASSUME m + 1 <= n PROVE K \cup Upto(m + 1) \in rejected
    OBVIOUS
  <2>1. m \in Nat /\ m <= n /\ m + 1 \in 1 .. n
    BY <1>1
  <2>2. K \cup Upto(m) \in rejected
    BY <2>1
  <2>3. \A j \in 1 .. (m + 1) : j \in 1 .. m \/ j = m + 1
    BY <2>1
  <2>4. 1 .. m \subseteq 1 .. (m + 1) /\ m + 1 \in 1 .. (m + 1)
    BY <2>1
  <2>5. CASE facts[m + 1] \in F
    <3>1. Upto(m + 1) = Upto(m) \cup {facts[m + 1]}
      BY <2>3, <2>4, <2>5
    <3>2. facts[m + 1] \in All
      BY <1>1, <2>1
    <3> HIDE DEF Upto
    <3>3. (K \cup Upto(m)) \cup {facts[m + 1]} \in rejected
      BY <2>2, <3>2 DEF Monotone
    <3>4. (K \cup Upto(m)) \cup {facts[m + 1]} = K \cup Upto(m + 1)
      BY <3>1
    <3> QED  BY <3>3, <3>4
  <2>6. CASE facts[m + 1] \notin F
    <3>1. Upto(m + 1) = Upto(m)
      BY <2>3, <2>4, <2>6
    <3> QED  BY <2>2, <3>1
  <2> QED  BY <2>5, <2>6
<1>4. Upto(n) = F
  BY <1>1
<1> HIDE DEF T, Upto
<1>5. T \in SUBSET Nat
  BY DEF T
<1>6. T = Nat
  BY <1>2, <1>3, <1>5, Induction
<1>7. n \in T /\ n <= n
  BY <1>1, <1>6
<1>8. K \cup Upto(n) \in rejected
  BY <1>7 DEF T
<1> QED  BY <1>4, <1>8

(* What is accepted stays accepted when facts are taken away.              *)
LEMMA AcceptedWithLess ==
  ASSUME facts \in Seq(Nat), Monotone, NEW K, NEW L, K \subseteq L, L \subseteq All, Accepts(L)
  PROVE  Accepts(K)
<1> SUFFICES ASSUME K \in rejected PROVE FALSE
  BY DEF Accepts
<1>1. K \cup L \in rejected
  BY RejectedWithMore
<1>2. K \cup L = L
  OBVIOUS
<1> QED  BY <1>1, <1>2 DEF Accepts

(* What frames mean does not change while the facts and the oracle do not. *)
LEMMA SharpFrameKept ==
  ASSUME facts' = facts, rejected' = rejected
  PROVE  /\ \A f : SharpFrame(f)' <=> SharpFrame(f)
         /\ \A f : Part(f)' = Part(f) /\ Given(f)' = Given(f)
         /\ \A lo, hi : Slice(lo, hi)' = Slice(lo, hi)
BY DEF SharpFrame, Part, Given, Left, Middle, Size, Slice, Accepts

LEMMA SharpReturning ==
  ASSUME Inv, Sharp, stack # <<>>, pc \in {"call", "returned"},
         NEW out, Return(out), out \subseteq Slice(Top.lo, Top.hi),
         \A x \in out : Accepts(Top.background \cup (out \ {x}))
  PROVE  Sharp'
<1>1. /\ stack' = SubSeq(stack, 1, Len(stack) - 1) /\ ret' = out /\ pc' = "returned"
      /\ facts' = facts /\ rejected' = rejected
  BY DEF Return, Below, input, shrinking
<1>2. /\ stack \in Seq(Frames) /\ Len(stack) \in Nat /\ 1 <= Len(stack)
  BY TopOK DEF Inv, StackOK
<1>3. /\ stack' \in Seq(Frames) /\ Len(stack') = Len(stack) - 1
      /\ \A i \in 1 .. Len(stack) - 1 : stack'[i] = stack[i]
  BY <1>1, <1>2, Popped
<1>4. ASSUME NEW i \in 1 .. Len(stack') PROVE SharpFrame(stack'[i])
  BY <1>2, <1>3 DEF Sharp
<1>5. ASSUME NEW i \in 1 .. Len(stack') - 1
      PROVE  Slice(stack'[i + 1].lo, stack'[i + 1].hi) = Part(stack'[i])
  <2>1. i \in 1 .. Len(stack) - 1 /\ stack'[i] = stack[i] /\ stack'[i + 1] = stack[i + 1]
    BY <1>2, <1>3
  <2> QED  BY <2>1 DEF Sharp
<1>6. SharpAnswer(ret)'
  <2>1. CASE Len(stack) <= 1
    <3>1. stack' = <<>>
      BY <1>3, <1>2, <2>1, EmptySeq
    <3>2. Top.background = {}
      BY <2>1, TopOK
    <3>3. \A x \in out : Accepts(out \ {x})
      BY <3>2
    <3> QED  BY <1>1, <3>1, <3>3 DEF SharpAnswer, Accepts
  <2>2. CASE Len(stack) > 1
    <3> DEFINE f == stack[Len(stack) - 1]
    <3>1. stack' # <<>> /\ Top' = f
      BY <1>2, <1>3, <2>2 DEF Top
    <3>2. Top.background = Given(f)
      BY <2>2, TopOK
    <3>3. Slice(Top.lo, Top.hi) = Part(f)
      <4>1. Len(stack) - 1 \in 1 .. Len(stack) - 1 /\ (Len(stack) - 1) + 1 = Len(stack)
        BY <1>2, <2>2
      <4> QED  BY <4>1 DEF Sharp, Top
    <3>4. Part(Top)' = Part(f) /\ Given(Top)' = Given(f)
      BY <1>1, <3>1 DEF Part, Given, Left, Middle, Size, Slice
    <3> HIDE DEF f
    <3> QED  BY <1>1, <3>1, <3>2, <3>3, <3>4 DEF SharpAnswer, Accepts
  <2> QED  BY <1>2, <2>1, <2>2
<1> QED  BY <1>1, <1>4, <1>5, <1>6, SharpFrameKept DEF Sharp

LEMMA SharpCalling ==
  ASSUME Inv, Sharp, stack # <<>>, NEW f \in Frames, NEW g \in Frames, CallFrom(f, g),
         SharpFrame(f), SharpFrame(g), f.lo = Top.lo, f.hi = Top.hi, Slice(g.lo, g.hi) = Part(f)
  PROVE  Sharp'
<1>1. /\ stack' = Append(Append(Below, f), g) /\ pc' = "call" /\ facts' = facts /\ rejected' = rejected
  BY DEF CallFrom, input
<1>2. stack \in Seq(Frames) /\ Len(stack) \in Nat /\ 1 <= Len(stack)
  BY TopOK DEF Inv, StackOK
<1>3. /\ stack' \in Seq(Frames) /\ Len(stack') = Len(stack) + 1
      /\ \A i \in 1 .. Len(stack) - 1 : stack'[i] = stack[i]
      /\ stack'[Len(stack)] = f /\ stack'[Len(stack) + 1] = g
  <2>1. /\ Below \in Seq(Frames) /\ Len(Below) = Len(stack) - 1
        /\ \A i \in 1 .. Len(stack) - 1 : Below[i] = stack[i]
    BY <1>2, Popped DEF Below
  <2>2. /\ stack' \in Seq(Frames) /\ Len(stack') = Len(Below) + 2
        /\ \A i \in 1 .. Len(Below) : stack'[i] = Below[i]
        /\ stack'[Len(Below) + 1] = f /\ stack'[Len(Below) + 2] = g
    BY <1>1, <2>1, Pushed
  <2> QED  BY <1>2, <2>1, <2>2
<1>4. ASSUME NEW i \in 1 .. Len(stack') PROVE SharpFrame(stack'[i])
  <2>1. i \in 1 .. Len(stack) - 1 \/ i = Len(stack) \/ i = Len(stack) + 1
    BY <1>2, <1>3
  <2>2. i \in 1 .. Len(stack) - 1 => i \in 1 .. Len(stack)
    BY <1>2
  <2> QED  BY <1>3, <2>1, <2>2 DEF Sharp
<1>5. ASSUME NEW i \in 1 .. Len(stack') - 1
      PROVE  Slice(stack'[i + 1].lo, stack'[i + 1].hi) = Part(stack'[i])
  <2>1. CASE i = Len(stack)
    BY <1>3, <2>1
  <2>2. CASE i = Len(stack) - 1
    <3>1. i \in 1 .. Len(stack) - 1 /\ stack'[i] = stack[i] /\ i + 1 = Len(stack) /\ stack'[i + 1] = f
      BY <1>2, <1>3, <2>2
    <3>2. Slice(Top.lo, Top.hi) = Part(stack[i])
      BY <3>1 DEF Sharp, Top
    <3> QED  BY <3>1, <3>2
  <2>3. CASE i < Len(stack) - 1
    <3>1. i \in 1 .. Len(stack) - 1 /\ stack'[i] = stack[i] /\ stack'[i + 1] = stack[i + 1]
      BY <1>2, <1>3, <2>3
    <3> QED  BY <3>1 DEF Sharp
  <2> QED  BY <1>2, <1>3, <2>1, <2>2, <2>3
<1> QED  BY <1>1, <1>4, <1>5, SharpFrameKept DEF Sharp

(* What the top frame holds to.                                            *)
LEMMA SharpTop ==
  ASSUME Inv, Sharp, stack # <<>>
  PROVE  /\ SharpFrame(Top) /\ Top \in Frames
         /\ Top.lo \in Nat /\ Top.hi \in Nat /\ 1 <= Top.lo /\ Top.lo <= Top.hi /\ Top.hi <= Len(facts)
         /\ Slice(Top.lo, Top.hi) \subseteq All
<1>1. Len(stack) \in 1 .. Len(stack) /\ Top \in Frames /\ FrameOK(Top, Len(stack))
  BY TopOK
<1>2. /\ Top.lo \in Nat /\ Top.hi \in Nat /\ 1 <= Top.lo /\ Top.lo <= Top.hi /\ Top.hi <= Len(facts)
  BY <1>1 DEF FrameOK, Frames
<1> QED  BY <1>1, <1>2, Slices DEF Sharp, Top, Inv

LEMMA SharpAnswering ==
  ASSUME Inv, Tame, Sharp, Prune \/ Single \/ Join
  PROVE  Sharp'
<1>1. stack # <<>> /\ pc \in {"call", "returned"}
  BY DEF Prune, Single, Join, Inv, Stages
<1>2. SharpFrame(Top) /\ Slice(Top.lo, Top.hi) \subseteq All /\ Top.background \subseteq All
  BY <1>1, SharpTop DEF Frames
<1>3. CASE Prune
  BY <1>1, <1>3, SharpReturning DEF Prune
<1>4. CASE Single
  <2>1. Accepts(Top.background)
    BY <1>2, <1>4 DEF Single, BackgroundSuffices, SharpFrame
  <2>2. Top.lo = Top.hi
    BY <1>1, <1>4, SharpTop DEF Single, OneLeft, Size
  <2>3. Slice(Top.lo, Top.hi) = {facts[Top.lo]}
    BY <1>1, <2>2, SharpTop DEF Slice
  <2>4. \A x \in Slice(Top.lo, Top.hi) : Top.background \cup (Slice(Top.lo, Top.hi) \ {x}) = Top.background
    BY <2>3
  <2> QED  BY <1>1, <1>4, <2>1, <2>4, SharpReturning DEF Single
<1>5. CASE Join
  <2> DEFINE B == Top.background
             L == Left(Top)
             X == Top.first
             Y == ret
  <2>1. /\ pc = "returned" /\ Top.awaits = "left" /\ Return(X \cup Y) /\ X \subseteq All /\ Y \subseteq All
    BY <1>1, <1>5, SharpTop DEF Join, Frames, Inv
  <2>2. /\ X \subseteq Slice(Top.lo, Top.hi) /\ \A x \in X : Accepts(B \cup L \cup (X \ {x}))
    BY <1>2, <2>1 DEF SharpFrame
  <2>3. /\ Y \subseteq L /\ \A y \in Y : Accepts((B \cup X) \cup (Y \ {y}))
    BY <1>1, <2>1 DEF Sharp, SharpAnswer, Part, Given
  <2>4. L \subseteq Slice(Top.lo, Top.hi)
    <3>1. Top.lo < Top.hi
      BY <1>1, <2>1, TopOK DEF FrameOK
    <3> QED  BY <1>1, <3>1, SharpTop, Halves
  <2>5. facts \in Seq(Nat) /\ Monotone
    BY DEF Inv, Tame
  <2> HIDE DEF B, L, X, Y
  <2>6. ASSUME NEW x \in X \cup Y PROVE Accepts(B \cup ((X \cup Y) \ {x}))
    <3> DEFINE K == B \cup ((X \cup Y) \ {x})
    <3>1. CASE x \in X
      <4> DEFINE M == B \cup L \cup (X \ {x})
      <4>1. K \subseteq M /\ M \subseteq All /\ Accepts(M)
        BY <1>2, <2>1, <2>2, <2>3, <2>4, <3>1 DEF B
      <4> HIDE DEF K, M
      <4>2. Accepts(K)
        BY <2>5, <4>1, AcceptedWithLess
      <4> QED  BY <4>2 DEF K
    <3>2. CASE x \in Y
      <4> DEFINE M == (B \cup X) \cup (Y \ {x})
      <4>1. K \subseteq M /\ M \subseteq All /\ Accepts(M)
        BY <1>2, <2>1, <2>3, <3>2 DEF B
      <4> HIDE DEF K, M
      <4>2. Accepts(K)
        BY <2>5, <4>1, AcceptedWithLess
      <4> QED  BY <4>2 DEF K
    <3> QED  BY <3>1, <3>2
  <2>7. X \cup Y \subseteq Slice(Top.lo, Top.hi)
    BY <2>2, <2>3, <2>4
  <2> QED  BY <1>1, <2>1, <2>6, <2>7, SharpReturning DEF B, X, Y
<1> QED  BY <1>3, <1>4, <1>5

LEMMA SharpHalving ==
  ASSUME Inv, Tame, Sharp, Split \/ LeftHalf
  PROVE  Sharp'
<1>1. stack # <<>> /\ pc \in {"call", "returned"}
  BY DEF Split, Divides, LeftHalf, Inv, Stages
<1>2. /\ SharpFrame(Top) /\ Top \in Frames /\ Slice(Top.lo, Top.hi) \subseteq All
      /\ Top.lo \in Nat /\ Top.hi \in Nat /\ 1 <= Top.lo /\ Top.lo <= Top.hi /\ Top.hi <= Len(facts)
  BY <1>1, SharpTop
<1>3. Top.lo < Top.hi
  <2>1. CASE Split
    BY <1>2, <2>1 DEF Split, Divides, OneLeft, Size
  <2>2. CASE LeftHalf
    BY <1>1, <2>2, TopOK DEF LeftHalf, FrameOK
  <2> QED  BY <2>1, <2>2
<1>4. /\ Middle(Top) \in Nat /\ Top.lo < Middle(Top) /\ Middle(Top) <= Top.hi
      /\ Left(Top) \cup Slice(Middle(Top), Top.hi) = Slice(Top.lo, Top.hi)
  BY <1>2, <1>3, Halves
<1>5. Left(Top) \subseteq All /\ Top.background \subseteq All /\ ret \subseteq All
  BY <1>2, <1>4 DEF Frames, Inv
<1>6. CASE Split
  <2> DEFINE f == [Top EXCEPT !.awaits = "right"]
             g == Call(Top.background \cup Left(Top), Left(Top) # {}, Middle(Top), Top.hi)
  <2>1. CallFrom(f, g)
    BY <1>6 DEF Split, Divides
  <2>2. /\ f \in Frames /\ f.background = Top.background /\ f.lo = Top.lo /\ f.hi = Top.hi
        /\ f.awaits = "right" /\ f.first = Top.first
    BY <1>2 DEF Frames
  <2>3. facts[Top.lo] \in Left(Top)
    BY <1>2, <1>4 DEF Left, Slice
  <2>4. /\ g \in Frames /\ g.lo = Middle(Top) /\ g.hi = Top.hi /\ g.awaits = "nothing" /\ g.used
    BY <1>2, <1>4, <1>5, <2>3 DEF Call, Frames
  <2>5. Accepts(Top.background)
    BY <1>2, <1>6 DEF Split, Divides, BackgroundSuffices, SharpFrame
  <2> HIDE DEF f, g
  <2>6. SharpFrame(f) /\ SharpFrame(g)
    BY <2>2, <2>4, <2>5 DEF SharpFrame
  <2>7. Middle(f) = Middle(Top)
    BY <2>2 DEF Middle, Size
  <2>8. Slice(g.lo, g.hi) = Part(f)
    BY <2>2, <2>4, <2>7 DEF Part
  <2> QED  BY <1>1, <2>1, <2>2, <2>4, <2>6, <2>8, SharpCalling
<1>7. CASE LeftHalf
  <2> DEFINE f == [Top EXCEPT !.awaits = "left", !.first = ret]
             g == Call(Top.background \cup ret, ret # {}, Top.lo, Middle(Top) - 1)
  <2>1. CallFrom(f, g) /\ Top.awaits = "right" /\ pc = "returned"
    BY <1>7 DEF LeftHalf
  <2>2. /\ f \in Frames /\ f.background = Top.background /\ f.lo = Top.lo /\ f.hi = Top.hi
        /\ f.awaits = "left" /\ f.first = ret
    BY <1>2, <1>5 DEF Frames
  <2>3. /\ g \in Frames /\ g.lo = Top.lo /\ g.hi = Middle(Top) - 1 /\ g.awaits = "nothing"
        /\ g.background = Top.background \cup ret /\ g.used = (ret # {})
    BY <1>2, <1>4, <1>5 DEF Call, Frames
  <2>4. Accepts(Top.background)
    BY <1>2, <2>1 DEF SharpFrame
  <2>5. /\ ret \subseteq Slice(Middle(Top), Top.hi)
        /\ \A x \in ret : Accepts((Top.background \cup Left(Top)) \cup (ret \ {x}))
    BY <1>1, <2>1 DEF Sharp, SharpAnswer, Part, Given
  <2> HIDE DEF f, g
  <2>6. Left(f) = Left(Top)
    BY <2>2 DEF Left, Middle, Size
  <2>7. SharpFrame(f)
    BY <1>4, <2>2, <2>4, <2>5, <2>6 DEF SharpFrame
  <2>8. SharpFrame(g)
    <3>1. CASE ret = {}
      <4>1. g.background = Top.background
        BY <2>3, <3>1
      <4> QED  BY <2>3, <2>4, <4>1 DEF SharpFrame
    <3>2. CASE ret # {}
      BY <2>3, <3>2 DEF SharpFrame
    <3> QED  BY <3>1, <3>2
  <2>9. Slice(g.lo, g.hi) = Part(f)
    <3>1. Part(f) = Left(f)
      BY <2>2 DEF Part
    <3> QED  BY <2>3, <2>6, <3>1 DEF Left
  <2> QED  BY <1>1, <2>1, <2>2, <2>3, <2>7, <2>8, <2>9, SharpCalling
<1> QED  BY <1>6, <1>7

LEMMA SharpOtherwise ==
  ASSUME Inv, Tame, Sharp,
         RelaxationAccepts \/ Begin \/ CoreFound \/ Remove \/ Keep \/ NextPass \/ Conclude \/ UNCHANGED vars
  PROVE  Sharp'
<1>1. facts' = facts /\ rejected' = rejected
  BY DEF RelaxationAccepts, Begin, CoreFound, Remove, Keep, NextPass, Conclude, vars, input
<1>2. CASE Begin
  <2> DEFINE c == Call({}, FALSE, 1, Len(facts))
  <2>1. stack' = <<c>> /\ pc' = "call" /\ c.background = {} /\ c.awaits = "nothing"
    BY <1>2 DEF Begin, Call
  <2> HIDE DEF c
  <2>2. Len(stack') = 1 /\ stack'[1] = c
    BY <2>1
  <2>3. SharpFrame(c)
    BY <2>1 DEF SharpFrame, Tame
  <2>4. \A i \in 1 .. Len(stack') : i = 1
    BY <2>2
  <2>5. 1 .. Len(stack') - 1 = {}
    BY <2>2
  <2> QED  BY <1>1, <2>1, <2>2, <2>3, <2>4, <2>5, SharpFrameKept DEF Sharp
<1>3. CASE CoreFound
  <2>1. stack = <<>> /\ stack' = stack /\ pc = "returned" /\ pc' = "shrink"
    BY <1>3 DEF CoreFound, search
  <2>2. ret \in rejected /\ \A f \in ret : Accepts(ret \ {f})
    BY <2>1 DEF Inv, Stages, Answers, Sharp, SharpAnswer
  <2>3. current' = ret
    BY <1>3, <2>2 DEF CoreFound, Tame, Accepts
  <2>4. Len(stack') = 0
    BY <2>1
  <2> QED  BY <1>1, <2>1, <2>2, <2>3, <2>4 DEF Sharp, Accepts
<1>4. CASE Remove
  BY <1>4 DEF Remove, Sharp, Inv, Loop
<1>5. CASE Keep \/ NextPass
  <2>1. stack' = stack /\ pc' = pc /\ current' = current /\ pc = "shrink" /\ stack = <<>> /\ Len(stack) = 0
    BY <1>5 DEF Keep, NextPass, search, Inv, Stages
  <2> QED  BY <1>1, <2>1 DEF Sharp, Accepts
<1>6. CASE RelaxationAccepts \/ Conclude
  <2>1. stack' = stack /\ pc' = "done" /\ stack = <<>> /\ Len(stack) = 0
    BY <1>6 DEF RelaxationAccepts, Conclude, search, Inv, Stages
  <2> QED  BY <1>1, <2>1 DEF Sharp
<1>7. CASE UNCHANGED vars
  <2>1. stack' = stack /\ pc' = pc /\ current' = current /\ ret' = ret
    BY <1>7 DEF vars
  <2>2. SharpAnswer(ret)' <=> SharpAnswer(ret)
    BY <1>1, <2>1 DEF SharpAnswer, Top, Part, Given, Left, Middle, Size, Slice, Accepts
  <2> QED  BY <1>1, <2>1, <2>2, SharpFrameKept DEF Sharp, Accepts
<1> QED  BY <1>2, <1>3, <1>4, <1>5, <1>6, <1>7

-----------------------------------------------------------------------------
(* The list is empty: nothing is left out, and nothing reported.           *)
LEMMA HopelessTypes ==
  ASSUME Hopeless
  PROVE  TypeOK /\ CallsRejected /\ CoreRejected /\ LocallyMinimal
<1>1. /\ facts = <<>> /\ Len(stack) \in Nat /\ DOMAIN stack = 1 .. Len(stack)
      /\ Len(facts) = 0 /\ Len(stack) <= StackLimit
  BY DEF Hopeless
<1>2. ASSUME NEW i \in 1 .. Len(stack)
      PROVE  /\ stack[i].background = {} /\ stack[i].first = {}
             /\ stack[i].lo = 1 /\ stack[i].hi = 0
             /\ stack[i].awaits = "nothing" <=> pc \in {"call", "aborted"} /\ i = Len(stack)
             /\ {} \in rejected
  <2>1. stack # <<>>
    BY <1>1
  <2>2. pc \in {"call", "aborted"}
    BY <2>1 DEF Hopeless
  <2>3. stack[i].awaits = IF i = Len(stack) THEN "nothing" ELSE "right"
    BY DEF Hopeless
  <2> QED  BY <2>2, <2>3 DEF Hopeless
<1>3. TypeOK
  <2>1. Len(stack) <= IF facts = <<>> THEN StackLimit ELSE Len(facts)
    BY <1>1
  <2>2. /\ pc \in {"start", "call", "returned", "shrink", "done", "aborted"}
        /\ ret \subseteq All /\ current \subseteq All /\ todo \subseteq current
        /\ removed \in BOOLEAN /\ minimal \in BOOLEAN /\ relaxed \in BOOLEAN
    BY DEF Hopeless
  <2>3. \A i \in 1 .. Len(stack) :
          /\ stack[i].background \subseteq All /\ stack[i].first \subseteq All
          /\ 1 <= stack[i].lo /\ stack[i].hi <= Len(facts)
          /\ stack[i].awaits = "nothing" <=> pc \in {"call", "aborted"} /\ i = Len(stack)
    <3> SUFFICES ASSUME NEW i \in 1 .. Len(stack)
                 PROVE  /\ stack[i].background \subseteq All /\ stack[i].first \subseteq All
                        /\ 1 <= stack[i].lo /\ stack[i].hi <= Len(facts)
                        /\ stack[i].awaits = "nothing" <=> pc \in {"call", "aborted"} /\ i = Len(stack)
      OBVIOUS
    <3>1. /\ stack[i].background = {} /\ stack[i].first = {}
          /\ stack[i].lo = 1 /\ stack[i].hi = 0
      BY <1>2
    <3>2. stack[i].awaits = "nothing" <=> pc \in {"call", "aborted"} /\ i = Len(stack)
      BY <1>2
    <3>3. stack[i].background \subseteq All /\ stack[i].first \subseteq All
      BY <3>1
    <3>4. 1 <= stack[i].lo /\ stack[i].hi <= Len(facts)
      BY <1>1, <3>1
    <3> QED  BY <3>2, <3>3, <3>4
  <2> QED  BY <1>1, <2>1, <2>2, <2>3 DEF TypeOK
<1>4. CallsRejected
  <2> SUFFICES ASSUME NEW i \in 1 .. Len(stack)
               PROVE  stack[i].background \cup Slice(stack[i].lo, stack[i].hi) \in rejected
    BY <1>1 DEF CallsRejected
  <2>1. stack[i].background = {} /\ stack[i].lo = 1 /\ stack[i].hi = 0 /\ {} \in rejected
    BY <1>2
  <2>2. Slice(1, 0) = {}
    BY DEF Slice
  <2> QED  BY <2>1, <2>2
<1>5. CoreRejected /\ LocallyMinimal
  BY DEF CoreRejected, LocallyMinimal, Hopeless
<1> QED  BY <1>3, <1>4, <1>5

(* For every list of facts, the empty one included, the calls of           *)
(* quickxplain() stand on slices of the list and nest no deeper than the   *)
(* list is long; the stack is used up only when there is no fact at all.   *)
THEOREM TypeCorrect == Spec => []TypeOK
<1>1. Inv => TypeOK
  <2> SUFFICES ASSUME Inv PROVE TypeOK
    OBVIOUS
  <2>1. Len(stack) \in Nat /\ DOMAIN stack = 1 .. Len(stack) /\ Len(facts) \in Nat
    BY DEF Inv, StackOK
  <2>2. ASSUME NEW i \in 1 .. Len(stack)
        PROVE  /\ stack[i].background \subseteq All /\ stack[i].first \subseteq All
               /\ 1 <= stack[i].lo /\ stack[i].lo <= stack[i].hi /\ stack[i].hi <= Len(facts)
               /\ i <= Len(facts)
    <3>1. FrameOK(stack[i], i)
      BY DEF Inv, StackOK
    <3> QED  BY <2>1, <3>1 DEF FrameOK, Frames, Size
  <2>3. Len(stack) <= Len(facts)
    BY <2>1, <2>2
  <2> QED  BY <2>1, <2>2, <2>3 DEF TypeOK, Inv, StackOK, Stages, Loop
<1>2. IInv => TypeOK
  BY <1>1, HopelessTypes DEF IInv
<1> QED  BY <1>2, Invariance, PTL

(* At every call the background with the candidates is rejected, whatever  *)
(* the oracle.                                                             *)
THEOREM DivisionSound == Spec => []CallsRejected
<1>1. Inv => CallsRejected
  BY DEF Inv, StackOK, FrameOK, CallsRejected
<1>2. IInv => CallsRejected
  BY <1>1, HopelessTypes DEF IInv
<1> QED  BY <1>2, Invariance, PTL

(* The reported set is rejected by the oracle, whatever the oracle.        *)
THEOREM CoreExplains == Spec => []CoreRejected
<1>1. IInv => CoreRejected
  BY HopelessTypes DEF IInv, Inv
<1> QED  BY <1>1, Invariance, PTL

(* The deletion pass makes the reported set locally minimal, whatever the  *)
(* oracle.                                                                 *)
THEOREM PassMinimal == Spec => []LocallyMinimal
<1>1. IInv => LocallyMinimal
  BY HopelessTypes DEF IInv, Inv
<1> QED  BY <1>1, Invariance, PTL

(* With an oracle that stays unsatisfiable when facts are added and that   *)
(* accepts when there are none, divide and conquer alone finds a set from  *)
(* which nothing can be spared, for every list of facts, repeated ones     *)
(* included: the pass of shrink() then removes nothing.                    *)
THEOREM DivisionMinimal == Spec => []DivideSuffices
<1> DEFINE Divided == Hopeless \/ (Inv /\ (Tame => Sharp))
<1>1. Init => Divided
  <2>1. Init /\ Tame => Sharp
    <3> SUFFICES ASSUME Init, Tame PROVE Sharp
      OBVIOUS
    <3>1. stack = <<>> /\ Len(stack) = 0 /\ pc = "start"
      BY DEF Init
    <3> QED  BY <3>1 DEF Sharp
  <2>2. Init => IInv
    BY Starts
  <2> QED  BY <2>1, <2>2 DEF IInv
<1>2. Divided /\ [Next]_vars => Divided'
  <2>1. ASSUME Inv, Tame => Sharp, [Next]_vars, Tame' PROVE Sharp'
    <3>1. ~ Overflow
      BY <2>1, NeverOverflows
    <3>2. facts' = facts /\ rejected' = rejected
      BY <2>1, <3>1 DEF Next, vars, RelaxationAccepts, Begin, Prune, Single, Split, LeftHalf, Join,
             CoreFound, Remove, Keep, NextPass, Conclude, Return, CallFrom, input
    <3>3. Tame
      BY <2>1, <3>2 DEF Tame, Monotone, Accepts, All, Slice
    <3> QED  BY <2>1, <3>1, <3>3, SharpAnswering, SharpHalving, SharpOtherwise DEF Next
  <2>2. ASSUME Inv, [Next]_vars PROVE Inv'
    BY <2>2, InvStep
  <2> QED  BY <2>1, <2>2, HopelessStep
<1>3. Divided => DivideSuffices
  BY DEF Sharp, DivideSuffices, Tame, Hopeless
<1> QED  BY <1>1, <1>2, <1>3, PTL DEF Spec
=============================================================================
