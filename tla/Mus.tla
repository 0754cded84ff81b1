-------------------------------- MODULE Mus ---------------------------------
(***************************************************************************)
(* The facts that explain a rejection: extract() of                        *)
(* crates/explain/src/mus.rs, over an oracle that may answer anything.     *)
(*                                                                         *)
(* quickxplain() calls itself: the frames of its calls are the sequence    *)
(* `stack', and a slice of the list of facts is a pair of indices.  A fact *)
(* is a number, its place in the order of the BTreeSet; the list facts()   *)
(* returns is in another order, and holds an edge twice when it was        *)
(* observed twice.                                                         *)
(***************************************************************************)
EXTENDS Integers, Sequences, FiniteSets

CONSTANTS
  Instances,         \* [facts, rejected]: the list of facts of an observation
                     \* and the sets of facts the oracle rejects
  StackLimit         \* bound: the calls the stack of a thread has room for

(* The stack has room for a call per fact, which is more than halving asks  *)
(* for.  The list may be empty.                                            *)
ASSUME InstancesAssumption ==
  /\ StackLimit \in Nat \ {0}
  /\ \A x \in Instances : x.facts \in Seq(Nat) /\ Len(x.facts) <= StackLimit

VARIABLES
  facts, rejected,   \* the observation and the oracle, which never change
  stack,             \* the open calls of quickxplain()
  ret,               \* what the last call returned
  current,           \* the set shrink() works on
  todo,              \* the facts its pass has still to try
  removed,           \* whether its pass removed one
  minimal, relaxed,  \* MusResult::minimal, relaxation_accepts
  pc

input == <<facts, rejected>>
search == <<stack, ret>>
shrinking == <<current, todo, removed>>
vars == <<facts, rejected, stack, ret, current, todo, removed, minimal, relaxed, pc>>

(* Oracle::accepts(): every plane incomplete, the slack wide, the search   *)
(* capped; each set of facts has one answer.                               *)
Accepts(keep) == keep \notin rejected

Slice(lo, hi) == {facts[i] : i \in lo .. hi}
All == Slice(1, Len(facts))

Call(background, used, lo, hi) ==
  [background |-> background, used |-> used, lo |-> lo, hi |-> hi,
   awaits |-> "nothing", first |-> {}]

Size(f) == f.hi - f.lo + 1
Middle(f) == f.lo + Size(f) \div 2
Left(f) == Slice(f.lo, Middle(f) - 1)

Top == stack[Len(stack)]
Below == SubSeq(stack, 1, Len(stack) - 1)

Init ==
  /\ \E x \in Instances : facts = x.facts /\ rejected = x.rejected
  /\ stack = <<>> /\ ret = {}
  /\ current = {} /\ todo = {} /\ removed = FALSE
  /\ minimal = FALSE /\ relaxed = FALSE
  /\ pc = "start"

-----------------------------------------------------------------------------
(* extract(), up to the first call                                         *)

RelaxationAccepts ==
  /\ pc = "start" /\ Accepts(All)
  /\ minimal' = TRUE /\ relaxed' = TRUE
  /\ pc' = "done"
  /\ UNCHANGED <<input, search, shrinking>>

Begin ==
  /\ pc = "start" /\ ~ Accepts(All)
  /\ stack' = <<Call({}, FALSE, 1, Len(facts))>>
  /\ pc' = "call"
  /\ UNCHANGED <<input, ret, shrinking, minimal, relaxed>>

-----------------------------------------------------------------------------
(* quickxplain()                                                           *)

Return(out) ==
  /\ ret' = out
  /\ stack' = Below
  /\ pc' = "returned"
  /\ UNCHANGED <<input, shrinking, minimal, relaxed>>

CallFrom(frame, callee) ==
  /\ stack' = Append(Append(Below, frame), callee)
  /\ pc' = "call"
  /\ UNCHANGED <<input, ret, shrinking, minimal, relaxed>>

(* Mistake the runs must notice: the background is never asked about. *)
NeverSuffices(f) == FALSE

BackgroundSuffices(f) == f.used /\ ~ Accepts(f.background)

Prune ==
  /\ pc = "call" /\ BackgroundSuffices(Top)
  /\ Return({})

(* Mistake the runs must notice: the recursion ends one fact too late. *)
NothingLeft(f) == Size(f) = 0

OneLeft(f) == Size(f) = 1

Single ==
  /\ pc = "call" /\ ~ BackgroundSuffices(Top) /\ OneLeft(Top)
  /\ Return(Slice(Top.lo, Top.hi))

Divides == pc = "call" /\ ~ BackgroundSuffices(Top) /\ ~ OneLeft(Top)

(* The right half, on top of the whole left half.  With no fact at all both *)
(* halves are empty, and the call is made again.                           *)
Split ==
  /\ Divides /\ Len(stack) < StackLimit
  /\ CallFrom([Top EXCEPT !.awaits = "right"],
              Call(Top.background \cup Left(Top), Left(Top) # {}, Middle(Top), Top.hi))

(* The stack is used up, and the process with it.                          *)
Overflow ==
  /\ Divides /\ Len(stack) = StackLimit
  /\ pc' = "aborted"
  /\ UNCHANGED <<input, search, shrinking, minimal, relaxed>>

(* Mistake the runs must notice: what the right half gave is forgotten. *)
LeftHalfAlone ==
  /\ pc = "returned" /\ stack # <<>> /\ Top.awaits = "right"
  /\ CallFrom([Top EXCEPT !.awaits = "left", !.first = ret],
              Call(Top.background, ret # {}, Top.lo, Middle(Top) - 1))

(* The left half, on top of what the right half gave, in the room the call  *)
(* for the right half has left.                                            *)
LeftHalf ==
  /\ pc = "returned" /\ stack # <<>> /\ Top.awaits = "right"
  /\ CallFrom([Top EXCEPT !.awaits = "left", !.first = ret],
              Call(Top.background \cup ret, ret # {}, Top.lo, Middle(Top) - 1))

(* Mistake the runs must notice: only the second half is returned. *)
JoinSecond ==
  /\ pc = "returned" /\ stack # <<>> /\ Top.awaits = "left"
  /\ Return(ret)

Join ==
  /\ pc = "returned" /\ stack # <<>> /\ Top.awaits = "left"
  /\ Return(Top.first \cup ret)

-----------------------------------------------------------------------------
(* shrink()                                                                *)

CoreFound ==
  /\ pc = "returned" /\ stack = <<>>
  /\ current' = IF ret = {} THEN All ELSE ret
  /\ todo' = current'
  /\ removed' = FALSE
  /\ pc' = "shrink"
  /\ UNCHANGED <<input, search, minimal, relaxed>>

IsNext(f) == f \in todo /\ \A g \in todo : f <= g

Remove ==
  /\ pc = "shrink"
  /\ \E f \in todo : /\ IsNext(f) /\ ~ Accepts(current \ {f})
                     /\ current' = current \ {f} /\ todo' = todo \ {f}
  /\ removed' = TRUE
  /\ UNCHANGED <<input, search, minimal, relaxed, pc>>

(* Mistake the runs must notice: the loop does not go on to the next fact. *)
KeepTrying ==
  /\ pc = "shrink"
  /\ \E f \in todo : IsNext(f) /\ Accepts(current \ {f})
  /\ UNCHANGED <<input, search, shrinking, minimal, relaxed, pc>>

Keep ==
  /\ pc = "shrink"
  /\ \E f \in todo : /\ IsNext(f) /\ Accepts(current \ {f})
                     /\ todo' = todo \ {f}
  /\ UNCHANGED <<input, search, current, removed, minimal, relaxed, pc>>

(* Mistake the runs must notice: one pass and no second one. *)
NeverAgain == FALSE

PassAgain == removed

NextPass ==
  /\ pc = "shrink" /\ todo = {} /\ PassAgain
  /\ todo' = current /\ removed' = FALSE
  /\ UNCHANGED <<input, search, current, minimal, relaxed, pc>>

Conclude ==
  /\ pc = "shrink" /\ todo = {} /\ ~ PassAgain
  /\ minimal' = (\A f \in current : Accepts(current \ {f}))
  /\ pc' = "done"
  /\ UNCHANGED <<input, search, shrinking, relaxed>>

Next ==
  \/ RelaxationAccepts \/ Begin
  \/ Prune \/ Single \/ Split \/ Overflow \/ LeftHalf \/ Join
  \/ CoreFound \/ Remove \/ Keep \/ NextPass \/ Conclude

Spec == Init /\ [][Next]_vars

(* extract() is a sequential function: its thread runs it.                 *)
FairSpec == Spec /\ WF_vars(Next)

-----------------------------------------------------------------------------
(* Every open call stands on a slice of the list that is not empty, and     *)
(* calls nest no deeper than the list is long, unless the list itself is    *)
(* empty: only then is the stack used up.                                  *)
TypeOK ==
  /\ pc \in {"start", "call", "returned", "shrink", "done", "aborted"}
  /\ Len(stack) <= IF facts = <<>> THEN StackLimit ELSE Len(facts)
  /\ pc = "aborted" => facts = <<>>
  /\ \A i \in DOMAIN stack :
       /\ stack[i].background \subseteq All /\ stack[i].first \subseteq All
       /\ 1 <= stack[i].lo /\ stack[i].hi <= Len(facts)
       /\ facts # <<>> => stack[i].lo <= stack[i].hi
       /\ stack[i].awaits = "nothing" <=> pc \in {"call", "aborted"} /\ i = Len(stack)
  /\ ret \subseteq All /\ current \subseteq All /\ todo \subseteq current
  /\ {removed, minimal, relaxed} \subseteq BOOLEAN

(* Divide and conquer rests on no property of the oracle: at every call,   *)
(* the background with the candidates is a set the oracle rejects.         *)
CallsRejected ==
  \A i \in DOMAIN stack :
    stack[i].background \cup Slice(stack[i].lo, stack[i].hi) \in rejected

(* What shrink() is given, and whatever it makes of it, is rejected by the *)
(* oracle: a reported set explains the rejection also when the oracle is   *)
(* not monotone.                                                           *)
CoreRejected ==
  pc \in {"shrink", "done"} /\ ~ relaxed => current \in rejected

(* "a fixpoint deletion pass after QuickXplain to guarantee local          *)
(* minimality": without any one of its facts the reported set is accepted, *)
(* and the result says so.                                                 *)
LocallyMinimal ==
  pc = "done" /\ ~ relaxed =>
    /\ minimal
    /\ \A f \in current : Accepts(current \ {f})

Monotone ==
  \A K \in rejected : \A f \in All : K \cup {f} \in rejected

(* With an oracle that stays unsatisfiable when facts are added, and that  *)
(* accepts when there are none, divide and conquer alone finds a minimal   *)
(* set and the deletion pass removes nothing.                              *)
DivideSuffices ==
  pc = "shrink" /\ Monotone /\ Accepts({}) =>
    \A f \in current : Accepts(current \ {f})

(* extract() returns, unless there is no fact to leave out and the oracle   *)
(* rejects all the same: quickxplain() then calls itself until the stack    *)
(* is used up.                                                             *)
Returns ==
  IF facts = <<>> /\ ~ Accepts({}) THEN <>(pc = "aborted") ELSE <>(pc = "done")
=============================================================================
