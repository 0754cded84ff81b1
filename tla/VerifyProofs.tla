---------------------------- MODULE VerifyProofs ----------------------------
(***************************************************************************)
(* What each state of the search owes to the checks that let it in, for    *)
(* every net, every observation and every option: what it claims to have   *)
(* explained is what its path explains, in an order the log allows, within *)
(* the slack; each step of the path is authorized, its effects are those   *)
(* of the log, and the tokens are where the path put them.                 *)
(***************************************************************************)
EXTENDS VerifyProperties, FiniteSetTheorems, SequenceTheorems, TLAPS

Good(s) == StateOK(s) /\ PathAccounts(s) /\ PathOrdered(s)

(* What the loops rely on besides the states themselves.                   *)
Control ==
  /\ pc \in {"start", "pop", "observed", "fire", "slack", "invent", "conclude", "done"}
  /\ preds \in [Records(obs) -> SUBSET Records(obs)]
  /\ states \in Nat /\ cursor \in Nat /\ exhausted \in BOOLEAN
  /\ pc = "start" => stack = <<>> /\ best = Root /\ cur = Root
  /\ pc = "fire" => /\ cursor \in StepRecords(obs) \ cur.consumed
                    /\ preds[cursor] \subseteq cur.consumed
                    /\ Known
  /\ pc \in {"slack", "invent"} => cur.used < options.slack
  /\ pc = "invent" => cursor \in DOMAIN Transitions
  /\ \A a \in alts : a.target \in DanglingEffects \cup {Untargeted}

Inputs == obs \in Observations /\ options \in OptionsFor(obs)

Inv ==
  /\ Inputs
  /\ Control
  /\ IsSeq(stack)
  /\ \A s \in Live : Good(s)

-----------------------------------------------------------------------------
(* Sequences of anything                                                   *)

LEMMA SeqTight ==
  ASSUME NEW S, NEW q \in Seq(S)
  PROVE  IsSeq(q) /\ DOMAIN q = 1 .. Len(q) /\ Len(q) \in Nat
<1>1. DOMAIN q = 1 .. Len(q) /\ Len(q) \in Nat
  OBVIOUS
<1>2. q \in [1 .. Len(q) -> {q[k] : k \in DOMAIN q}]
  BY <1>1
<1> QED  BY <1>1, <1>2, SeqDef DEF IsSeq

LEMMA SeqAppend ==
  ASSUME NEW q, IsSeq(q), NEW x
  PROVE  /\ IsSeq(Append(q, x))
         /\ Len(q) \in Nat /\ Len(Append(q, x)) = Len(q) + 1
         /\ DOMAIN q = 1 .. Len(q) /\ DOMAIN Append(q, x) = 1 .. (Len(q) + 1)
         /\ Append(q, x)[Len(q) + 1] = x
         /\ \A k \in 1 .. Len(q) : Append(q, x)[k] = q[k]
<1> DEFINE T == {q[k] : k \in DOMAIN q} \cup {x}
<1>1. q \in Seq(T)
  BY SeqMonotonic DEF IsSeq
<1>2. x \in T /\ Append(q, x) \in Seq(T)
  BY <1>1
<1> HIDE DEF T
<1>3. IsSeq(Append(q, x))
  BY <1>2, SeqTight
<1> QED  BY <1>1, <1>2, <1>3

LEMMA SeqPop ==
  ASSUME NEW q, IsSeq(q), q # <<>>
  PROVE  LET r == SubSeq(q, 1, Len(q) - 1)
         IN  /\ IsSeq(r)
             /\ Len(q) \in DOMAIN q
             /\ DOMAIN r \subseteq DOMAIN q
             /\ \A k \in DOMAIN r : r[k] = q[k]
<1> DEFINE T == {q[k] : k \in DOMAIN q}
           r == SubSeq(q, 1, Len(q) - 1)
<1>1. q \in Seq(T)
  BY DEF IsSeq
<1> HIDE DEF T
<1>2. /\ r \in Seq(T) /\ Len(q) \in DOMAIN q /\ DOMAIN r \subseteq DOMAIN q
      /\ \A k \in DOMAIN r : r[k] = q[k]
  BY <1>1
<1>3. IsSeq(r)
  BY <1>2, SeqTight
<1> QED  BY <1>2, <1>3

LEMMA SeqEmpty == IsSeq(<<>>) /\ DOMAIN <<>> = {} /\ Len(<<>>) = 0
<1>1. <<>> \in Seq({0}) /\ DOMAIN <<>> = {} /\ Len(<<>>) = 0
  OBVIOUS
<1> QED  BY <1>1, SeqTight

LEMMA SeqOne == \A x : IsSeq(<<x>>) /\ DOMAIN <<x>> = {1} /\ <<x>>[1] = x
<1> SUFFICES ASSUME NEW x PROVE IsSeq(<<x>>) /\ DOMAIN <<x>> = {1} /\ <<x>>[1] = x
  OBVIOUS
<1>1. <<x>> \in Seq({x}) /\ DOMAIN <<x>> = {1} /\ <<x>>[1] = x
  OBVIOUS
<1>2. IsSeq(<<x>>)
  BY <1>1, SeqTight
<1> QED  BY <1>1, <1>2

LEMMA ListedFinite == \A q : Listed(q) => IsFiniteSet(DOMAIN q) /\ DOMAIN q \subseteq Nat
BY FS_Interval DEF Listed

-----------------------------------------------------------------------------
(* The records of an observation                                           *)

LEMMA RecordsFinite ==
  ASSUME Inputs
  PROVE  /\ 0 \notin Records(obs)
         /\ Records(obs) \subseteq Nat
         /\ \A R \in SUBSET Records(obs) : IsFiniteSet(R) /\ Cardinality(R) \in Nat
<1>1. Len(obs.records) \in Nat /\ Records(obs) = 1 .. Len(obs.records)
  BY ObservationsAssumption DEF Inputs, Listed, Records
<1>2. IsFiniteSet(Records(obs))
  BY <1>1, FS_Interval
<1>3. \A R \in SUBSET Records(obs) : IsFiniteSet(R) /\ Cardinality(R) \in Nat
  BY <1>2, FS_Subset, FS_CardinalityType
<1> QED  BY <1>1, <1>3

LEMMA OrderType ==
  Order(obs) \in [Records(obs) -> SUBSET Records(obs)]
BY DEF Order, DirectPreds, PlanePreds, EdgePreds

LEMMA RootGood == Inputs => Good(Root)
<1> SUFFICES ASSUME Inputs PROVE Good(Root)
  OBVIOUS
<1>1. StateOK(Root)
  BY InitialAssumption, SeqEmpty DEF StateOK, Root, DanglingRecords
<1>2. Cardinality(Root.consumed \cap StepRecords(obs)) = 0
  <2>1. Root.consumed \cap StepRecords(obs) = {}
    BY DEF Root, DanglingRecords
  <2> QED  BY <2>1, FS_EmptySet
<1>3. PathAccounts(Root)
  <2>1. options.slack \in Nat
    BY OptionsAssumption DEF Inputs
  <2>2. Root.consumed \cap StepRecords(obs) = {}
    BY DEF Root, DanglingRecords
  <2>3. /\ Root.path = <<>> /\ Root.depth = 0 /\ Root.used = 0
        /\ Root.consumed = DanglingRecords(obs)
    BY DEF Root
  <2> QED  BY <1>2, <2>1, <2>2, <2>3, SeqEmpty DEF PathAccounts
<1>4. PathOrdered(Root)
  BY SeqEmpty DEF PathOrdered, Root
<1> QED  BY <1>1, <1>3, <1>4 DEF Good

LEMMA InitInv == Init => Inv
<1> SUFFICES ASSUME Init PROVE Inv
  OBVIOUS
<1>1. Inputs
  BY DEF Init, Inputs
<1>2. Control
  BY DEF Init, Control
<1>3. IsSeq(stack) /\ Live = {Root}
  BY SeqEmpty DEF Init, Live
<1> QED  BY <1>1, <1>2, <1>3, RootGood DEF Inv

-----------------------------------------------------------------------------
(* What a step does to the states held                                     *)

(* A state stays good while the arguments and the order do not change.     *)
LEMMA GoodFrame ==
  ASSUME UNCHANGED <<obs, options, preds>>
  PROVE  \A s : Good(s) => Good(s)'
BY DEF Good, StateOK, PathAccounts, PathOrdered

LEMMA LiveKept ==
  ASSUME Inv, UNCHANGED <<obs, options, preds, stack, best, cur>>
  PROVE  Inputs' /\ IsSeq(stack)' /\ (\A s \in Live : Good(s))'
<1>1. Live' = Live
  BY DEF Live
<1>2. IsSeq(stack)'
  BY DEF Inv, IsSeq
<1> QED  BY <1>1, <1>2, GoodFrame DEF Inv, Inputs

LEMMA LivePopped ==
  ASSUME Inv, Pop, UNCHANGED <<obs, options, preds>>,
         best' \in {best, Top}, cur' \in {cur, Top}
  PROVE  Inputs' /\ IsSeq(stack)' /\ (\A s \in Live : Good(s))'
<1>1. IsSeq(stack) /\ stack # <<>> /\ stack' = SubSeq(stack, 1, Len(stack) - 1)
  BY DEF Inv, Pop
<1>2. IsSeq(stack')
  BY <1>1, SeqPop
<1>3. Top \in Live
  BY <1>1, SeqPop DEF Live, Top
<1>4. \A i \in DOMAIN stack' : stack'[i] \in Live
  BY <1>1, SeqPop DEF Live
<1>5. Live' \subseteq Live
  BY <1>3, <1>4 DEF Live
<1>6. \A s \in Live' : Good(s)'
  BY <1>5, GoodFrame DEF Inv
<1> QED  BY <1>2, <1>6 DEF Inv, Inputs, IsSeq

LEMMA LivePushed ==
  ASSUME Inv, NEW s, Good(s), stack' = Append(stack, s),
         UNCHANGED <<obs, options, preds, best, cur>>
  PROVE  Inputs' /\ IsSeq(stack)' /\ (\A x \in Live : Good(x))'
<1>1. IsSeq(stack)
  BY DEF Inv
<1>2. IsSeq(stack')
  BY <1>1, SeqAppend
<1>3. \A i \in DOMAIN stack' : stack'[i] \in Live \cup {s}
  BY <1>1, SeqAppend DEF Live
<1>4. Live' \subseteq Live \cup {s}
  BY <1>3 DEF Live
<1>5. \A x \in Live' : Good(x)'
  BY <1>4, GoodFrame DEF Inv
<1> QED  BY <1>2, <1>5 DEF Inv, Inputs, IsSeq

-----------------------------------------------------------------------------
(* The states the two expansions push                                      *)

(* Firing keeps the births of tokens apart.                                *)
LEMMA FireOK ==
  ASSUME NEW m, NEW d \in Nat, MarkingOK(m, d), NEW j \in DOMAIN Transitions, NEW c, NEW env
  PROVE  MarkingOK(Fire(m, Transitions[j], c, env, d + 1), d + 1)
<1> DEFINE t == Transitions[j]
           n == Fire(m, t, c, env, d + 1)
           New(p) == {[born |-> <<d + 1, s>>, env |-> Carried(env, p)] :
                        s \in {r \in DOMAIN t.produces : t.produces[r] = p}}
<1>1. DOMAIN t.produces \subseteq Nat
  BY TransitionsAssumption, ListedFinite
<1>2. \A p \in Places : n[p] = (m[p] \ {c[s] : s \in DOMAIN c}) \cup New(p)
  BY DEF Fire
<1>3. n = [p \in Places |-> n[p]]
  BY DEF Fire
<1>4. \A p \in Places : \A tk \in New(p) :
        /\ tk = [born |-> tk.born, env |-> tk.env]
        /\ tk.born \in Nat \X Nat
        /\ tk.born[1] = d + 1
        /\ tk.born[2] \in DOMAIN t.produces /\ t.produces[tk.born[2]] = p
        /\ tk.env = Carried(env, p)
        /\ tk.born = <<d + 1, tk.born[2]>>
  BY <1>1
<1>5. \A p \in Places : \A tk \in m[p] :
        /\ tk = [born |-> tk.born, env |-> tk.env]
        /\ tk.born \in Nat \X Nat
        /\ tk.born[1] <= d /\ tk.born[1] \in Nat
  BY DEF MarkingOK
<1> HIDE DEF New, n, t
<1>6. ASSUME NEW p \in Places, NEW q \in Places, NEW tk \in n[p], NEW uk \in n[q],
             tk.born = uk.born
      PROVE  p = q /\ tk = uk
  <2>1. CASE tk \in m[p] /\ uk \in m[q]
    BY <1>6, <2>1 DEF MarkingOK
  <2>2. CASE tk \in New(p) /\ uk \in New(q)
    <3>1. p = q
      BY <1>4, <1>6, <2>2
    <3>2. tk.env = uk.env
      BY <1>4, <2>2, <3>1
    <3> QED  BY <1>4, <1>6, <2>2, <3>1, <3>2
  <2>3. CASE tk \in m[p] /\ uk \in New(q)
    BY <1>4, <1>5, <1>6, <2>3
  <2>4. CASE tk \in New(p) /\ uk \in m[q]
    BY <1>4, <1>5, <1>6, <2>4
  <2> QED  BY <1>2, <2>1, <2>2, <2>3, <2>4
<1>7. \A p \in Places : \A tk \in n[p] :
        /\ tk = [born |-> tk.born, env |-> tk.env]
        /\ tk.born \in Nat \X Nat
        /\ tk.born[1] <= d + 1
  BY <1>2, <1>4, <1>5
<1>8. MarkingOK(n, d + 1)
  BY <1>3, <1>6, <1>7 DEF MarkingOK
<1> QED  BY <1>8 DEF n, t

LEMMA UnboundFinite ==
  \A j \in DOMAIN Transitions : \A env : Cardinality(Unbound(Transitions[j], env)) \in Nat
<1> SUFFICES ASSUME NEW j \in DOMAIN Transitions, NEW env
             PROVE  Cardinality(Unbound(Transitions[j], env)) \in Nat
  OBVIOUS
<1>1. IsFiniteSet(DOMAIN Transitions[j].binds)
  BY TransitionsAssumption, ListedFinite
<1>2. Unbound(Transitions[j], env) \subseteq DOMAIN Transitions[j].binds
  BY DEF Unbound
<1> QED  BY <1>1, <1>2, FS_Subset, FS_CardinalityType

LEMMA BurntFinite ==
  \A j \in DOMAIN Transitions : \A env : Cardinality(BurntNames(Transitions[j], env)) \in Nat
<1> SUFFICES ASSUME NEW j \in DOMAIN Transitions, NEW env
             PROVE  Cardinality(BurntNames(Transitions[j], env)) \in Nat
  OBVIOUS
<1> DEFINE t == Transitions[j]
           Open(i) == {k \in VarArgs(t.emits[i]) : t.emits[i].args[k].text \notin DOMAIN env}
           Of(i)   == {<<i, k>> : k \in Open(i)}
           Sets    == {Of(i) : i \in DOMAIN t.emits}
<1>1. IsFiniteSet(DOMAIN t.emits) /\ \A i \in DOMAIN t.emits : IsFiniteSet(DOMAIN t.emits[i].args)
  BY TransitionsAssumption, ListedFinite
<1>2. ASSUME NEW i \in DOMAIN t.emits PROVE IsFiniteSet(Of(i))
  <2>1. Open(i) \subseteq DOMAIN t.emits[i].args
    BY DEF VarArgs
  <2>2. IsFiniteSet(Open(i))
    BY <1>1, <2>1, FS_Subset
  <2> HIDE DEF Open
  <2>3. [k \in Open(i) |-> <<i, k>>] \in Surjection(Open(i), Of(i))
    BY DEF Surjection
  <2> QED  BY <2>2, <2>3, FS_Surjection
<1>3. IsFiniteSet(Sets)
  <2> HIDE DEF Of
  <2>1. [i \in DOMAIN t.emits |-> Of(i)] \in Surjection(DOMAIN t.emits, Sets)
    BY DEF Surjection
  <2> QED  BY <1>1, <2>1, FS_Surjection
<1>4. IsFiniteSet(UNION Sets)
  BY <1>2, <1>3, FS_UNION
<1>5. BurntNames(t, env) = UNION Sets
  BY DEF BurntNames
<1> QED  BY <1>4, <1>5, FS_CardinalityType

(* A state with one more step on its path, for a record not consumed yet   *)
(* or (record 0) for an unlogged one.                                      *)
LEMMA LongerPath ==
  ASSUME Inputs, preds \in [Records(obs) -> SUBSET Records(obs)],
         NEW s, Good(s), NEW n, StateOK(n),
         NEW step, n.path = Append(s.path, step), n.depth = s.depth + 1,
         \/ /\ step.record \in StepRecords(obs) \ s.consumed
            /\ preds[step.record] \subseteq s.consumed
            /\ n.consumed = s.consumed \cup {step.record}
            /\ n.used = s.used
         \/ /\ step.record = 0
            /\ n.consumed = s.consumed
            /\ n.used = s.used + 1 /\ s.used < options.slack
  PROVE  Good(n)
<1> DEFINE old == s.consumed \cap StepRecords(obs)
           new == n.consumed \cap StepRecords(obs)
<1>1. /\ IsSeq(s.path) /\ s.depth \in Nat /\ s.used \in Nat
      /\ s.consumed \subseteq Records(obs) /\ n.consumed \subseteq Records(obs)
  BY DEF Good, StateOK
<1>2. /\ Len(s.path) = s.depth
      /\ s.depth = Cardinality(old) + s.used
      /\ s.used <= options.slack
      /\ DanglingRecords(obs) \subseteq s.consumed
      /\ \A k \in DOMAIN s.path : s.path[k].record \in {0} \cup old
      /\ \A i \in old : \E k \in DOMAIN s.path : s.path[k].record = i
      /\ \A k, l \in DOMAIN s.path :
           s.path[k].record = s.path[l].record => k = l \/ s.path[k].record = 0
  BY DEF Good, PathAccounts
<1>3. /\ Len(n.path) = s.depth + 1 /\ DOMAIN s.path = 1 .. s.depth
      /\ DOMAIN n.path = 1 .. (s.depth + 1)
      /\ n.path[s.depth + 1] = step
      /\ \A k \in 1 .. s.depth : n.path[k] = s.path[k]
  <2>1. /\ Len(Append(s.path, step)) = Len(s.path) + 1
        /\ DOMAIN s.path = 1 .. Len(s.path)
        /\ DOMAIN Append(s.path, step) = 1 .. (Len(s.path) + 1)
        /\ Append(s.path, step)[Len(s.path) + 1] = step
        /\ \A k \in 1 .. Len(s.path) : Append(s.path, step)[k] = s.path[k]
    BY <1>1, SeqAppend
  <2> QED  BY <1>2, <2>1
<1>4. options.slack \in Nat
  BY OptionsAssumption DEF Inputs
<1>5. old \in SUBSET Records(obs) /\ IsFiniteSet(old) /\ Cardinality(old) \in Nat
  BY <1>1, RecordsFinite
<1>6. 0 \notin Records(obs) /\ StepRecords(obs) \subseteq Records(obs)
  BY RecordsFinite DEF StepRecords
<1>7. \A k \in DOMAIN n.path : k \in 1 .. s.depth \/ k = s.depth + 1
  BY <1>1, <1>3
<1>8. new = n.consumed \cap StepRecords(obs)
  OBVIOUS
<1>9. \A i \in old : i \in s.consumed /\ i \in StepRecords(obs)
  OBVIOUS
<1>10. CASE step.record = 0
  <2>1. new = old /\ n.used = s.used + 1 /\ s.used < options.slack /\ n.consumed = s.consumed
    BY <1>6, <1>10
  <2> HIDE DEF old, new
  <2>2. n.depth = Cardinality(new) + n.used /\ n.used <= options.slack
    <3>1. n.used <= options.slack
      BY <1>1, <1>4, <2>1
    <3>2. n.depth = Cardinality(old) + (s.used + 1)
      BY <1>1, <1>2, <1>5
    <3> QED  BY <2>1, <3>1, <3>2
  <2>3. /\ \A k \in DOMAIN n.path : n.path[k].record \in {0} \cup new
        /\ \A i \in new : \E k \in DOMAIN n.path : n.path[k].record = i
    BY <1>1, <1>2, <1>3, <1>7, <1>10, <2>1
  <2>4. \A k, l \in DOMAIN n.path :
          n.path[k].record = n.path[l].record => k = l \/ n.path[k].record = 0
    BY <1>1, <1>2, <1>3, <1>7, <1>10
  <2>5. PathAccounts(n)
    BY <1>2, <1>3, <1>8, <2>1, <2>2, <2>3, <2>4 DEF PathAccounts
  <2>6. PathOrdered(n)
    <3> SUFFICES ASSUME NEW k \in DOMAIN n.path, n.path[k].record # 0,
                        NEW i \in preds[n.path[k].record] \cap StepRecords(obs)
                 PROVE  \E l \in 1 .. (k - 1) : n.path[l].record = i
      BY DEF PathOrdered
    <3>1. k \in 1 .. s.depth /\ n.path[k] = s.path[k]
      BY <1>3, <1>7, <1>10
    <3>2. PICK l \in 1 .. (k - 1) : s.path[l].record = i
      BY <1>3, <3>1 DEF Good, PathOrdered
    <3>3. n.path[l] = s.path[l]
      BY <1>1, <1>3, <3>1
    <3> QED  BY <3>2, <3>3
  <2> QED  BY <2>5, <2>6 DEF Good
<1>11. CASE step.record # 0
  <2>1. /\ step.record \in StepRecords(obs) \ s.consumed
        /\ preds[step.record] \subseteq s.consumed
        /\ n.consumed = s.consumed \cup {step.record} /\ n.used = s.used
        /\ new = old \cup {step.record} /\ step.record \notin old
    BY <1>11
  <2> HIDE DEF old, new
  <2>2. Cardinality(new) = Cardinality(old) + 1
    BY <1>5, <2>1, FS_AddElement
  <2>3. n.depth = Cardinality(new) + n.used /\ n.used <= options.slack
    BY <1>1, <1>2, <1>5, <2>1, <2>2
  <2>4. /\ \A k \in DOMAIN n.path : n.path[k].record \in {0} \cup new
        /\ \A i \in new : \E k \in DOMAIN n.path : n.path[k].record = i
    BY <1>1, <1>2, <1>3, <1>7, <2>1
  <2>5. \A k, l \in DOMAIN n.path :
          n.path[k].record = n.path[l].record => k = l \/ n.path[k].record = 0
    BY <1>2, <1>3, <1>7, <1>11, <2>1
  <2>6. PathAccounts(n)
    BY <1>2, <1>3, <1>8, <2>1, <2>3, <2>4, <2>5 DEF PathAccounts
  <2>7. PathOrdered(n)
    <3> SUFFICES ASSUME NEW k \in DOMAIN n.path, n.path[k].record # 0,
                        NEW i \in preds[n.path[k].record] \cap StepRecords(obs)
                 PROVE  \E l \in 1 .. (k - 1) : n.path[l].record = i
      BY DEF PathOrdered
    <3>1. CASE k = s.depth + 1
      <4>1. i \in old
        BY <1>3, <2>1, <3>1 DEF old
      <4>2. PICK l \in 1 .. s.depth : s.path[l].record = i
        BY <1>2, <1>3, <4>1
      <4> QED  BY <1>1, <1>3, <3>1, <4>2
    <3>2. CASE k \in 1 .. s.depth
      <4>1. PICK l \in 1 .. (k - 1) : s.path[l].record = i
        BY <1>3, <3>2 DEF Good, PathOrdered
      <4>2. n.path[l] = s.path[l]
        BY <1>1, <1>3, <3>2
      <4> QED  BY <4>1, <4>2
    <3> QED  BY <1>7, <3>1, <3>2
  <2> QED  BY <2>6, <2>7 DEF Good
<1> QED  BY <1>10, <1>11

LEMMA FiredGood ==
  ASSUME Inv, pc = "fire", NEW a
  PROVE  Good(Fired(a))
<1> DEFINE n == Fired(a)
           step == [transition |-> Step.id, principal |-> Rec.principal,
                    record |-> cursor, bindings |-> Env(a)]
<1>1. PICK j \in DOMAIN Transitions : Step = Transitions[j]
  BY DEF Inv, Control, Known, Step, TransitionById, TransitionIds
<1>2. /\ Good(cur) /\ StateOK(cur) /\ IsSeq(cur.path) /\ cur.depth \in Nat /\ cur.used \in Nat
      /\ cur.fresh \in Nat /\ MarkingOK(cur.marking, cur.depth)
      /\ cur.consumed \subseteq Records(obs) /\ cur.matched \subseteq EffectIds(obs)
  BY DEF Inv, Live, Good, StateOK
<1>3. cursor \in StepRecords(obs) \ cur.consumed /\ preds[cursor] \subseteq cur.consumed
  BY DEF Inv, Control
<1>4. cursor \in Records(obs) /\ IdsOfRecord(obs, cursor) \subseteq EffectIds(obs)
  BY <1>3 DEF StepRecords, IdsOfRecord, EffectIds, Effects, EffectsIn
<1>5. /\ n = [marking |-> n.marking, consumed |-> n.consumed, matched |-> n.matched,
              used |-> n.used, depth |-> n.depth, fresh |-> n.fresh, path |-> n.path]
      /\ n.marking = Fire(cur.marking, Step, a.choice, Env(a), cur.depth + 1)
      /\ n.consumed = cur.consumed \cup {cursor}
      /\ n.matched = cur.matched \cup IdsOfRecord(obs, cursor)
      /\ n.used = cur.used /\ n.depth = cur.depth + 1
      /\ n.fresh = cur.fresh + Cardinality(Unbound(Step, Match(a).env))
      /\ n.path = Append(cur.path, step)
  BY DEF Fired
<1>6. step.record = cursor
  OBVIOUS
<1> HIDE DEF n, step
<1>7. MarkingOK(n.marking, n.depth)
  BY <1>1, <1>2, <1>5, FireOK
<1>8. n.fresh \in Nat
  BY <1>1, <1>2, <1>5, UnboundFinite
<1>9. StateOK(n)
  BY <1>2, <1>4, <1>5, <1>7, <1>8, SeqAppend DEF StateOK
<1>10. Good(n)
  BY <1>2, <1>3, <1>5, <1>6, <1>9, LongerPath DEF Inv, Control
<1> QED  BY <1>10 DEF n

LEMMA InventedGood ==
  ASSUME Inv, pc = "invent", NEW a \in alts
  PROVE  Good(Invented(a))
<1> DEFINE n == Invented(a)
           step == [transition |-> Silent.id, principal |-> Silent.principal,
                    record |-> 0, bindings |-> SilentEnv(a)]
<1>1. cursor \in DOMAIN Transitions /\ Silent = Transitions[cursor]
  BY DEF Inv, Control, Silent
<1>2. /\ Good(cur) /\ StateOK(cur) /\ IsSeq(cur.path) /\ cur.depth \in Nat /\ cur.used \in Nat
      /\ cur.fresh \in Nat /\ MarkingOK(cur.marking, cur.depth)
      /\ cur.consumed \subseteq Records(obs) /\ cur.matched \subseteq EffectIds(obs)
  BY DEF Inv, Live, Good, StateOK
<1>3. cur.used < options.slack
  BY DEF Inv, Control
<1>4. Targeted(a) => EffectAt(a.target).id \in EffectIds(obs)
  <2> SUFFICES ASSUME Targeted(a) PROVE EffectAt(a.target).id \in EffectIds(obs)
    OBVIOUS
  <2>1. a.target \in DanglingEffects
    BY DEF Inv, Control, Targeted
  <2>2. PICK r \in DanglingRecords(obs) :
          \E p \in DOMAIN obs.records[r].effects : a.target = <<r, p>>
    BY <2>1 DEF DanglingEffects
  <2>3. PICK p \in DOMAIN obs.records[r].effects : a.target = <<r, p>>
    BY <2>2
  <2>4. EffectAt(a.target) = obs.records[r].effects[p] /\ r \in Records(obs)
    BY <2>3 DEF EffectAt, DanglingRecords
  <2> QED  BY <2>4 DEF EffectIds, Effects, EffectsIn
<1>5. /\ n = [marking |-> n.marking, consumed |-> n.consumed, matched |-> n.matched,
              used |-> n.used, depth |-> n.depth, fresh |-> n.fresh, path |-> n.path]
      /\ n.marking = Fire(cur.marking, Silent, a.choice, SilentEnv(a), cur.depth + 1)
      /\ n.consumed = cur.consumed
      /\ n.matched = IF Targeted(a) THEN cur.matched \cup {EffectAt(a.target).id}
                     ELSE cur.matched
      /\ n.used = cur.used + 1 /\ n.depth = cur.depth + 1
      /\ n.fresh = cur.fresh + Burnt(a) + Cardinality(Unbound(Silent, SilentMatch(a)))
      /\ n.path = Append(cur.path, step)
  BY DEF Invented
<1>6. step.record = 0
  OBVIOUS
<1> HIDE DEF n, step
<1>7. MarkingOK(n.marking, n.depth)
  BY <1>1, <1>2, <1>5, FireOK
<1>8. n.fresh \in Nat
  <2>1. Burnt(a) \in Nat
    BY <1>1, BurntFinite DEF Burnt
  <2>2. Cardinality(Unbound(Silent, SilentMatch(a))) \in Nat
    BY <1>1, UnboundFinite
  <2> QED  BY <1>2, <1>5, <2>1, <2>2
<1>9. n.matched \subseteq EffectIds(obs)
  BY <1>2, <1>4, <1>5
<1>10. StateOK(n)
  BY <1>2, <1>5, <1>7, <1>8, <1>9, SeqAppend DEF StateOK
<1>11. Good(n)
  BY <1>2, <1>3, <1>5, <1>6, <1>10, LongerPath DEF Inv, Control
<1> QED  BY <1>11 DEF n

-----------------------------------------------------------------------------
(* The steps                                                               *)

LEMMA RejectEdgesInv == Inv /\ RejectEdges => Inv'
<1> SUFFICES ASSUME Inv, RejectEdges PROVE Inv'
  OBVIOUS
<1>1. Control'
  BY DEF Inv, Control, RejectEdges, input, DanglingEffects
<1> QED  BY <1>1, LiveKept DEF Inv, RejectEdges, input

(* The order is computed while only the root is held, whose path is empty. *)
LEMMA BeginInv == Inv /\ Begin => Inv'
<1> SUFFICES ASSUME Inv, Begin PROVE Inv'
  OBVIOUS
<1>1. /\ obs' = obs /\ options' = options /\ preds' = Order(obs) /\ stack' = <<Root>>
      /\ best' = Root /\ cur' = Root
  BY DEF Begin, search, Inv, Control
<1>2. Control'
  BY <1>1, OrderType DEF Inv, Control, Begin, search, DanglingEffects
<1>3. IsSeq(stack) ' /\ Live' = {Root}
  BY <1>1, SeqOne DEF Live, IsSeq
<1>4. Inputs' /\ Root' = Root
  BY <1>1 DEF Inv, Inputs, Root
<1>5. Good(Root)'
  BY <1>4, RootGood, PTL
<1>6. \A s : s = Root' => Good(s)'
  BY <1>1, <1>5 DEF Good, StateOK, PathAccounts, PathOrdered
<1> QED  BY <1>2, <1>3, <1>4, <1>6 DEF Inv

LEMMA PopExhaustedInv == Inv /\ PopExhausted => Inv'
<1> SUFFICES ASSUME Inv, PopExhausted PROVE Inv'
  OBVIOUS
<1>1. Control'
  BY DEF Inv, Control, PopExhausted, Pop, input, DanglingEffects
<1> QED  BY <1>1, LivePopped DEF Inv, PopExhausted, input

LEMMA PopDiscardedInv == Inv /\ PopDiscarded => Inv'
<1> SUFFICES ASSUME Inv, PopDiscarded PROVE Inv'
  OBVIOUS
<1>1. Control'
  BY DEF Inv, Control, PopDiscarded, Pop, input, DanglingEffects
<1> QED  BY <1>1, LivePopped DEF Inv, PopDiscarded, input

LEMMA AcceptInv == Inv /\ Accept => Inv'
<1> SUFFICES ASSUME Inv, Accept PROVE Inv'
  OBVIOUS
<1>1. Control'
  BY DEF Inv, Control, Accept, PopNew, Pop, input, DanglingEffects
<1> QED  BY <1>1, LivePopped DEF Inv, Accept, PopNew, input

LEMMA ExpandInv == Inv /\ Expand => Inv'
<1> SUFFICES ASSUME Inv, Expand PROVE Inv'
  OBVIOUS
<1>1. Control'
  BY DEF Inv, Control, Expand, PopNew, Pop, input, DanglingEffects
<1> QED  BY <1>1, LivePopped DEF Inv, Expand, PopNew, input

LEMMA NextRecordInv == Inv /\ pc = "observed" /\ (\E f : NextRecord(f)) => Inv'
<1> SUFFICES ASSUME Inv, pc = "observed", NEW f, NextRecord(f) PROVE Inv'
  OBVIOUS
<1>1. Control'
  BY DEF Inv, Control, NextRecord, input, search, DanglingEffects
<1> QED  BY <1>1, LiveKept DEF Inv, NextRecord, input, search

LEMMA TryRecordInv == Inv /\ TryRecord => Inv'
<1> SUFFICES ASSUME Inv, TryRecord PROVE Inv'
  OBVIOUS
<1>1. Control'
  <2>1. \A a \in alts' : a.target \in DanglingEffects' \cup {Untargeted}
    BY DEF TryRecord
  <2>2. Known'
    BY DEF TryRecord, Known, Rec, input, search
  <2>3. cursor' \in (StepRecords(obs) \ cur.consumed)' /\ preds'[cursor'] \subseteq cur'.consumed
    BY DEF TryRecord, Ready, input, search
  <2> QED  BY <2>1, <2>2, <2>3 DEF Inv, Control, TryRecord, input, search
<1> QED  BY <1>1, LiveKept DEF Inv, TryRecord, input, search

LEMMA DropInv ==
  Inv /\ pc \in {"fire", "invent"} /\ (\E a \in alts : \E f : Drop(a, f)) => Inv'
<1> SUFFICES ASSUME Inv, pc \in {"fire", "invent"}, NEW a \in alts, NEW f, Drop(a, f) PROVE Inv'
  OBVIOUS
<1>1. Control'
  BY DEF Inv, Control, Drop, input, search, DanglingEffects, Known, Rec
<1> QED  BY <1>1, LiveKept DEF Inv, Drop, input, search

LEMMA PushInv ==
  ASSUME Inv, pc \in {"fire", "invent"}, NEW a \in alts, NEW s, Good(s), Push(a, s)
  PROVE  Inv'
<1>1. Control'
  BY DEF Inv, Control, Push, input, search, DanglingEffects, Known, Rec
<1> QED  BY <1>1, LivePushed DEF Inv, Push, input, search

LEMMA RecordTriedInv == Inv /\ RecordTried => Inv'
<1> SUFFICES ASSUME Inv, RecordTried PROVE Inv'
  OBVIOUS
<1>1. Control'
  BY DEF Inv, Control, RecordTried, input, search, DanglingEffects
<1> QED  BY <1>1, LiveKept DEF Inv, RecordTried, input, search

LEMMA RecordsDoneInv == Inv /\ RecordsDone => Inv'
<1> SUFFICES ASSUME Inv, RecordsDone PROVE Inv'
  OBVIOUS
<1>1. Control'
  BY DEF Inv, Control, RecordsDone, input, search, DanglingEffects
<1> QED  BY <1>1, LiveKept DEF Inv, RecordsDone, input, search

LEMMA SkipTransitionInv == Inv /\ SkipTransition => Inv'
<1> SUFFICES ASSUME Inv, SkipTransition PROVE Inv'
  OBVIOUS
<1>1. Control'
  BY DEF Inv, Control, SkipTransition, input, search, DanglingEffects
<1> QED  BY <1>1, LiveKept DEF Inv, SkipTransition, input, search

LEMMA TryTransitionInv == Inv /\ TryTransition => Inv'
<1> SUFFICES ASSUME Inv, TryTransition PROVE Inv'
  OBVIOUS
<1>1. Control'
  <2>1. \A a \in alts' : a.target \in DanglingEffects \cup {Untargeted}
    BY DEF TryTransition, Targets
  <2>2. DanglingEffects' = DanglingEffects
    BY DEF TryTransition, input, DanglingEffects
  <2> QED  BY <2>1, <2>2 DEF Inv, Control, TryTransition, input, search
<1> QED  BY <1>1, LiveKept DEF Inv, TryTransition, input, search

LEMMA TransitionTriedInv == Inv /\ TransitionTried => Inv'
<1> SUFFICES ASSUME Inv, TransitionTried PROVE Inv'
  OBVIOUS
<1>1. Control'
  BY DEF Inv, Control, TransitionTried, input, search, DanglingEffects
<1> QED  BY <1>1, LiveKept DEF Inv, TransitionTried, input, search

LEMMA TransitionsDoneInv == Inv /\ TransitionsDone => Inv'
<1> SUFFICES ASSUME Inv, TransitionsDone PROVE Inv'
  OBVIOUS
<1>1. Control'
  BY DEF Inv, Control, TransitionsDone, input, search, DanglingEffects
<1> QED  BY <1>1, LiveKept DEF Inv, TransitionsDone, input, search

LEMMA SearchEmptyInv == Inv /\ SearchEmpty => Inv'
<1> SUFFICES ASSUME Inv, SearchEmpty PROVE Inv'
  OBVIOUS
<1>1. Control'
  BY DEF Inv, Control, SearchEmpty, input, search, DanglingEffects
<1> QED  BY <1>1, LiveKept DEF Inv, SearchEmpty, input, search

LEMMA ConcludeInv == Inv /\ Conclude => Inv'
<1> SUFFICES ASSUME Inv, Conclude PROVE Inv'
  OBVIOUS
<1>1. Control'
  BY DEF Inv, Control, Conclude, input, DanglingEffects
<1> QED  BY <1>1, LiveKept DEF Inv, Conclude, input

LEMMA StutterInv == Inv /\ UNCHANGED vars => Inv'
<1> SUFFICES ASSUME Inv, UNCHANGED vars PROVE Inv'
  OBVIOUS
<1>1. Control'
  BY DEF Inv, Control, vars, DanglingEffects, Known, Rec, Root
<1> QED  BY <1>1, LiveKept DEF Inv, vars

LEMMA NextInv == Inv /\ [Next]_vars => Inv'
<1> SUFFICES ASSUME Inv, [Next]_vars PROVE Inv'
  OBVIOUS
<1>1. CASE SkipRecord \/ UnknownStep \/ IdentityMismatch \/ NotEnabled \/ EffectShapeMismatch
  BY <1>1, NextRecordInv
  DEF SkipRecord, UnknownStep, IdentityMismatch, NotEnabled, EffectShapeMismatch
<1>2. CASE EffectArgMismatch \/ NotAttested \/ GuardFalse \/ ObligationUnmet
  BY <1>2, DropInv DEF EffectArgMismatch, NotAttested, GuardFalse, ObligationUnmet
<1>3. CASE SilentMismatch \/ SilentRefused \/ SilentObligationUnmet
  BY <1>3, DropInv DEF SilentMismatch, SilentRefused, SilentObligationUnmet
<1>4. CASE FireObserved
  <2>1. PICK a \in alts : Push(a, Fired(a))
    BY <1>4 DEF FireObserved
  <2>2. pc = "fire" /\ Good(Fired(a))
    BY <1>4, FiredGood DEF FireObserved
  <2> QED  BY <2>1, <2>2, PushInv
<1>5. CASE FireSilent
  <2>1. PICK a \in alts : Push(a, Invented(a))
    BY <1>5 DEF FireSilent
  <2>2. pc = "invent" /\ Good(Invented(a))
    BY <1>5, InventedGood DEF FireSilent
  <2> QED  BY <2>1, <2>2, PushInv
<1> QED
  BY <1>1, <1>2, <1>3, <1>4, <1>5, RejectEdgesInv, BeginInv, PopExhaustedInv, PopDiscardedInv,
     AcceptInv, ExpandInv, TryRecordInv, RecordTriedInv, RecordsDoneInv, SkipTransitionInv,
     TryTransitionInv, TransitionTriedInv, TransitionsDoneInv, SearchEmptyInv, ConcludeInv,
     StutterInv
  DEF Next

-----------------------------------------------------------------------------
(* The results                                                             *)

(* What the search maintains.                                              *)
THEOREM Invariance == Spec => []Inv
BY InitInv, NextInv, PTL DEF Spec

(* The variables of verify() and the tokens of every marking it holds keep *)
(* the shape the code's types and Vecs give them.                          *)
THEOREM TypeCorrect == Spec => []TypeOK
<1>1. Inv => TypeOK
  BY DEF Inv, Control, Good, TypeOK
<1> QED  BY <1>1, Invariance, PTL

(* depth, slack_used and path never drift apart, no record is explained    *)
(* twice and no state spends more slack than it was given.                 *)
THEOREM PathsAccount == Spec => []Accounting
<1>1. Inv => Accounting
  BY DEF Inv, Good, Accounting
<1> QED  BY <1>1, Invariance, PTL

(* Every path held, the witness included, respects order().                *)
THEOREM WitnessesOrdered == Spec => []WitnessOrdered
<1>1. Inv => WitnessOrdered
  BY DEF Inv, Good, WitnessOrdered
<1> QED  BY <1>1, Invariance, PTL

(* A bound as high as for_observation() sets it never cuts the search, on  *)
(* whatever net and observation: the discard on depth is dead code there.  *)
THEOREM BoundIsEnough ==
  ASSUME \A o \in Observations : \A op \in OptionsFor(o) :
           op.bound >= Cardinality(StepRecords(o)) + op.slack
  PROVE  Spec => []BoundNeverCuts
<1>1. Inv => BoundNeverCuts
  <2> SUFFICES ASSUME Inv, NEW s \in Live PROVE s.depth <= options.bound
    BY DEF BoundNeverCuts
  <2>1. /\ s.depth = Cardinality(s.consumed \cap StepRecords(obs)) + s.used
        /\ s.used <= options.slack /\ s.used \in Nat
    BY DEF Inv, Good, PathAccounts, StateOK
  <2>2. /\ options.slack \in Nat /\ options.bound \in Nat
        /\ options.bound >= Cardinality(StepRecords(obs)) + options.slack
    BY OptionsAssumption DEF Inv, Inputs
  <2>3. StepRecords(obs) \in SUBSET Records(obs)
    BY DEF StepRecords
  <2>4. /\ IsFiniteSet(StepRecords(obs)) /\ Cardinality(StepRecords(obs)) \in Nat
        /\ Cardinality(s.consumed \cap StepRecords(obs)) \in Nat
        /\ Cardinality(s.consumed \cap StepRecords(obs)) <= Cardinality(StepRecords(obs))
    BY <2>3, RecordsFinite, FS_Subset DEF Inv
  <2> QED  BY <2>1, <2>2, <2>4
<1> QED  BY <1>1, Invariance, PTL

-----------------------------------------------------------------------------
(* What the paths of the search stand for: who performed the steps, which  *)
(* effects they account for, where the tokens went.                        *)

(* What the inner loops know of the alternatives they try.                 *)
Trying ==
  /\ pc = "fire" => /\ Admitted /\ Enabled /\ Shaped
                    /\ \A a \in alts : a.choice \in Agreeing(Step)
  /\ pc = "invent" => /\ MissingPlaces(cur.marking, Silent) = {}
                      /\ \A a \in alts : a.choice \in Agreeing(Silent) /\ a.target \in Targets(Silent)

(* A step of a path is one that somebody may perform and evidence allows.  *)
Authorized(step) ==
  LET t == TransitionOf(step)
  IN  /\ step.record # 0 => /\ obs.records[step.record].step = t.id
                            /\ obs.records[step.record].principal \in t.admits
      /\ UnattestedVars(t, step.bindings) = {}
      /\ GuardHolds(t, step.bindings)

AuthorizedPath(path) == \A k \in DOMAIN path : Authorized(path[k])

-----------------------------------------------------------------------------
(* Induction over numbers, from the well-foundedness of their order        *)

LEMMA Least ==
  ASSUME NEW T \in SUBSET Nat, T # {}
  PROVE  \E x \in T : \A y \in T : x <= y
<1> DEFINE R == OpToRel(<, Nat)
<1>1. \A x, y \in Nat : y < x => <<y, x>> \in R
  BY Zenon DEF OpToRel
<1>2. IsWellFoundedOn(R, Nat)
  BY NatLessThanWellFounded, Zenon
<1> HIDE DEF R
<1>3. \E x \in T : \A y \in T : ~ (<<y, x>> \in R)
  BY <1>2, WFMin
<1>4. PICK x \in T : \A y \in T : ~ (<<y, x>> \in R)
  BY <1>3
<1>5. \A y \in T : x <= y
  <2> SUFFICES ASSUME NEW y \in T PROVE x <= y
    OBVIOUS
  <2>1. x \in Nat /\ y \in Nat /\ ~ (y < x)
    BY <1>1, <1>4, Zenon
  <2> QED  BY <2>1
<1> QED  BY <1>5

(* A set of numbers that holds 0 and the successor of each member.         *)
LEMMA Induction ==
  ASSUME NEW T \in SUBSET Nat, 0 \in T, \A n \in T : n + 1 \in T
  PROVE  T = Nat
<1> SUFFICES ASSUME Nat \ T # {} PROVE FALSE
  OBVIOUS
<1>1. PICK x \in Nat \ T : \A y \in Nat \ T : x <= y
  BY Least
<1>2. x - 1 \in Nat /\ x - 1 \notin Nat \ T
  BY <1>1
<1> QED  BY <1>1, <1>2

-----------------------------------------------------------------------------
(* Where the states held come from                                         *)

FiredBy(a)    == Unifies(a) /\ Evidenced(a) /\ Guarded(a) /\ UnmetOf(a) = {}
InventedBy(a) == SilentUnifies(a) /\ SilentAllowed(a) /\ SilentUnmet(a) = {}

Pushed(s) ==
  \/ pc = "fire" /\ \E a \in alts : FiredBy(a) /\ s = Fired(a)
  \/ pc = "invent" /\ \E a \in alts : InventedBy(a) /\ s = Invented(a)

Skips == SkipRecord \/ UnknownStep \/ IdentityMismatch \/ NotEnabled \/ EffectShapeMismatch

Drops ==
  \/ EffectArgMismatch \/ NotAttested \/ GuardFalse \/ ObligationUnmet
  \/ SilentMismatch \/ SilentRefused \/ SilentObligationUnmet

Turns == RecordTried \/ RecordsDone \/ SkipTransition \/ TransitionTried \/ TransitionsDone \/ SearchEmpty

(* What the actions that push nothing and pop nothing leave alone.         *)
LEMMA Quiet ==
  /\ Skips => UNCHANGED <<input, search, pc, stack, alts>>
  /\ Drops => UNCHANGED <<input, search, pc, stack, cursor>> /\ alts' \subseteq alts
  /\ Turns => UNCHANGED <<input, search, stack, alts>> /\ pc' \notin {"fire", "invent"}
<1>1. Skips => \E f : NextRecord(f)
  BY DEF Skips, SkipRecord, UnknownStep, IdentityMismatch, NotEnabled, EffectShapeMismatch
<1>2. Drops => \E a, f : Drop(a, f)
  BY DEF Drops, EffectArgMismatch, NotAttested, GuardFalse, ObligationUnmet, SilentMismatch,
         SilentRefused, SilentObligationUnmet
<1>3. (\E f : NextRecord(f)) => UNCHANGED <<input, search, pc, stack, alts>>
  BY DEF NextRecord
<1>4. (\E a, f : Drop(a, f)) => UNCHANGED <<input, search, pc, stack, cursor>> /\ alts' \subseteq alts
  BY DEF Drop
<1>5. Turns => UNCHANGED <<input, search, stack, alts>> /\ pc' \notin {"fire", "invent"}
  BY DEF Turns, RecordTried, RecordsDone, SkipTransition, TransitionTried, TransitionsDone, SearchEmpty
<1> QED  BY <1>1, <1>2, <1>3, <1>4, <1>5

LEMMA Moves ==
  ASSUME [Next]_vars
  PROVE  \/ RejectEdges \/ Begin \/ PopExhausted \/ PopDiscarded \/ Accept \/ Expand
         \/ TryRecord \/ TryTransition \/ FireObserved \/ FireSilent \/ Conclude
         \/ Skips \/ Drops \/ Turns \/ UNCHANGED vars
BY DEF Next, Skips, Drops, Turns

(* A step neither changes the observation nor holds a state that is not    *)
(* one of those held before, the root, or the successor just pushed.       *)
LEMMA Held ==
  ASSUME Inv, [Next]_vars
  PROVE  obs' = obs /\ \A s \in Live' : s \in Live \/ Pushed(s)
<1>1. CASE RejectEdges \/ PopExhausted \/ PopDiscarded \/ Accept \/ Expand
  <2>1. obs' = obs
    BY <1>1 DEF RejectEdges, PopExhausted, PopDiscarded, Accept, Expand, PopNew, input
  <2>2. \/ stack' = stack /\ best' = best /\ cur' = cur
        \/ Pop /\ best' \in {best, Top} /\ cur' \in {cur, Top}
    BY <1>1 DEF RejectEdges, PopExhausted, PopDiscarded, Accept, Expand, PopNew
  <2>3. CASE stack' = stack /\ best' = best /\ cur' = cur
    BY <2>1, <2>3 DEF Live
  <2>4. CASE Pop /\ best' \in {best, Top} /\ cur' \in {cur, Top}
    <3>1. Top \in Live /\ \A i \in DOMAIN stack' : stack'[i] \in Live
      BY <2>4, SeqPop DEF Pop, Inv, Live, Top
    <3> QED  BY <2>1, <2>4, <3>1 DEF Live
  <2> QED  BY <2>2, <2>3, <2>4
<1>2. CASE Begin
  <2>1. obs' = obs /\ stack' = <<Root>> /\ best' = Root /\ cur' = Root /\ Root \in Live
    BY <1>2 DEF Begin, search, Inv, Control, Live
  <2>2. Live' = {Root}
    BY <2>1, SeqOne DEF Live
  <2> QED  BY <2>1, <2>2
<1>3. CASE FireObserved \/ FireSilent
  <2>1. PICK s : Pushed(s) /\ \E a \in alts : Push(a, s)
    BY <1>3 DEF FireObserved, FireSilent, Pushed, FiredBy, InventedBy
  <2>2. obs' = obs /\ best' = best /\ cur' = cur /\ stack' = Append(stack, s)
    BY <2>1 DEF Push, input, search
  <2>3. \A i \in DOMAIN stack' : stack'[i] \in Live \cup {s}
    BY <2>2, SeqAppend DEF Inv, Live
  <2>4. Live' \subseteq Live \cup {s}
    BY <2>2, <2>3 DEF Live
  <2> QED  BY <2>1, <2>2, <2>4
<1>4. CASE UNCHANGED <<obs, stack, best, cur>>
  BY <1>4 DEF Live
<1>5. Skips \/ Drops \/ Turns => UNCHANGED <<obs, stack, best, cur>>
  BY Quiet DEF input, search
<1>6. TryRecord \/ TryTransition \/ Conclude \/ UNCHANGED vars => UNCHANGED <<obs, stack, best, cur>>
  BY DEF TryRecord, TryTransition, Conclude, vars, input, search
<1>7. \/ RejectEdges \/ PopExhausted \/ PopDiscarded \/ Accept \/ Expand
      \/ Begin \/ FireObserved \/ FireSilent \/ UNCHANGED <<obs, stack, best, cur>>
  BY <1>5, <1>6, Moves
<1> QED  BY <1>1, <1>2, <1>3, <1>4, <1>7

(* What is accepted was held, and complete, when it was.                   *)
LEMMA AcceptedWas ==
  ASSUME Inv, [Next]_vars, Accepted'
  PROVE  \/ Accepted /\ outcome' = outcome
         \/ /\ pc = "pop"
            /\ \E s \in Live : Complete(s) /\ IsFinal(s.marking) /\ outcome'.explained = s.path
<1>1. CASE Accept
  <2>1. Top \in Live /\ pc = "pop"
    BY <1>1, SeqPop DEF Accept, PopNew, Pop, Inv, Live, Top
  <2> QED  BY <1>1, <2>1 DEF Accept
<1>2. CASE RejectEdges \/ Conclude
  BY <1>2 DEF RejectEdges, Conclude, Accepted
<1>3. CASE outcome' = outcome
  BY <1>3 DEF Accepted
<1>4. Skips \/ Drops \/ Turns => outcome' = outcome
  BY Quiet DEF search
<1>5. FireObserved \/ FireSilent => outcome' = outcome
  BY DEF FireObserved, FireSilent, Push, search
<1>6. Begin \/ PopExhausted \/ PopDiscarded \/ Expand \/ TryRecord \/ TryTransition
        \/ UNCHANGED vars
      => outcome' = outcome
  BY DEF Begin, PopExhausted, PopDiscarded, Expand, TryRecord, TryTransition, vars, search
<1> QED  BY <1>1, <1>2, <1>3, <1>4, <1>5, <1>6, Moves

LEMMA AgreeingFill ==
  \A t : \A c \in Agreeing(t) : c \in AllChoices(cur.marking, t) /\ ~ MergeConflict(c)
BY DEF Agreeing, Choices

(* The inner loops keep what they know of their alternatives.              *)
LEMMA TryingKept ==
  ASSUME Inv, Trying, [Next]_vars
  PROVE  Trying'
<1>1. CASE TryRecord
  <2>1. /\ UNCHANGED <<obs, cur, cursor>> /\ pc' = "fire" /\ Admitted /\ Enabled /\ Shaped
        /\ alts' = {[choice |-> c, target |-> Untargeted] : c \in Agreeing(Step)}
    BY <1>1 DEF TryRecord, input, search
  <2>2. Admitted' /\ Enabled' /\ Shaped' /\ Agreeing(Step)' = Agreeing(Step)
    BY <2>1 DEF Admitted, Enabled, Shaped, Agreeing, Step, Rec
  <2> QED  BY <2>1, <2>2 DEF Trying
<1>2. CASE TryTransition
  <2>1. /\ UNCHANGED <<obs, cur, cursor>> /\ pc' = "invent" /\ MissingPlaces(cur.marking, Silent) = {}
        /\ alts' = {[choice |-> c, target |-> g] : c \in Agreeing(Silent), g \in Targets(Silent)}
    BY <1>2 DEF TryTransition, input, search
  <2>2. /\ Silent' = Silent /\ Agreeing(Silent)' = Agreeing(Silent) /\ Targets(Silent)' = Targets(Silent)
    BY <2>1 DEF Silent, Agreeing, Targets, Logged, DanglingEffects, EffectAt
  <2> QED  BY <2>1, <2>2 DEF Trying
<1>3. CASE UNCHANGED <<obs, pc, cur, cursor>> /\ alts' \subseteq alts
  <2>1. pc = "fire" => /\ Admitted' /\ Enabled' /\ Shaped' /\ Agreeing(Step)' = Agreeing(Step)
    BY <1>3 DEF Trying, Admitted, Enabled, Shaped, Agreeing, Step, Rec
  <2>2. /\ Silent' = Silent /\ Agreeing(Silent)' = Agreeing(Silent) /\ Targets(Silent)' = Targets(Silent)
    BY <1>3 DEF Silent, Agreeing, Targets, Logged, DanglingEffects, EffectAt
  <2> QED  BY <1>3, <2>1, <2>2 DEF Trying
<1>4. CASE pc' \notin {"fire", "invent"}
  BY <1>4 DEF Trying
<1>5. Skips \/ Turns => pc' \notin {"fire", "invent"}
  BY Quiet DEF Skips, SkipRecord, UnknownStep, IdentityMismatch, NotEnabled, EffectShapeMismatch
<1>6. Drops \/ UNCHANGED vars => UNCHANGED <<obs, pc, cur, cursor>> /\ alts' \subseteq alts
  BY Quiet DEF input, search, vars
<1>7. FireObserved \/ FireSilent => UNCHANGED <<obs, pc, cur, cursor>> /\ alts' \subseteq alts
  BY DEF FireObserved, FireSilent, Push, input, search
<1>8. RejectEdges \/ Begin \/ PopExhausted \/ PopDiscarded \/ Accept \/ Expand \/ Conclude
        => pc' \notin {"fire", "invent"}
  BY DEF RejectEdges, Begin, PopExhausted, PopDiscarded, Accept, Expand, PopNew, Pop, Conclude
<1> QED  BY <1>1, <1>2, <1>3, <1>4, <1>5, <1>6, <1>7, <1>8, Moves

-----------------------------------------------------------------------------
(* Who performed the steps                                                 *)

(* A step is found again by the name its path keeps of it.                 *)
LEMMA StepNamed ==
  ASSUME Inv, pc = "fire"
  PROVE  /\ Step.id = Rec.step /\ TransitionById(Step.id) = Step
         /\ \E j \in DOMAIN Transitions : Step = Transitions[j]
BY DEF Inv, Control, Known, Step, TransitionById, TransitionIds

LEMMA SilentNamed ==
  ASSUME Inv, pc = "invent"
  PROVE  cursor \in DOMAIN Transitions /\ Silent = Transitions[cursor] /\ TransitionById(Silent.id) = Silent
BY TransitionsAssumption DEF Inv, Control, Silent, TransitionById

(* The path of a successor.                                                *)
LEMMA Longer ==
  ASSUME Inv, NEW x
  PROVE  LET n == Len(cur.path)
         IN  /\ n \in Nat /\ DOMAIN cur.path = 1 .. n
             /\ DOMAIN Append(cur.path, x) = 1 .. (n + 1)
             /\ Append(cur.path, x)[n + 1] = x
             /\ \A k \in 1 .. n : Append(cur.path, x)[k] = cur.path[k]
BY SeqAppend DEF Inv, Live, Good, StateOK

LEMMA FiredAuthorized ==
  ASSUME Inv, Trying, pc = "fire", AuthorizedPath(cur.path), NEW a \in alts, FiredBy(a)
  PROVE  AuthorizedPath(Fired(a).path)
<1> DEFINE step == [transition |-> Step.id, principal |-> Rec.principal,
                    record |-> cursor, bindings |-> Env(a)]
<1>1. Fired(a).path = Append(cur.path, step)
  BY DEF Fired
<1>2. TransitionOf(step) = Step
  BY StepNamed DEF TransitionOf
<1>3. obs.records[step.record].step = Step.id /\ obs.records[step.record].principal \in Step.admits
  BY StepNamed DEF Trying, Admitted, Rec
<1>4. UnattestedVars(Step, step.bindings) = {} /\ GuardHolds(Step, step.bindings)
  BY DEF FiredBy, Evidenced, Guarded
<1>5. Authorized(step)
  BY <1>2, <1>3, <1>4 DEF Authorized
<1> HIDE DEF step
<1> QED  BY <1>1, <1>5, Longer DEF AuthorizedPath

LEMMA InventedAuthorized ==
  ASSUME Inv, pc = "invent", AuthorizedPath(cur.path), NEW a \in alts, InventedBy(a)
  PROVE  AuthorizedPath(Invented(a).path)
<1> DEFINE step == [transition |-> Silent.id, principal |-> Silent.principal,
                    record |-> 0, bindings |-> SilentEnv(a)]
<1>1. Invented(a).path = Append(cur.path, step)
  BY DEF Invented
<1>2. TransitionOf(step) = Silent /\ step.record = 0
  BY SilentNamed DEF TransitionOf
<1>3. UnattestedVars(Silent, step.bindings) = {} /\ GuardHolds(Silent, step.bindings)
  BY DEF InventedBy, SilentAllowed
<1>4. Authorized(step)
  BY <1>2, <1>3 DEF Authorized
<1> HIDE DEF step
<1> QED  BY <1>1, <1>4, Longer DEF AuthorizedPath

-----------------------------------------------------------------------------
(* Matching the effects of a record                                        *)

Extends(env, more) == DOMAIN env \subseteq DOMAIN more /\ \A v \in DOMAIN env : more[v] = env[v]

(* The match leaves no variable of the template open.                      *)
Settled(tpl, effect, env) ==
  Matches(tpl, effect, env) /\ \A k \in VarArgs(tpl) : tpl.args[k].text \in DOMAIN env

KindsKnown(tpl) == \A k \in DOMAIN tpl.args : tpl.args[k].kind \in {"lit", "glob", "var"}

LEMMA ExtendsTransitive ==
  ASSUME NEW e, NEW f, NEW g, Extends(e, f), Extends(f, g)
  PROVE  Extends(e, g)
BY DEF Extends

(* What has been matched stays matched when more is bound.                 *)
LEMMA SettledKept ==
  ASSUME NEW tpl, NEW effect, NEW env, NEW more, KindsKnown(tpl),
         Settled(tpl, effect, env), Extends(env, more)
  PROVE  Settled(tpl, effect, more)
<1>1. ASSUME NEW k \in DOMAIN tpl.args PROVE ArgMatches(tpl.args[k], effect.args[k], more)
  <2>1. ArgMatches(tpl.args[k], effect.args[k], env)
    BY DEF Settled, Matches
  <2>2. CASE tpl.args[k].kind \in {"lit", "glob"}
    BY <2>1, <2>2 DEF ArgMatches
  <2>3. CASE tpl.args[k].kind = "var"
    <3>1. tpl.args[k].text \in DOMAIN env
      BY <2>3 DEF Settled, VarArgs
    <3>2. env[tpl.args[k].text] = effect.args[k]
      BY <2>1, <2>3, <3>1 DEF ArgMatches
    <3>3. more[tpl.args[k].text] = effect.args[k]
      BY <3>1, <3>2 DEF Extends
    <3> QED  BY <2>3, <3>3 DEF ArgMatches
  <2> QED  BY <2>2, <2>3 DEF KindsKnown
<1> QED  BY <1>1 DEF Settled, Matches, Extends

LEMMA UnifiedExtends == \A tpl, effect, env : Extends(env, Unified(tpl, effect, env))
BY DEF Extends, Unified

LEMMA UnifiedSettles ==
  ASSUME NEW tpl, NEW effect, NEW env, KindsKnown(tpl), Matches(tpl, effect, env)
  PROVE  Settled(tpl, effect, Unified(tpl, effect, env))
<1> DEFINE more == Unified(tpl, effect, env)
<1>1. ASSUME NEW k \in VarArgs(tpl) 
      PROVE  tpl.args[k].text \in DOMAIN more /\ more[tpl.args[k].text] = effect.args[k]
  <2> DEFINE v == tpl.args[k].text
             j == CHOOSE i \in VarArgs(tpl) : tpl.args[i].text = v
  <2>1. v \in DOMAIN more
    BY DEF Unified
  <2>2. CASE v \in DOMAIN env
    <3>1. k \in DOMAIN tpl.args /\ tpl.args[k].kind = "var"
      BY DEF VarArgs
    <3>2. env[v] = effect.args[k]
      BY <2>2, <3>1 DEF Matches, ArgMatches
    <3> QED  BY <2>1, <2>2, <3>2 DEF Unified
  <2>3. CASE v \notin DOMAIN env
    <3>1. j \in VarArgs(tpl) /\ tpl.args[j].text = v
      OBVIOUS
    <3>2. effect.args[j] = effect.args[k]
      BY <3>1 DEF Matches
    <3>3. more[v] = effect.args[j]
      BY <2>1, <2>3 DEF Unified
    <3> QED  BY <2>1, <3>2, <3>3
  <2> QED  BY <2>2, <2>3
<1>2. ASSUME NEW k \in DOMAIN tpl.args PROVE ArgMatches(tpl.args[k], effect.args[k], more)
  <2>1. CASE tpl.args[k].kind \in {"lit", "glob"}
    BY <2>1 DEF ArgMatches, Matches
  <2>2. CASE tpl.args[k].kind = "var"
    BY <1>1, <2>2 DEF ArgMatches, VarArgs
  <2> QED  BY <2>1, <2>2 DEF KindsKnown
<1> QED  BY <1>1, <1>2 DEF Settled, Matches

ArgsOf(effects) == UNION {{effects[i].args[k] : k \in DOMAIN effects[i].args} : i \in DOMAIN effects}

(* What a match binds, it reads from the arguments of the effect.          *)
LEMMA UnifiedDraws ==
  ASSUME NEW tpl, NEW effect, NEW env, Matches(tpl, effect, env),
         NEW v \in DOMAIN Unified(tpl, effect, env) \ DOMAIN env
  PROVE  \E k \in DOMAIN effect.args : Unified(tpl, effect, env)[v] = effect.args[k]
<1> DEFINE j == CHOOSE k \in VarArgs(tpl) : tpl.args[k].text = v
<1>1. v \in {tpl.args[k].text : k \in VarArgs(tpl)} /\ v \notin DOMAIN env
  BY DEF Unified
<1>2. j \in VarArgs(tpl)
  BY <1>1
<1>3. j \in DOMAIN effect.args
  BY <1>2 DEF VarArgs, Matches, ArgsPresent
<1>4. Unified(tpl, effect, env)[v] = effect.args[j]
  BY <1>1 DEF Unified
<1> QED  BY <1>3, <1>4

LEMMA BindFreshExtends == \A t, env, fresh : Extends(env, BindFresh(t, env, fresh))
BY DEF Extends, BindFresh

(* Pairing unfolds: each effect takes the next emission of its kind, and   *)
(* no two take the same.                                                   *)
LEMMA PairingSteps ==
  ASSUME NEW effects, NEW emits, Listed(effects), Listed(emits)
  PROVE  LET pair == Pairing(effects, emits)
         IN  /\ \A i \in DOMAIN effects :
                  /\ pair[i] \in Nat \ {0}
                  /\ pair[i] <= Len(emits) => emits[pair[i]].effect = effects[i].kind
             /\ ShapeOk(effects, emits) =>
                  \A i, j \in DOMAIN effects : i < j => pair[i] < pair[j]
<1> DEFINE n == Len(effects)
           stuck == Len(emits) + 1
           Fits(x, i) == {c \in (x + 1) .. Len(emits) : emits[c].effect = effects[i].kind}
           Following(x, i) == IF Fits(x, i) = {} THEN stuck
                              ELSE CHOOSE c \in Fits(x, i) : \A d \in Fits(x, i) : c <= d
           Body(g, i) == IF i = 0 THEN 0 ELSE Following(g[i - 1], i)
           at == CHOOSE g : g = [i \in 0 .. n |-> Body(g, i)]
<1>1. n \in Nat /\ DOMAIN effects = 1 .. n /\ stuck \in Nat \ {0}
  BY DEF Listed
<1>2. ASSUME NEW x \in Nat, NEW i
      PROVE  /\ Following(x, i) \in Nat \ {0}
             /\ Following(x, i) <= Len(emits) => /\ emits[Following(x, i)].effect = effects[i].kind
                                                /\ x < Following(x, i)
  <2>1. CASE Fits(x, i) = {}
    BY <1>1, <2>1 DEF Listed
  <2>2. CASE Fits(x, i) # {}
    <3>1. Fits(x, i) \in SUBSET Nat /\ Fits(x, i) \subseteq (x + 1) .. Len(emits)
      BY DEF Listed
    <3>2. \E c \in Fits(x, i) : \A d \in Fits(x, i) : c <= d
      BY <2>2, <3>1, Least
    <3>3. PICK c \in Fits(x, i) : Following(x, i) = c
      BY <2>2, <3>2
    <3>4. c \in Nat \ {0} /\ emits[c].effect = effects[i].kind /\ x < c
      BY <3>1 DEF Listed
    <3> QED  BY <3>3, <3>4
  <2> QED  BY <2>1, <2>2
<1> HIDE DEF Following, Fits, n, stuck
<1>3. \E g : g = [i \in 0 .. n |-> Body(g, i)]
  <2> DEFINE T == {m \in Nat : \E g : g = [i \in 0 .. m |-> Body(g, i)]}
  <2>1. 0 \in T
    <3> DEFINE g == [i \in 0 .. 0 |-> 0]
    <3>1. g = [i \in 0 .. 0 |-> Body(g, i)]
      OBVIOUS
    <3> QED  BY <3>1
  <2>2. ASSUME NEW m \in T PROVE m + 1 \in T
    <3>1. PICK g : g = [i \in 0 .. m |-> Body(g, i)]
      OBVIOUS
    <3> DEFINE h == [i \in 0 .. (m + 1) |-> IF i = m + 1 THEN Following(g[m], m + 1) ELSE g[i]]
    <3>2. \A i \in 0 .. (m + 1) : h[i] = Body(h, i)
      <4> SUFFICES ASSUME NEW i \in 0 .. (m + 1) PROVE h[i] = Body(h, i)
        OBVIOUS
      <4>1. m \in Nat
        OBVIOUS
      <4>2. CASE i = m + 1
        BY <4>1, <4>2
      <4>3. CASE i \in 0 .. m
        <5>1. h[i] = g[i] /\ g[i] = Body(g, i)
          BY <3>1, <4>1, <4>3
        <5>2. i # 0 => h[i - 1] = g[i - 1]
          BY <4>1, <4>3
        <5> QED  BY <5>1, <5>2
      <4> QED  BY <4>1, <4>2, <4>3
    <3>3. h = [i \in 0 .. (m + 1) |-> Body(h, i)]
      BY <3>2
    <3> HIDE DEF h, Body
    <3>4. \E f : f = [i \in 0 .. (m + 1) |-> Body(f, i)]
      BY <3>3
    <3> QED  BY <3>4
  <2> HIDE DEF T
  <2>3. T \in SUBSET Nat
    BY DEF T
  <2>4. T = Nat
    BY <2>1, <2>2, <2>3, Induction
  <2> QED  BY <1>1, <2>4 DEF T
<1>4. at = [i \in 0 .. n |-> Body(at, i)]
  BY <1>3
<1>5. Pairing(effects, emits) = [i \in DOMAIN effects |-> at[i]]
  BY DEF Pairing, Following, Fits, n, stuck
<1> HIDE DEF at
<1>6. at[0] = 0 /\ \A i \in 1 .. n : at[i] = Following(at[i - 1], i)
  BY <1>1, <1>4
<1> DEFINE T == {m \in Nat : m <= n => at[m] \in Nat}
<1>7. T = Nat
  <2>1. 0 \in T
    BY <1>6
  <2>2. ASSUME NEW m \in T PROVE m + 1 \in T
    <3> SUFFICES ASSUME m + 1 <= n PROVE at[m + 1] \in Nat
      OBVIOUS
    <3>1. at[m] \in Nat
      BY <1>1
    <3>2. at[m + 1] = Following(at[m], m + 1)
      BY <1>1, <1>6
    <3> QED  BY <1>2, <3>1, <3>2
  <2> HIDE DEF T
  <2>3. T \in SUBSET Nat
    BY DEF T
  <2> QED  BY <2>1, <2>2, <2>3, Induction
<1>8. \A i \in 1 .. n : at[i - 1] \in Nat
  BY <1>1, <1>7
<1>9. ASSUME NEW i \in DOMAIN effects
      PROVE  \E x \in Nat : Pairing(effects, emits)[i] = Following(x, i)
  BY <1>1, <1>5, <1>6, <1>8
<1>10. ASSUME ShapeOk(effects, emits)
       PROVE  \A i, j \in DOMAIN effects : i < j => at[i] < at[j]
  <2>1. \A j \in 1 .. n : at[j] \in Nat /\ at[j - 1] < at[j]
    <3> SUFFICES ASSUME NEW j \in 1 .. n PROVE at[j] \in Nat /\ at[j - 1] < at[j]
      OBVIOUS
    <3>1. at[j] = Following(at[j - 1], j) /\ at[j - 1] \in Nat
      BY <1>6, <1>8
    <3>2. at[j] <= Len(emits)
      BY <1>1, <1>5, <1>10 DEF ShapeOk
    <3> QED  BY <1>2, <3>1, <3>2
  <2> DEFINE U == {m \in Nat : m <= n => \A i \in 1 .. (m - 1) : at[i] < at[m]}
  <2>2. 0 \in U
    OBVIOUS
  <2>3. ASSUME NEW m \in U PROVE m + 1 \in U
    <3> SUFFICES ASSUME m + 1 <= n, NEW i \in 1 .. m PROVE at[i] < at[m + 1]
      OBVIOUS
    <3>1. m \in 1 .. n /\ m + 1 \in 1 .. n /\ i \in 1 .. n
      BY <1>1
    <3>2. at[m] < at[m + 1] /\ at[m] \in Nat /\ at[m + 1] \in Nat /\ at[i] \in Nat
      BY <2>1, <3>1
    <3>3. i = m \/ at[i] < at[m]
      BY <3>1
    <3> QED  BY <3>2, <3>3
  <2> HIDE DEF U
  <2>4. U \in SUBSET Nat
    BY DEF U
  <2>5. U = Nat
    BY <2>2, <2>3, <2>4, Induction
  <2> SUFFICES ASSUME NEW i \in DOMAIN effects, NEW j \in DOMAIN effects, i < j PROVE at[i] < at[j]
    OBVIOUS
  <2>6. i \in 1 .. (j - 1) /\ j \in Nat /\ j <= n
    BY <1>1
  <2> QED  BY <2>5, <2>6 DEF U
<1> QED  BY <1>2, <1>5, <1>9, <1>10

(* One step of the fold in MatchPairs.                                     *)
MatchStep(effects, emits, prev, i) ==
  LET tpl == emits[Pairing(effects, emits)[i]]
  IN  IF prev.bad # 0 THEN prev
      ELSE IF Matches(tpl, effects[i], prev.env)
           THEN [env |-> Unified(tpl, effects[i], prev.env), bad |-> 0]
           ELSE [prev EXCEPT !.bad = i]

(* The fold unfolds: one pair after the other.                             *)
LEMMA MatchPairsUnfold ==
  ASSUME NEW effects, NEW emits, NEW env, Listed(effects)
  PROVE  \E after :
           /\ after[0] = [env |-> env, bad |-> 0]
           /\ \A i \in 1 .. Len(effects) : after[i] = MatchStep(effects, emits, after[i - 1], i)
           /\ MatchPairs(effects, emits, env) = after[Len(effects)]
<1> DEFINE n == Len(effects)
           pair == Pairing(effects, emits)
           Bound(prev, i) == [env |-> Unified(emits[pair[i]], effects[i], prev.env), bad |-> 0]
           Following(prev, i) ==
             IF prev.bad # 0 THEN prev
             ELSE IF Matches(emits[pair[i]], effects[i], prev.env) THEN Bound(prev, i)
                  ELSE [prev EXCEPT !.bad = i]
           Body(g, i) == IF i = 0 THEN [env |-> env, bad |-> 0] ELSE Following(g[i - 1], i)
           after == CHOOSE g : g = [i \in 0 .. n |-> Body(g, i)]
<1>1. n \in Nat /\ DOMAIN effects = 1 .. n
  BY DEF Listed
<1>2. \E g : g = [i \in 0 .. n |-> Body(g, i)]
  <2> HIDE DEF n, Following
  <2> DEFINE T == {m \in Nat : \E g : g = [i \in 0 .. m |-> Body(g, i)]}
  <2>1. 0 \in T
    <3> DEFINE g == [i \in 0 .. 0 |-> [env |-> env, bad |-> 0]]
    <3>1. g = [i \in 0 .. 0 |-> Body(g, i)]
      OBVIOUS
    <3> QED  BY <3>1
  <2>2. ASSUME NEW m \in T PROVE m + 1 \in T
    <3>1. PICK g : g = [i \in 0 .. m |-> Body(g, i)]
      OBVIOUS
    <3> DEFINE h == [i \in 0 .. (m + 1) |-> IF i = m + 1 THEN Following(g[m], m + 1) ELSE g[i]]
    <3>2. \A i \in 0 .. (m + 1) : h[i] = Body(h, i)
      <4> SUFFICES ASSUME NEW i \in 0 .. (m + 1) PROVE h[i] = Body(h, i)
        OBVIOUS
      <4>1. m \in Nat
        OBVIOUS
      <4>2. CASE i = m + 1
        BY <4>1, <4>2
      <4>3. CASE i \in 0 .. m
        <5>1. h[i] = g[i] /\ g[i] = Body(g, i)
          BY <3>1, <4>1, <4>3
        <5>2. i # 0 => h[i - 1] = g[i - 1]
          BY <4>1, <4>3
        <5> QED  BY <5>1, <5>2
      <4> QED  BY <4>1, <4>2, <4>3
    <3>3. h = [i \in 0 .. (m + 1) |-> Body(h, i)]
      BY <3>2
    <3> HIDE DEF h, Body
    <3>4. \E f : f = [i \in 0 .. (m + 1) |-> Body(f, i)]
      BY <3>3
    <3> QED  BY <3>4
  <2> HIDE DEF T
  <2>3. T \in SUBSET Nat
    BY DEF T
  <2>4. T = Nat
    BY <2>1, <2>2, <2>3, Induction
  <2> QED  BY <1>1, <2>4 DEF T
<1>3. after = [i \in 0 .. n |-> Body(after, i)]
  BY <1>2
<1>4. MatchPairs(effects, emits, env) = after[n]
  BY DEF MatchPairs
<1>5. \A prev, i : Following(prev, i) = MatchStep(effects, emits, prev, i)
  BY DEF MatchStep
<1> HIDE DEF after, Following, n
<1>6. after[0] = [env |-> env, bad |-> 0] /\ \A i \in 1 .. n : after[i] = Following(after[i - 1], i)
  BY <1>1, <1>3
<1> QED  BY <1>4, <1>5, <1>6 DEF n

(* When every pair has matched, the environment at the end settles every   *)
(* effect, whatever order the variables were bound in.                     *)
LEMMA MatchPairsSettle ==
  ASSUME NEW effects, NEW emits, NEW env, Listed(effects), Listed(emits),
         ShapeOk(effects, emits), \A j \in DOMAIN emits : KindsKnown(emits[j]),
         MatchPairs(effects, emits, env).bad = 0
  PROVE  LET m == MatchPairs(effects, emits, env)
         IN  /\ Extends(env, m.env)
             /\ \A v \in DOMAIN m.env \ DOMAIN env : m.env[v] \in ArgsOf(effects)
             /\ \A i \in DOMAIN effects :
                  /\ Pairing(effects, emits)[i] \in DOMAIN emits
                  /\ Settled(emits[Pairing(effects, emits)[i]], effects[i], m.env)
<1> DEFINE n == Len(effects)
           pair == Pairing(effects, emits)
<1>1. n \in Nat /\ DOMAIN effects = 1 .. n
  BY DEF Listed
<1>2. \A i \in 1 .. n : pair[i] \in DOMAIN emits
  BY <1>1, PairingSteps DEF ShapeOk, Listed
<1>3. PICK after :
        /\ after[0] = [env |-> env, bad |-> 0]
        /\ \A i \in 1 .. n : after[i] = MatchStep(effects, emits, after[i - 1], i)
        /\ MatchPairs(effects, emits, env) = after[n]
  BY MatchPairsUnfold
<1> HIDE DEF pair, n
<1> DEFINE Done(m) ==
             /\ Extends(env, after[m].env)
             /\ \A v \in DOMAIN after[m].env \ DOMAIN env : after[m].env[v] \in ArgsOf(effects)
             /\ \A i \in 1 .. m : Settled(emits[pair[i]], effects[i], after[m].env)
           T == {m \in Nat : m <= n => /\ after[m] = [env |-> after[m].env, bad |-> after[m].bad]
                                       /\ after[m].bad = 0 => Done(m)}
<1>4. T = Nat
  <2>1. 0 \in T
    BY <1>3 DEF Extends
  <2>2. ASSUME NEW m \in T PROVE m + 1 \in T
    <3> DEFINE prev == after[m]
               tpl == emits[pair[m + 1]]
    <3>1. m \in Nat
      OBVIOUS
    <3> SUFFICES ASSUME m + 1 <= n
                 PROVE  /\ after[m + 1] = [env |-> after[m + 1].env, bad |-> after[m + 1].bad]
                        /\ after[m + 1].bad = 0 => Done(m + 1)
      BY <3>1
    <3>2. /\ prev = [env |-> prev.env, bad |-> prev.bad]
          /\ prev.bad = 0 => Done(m)
      BY <1>1, <3>1
    <3>3. after[m + 1] = MatchStep(effects, emits, prev, m + 1) /\ pair[m + 1] \in DOMAIN emits
      BY <1>1, <1>2, <1>3, <3>1
    <3> HIDE DEF prev
    <3>4. CASE prev.bad # 0
      BY <3>2, <3>3, <3>4 DEF MatchStep, pair
    <3>5. CASE prev.bad = 0 /\ ~ Matches(tpl, effects[m + 1], prev.env)
      <4>1. after[m + 1] = [prev EXCEPT !.bad = m + 1]
        BY <3>3, <3>5 DEF MatchStep, pair
      <4>2. after[m + 1] = [env |-> prev.env, bad |-> m + 1] /\ m + 1 # 0
        BY <3>1, <3>2, <4>1
      <4> QED  BY <4>2
    <3>6. CASE prev.bad = 0 /\ Matches(tpl, effects[m + 1], prev.env)
      <4> DEFINE more == Unified(tpl, effects[m + 1], prev.env)
      <4>1. after[m + 1] = [env |-> more, bad |-> 0]
        BY <3>3, <3>6 DEF MatchStep, pair
      <4>2. Extends(prev.env, more)
        BY UnifiedExtends
      <4>3. Settled(tpl, effects[m + 1], more)
        BY <3>3, <3>6, UnifiedSettles
      <4>4. ASSUME NEW v \in DOMAIN more \ DOMAIN env PROVE more[v] \in ArgsOf(effects)
        <5>1. CASE v \in DOMAIN prev.env
          BY <3>2, <3>6, <4>2, <5>1 DEF prev, Extends
        <5>2. CASE v \notin DOMAIN prev.env
          <6>1. \E k \in DOMAIN effects[m + 1].args : more[v] = effects[m + 1].args[k]
            BY <3>6, <5>2, UnifiedDraws
          <6>2. m + 1 \in DOMAIN effects
            BY <1>1, <3>1
          <6> QED  BY <6>1, <6>2 DEF ArgsOf
        <5> QED  BY <5>1, <5>2
      <4> HIDE DEF more
      <4>5. Extends(env, more)
        BY <3>2, <3>6, <4>2, ExtendsTransitive DEF prev
      <4>6. ASSUME NEW i \in 1 .. m PROVE Settled(emits[pair[i]], effects[i], more)
        <5>1. pair[i] \in DOMAIN emits
          BY <1>1, <1>2, <3>1
        <5>2. Settled(emits[pair[i]], effects[i], prev.env)
          BY <3>2, <3>6 DEF prev
        <5> QED  BY <4>2, <5>1, <5>2, SettledKept
      <4>7. \A i \in 1 .. (m + 1) : i \in 1 .. m \/ i = m + 1
        BY <3>1
      <4> QED  BY <4>1, <4>3, <4>4, <4>5, <4>6, <4>7
    <3> QED  BY <3>4, <3>5, <3>6
  <2> HIDE DEF T
  <2>3. T \in SUBSET Nat
    BY DEF T
  <2> QED  BY <2>1, <2>2, <2>3, Induction
<1>5. Done(n)
  <2> HIDE DEF Done, T
  <2>1. n \in T /\ n <= n
    BY <1>1, <1>4
  <2> QED  BY <1>3, <2>1 DEF T
<1> QED  BY <1>1, <1>2, <1>3, <1>5 DEF pair, n

-----------------------------------------------------------------------------
(* Which effects the steps account for                                     *)

(* What EffectsRealized asks of one step and one effect.                   *)
Realizes(path, k, e) ==
  /\ Accounts(path[k], e)
  /\ \E i \in DOMAIN TransitionOf(path[k]).emits :
       LET tpl == TransitionOf(path[k]).emits[i]
       IN  /\ tpl.effect = e.kind
           /\ \A j \in DOMAIN tpl.requires : \E edge \in obs.edges :
                \E l \in 1 .. (k - 1) : \E target \in EffectNamed(obs, edge.to) :
                  /\ Accounts(path[l], target)
                  /\ Discharges(obs, edge, tpl.requires[j], e.id, path[k].bindings, {target.id})

(* Every effect a search state counts as matched is realized on its path.  *)
RealizedIn(path, matched) ==
  \A e \in Effects(obs) : e.id \in matched => \E k \in DOMAIN path : Realizes(path, k, e)

NamedOnce == \A e, f \in Effects(obs) : e.id = f.id => e = f

(* An obligation that an effect discharges which the path has realized.    *)
LEMMA Owed ==
  ASSUME NEW path, NEW matched, RealizedIn(path, matched), Len(path) \in Nat,
         DOMAIN path = 1 .. Len(path),
         NEW edge \in obs.edges, NEW ob, NEW id, NEW env, Discharges(obs, edge, ob, id, env, matched)
  PROVE  \E l \in 1 .. Len(path) : \E target \in EffectNamed(obs, edge.to) :
           /\ Accounts(path[l], target)
           /\ Discharges(obs, edge, ob, id, env, {target.id})
<1>1. PICK target \in EffectNamed(obs, edge.to) :
        /\ target.kind = ob.target
        /\ target.id \in matched
        /\ \A k \in DOMAIN ob.bind :
             k \in DOMAIN target.args /\ SideValue(ob.bind[k], env) = {target.args[k]}
  BY DEF Discharges
<1>2. target \in Effects(obs)
  BY DEF EffectNamed
<1>3. PICK l \in DOMAIN path : Realizes(path, l, target)
  BY <1>1, <1>2 DEF RealizedIn
<1>4. Accounts(path[l], target)
  BY <1>3 DEF Realizes
<1>5. Discharges(obs, edge, ob, id, env, {target.id})
  BY <1>1 DEF Discharges
<1> QED  BY <1>4, <1>5

(* check_obligations() returns nothing only when nothing is open.          *)
LEMMA NothingOpen ==
  ASSUME NEW t, NEW tpl, NEW id, NEW env, NEW matched, Listed(tpl.requires),
         Unmet(obs, t, tpl, id, env, matched) = {}
  PROVE  \A j \in DOMAIN tpl.requires : \E edge \in obs.edges :
           Discharges(obs, edge, tpl.requires[j], id, env, matched)
<1> DEFINE open == UnmetIndices(obs, tpl, id, env, matched)
<1>1. open \in SUBSET Nat
  BY ListedFinite DEF UnmetIndices
<1>2. open = {}
  <2> SUFFICES ASSUME open # {} PROVE FALSE
    OBVIOUS
  <2>1. PICK j \in open : \A k \in open : j <= k
    BY <1>1, Least
  <2>2. ObligationFailure(t, tpl.requires[j], id) \in Unmet(obs, t, tpl, id, env, matched)
    BY <2>1 DEF Unmet
  <2> QED  BY <2>2
<1> QED  BY <1>2 DEF UnmetIndices

(* The step fired for a record leaves no obligation of any of its effects. *)
LEMMA AllDischarged ==
  ASSUME Listed(Rec.effects), NEW a, UnmetOf(a) = {}, NEW i \in DOMAIN Rec.effects
  PROVE  Unmet(obs, Step, Step.emits[Pairing(Rec.effects, Step.emits)[i]], Rec.effects[i].id,
               Env(a), cur.matched) = {}
<1> DEFINE open(j) == Unmet(obs, Step, Step.emits[Pairing(Rec.effects, Step.emits)[j]],
                            Rec.effects[j].id, Env(a), cur.matched)
           T == {j \in DOMAIN Rec.effects : open(j) # {}}
<1>1. UnmetOf(a) = UNION {open(j) : j \in {k \in DOMAIN Rec.effects :
                                             \A l \in 1 .. (k - 1) : open(l) = {}}}
  BY DEF UnmetOf
<1>2. DOMAIN Rec.effects \in SUBSET Nat /\ DOMAIN Rec.effects = 1 .. Len(Rec.effects)
      /\ Len(Rec.effects) \in Nat
  BY ListedFinite DEF Listed
<1> HIDE DEF open
<1>3. T = {}
  <2> SUFFICES ASSUME T # {} PROVE FALSE
    OBVIOUS
  <2>1. T \in SUBSET Nat
    BY <1>2
  <2>2. PICK j \in T : \A k \in T : j <= k
    BY <2>1, Least
  <2>3. \A l \in 1 .. (j - 1) : l \in DOMAIN Rec.effects /\ ~ (j <= l)
    BY <1>2
  <2>4. \A l \in 1 .. (j - 1) : open(l) = {}
    BY <2>2, <2>3
  <2>5. open(j) \subseteq UnmetOf(a)
    BY <1>1, <2>4
  <2> QED  BY <2>5
<1>4. open(i) = {}
  BY <1>3
<1> QED  BY <1>4 DEF open

(* A path keeps realizing what it realizes when it grows.                  *)
LEMMA RealizedKept ==
  ASSUME Inv, NEW x, NEW k \in DOMAIN cur.path, NEW e, Realizes(cur.path, k, e)
  PROVE  k \in DOMAIN Append(cur.path, x) /\ Realizes(Append(cur.path, x), k, e)
<1> DEFINE n == Len(cur.path)
           p == Append(cur.path, x)
<1>1. n \in Nat /\ k \in 1 .. n /\ DOMAIN p = 1 .. (n + 1) /\ \A l \in 1 .. n : p[l] = cur.path[l]
  BY Longer
<1>2. p[k] = cur.path[k] /\ \A l \in 1 .. (k - 1) : p[l] = cur.path[l]
  BY <1>1
<1> HIDE DEF p
<1>3. Realizes(p, k, e)
  BY <1>2 DEF Realizes
<1> QED  BY <1>1, <1>3 DEF p

(* A new step realizes an effect it matches and owes nothing for.          *)
LEMMA RealizedNow ==
  ASSUME Inv, RealizedIn(cur.path, cur.matched), NEW x, NEW e,
         x.record # 0 => e \in EffectsIn(obs, {x.record}),
         x.record = 0 => e \in EffectsIn(obs, DanglingRecords(obs)),
         NEW i \in DOMAIN TransitionOf(x).emits,
         Matches(TransitionOf(x).emits[i], e, x.bindings),
         \A j \in DOMAIN TransitionOf(x).emits[i].requires : \E edge \in obs.edges :
           Discharges(obs, edge, TransitionOf(x).emits[i].requires[j], e.id, x.bindings, cur.matched)
  PROVE  LET p == Append(cur.path, x)
         IN  Len(cur.path) + 1 \in DOMAIN p /\ Realizes(p, Len(cur.path) + 1, e)
<1> DEFINE n == Len(cur.path)
           p == Append(cur.path, x)
           tpl == TransitionOf(x).emits[i]
<1>1. /\ n \in Nat /\ DOMAIN cur.path = 1 .. n
      /\ DOMAIN p = 1 .. (n + 1) /\ p[n + 1] = x /\ \A l \in 1 .. n : p[l] = cur.path[l]
  BY Longer
<1>2. Accounts(x, e) /\ tpl.effect = e.kind
  BY DEF Accounts, Matches, ArgsPresent
<1>3. ASSUME NEW j \in DOMAIN tpl.requires
      PROVE  \E edge \in obs.edges : \E l \in 1 .. n : \E target \in EffectNamed(obs, edge.to) :
               /\ Accounts(p[l], target)
               /\ Discharges(obs, edge, tpl.requires[j], e.id, x.bindings, {target.id})
  <2>1. PICK edge \in obs.edges :
          Discharges(obs, edge, tpl.requires[j], e.id, x.bindings, cur.matched)
    OBVIOUS
  <2>2. \E l \in 1 .. n : \E target \in EffectNamed(obs, edge.to) :
          /\ Accounts(cur.path[l], target)
          /\ Discharges(obs, edge, tpl.requires[j], e.id, x.bindings, {target.id})
    BY <1>1, <2>1, Owed
  <2> QED  BY <1>1, <2>2
<1>4. (n + 1) - 1 = n /\ n + 1 \in DOMAIN p
  BY <1>1
<1> HIDE DEF p, n
<1>5. Realizes(p, n + 1, e)
  BY <1>1, <1>2, <1>3, <1>4 DEF Realizes
<1> QED  BY <1>4, <1>5 DEF p, n

LEMMA FiredRealizes ==
  ASSUME Inv, Trying, pc = "fire", NamedOnce, RealizedIn(cur.path, cur.matched),
         NEW a \in alts, FiredBy(a)
  PROVE  RealizedIn(Fired(a).path, Fired(a).matched)
<1> DEFINE step == [transition |-> Step.id, principal |-> Rec.principal,
                    record |-> cursor, bindings |-> Env(a)]
           pair == Pairing(Rec.effects, Step.emits)
<1>1. Fired(a).path = Append(cur.path, step) /\ Fired(a).matched = cur.matched \cup IdsOfRecord(obs, cursor)
  BY DEF Fired
<1>2. /\ TransitionOf(step) = Step /\ step.record = cursor /\ step.bindings = Env(a)
      /\ cursor \in StepRecords(obs) /\ cursor \in Records(obs) /\ cursor # 0
  BY StepNamed, RecordsFinite DEF TransitionOf, Inv, Control, StepRecords
<1>3. Listed(Rec.effects) /\ Rec = obs.records[cursor]
  BY <1>2, ObservationsAssumption DEF Inv, Inputs, Rec
<1>4. /\ Listed(Step.emits)
      /\ \A j \in DOMAIN Step.emits : KindsKnown(Step.emits[j]) /\ Listed(Step.emits[j].requires)
  BY StepNamed, TransitionsAssumption DEF KindsKnown
<1>5. ShapeOk(Rec.effects, Step.emits)
  BY DEF Trying, Shaped
<1>6. Match(a).bad = 0 /\ Match(a) = MatchPairs(Rec.effects, Step.emits, MergedEnv(a.choice))
  BY DEF FiredBy, Unifies, Match
<1>7. \A i \in DOMAIN Rec.effects :
        pair[i] \in DOMAIN Step.emits /\ Settled(Step.emits[pair[i]], Rec.effects[i], Match(a).env)
  BY <1>3, <1>4, <1>5, <1>6, MatchPairsSettle
<1> HIDE DEF step, pair
<1>8. ASSUME NEW i \in DOMAIN Rec.effects
      PROVE  \E k \in DOMAIN Append(cur.path, step) : Realizes(Append(cur.path, step), k, Rec.effects[i])
  <2> DEFINE tpl == Step.emits[pair[i]]
             e == Rec.effects[i]
  <2>1. Settled(tpl, e, Env(a))
    BY <1>4, <1>7, BindFreshExtends, SettledKept DEF Env
  <2>2. \A j \in DOMAIN tpl.requires : \E edge \in obs.edges :
          Discharges(obs, edge, tpl.requires[j], e.id, Env(a), cur.matched)
    BY <1>3, <1>4, <1>7, AllDischarged, NothingOpen DEF FiredBy, pair
  <2>3. e \in EffectsIn(obs, {cursor})
    BY <1>3 DEF EffectsIn
  <2>4. Matches(tpl, e, Env(a)) /\ pair[i] \in DOMAIN TransitionOf(step).emits
    BY <1>2, <1>7, <2>1 DEF Settled
  <2> HIDE DEF e
  <2> QED  BY <1>2, <2>2, <2>3, <2>4, RealizedNow DEF e
<1>9. ASSUME NEW e \in Effects(obs), e.id \in Fired(a).matched
      PROVE  \E k \in DOMAIN Append(cur.path, step) : Realizes(Append(cur.path, step), k, e)
  <2>1. CASE e.id \in cur.matched
    BY <2>1, RealizedKept DEF RealizedIn
  <2>2. CASE e.id \in IdsOfRecord(obs, cursor)
    <3>1. PICK i \in DOMAIN Rec.effects : e.id = Rec.effects[i].id
      BY <1>3, <2>2 DEF IdsOfRecord, EffectsIn
    <3>2. Rec.effects[i] \in Effects(obs)
      BY <1>2, <1>3 DEF Effects, EffectsIn
    <3>3. e = Rec.effects[i]
      BY <3>1, <3>2 DEF NamedOnce
    <3> QED  BY <1>8, <3>3
  <2> QED  BY <1>1, <1>9, <2>1, <2>2
<1> QED  BY <1>1, <1>9 DEF RealizedIn

LEMMA InventedRealizes ==
  ASSUME Inv, Trying, pc = "invent", NamedOnce, RealizedIn(cur.path, cur.matched),
         NEW a \in alts, InventedBy(a)
  PROVE  RealizedIn(Invented(a).path, Invented(a).matched)
<1> DEFINE step == [transition |-> Silent.id, principal |-> Silent.principal,
                    record |-> 0, bindings |-> SilentEnv(a)]
           g == EffectAt(a.target)
<1>1. /\ Invented(a).path = Append(cur.path, step)
      /\ Invented(a).matched = IF Targeted(a) THEN cur.matched \cup {g.id} ELSE cur.matched
  BY DEF Invented
<1>2. TransitionOf(step) = Silent /\ step.record = 0 /\ step.bindings = SilentEnv(a)
  BY SilentNamed DEF TransitionOf
<1>3. /\ Listed(Silent.emits)
      /\ \A j \in DOMAIN Silent.emits : KindsKnown(Silent.emits[j]) /\ Listed(Silent.emits[j].requires)
  BY SilentNamed, TransitionsAssumption DEF KindsKnown
<1> HIDE DEF step
<1>4. ASSUME Targeted(a)
      PROVE  /\ g \in Effects(obs)
             /\ \E k \in DOMAIN Append(cur.path, step) : Realizes(Append(cur.path, step), k, g)
  <2> DEFINE tpl == Silent.emits[1]
  <2>1. a.target \in DanglingEffects /\ Len(Silent.emits) = 1
    BY <1>4 DEF Trying, Targets, Targeted
  <2>2. 1 \in DOMAIN Silent.emits
    BY <1>3, <2>1 DEF Listed
  <2>3. PICK r \in DanglingRecords(obs) : g \in EffectsIn(obs, {r})
    <3>1. PICK r \in DanglingRecords(obs) :
            \E p \in DOMAIN obs.records[r].effects : a.target = <<r, p>>
      BY <2>1 DEF DanglingEffects
    <3>2. PICK p \in DOMAIN obs.records[r].effects : a.target = <<r, p>>
      BY <3>1
    <3>3. g = obs.records[r].effects[p]
      BY <3>2 DEF EffectAt
    <3> QED  BY <3>3 DEF EffectsIn
  <2>4. g \in EffectsIn(obs, DanglingRecords(obs)) /\ g \in Effects(obs)
    BY <2>3 DEF EffectsIn, Effects, DanglingRecords
  <2>5. Settled(tpl, g, SilentEnv(a))
    <3>1. Matches(tpl, g, Base(a)) /\ SilentMatch(a) = Unified(tpl, g, Base(a))
      BY <1>4 DEF InventedBy, SilentUnifies, SilentMatch
    <3>2. Settled(tpl, g, SilentMatch(a))
      BY <1>3, <2>2, <3>1, UnifiedSettles
    <3> QED  BY <1>3, <2>2, <3>2, BindFreshExtends, SettledKept DEF SilentEnv
  <2>6. Unmet(obs, Silent, tpl, g.id, SilentEnv(a), cur.matched) = {}
    BY <1>4 DEF InventedBy, SilentUnmet
  <2>7. \A j \in DOMAIN tpl.requires : \E edge \in obs.edges :
          Discharges(obs, edge, tpl.requires[j], g.id, SilentEnv(a), cur.matched)
    BY <1>3, <2>2, <2>6, NothingOpen
  <2>8. Matches(tpl, g, SilentEnv(a)) /\ 1 \in DOMAIN TransitionOf(step).emits
    BY <1>2, <2>2, <2>5 DEF Settled
  <2> HIDE DEF g
  <2> QED  BY <1>2, <2>4, <2>7, <2>8, RealizedNow
<1> HIDE DEF g
<1>5. ASSUME NEW e \in Effects(obs), e.id \in Invented(a).matched
      PROVE  \E k \in DOMAIN Append(cur.path, step) : Realizes(Append(cur.path, step), k, e)
  <2>1. CASE e.id \in cur.matched
    BY <2>1, RealizedKept DEF RealizedIn
  <2>2. CASE Targeted(a) /\ e.id = g.id
    BY <1>4, <2>2 DEF NamedOnce
  <2> QED  BY <1>1, <1>5, <2>1, <2>2
<1> QED  BY <1>1, <1>5 DEF RealizedIn

-----------------------------------------------------------------------------
(* Where the tokens went                                                   *)

(* Counting the members of a set of distinct values.                       *)
LEMMA SameCount ==
  ASSUME NEW S, IsFiniteSet(S), NEW f, \A x, y \in S : f[x] = f[y] => x = y,
         NEW T, T = {f[x] : x \in S}
  PROVE  IsFiniteSet(T) /\ Cardinality(T) = Cardinality(S)
<1> DEFINE g == [x \in S |-> f[x]]
<1>1. g \in Surjection(S, T)
  BY DEF Surjection
<1>2. g \in Injection(S, T)
  BY <1>1 DEF Surjection, Injection, IsInjective
<1> HIDE DEF g
<1> QED  BY <1>1, <1>2, FS_Surjection

(* The pairs <<j, x>> with x in the j-th of the first k sets of a sequence. *)
Pairs(S, k) == UNION {{j} \X S[j] : j \in 1 .. k}

LEMMA PairsCount ==
  ASSUME NEW k \in Nat, NEW S, IsFiniteSet(S[k + 1]), IsFiniteSet(Pairs(S, k))
  PROVE  /\ IsFiniteSet(Pairs(S, k + 1))
         /\ Cardinality(Pairs(S, k + 1)) = Cardinality(Pairs(S, k)) + Cardinality(S[k + 1])
         /\ Cardinality(Pairs(S, k)) \in Nat /\ Cardinality(S[k + 1]) \in Nat
<1> DEFINE U(i) == Pairs(S, i)
           new == {k + 1} \X S[k + 1]
<1>1. U(k + 1) = U(k) \cup new
  <2>1. \A j \in 1 .. (k + 1) : j \in 1 .. k \/ j = k + 1
    OBVIOUS
  <2> QED  BY <2>1 DEF Pairs
<1>2. U(k) \cap new = {}
  <2>1. \A x \in U(k) : x[1] \in 1 .. k
    BY DEF Pairs
  <2>2. \A x \in new : x[1] \notin 1 .. k
    OBVIOUS
  <2> QED  BY <2>1, <2>2
<1>3. IsFiniteSet(new) /\ Cardinality(new) = Cardinality(S[k + 1])
  <2>1. [x \in S[k + 1] |-> <<k + 1, x>>] \in Surjection(S[k + 1], new)
    BY DEF Surjection
  <2>2. [x \in S[k + 1] |-> <<k + 1, x>>] \in Injection(S[k + 1], new)
    BY DEF Injection, IsInjective
  <2> HIDE DEF new
  <2> QED  BY <2>1, <2>2, FS_Surjection
<1> HIDE DEF U, new
<1>4. IsFiniteSet(U(k))
  BY DEF U
<1>5. Cardinality(U(k)) \in Nat /\ Cardinality(new) \in Nat /\ Cardinality(U(k) \cap new) = 0
  BY <1>2, <1>3, <1>4, FS_CardinalityType, FS_EmptySet
<1>6. IsFiniteSet(U(k + 1)) /\ Cardinality(U(k + 1)) = Cardinality(U(k)) + Cardinality(new)
  <2>1. /\ IsFiniteSet(U(k) \cup new)
        /\ Cardinality(U(k) \cup new) = Cardinality(U(k)) + Cardinality(new) - Cardinality(U(k) \cap new)
    BY <1>3, <1>4, FS_Union
  <2>2. /\ IsFiniteSet(U(k + 1))
        /\ Cardinality(U(k + 1)) = Cardinality(U(k)) + Cardinality(new) - Cardinality(U(k) \cap new)
    BY <1>1, <2>1, Zenon
  <2> QED  BY <1>5, <2>2
<1> QED  BY <1>3, <1>5, <1>6 DEF U

(* A firing takes one token per input arc out of a place and puts one per  *)
(* output arc into it.                                                     *)
LEMMA FireCount ==
  ASSUME NEW m, NEW d \in Nat, MarkingOK(m, d), NEW i \in DOMAIN Transitions,
         NEW c \in AllChoices(m, Transitions[i]), NEW env, NEW p \in Places, IsFiniteSet(m[p])
  PROVE  LET t == Transitions[i]
             n == Fire(m, t, c, env, d + 1)
             taken == Cardinality(SlotsOf(t.consumes, p))
             made  == Cardinality(SlotsOf(t.produces, p))
         IN  /\ IsFiniteSet(SlotsOf(t.consumes, p)) /\ IsFiniteSet(SlotsOf(t.produces, p))
             /\ taken \in Nat /\ made \in Nat /\ Cardinality(m[p]) \in Nat
             /\ IsFiniteSet(n[p])
             /\ taken <= Cardinality(m[p])
             /\ Cardinality(n[p]) + taken = Cardinality(m[p]) + made
<1> DEFINE t == Transitions[i]
           n == Fire(m, t, c, env, d + 1)
           in == SlotsOf(t.consumes, p)
           out == SlotsOf(t.produces, p)
           here == {c[s] : s \in in}
           born == [s \in out |-> [born |-> <<d + 1, s>>, env |-> Carried(env, p)]]
           new == {born[s] : s \in out}
<1>1. IsFiniteSet(in) /\ IsFiniteSet(out) /\ in \subseteq DOMAIN t.consumes
  <2>1. IsFiniteSet(DOMAIN t.consumes) /\ IsFiniteSet(DOMAIN t.produces)
    BY TransitionsAssumption, ListedFinite
  <2> QED  BY <2>1, FS_Subset DEF SlotsOf
<1>2. /\ DOMAIN c = DOMAIN t.consumes
      /\ \A s \in DOMAIN t.consumes : c[s] \in m[t.consumes[s]] /\ t.consumes[s] \in Places
      /\ \A s, r \in DOMAIN t.consumes : c[s] = c[r] => s = r
  BY TransitionsAssumption DEF AllChoices
<1> HIDE DEF t
<1>3. here \subseteq m[p] /\ \A s \in DOMAIN c : c[s] \in m[p] => c[s] \in here
  BY <1>2 DEF MarkingOK, SlotsOf
<1>4. n[p] = (m[p] \ here) \cup new
  <2>1. n[p] = (m[p] \ {c[s] : s \in DOMAIN c}) \cup new
    BY DEF Fire, SlotsOf
  <2>2. m[p] \ {c[s] : s \in DOMAIN c} = m[p] \ here
    BY <1>1, <1>2, <1>3
  <2> QED  BY <2>1, <2>2
<1>5. IsFiniteSet(here) /\ Cardinality(here) = Cardinality(in)
  BY <1>1, <1>2, SameCount
<1>6. IsFiniteSet(new) /\ Cardinality(new) = Cardinality(out)
  <2>1. \A s, r \in out : born[s] = born[r] => s = r
    OBVIOUS
  <2> HIDE DEF born
  <2> QED  BY <1>1, <2>1, SameCount
<1>7. m[p] \cap new = {}
  <2>1. \A tk \in m[p] : tk.born[1] <= d /\ tk.born[1] \in Nat
    BY DEF MarkingOK
  <2>2. \A tk \in new : tk.born[1] = d + 1
    OBVIOUS
  <2> QED  BY <2>1, <2>2
<1> HIDE DEF in, out, here, new, n
<1>8. /\ Cardinality(in) \in Nat /\ Cardinality(out) \in Nat /\ Cardinality(m[p]) \in Nat
      /\ Cardinality(in) <= Cardinality(m[p])
  BY <1>1, <1>3, <1>5, FS_CardinalityType, FS_Subset
<1>9. /\ IsFiniteSet(m[p] \ here)
      /\ Cardinality(m[p] \ here) = Cardinality(m[p]) - Cardinality(in)
  <2>1. m[p] \cap here = here
    BY <1>3
  <2>2. /\ IsFiniteSet(m[p] \ here)
        /\ Cardinality(m[p] \ here) = Cardinality(m[p]) - Cardinality(m[p] \cap here)
    BY FS_Difference
  <2> QED  BY <1>5, <2>1, <2>2
<1>10. IsFiniteSet(n[p]) /\ Cardinality(n[p]) = Cardinality(m[p] \ here) + Cardinality(new)
  <2>1. (m[p] \ here) \cap new = {}
    BY <1>7
  <2>2. Cardinality((m[p] \ here) \cap new) = 0
    BY <2>1, FS_EmptySet
  <2>3. Cardinality(m[p] \ here) \in Nat /\ Cardinality(new) \in Nat
    BY <1>6, <1>9, FS_CardinalityType
  <2>4. /\ IsFiniteSet((m[p] \ here) \cup new)
        /\ Cardinality((m[p] \ here) \cup new)
             = Cardinality(m[p] \ here) + Cardinality(new) - Cardinality((m[p] \ here) \cap new)
    BY <1>6, <1>9, FS_Union
  <2> QED  BY <1>4, <2>2, <2>3, <2>4
<1> QED  BY <1>1, <1>6, <1>8, <1>9, <1>10 DEF in, out, n, t

TakenPairs(path, k, p) == UNION {{j} \X SlotsOf(TransitionOf(path[j]).consumes, p) : j \in 1 .. k}

MadePairs(path, k, p) == UNION {{j} \X SlotsOf(TransitionOf(path[j]).produces, p) : j \in 1 .. k}

(* The counters of a replay after every step, whatever the step consumes.  *)
Balanced(s) ==
  \A p \in Places :
    /\ \A k \in DOMAIN s.path :
         Taken(s.path, k, p) <= Cardinality(Initial[p]) + Made(s.path, k - 1, p)
    /\ Cardinality(Initial[p]) + Made(s.path, Len(s.path), p)
         = Taken(s.path, Len(s.path), p) + Cardinality(s.marking[p])

(* The replay with counters, and that there is something to count.         *)
Replayed(s) ==
  /\ Balanced(s)
  /\ \A p \in Places : /\ IsFiniteSet(s.marking[p])
                       /\ IsFiniteSet(TakenPairs(s.path, Len(s.path), p))
                       /\ IsFiniteSet(MadePairs(s.path, Len(s.path), p))

(* What a path takes and makes up to a step of it does not change when it  *)
(* grows, and its new step adds the arcs of its transition.                *)
LEMMA CountsGrow ==
  ASSUME Inv, NEW i \in DOMAIN Transitions, NEW x, TransitionOf(x) = Transitions[i], NEW p \in Places,
         IsFiniteSet(TakenPairs(cur.path, Len(cur.path), p)),
         IsFiniteSet(MadePairs(cur.path, Len(cur.path), p))
  PROVE  LET k == Len(cur.path)
             q == Append(cur.path, x)
             taken == SlotsOf(Transitions[i].consumes, p)
             made == SlotsOf(Transitions[i].produces, p)
         IN  /\ \A j \in 0 .. k : Taken(q, j, p) = Taken(cur.path, j, p) /\ Made(q, j, p) = Made(cur.path, j, p)
             /\ IsFiniteSet(TakenPairs(q, k + 1, p)) /\ IsFiniteSet(MadePairs(q, k + 1, p))
             /\ Taken(q, k + 1, p) = Taken(cur.path, k, p) + Cardinality(taken)
             /\ Made(q, k + 1, p) = Made(cur.path, k, p) + Cardinality(made)
             /\ Taken(cur.path, k, p) \in Nat /\ Made(cur.path, k, p) \in Nat
<1> DEFINE k == Len(cur.path)
           q == Append(cur.path, x)
           T == [j \in 1 .. (k + 1) |-> SlotsOf(TransitionOf(q[j]).consumes, p)]
           M == [j \in 1 .. (k + 1) |-> SlotsOf(TransitionOf(q[j]).produces, p)]
           TU(n) == Pairs(T, n)
           MU(n) == Pairs(M, n)
<1>1. k \in Nat /\ q[k + 1] = x /\ \A j \in 1 .. k : q[j] = cur.path[j]
  BY Longer
<1> HIDE DEF q, k
<1>2. ASSUME NEW n \in 0 .. (k + 1) PROVE TakenPairs(q, n, p) = TU(n) /\ MadePairs(q, n, p) = MU(n)
  <2>1. \A j \in 1 .. n : j \in 1 .. (k + 1)
    BY <1>1
  <2> QED  BY <2>1 DEF TakenPairs, MadePairs, Pairs
<1>3. ASSUME NEW n \in 0 .. k
      PROVE  TakenPairs(q, n, p) = TakenPairs(cur.path, n, p) /\ MadePairs(q, n, p) = MadePairs(cur.path, n, p)
  <2>1. \A j \in 1 .. n : q[j] = cur.path[j]
    BY <1>1
  <2> QED  BY <2>1 DEF TakenPairs, MadePairs
<1>4. \A path, n : /\ Taken(path, n, p) = Cardinality(TakenPairs(path, n, p))
                   /\ Made(path, n, p) = Cardinality(MadePairs(path, n, p))
  BY DEF Taken, Made, TakenPairs, MadePairs
<1>5. T[k + 1] = SlotsOf(Transitions[i].consumes, p) /\ M[k + 1] = SlotsOf(Transitions[i].produces, p)
  BY <1>1
<1>6. IsFiniteSet(T[k + 1]) /\ IsFiniteSet(M[k + 1])
  <2>1. IsFiniteSet(DOMAIN Transitions[i].consumes) /\ IsFiniteSet(DOMAIN Transitions[i].produces)
    BY TransitionsAssumption, ListedFinite
  <2>2. /\ SlotsOf(Transitions[i].consumes, p) \subseteq DOMAIN Transitions[i].consumes
        /\ SlotsOf(Transitions[i].produces, p) \subseteq DOMAIN Transitions[i].produces
    BY DEF SlotsOf
  <2> QED  BY <1>5, <2>1, <2>2, FS_Subset
<1>7. k \in 0 .. (k + 1) /\ k + 1 \in 0 .. (k + 1) /\ k \in 0 .. k
  BY <1>1
<1>8. IsFiniteSet(TU(k)) /\ IsFiniteSet(MU(k))
  BY <1>2, <1>3, <1>7 DEF k
<1> HIDE DEF T, M
<1>9. /\ IsFiniteSet(TU(k + 1)) /\ Cardinality(TU(k + 1)) = Cardinality(TU(k)) + Cardinality(T[k + 1])
      /\ Cardinality(TU(k)) \in Nat
  BY <1>1, <1>6, <1>8, PairsCount
<1>10. /\ IsFiniteSet(MU(k + 1)) /\ Cardinality(MU(k + 1)) = Cardinality(MU(k)) + Cardinality(M[k + 1])
       /\ Cardinality(MU(k)) \in Nat
  BY <1>1, <1>6, <1>8, PairsCount
<1> HIDE DEF TU, MU
<1>11. /\ IsFiniteSet(TakenPairs(q, k + 1, p)) /\ IsFiniteSet(MadePairs(q, k + 1, p))
       /\ Taken(q, k + 1, p) = Taken(q, k, p) + Cardinality(T[k + 1])
       /\ Made(q, k + 1, p) = Made(q, k, p) + Cardinality(M[k + 1])
       /\ Taken(q, k, p) \in Nat /\ Made(q, k, p) \in Nat
  BY <1>2, <1>4, <1>7, <1>9, <1>10
<1>12. \A j \in 0 .. k : Taken(q, j, p) = Taken(cur.path, j, p) /\ Made(q, j, p) = Made(cur.path, j, p)
  BY <1>3, <1>4
<1> QED  BY <1>5, <1>7, <1>11, <1>12 DEF q, k

(* A firing keeps the replay in step with the marking.                     *)
LEMMA ReplayGrows ==
  ASSUME Inv, Replayed(cur), NEW i \in DOMAIN Transitions, NEW x, TransitionOf(x) = Transitions[i],
         NEW c \in AllChoices(cur.marking, Transitions[i]), NEW env,
         NEW s, s.path = Append(cur.path, x),
         s.marking = Fire(cur.marking, Transitions[i], c, env, cur.depth + 1)
  PROVE  Replayed(s)
<1> DEFINE k == Len(cur.path)
           q == Append(cur.path, x)
<1>1. k \in Nat /\ DOMAIN cur.path = 1 .. k /\ DOMAIN q = 1 .. (k + 1) /\ Len(q) = k + 1
  BY SeqAppend DEF Inv, Live, Good, StateOK
<1>2. cur.depth \in Nat /\ MarkingOK(cur.marking, cur.depth)
  BY DEF Inv, Live, Good, StateOK
<1> HIDE DEF q, k
<1>3. ASSUME NEW p \in Places
      PROVE  /\ IsFiniteSet(s.marking[p])
             /\ IsFiniteSet(TakenPairs(q, k + 1, p)) /\ IsFiniteSet(MadePairs(q, k + 1, p))
             /\ \A j \in 1 .. (k + 1) : Taken(q, j, p) <= Cardinality(Initial[p]) + Made(q, j - 1, p)
             /\ Cardinality(Initial[p]) + Made(q, k + 1, p)
                  = Taken(q, k + 1, p) + Cardinality(s.marking[p])
  <2> DEFINE init == Cardinality(Initial[p])
             old == Cardinality(cur.marking[p])
             new == Cardinality(s.marking[p])
             taken == Cardinality(SlotsOf(Transitions[i].consumes, p))
             made == Cardinality(SlotsOf(Transitions[i].produces, p))
  <2>1. IsFiniteSet(cur.marking[p])
    BY DEF Replayed
  <2>2. /\ IsFiniteSet(s.marking[p]) /\ taken \in Nat /\ made \in Nat /\ old \in Nat
        /\ taken <= old /\ new + taken = old + made
    <3> DEFINE after == Fire(cur.marking, Transitions[i], c, env, cur.depth + 1)
    <3>1. /\ taken \in Nat /\ made \in Nat /\ old \in Nat
          /\ IsFiniteSet(after[p]) /\ taken <= old /\ Cardinality(after[p]) + taken = old + made
      BY <1>2, <2>1, FireCount
    <3> QED  BY <3>1
  <2>3. new \in Nat
    BY <2>2, FS_CardinalityType
  <2>4. /\ \A j \in 0 .. k : Taken(q, j, p) = Taken(cur.path, j, p) /\ Made(q, j, p) = Made(cur.path, j, p)
        /\ IsFiniteSet(TakenPairs(q, k + 1, p)) /\ IsFiniteSet(MadePairs(q, k + 1, p))
        /\ Taken(q, k + 1, p) = Taken(cur.path, k, p) + taken
        /\ Made(q, k + 1, p) = Made(cur.path, k, p) + made
        /\ Taken(cur.path, k, p) \in Nat /\ Made(cur.path, k, p) \in Nat
    BY CountsGrow DEF q, k, Replayed
  <2>5. /\ \A j \in 1 .. k : Taken(cur.path, j, p) <= init + Made(cur.path, j - 1, p)
        /\ init + Made(cur.path, k, p) = Taken(cur.path, k, p) + old
    BY <1>1 DEF Replayed, Balanced, k
  <2>6. init \in Nat
    BY InitialAssumption, FS_CardinalityType
  <2> HIDE DEF init, old, new, taken, made
  <2>7. ASSUME NEW j \in 1 .. (k + 1) PROVE Taken(q, j, p) <= init + Made(q, j - 1, p)
    <3>1. CASE j \in 1 .. k
      <4>1. j \in 0 .. k /\ j - 1 \in 0 .. k
        BY <1>1, <3>1
      <4> QED  BY <2>4, <2>5, <3>1, <4>1
    <3>2. CASE j = k + 1
      <4>1. k \in 0 .. k /\ j - 1 = k
        BY <1>1, <3>2
      <4>2. Made(q, j - 1, p) = Made(cur.path, k, p)
        BY <2>4, <4>1
      <4>3. Taken(q, j, p) = Taken(cur.path, k, p) + taken
        BY <2>4, <3>2
      <4> QED  BY <2>2, <2>4, <2>5, <2>6, <4>2, <4>3
    <3> QED  BY <1>1, <3>1, <3>2
  <2>8. init + Made(q, k + 1, p) = Taken(q, k + 1, p) + new
    <3> DEFINE tk == Taken(cur.path, k, p)
               mk == Made(cur.path, k, p)
    <3>1. tk \in Nat /\ mk \in Nat /\ init + mk = tk + old
      BY <2>4, <2>5
    <3>2. Taken(q, k + 1, p) = tk + taken /\ Made(q, k + 1, p) = mk + made
      BY <2>4
    <3> HIDE DEF tk, mk
    <3>3. init + (mk + made) = (tk + taken) + new
      BY <2>2, <2>3, <2>6, <3>1
    <3> QED  BY <3>2, <3>3
  <2> QED  BY <2>2, <2>4, <2>7, <2>8 DEF init, new
<1> QED  BY <1>1, <1>3 DEF Replayed, Balanced, q

-----------------------------------------------------------------------------
(* Unlogged steps against effects logged without their step                *)

Emitting(step, kind) ==
  step.record = 0 /\ \E i \in DOMAIN TransitionOf(step).emits : TransitionOf(step).emits[i].effect = kind

Unlogged(path, kind) == {k \in DOMAIN path : Emitting(path[k], kind)}

Claimed(matched, kind) ==
  {e \in EffectsIn(obs, DanglingRecords(obs)) : e.kind = kind /\ e.id \in matched}

(* Each dangling effect counted as matched has an unlogged step, and a     *)
(* kind that a complete plane carries has no other unlogged step.          *)
Believed(path, matched) ==
  \A kind : /\ IsFiniteSet(Claimed(matched, kind))
            /\ Cardinality(Unlogged(path, kind)) >= Cardinality(Claimed(matched, kind))
            /\ PlaneCarries(obs, kind) =>
                 Cardinality(Unlogged(path, kind)) = Cardinality(Claimed(matched, kind))

LEMMA UnloggedGrows ==
  ASSUME Inv, NEW x, NEW kind
  PROVE  LET old == Unlogged(cur.path, kind)
             new == Unlogged(Append(cur.path, x), kind)
         IN  /\ Cardinality(old) \in Nat
             /\ Cardinality(new) = IF Emitting(x, kind) THEN Cardinality(old) + 1 ELSE Cardinality(old)
<1> DEFINE n == Len(cur.path)
           old == Unlogged(cur.path, kind)
           new == Unlogged(Append(cur.path, x), kind)
<1>1. /\ n \in Nat /\ DOMAIN cur.path = 1 .. n
      /\ DOMAIN Append(cur.path, x) = 1 .. (n + 1) /\ Append(cur.path, x)[n + 1] = x
      /\ \A k \in 1 .. n : Append(cur.path, x)[k] = cur.path[k]
  BY Longer
<1> HIDE DEF n
<1>2. IsFiniteSet(old) /\ old \subseteq 1 .. n
  <2>1. old \subseteq 1 .. n
    BY <1>1 DEF Unlogged
  <2>2. IsFiniteSet(1 .. n)
    BY <1>1, FS_Interval
  <2> HIDE DEF old
  <2> QED  BY <2>1, <2>2, FS_Subset
<1>3. n + 1 \notin old
  BY <1>1, <1>2
<1>4. new = IF Emitting(x, kind) THEN old \cup {n + 1} ELSE old
  <2>1. \A k \in 1 .. (n + 1) : k \in 1 .. n \/ k = n + 1
    BY <1>1
  <2>2. 1 .. n \subseteq 1 .. (n + 1) /\ n + 1 \in 1 .. (n + 1)
    BY <1>1
  <2> QED  BY <1>1, <2>1, <2>2 DEF Unlogged
<1> HIDE DEF old, new
<1> QED  BY <1>2, <1>3, <1>4, FS_AddElement, FS_CardinalityType DEF old, new

(* Firing a logged step claims no dangling effect.                         *)
LEMMA FiredBelieved ==
  ASSUME Inv, pc = "fire", Valid(obs), Believed(cur.path, cur.matched), NEW a
  PROVE  Believed(Fired(a).path, Fired(a).matched)
<1> DEFINE step == [transition |-> Step.id, principal |-> Rec.principal,
                    record |-> cursor, bindings |-> Env(a)]
<1>1. Fired(a).path = Append(cur.path, step) /\ Fired(a).matched = cur.matched \cup IdsOfRecord(obs, cursor)
  BY DEF Fired
<1>2. cursor \in StepRecords(obs) /\ cursor \in Records(obs) /\ cursor # 0
  BY RecordsFinite DEF Inv, Control, StepRecords
<1>3. \A kind : ~ Emitting(step, kind)
  BY <1>2 DEF Emitting
<1> HIDE DEF step
<1>4. \A e \in EffectsIn(obs, DanglingRecords(obs)) : e.id \notin IdsOfRecord(obs, cursor)
  <2> SUFFICES ASSUME NEW e \in EffectsIn(obs, DanglingRecords(obs)), e.id \in IdsOfRecord(obs, cursor)
               PROVE  FALSE
    OBVIOUS
  <2>1. PICK r \in DanglingRecords(obs) :
          \E j \in DOMAIN obs.records[r].effects : e = obs.records[r].effects[j]
    BY DEF EffectsIn
  <2>2. PICK j \in DOMAIN obs.records[r].effects : e = obs.records[r].effects[j]
    BY <2>1
  <2>3. PICK l \in DOMAIN obs.records[cursor].effects : e.id = obs.records[cursor].effects[l].id
    BY DEF IdsOfRecord, EffectsIn
  <2>4. r \in Records(obs) /\ r # cursor
    BY <1>2 DEF DanglingRecords
  <2> QED  BY <1>2, <2>2, <2>3, <2>4 DEF Valid
<1>5. \A kind : Claimed(Fired(a).matched, kind) = Claimed(cur.matched, kind)
  BY <1>1, <1>4 DEF Claimed
<1>6. \A kind : Cardinality(Unlogged(Fired(a).path, kind)) = Cardinality(Unlogged(cur.path, kind))
  BY <1>1, <1>3, UnloggedGrows
<1> QED  BY <1>5, <1>6 DEF Believed

(* An unlogged step claims the one effect it emits, or emits only what no  *)
(* complete plane carries.                                                 *)
LEMMA InventedBelieved ==
  ASSUME Inv, Trying, pc = "invent", NamedOnce, Believed(cur.path, cur.matched), NEW a \in alts
  PROVE  Believed(Invented(a).path, Invented(a).matched)
<1> DEFINE step == [transition |-> Silent.id, principal |-> Silent.principal,
                    record |-> 0, bindings |-> SilentEnv(a)]
           g == EffectAt(a.target)
<1>1. /\ Invented(a).path = Append(cur.path, step)
      /\ Invented(a).matched = IF Targeted(a) THEN cur.matched \cup {g.id} ELSE cur.matched
  BY DEF Invented
<1>2. \A kind : Emitting(step, kind) <=> \E i \in DOMAIN Silent.emits : Silent.emits[i].effect = kind
  BY SilentNamed DEF Emitting, TransitionOf
<1>3. a.target \in Targets(Silent) /\ Listed(Silent.emits)
  BY SilentNamed, TransitionsAssumption DEF Trying
<1> HIDE DEF step
<1> SUFFICES ASSUME NEW kind
             PROVE  LET claimed == Claimed(Invented(a).matched, kind)
                        unlogged == Unlogged(Invented(a).path, kind)
                    IN  /\ IsFiniteSet(claimed)
                        /\ Cardinality(unlogged) >= Cardinality(claimed)
                        /\ PlaneCarries(obs, kind) => Cardinality(unlogged) = Cardinality(claimed)
  BY DEF Believed
<1> DEFINE before == Cardinality(Unlogged(cur.path, kind))
           after == Cardinality(Unlogged(Invented(a).path, kind))
           mine == Claimed(cur.matched, kind)
           now == Claimed(Invented(a).matched, kind)
<1>4. before \in Nat /\ after = IF Emitting(step, kind) THEN before + 1 ELSE before
  BY <1>1, UnloggedGrows
<1>5. /\ IsFiniteSet(mine) /\ Cardinality(mine) \in Nat /\ before >= Cardinality(mine)
      /\ PlaneCarries(obs, kind) => before = Cardinality(mine)
  BY FS_CardinalityType DEF Believed
<1>6. CASE ~ Targeted(a)
  <2>1. now = mine
    BY <1>1, <1>6
  <2>2. Untargeted \notin DanglingEffects
    BY RecordsFinite DEF Untargeted, DanglingEffects, DanglingRecords, Inv
  <2>3. ~ Logged(Silent)
    BY <1>3, <1>6, <2>2 DEF Targets, Targeted
  <2>4. PlaneCarries(obs, kind) => ~ Emitting(step, kind)
    BY <1>2, <2>3 DEF Logged
  <2> HIDE DEF before, after, mine, now
  <2> QED  BY <1>4, <1>5, <2>1, <2>4 DEF after, now
<1>7. CASE Targeted(a)
  <2>1. /\ a.target \in DanglingEffects /\ Len(Silent.emits) = 1
        /\ g.kind = Silent.emits[1].effect /\ g.id \notin cur.matched
    BY <1>3, <1>7 DEF Targets, Targeted
  <2>2. g \in EffectsIn(obs, DanglingRecords(obs))
    <3>1. PICK r \in DanglingRecords(obs) :
            \E p \in DOMAIN obs.records[r].effects : a.target = <<r, p>>
      BY <2>1 DEF DanglingEffects
    <3>2. PICK p \in DOMAIN obs.records[r].effects : a.target = <<r, p>>
      BY <3>1
    <3>3. g = obs.records[r].effects[p]
      BY <3>2 DEF EffectAt
    <3> QED  BY <3>3 DEF EffectsIn
  <2>3. Emitting(step, kind) <=> g.kind = kind
    <3>1. DOMAIN Silent.emits = {1}
      BY <1>3, <2>1 DEF Listed
    <3> QED  BY <1>2, <2>1, <3>1
  <2>4. \A e \in EffectsIn(obs, DanglingRecords(obs)) : e.id = g.id => e = g
    BY <2>2 DEF NamedOnce, Effects, EffectsIn, DanglingRecords
  <2> HIDE DEF g
  <2>5. g \notin mine /\ now = IF g.kind = kind THEN mine \cup {g} ELSE mine
    BY <1>1, <1>7, <2>1, <2>2, <2>4 DEF Claimed
  <2> HIDE DEF before, after, mine, now
  <2>6. /\ IsFiniteSet(now)
        /\ Cardinality(now) = IF g.kind = kind THEN Cardinality(mine) + 1 ELSE Cardinality(mine)
    BY <1>5, <2>5, FS_AddElement
  <2> QED  BY <1>4, <1>5, <2>3, <2>6 DEF after, now
<1> QED  BY <1>6, <1>7

-----------------------------------------------------------------------------
(* The names of values nobody saw                                          *)

(* The rank of a number among the members of a finite set.                 *)
Rank(S, i) == Cardinality({j \in S : j <= i})

LEMMA Ranks ==
  ASSUME NEW S \in SUBSET Nat, IsFiniteSet(S)
  PROVE  /\ \A i \in S : Rank(S, i) \in 1 .. Cardinality(S)
         /\ \A i, j \in S : Rank(S, i) = Rank(S, j) => i = j
<1> DEFINE Upto(i) == {j \in S : j <= i}
<1>1. \A i : Upto(i) \subseteq S
  OBVIOUS
<1>2. Cardinality(S) \in Nat
  BY FS_CardinalityType
<1>3. ASSUME NEW i \in S PROVE i \in Upto(i)
  OBVIOUS
<1>4. ASSUME NEW i \in S, NEW j \in S, i < j, Rank(S, i) = Rank(S, j) PROVE FALSE
  <2>1. Upto(i) \in SUBSET Upto(j) /\ j \in Upto(j) /\ j \notin Upto(i)
    <3>1. i \in Nat /\ j \in Nat /\ ~ (j <= i)
      BY <1>4
    <3>2. \A x \in Nat : x <= i => x <= j
      BY <1>4, <3>1
    <3>3. \A x \in Upto(i) : x \in Upto(j)
      BY <3>2
    <3>4. j \in Upto(j)
      BY <1>3
    <3>5. j \notin Upto(i)
      BY <3>1
    <3> HIDE DEF Upto
    <3> QED  BY <3>3, <3>4, <3>5
  <2>2. IsFiniteSet(Upto(j))
    BY <1>1, FS_Subset
  <2>3. Cardinality(Upto(j)) = Cardinality(Upto(i))
    BY <1>4 DEF Rank
  <2> HIDE DEF Upto
  <2>4. Upto(j) = Upto(i)
    BY <2>1, <2>2, <2>3, FS_Subset
  <2> QED  BY <2>1, <2>4
<1>5. ASSUME NEW i \in S PROVE Rank(S, i) \in 1 .. Cardinality(S)
  <2>1. i \in Upto(i)
    OBVIOUS
  <2> HIDE DEF Upto
  <2>2. IsFiniteSet(Upto(i)) /\ Cardinality(Upto(i)) <= Cardinality(S)
    BY <1>1, FS_Subset
  <2>3. Cardinality(Upto(i)) \in Nat /\ Cardinality(Upto(i)) # 0
    BY <2>1, <2>2, FS_CardinalityType, FS_EmptySet
  <2>4. Rank(S, i) = Cardinality(Upto(i))
    BY DEF Rank, Upto
  <2> QED  BY <1>2, <2>2, <2>3, <2>4
<1>6. \A i, j \in S : i < j \/ j < i \/ i = j
  OBVIOUS
<1> QED  BY <1>4, <1>5, <1>6

(* Tokens carry no more than their place declares.                         *)
Declared(m) == \A p \in Places : \A tk \in m[p] : Visible(tk) \subseteq PlaceCarries[p]

Distinct(path) ==
  \A k, l \in DOMAIN path : \A v \in Mints(path[k]), w \in Mints(path[l]) :
    path[k].bindings[v] = path[l].bindings[w] =>
      <<k, v>> = <<l, w>> \/ path[k].bindings[v] \in ObservedValues

(* A value that a step mints was observed, or has one of the names used up *)
(* so far.                                                                 *)
Sourced(path, fresh) ==
  \A k \in DOMAIN path : \A v \in Mints(path[k]) :
    \/ path[k].bindings[v] \in ObservedValues
    \/ \E n \in 1 .. fresh : path[k].bindings[v] = FreshValue(n)

Novel(s) == Declared(s.marking) /\ Sourced(s.path, s.fresh) /\ Distinct(s.path)

Injective == \A m, n \in Nat : FreshValue(m) = FreshValue(n) => m = n

(* A variable that no consumed place carries is not in the environment the *)
(* tokens bring.                                                           *)
LEMMA NotBrought ==
  ASSUME Declared(cur.marking), NEW i \in DOMAIN Transitions,
         NEW c \in AllChoices(cur.marking, Transitions[i]), NEW v,
         \A r \in DOMAIN Transitions[i].consumes : v \notin PlaceCarries[Transitions[i].consumes[r]]
  PROVE  v \notin DOMAIN MergedEnv(c)
<1> SUFFICES ASSUME v \in DOMAIN MergedEnv(c) PROVE FALSE
  OBVIOUS
<1>1. PICK r \in DOMAIN c : v \in Visible(c[r])
  BY DEF MergedEnv
<1>2. r \in DOMAIN Transitions[i].consumes /\ c[r] \in cur.marking[Transitions[i].consumes[r]]
  BY DEF AllChoices
<1>3. Transitions[i].consumes[r] \in Places
  BY <1>2, TransitionsAssumption
<1> QED  BY <1>1, <1>2, <1>3 DEF Declared

LEMMA DeclaredKept ==
  ASSUME NEW m, Declared(m), NEW t, NEW c, NEW env, NEW depth
  PROVE  Declared(Fire(m, t, c, env, depth))
<1> DEFINE n == Fire(m, t, c, env, depth)
<1> SUFFICES ASSUME NEW p \in Places, NEW tk \in n[p] PROVE Visible(tk) \subseteq PlaceCarries[p]
  BY DEF Declared
<1>1. tk \in m[p] \/ \E r : tk = [born |-> <<depth, r>>, env |-> Carried(env, p)]
  BY DEF Fire
<1>2. CASE tk \in m[p]
  BY <1>2 DEF Declared
<1>3. CASE \E r : tk = [born |-> <<depth, r>>, env |-> Carried(env, p)]
  <2>1. tk.env = Carried(env, p)
    BY <1>3
  <2>2. DOMAIN tk.env \subseteq PlaceCarries[p]
    BY <2>1 DEF Carried
  <2> QED  BY <2>2 DEF Visible
<1> QED  BY <1>1, <1>2, <1>3

(* A firing gives each variable that nothing binds a name of its own.      *)
LEMMA BindFreshNames ==
  ASSUME NEW i \in DOMAIN Transitions, NEW env, NEW fresh \in Nat, Injective
  PROVE  LET t == Transitions[i]
             more == BindFresh(t, env, fresh)
             open == {v \in {t.binds[j] : j \in DOMAIN t.binds} : v \notin DOMAIN env}
         IN  /\ \A v \in open : \E n \in (fresh + 1) .. (fresh + Cardinality(Unbound(t, env))) :
                                 more[v] = FreshValue(n)
             /\ \A v, w \in open : more[v] = more[w] => v = w
<1> DEFINE t == Transitions[i]
           more == BindFresh(t, env, fresh)
           gaps == Unbound(t, env)
           open == {v \in {t.binds[j] : j \in DOMAIN t.binds} : v \notin DOMAIN env}
           At(v) == CHOOSE j \in gaps : t.binds[j] = v
<1>1. gaps \in SUBSET Nat /\ IsFiniteSet(gaps)
  <2>1. IsFiniteSet(DOMAIN t.binds) /\ DOMAIN t.binds \subseteq Nat
    BY TransitionsAssumption, ListedFinite
  <2>2. gaps \subseteq DOMAIN t.binds
    BY DEF Unbound
  <2> HIDE DEF gaps
  <2> QED  BY <2>1, <2>2, FS_Subset
<1>2. ASSUME NEW v \in open PROVE At(v) \in gaps /\ t.binds[At(v)] = v
  <2>1. \E j \in gaps : t.binds[j] = v
    BY DEF Unbound
  <2> QED  BY <2>1
<1>3. ASSUME NEW v \in open PROVE more[v] = FreshValue(fresh + Rank(gaps, At(v)))
  <2>1. v \in {t.binds[j] : j \in gaps} /\ v \notin DOMAIN env
    BY <1>2
  <2>2. more[v] = FreshValue(fresh + Cardinality({j \in gaps : j <= At(v)}))
    BY <2>1 DEF BindFresh
  <2> QED  BY <2>2 DEF Rank
<1> HIDE DEF gaps, open, more, At
<1>4. Cardinality(gaps) \in Nat
  BY <1>1, FS_CardinalityType
<1>5. ASSUME NEW v \in open
      PROVE  /\ Rank(gaps, At(v)) \in 1 .. Cardinality(gaps)
             /\ fresh + Rank(gaps, At(v)) \in (fresh + 1) .. (fresh + Cardinality(gaps))
             /\ fresh + Rank(gaps, At(v)) \in Nat
  <2>1. Rank(gaps, At(v)) \in 1 .. Cardinality(gaps)
    BY <1>1, <1>2, Ranks
  <2> QED  BY <1>4, <2>1
<1>6. ASSUME NEW v \in open, NEW w \in open, more[v] = more[w] PROVE v = w
  <2>1. fresh + Rank(gaps, At(v)) = fresh + Rank(gaps, At(w))
    BY <1>3, <1>5, <1>6 DEF Injective
  <2>2. Rank(gaps, At(v)) = Rank(gaps, At(w))
    BY <1>4, <1>5, <2>1
  <2>3. At(v) = At(w)
    BY <1>1, <1>2, <2>2, Ranks
  <2> QED  BY <1>2, <2>3
<1>7. \A v \in open : \E n \in (fresh + 1) .. (fresh + Cardinality(gaps)) : more[v] = FreshValue(n)
  BY <1>3, <1>5
<1> QED  BY <1>6, <1>7 DEF gaps, open, more

LEMMA NovelGrows ==
  ASSUME Inv, Injective, Novel(cur), NEW i \in DOMAIN Transitions,
         NEW c \in AllChoices(cur.marking, Transitions[i]),
         NEW env, NEW fresh \in Nat, cur.fresh <= fresh,
         \A v \in DOMAIN env \ DOMAIN MergedEnv(c) : env[v] \in ObservedValues,
         NEW x, TransitionOf(x) = Transitions[i],
         x.bindings = BindFresh(Transitions[i], env, fresh),
         NEW s, s.path = Append(cur.path, x),
         s.fresh = fresh + Cardinality(Unbound(Transitions[i], env)),
         s.marking = Fire(cur.marking, Transitions[i], c, x.bindings, cur.depth + 1)
  PROVE  Novel(s)
<1> DEFINE n == Len(cur.path)
           p == Append(cur.path, x)
           t == Transitions[i]
           more == x.bindings
           Old(val) == val \in ObservedValues \/ \E m \in 1 .. cur.fresh : val = FreshValue(m)
           New(val) == \E m \in (fresh + 1) .. s.fresh : val = FreshValue(m)
<1>1. /\ n \in Nat /\ DOMAIN cur.path = 1 .. n
      /\ DOMAIN p = 1 .. (n + 1) /\ p[n + 1] = x /\ \A k \in 1 .. n : p[k] = cur.path[k]
  BY Longer
<1>2. cur.fresh \in Nat /\ s.fresh \in Nat /\ fresh <= s.fresh
  <2>1. cur.fresh \in Nat
    BY DEF Inv, Live, Good, StateOK
  <2> QED  BY <2>1, UnboundFinite
<1>3. ASSUME NEW v \in Mints(x)
      PROVE  /\ v \in {t.binds[j] : j \in DOMAIN t.binds} /\ v \notin DOMAIN MergedEnv(c)
             /\ v \in DOMAIN env => more[v] \in ObservedValues
             /\ v \notin DOMAIN env => New(more[v])
  <2>1. /\ v \in {t.binds[j] : j \in DOMAIN t.binds}
        /\ \A r \in DOMAIN t.consumes : v \notin PlaceCarries[t.consumes[r]]
    BY DEF Mints
  <2>2. v \notin DOMAIN MergedEnv(c)
    BY <2>1, NotBrought DEF Novel
  <2>3. v \in DOMAIN env => more[v] = env[v]
    BY BindFreshExtends DEF Extends
  <2>4. v \notin DOMAIN env => New(more[v])
    BY <2>1, BindFreshNames
  <2> QED  BY <2>1, <2>2, <2>3, <2>4
<1>4. \A v, w \in Mints(x) : more[v] = more[w] => v = w \/ more[v] \in ObservedValues
  <2> SUFFICES ASSUME NEW v \in Mints(x), NEW w \in Mints(x), more[v] = more[w],
                      v \notin DOMAIN env, w \notin DOMAIN env
               PROVE  v = w
    BY <1>3
  <2> QED  BY <1>3, BindFreshNames
<1>5. \A val : Old(val) /\ New(val) => val \in ObservedValues
  <2> SUFFICES ASSUME NEW val, NEW m \in 1 .. cur.fresh, val = FreshValue(m),
                      NEW l \in (fresh + 1) .. s.fresh, val = FreshValue(l)
               PROVE  FALSE
    OBVIOUS
  <2>1. m \in Nat /\ l \in Nat /\ m < l
    BY <1>2
  <2>2. m = l
    BY <2>1 DEF Injective
  <2> QED  BY <2>1, <2>2
<1>6. \A k \in 1 .. n : \A v \in Mints(p[k]) : Old(p[k].bindings[v])
  BY <1>1 DEF Novel, Sourced
<1>7. \A v \in Mints(x) : more[v] \in ObservedValues \/ New(more[v])
  BY <1>3
<1> HIDE DEF p, more
<1>8. Sourced(s.path, s.fresh)
  <2> SUFFICES ASSUME NEW k \in DOMAIN p, NEW v \in Mints(p[k])
               PROVE  \/ p[k].bindings[v] \in ObservedValues
                      \/ \E m \in 1 .. s.fresh : p[k].bindings[v] = FreshValue(m)
    BY DEF Sourced, p
  <2>1. CASE k \in 1 .. n
    <3>1. 1 .. cur.fresh \subseteq 1 .. s.fresh
      BY <1>2
    <3> QED  BY <1>6, <2>1, <3>1
  <2>2. CASE k = n + 1
    <3>1. (fresh + 1) .. s.fresh \subseteq 1 .. s.fresh
      BY <1>2
    <3> QED  BY <1>1, <1>7, <2>2, <3>1 DEF more
  <2> QED  BY <1>1, <2>1, <2>2
<1>9. Distinct(s.path)
  <2> SUFFICES ASSUME NEW k \in DOMAIN p, NEW l \in DOMAIN p,
                      NEW v \in Mints(p[k]), NEW w \in Mints(p[l]),
                      p[k].bindings[v] = p[l].bindings[w]
               PROVE  <<k, v>> = <<l, w>> \/ p[k].bindings[v] \in ObservedValues
    BY DEF Distinct, p
  <2>1. CASE k \in 1 .. n /\ l \in 1 .. n
    <3>1. Distinct(cur.path) /\ p[k] = cur.path[k] /\ p[l] = cur.path[l]
      BY <1>1, <2>1 DEF Novel
    <3> QED  BY <1>1, <2>1, <3>1 DEF Distinct
  <2>2. CASE k = n + 1 /\ l = n + 1
    BY <1>1, <1>4, <2>2 DEF more
  <2>3. CASE k \in 1 .. n /\ l = n + 1
    <3>1. Old(p[k].bindings[v]) /\ (p[l].bindings[w] \in ObservedValues \/ New(p[l].bindings[w]))
      BY <1>1, <1>6, <1>7, <2>3 DEF more
    <3> HIDE DEF Old, New
    <3> QED  BY <1>5, <3>1
  <2>4. CASE k = n + 1 /\ l \in 1 .. n
    <3>1. Old(p[l].bindings[w]) /\ (p[k].bindings[v] \in ObservedValues \/ New(p[k].bindings[v]))
      BY <1>1, <1>6, <1>7, <2>4 DEF more
    <3> HIDE DEF Old, New
    <3> QED  BY <1>5, <3>1
  <2> QED  BY <1>1, <2>1, <2>2, <2>3, <2>4
<1>10. Declared(s.marking)
  BY DeclaredKept DEF Novel
<1> QED  BY <1>8, <1>9, <1>10 DEF Novel

LEMMA FiredNovel ==
  ASSUME Inv, Trying, Injective, pc = "fire", Novel(cur), NEW a \in alts, FiredBy(a)
  PROVE  Novel(Fired(a))
<1> DEFINE step == [transition |-> Step.id, principal |-> Rec.principal,
                    record |-> cursor, bindings |-> Env(a)]
           env == Match(a).env
<1>1. PICK i \in DOMAIN Transitions : Step = Transitions[i]
  BY StepNamed
<1>2. TransitionOf(step) = Transitions[i]
  BY <1>1, StepNamed DEF TransitionOf
<1>3. a.choice \in AllChoices(cur.marking, Transitions[i])
  BY <1>1, AgreeingFill DEF Trying
<1>4. step.bindings = BindFresh(Transitions[i], env, cur.fresh)
  BY <1>1 DEF Env
<1>5. /\ Fired(a).path = Append(cur.path, step)
      /\ Fired(a).fresh = cur.fresh + Cardinality(Unbound(Transitions[i], env))
      /\ Fired(a).marking = Fire(cur.marking, Transitions[i], a.choice, step.bindings, cur.depth + 1)
  BY <1>1 DEF Fired
<1>6. \A v \in DOMAIN env \ DOMAIN MergedEnv(a.choice) : env[v] \in ObservedValues
  <2>1. cursor \in Records(obs)
    BY DEF Inv, Control, StepRecords
  <2>2. Listed(Rec.effects) /\ Rec = obs.records[cursor]
    BY <2>1, ObservationsAssumption DEF Inv, Inputs, Rec
  <2>3. Listed(Step.emits) /\ \A j \in DOMAIN Step.emits : KindsKnown(Step.emits[j])
    BY StepNamed, TransitionsAssumption DEF KindsKnown
  <2>4. ShapeOk(Rec.effects, Step.emits)
    BY DEF Trying, Shaped
  <2>5. Match(a).bad = 0 /\ Match(a) = MatchPairs(Rec.effects, Step.emits, MergedEnv(a.choice))
    BY DEF FiredBy, Unifies, Match
  <2>6. \A v \in DOMAIN env \ DOMAIN MergedEnv(a.choice) : env[v] \in ArgsOf(Rec.effects)
    BY <2>2, <2>3, <2>4, <2>5, MatchPairsSettle
  <2>7. ArgsOf(Rec.effects) \subseteq ObservedValues
    BY <2>1, <2>2 DEF ArgsOf, ObservedValues, Effects, EffectsIn
  <2> QED  BY <2>6, <2>7
<1>7. cur.fresh \in Nat /\ cur.fresh <= cur.fresh
  BY DEF Inv, Live, Good, StateOK
<1> HIDE DEF step, env
<1> QED  BY <1>2, <1>3, <1>4, <1>5, <1>6, <1>7, NovelGrows

LEMMA InventedNovel ==
  ASSUME Inv, Trying, Injective, pc = "invent", Novel(cur), NEW a \in alts, InventedBy(a)
  PROVE  Novel(Invented(a))
<1> DEFINE step == [transition |-> Silent.id, principal |-> Silent.principal,
                    record |-> 0, bindings |-> SilentEnv(a)]
           env == SilentMatch(a)
           fresh == cur.fresh + Burnt(a)
<1>1. cursor \in DOMAIN Transitions /\ Silent = Transitions[cursor]
  BY SilentNamed
<1>2. TransitionOf(step) = Transitions[cursor]
  BY <1>1, SilentNamed DEF TransitionOf
<1>3. a.choice \in AllChoices(cur.marking, Transitions[cursor])
  BY <1>1, AgreeingFill DEF Trying
<1>4. step.bindings = BindFresh(Transitions[cursor], env, fresh)
  BY <1>1 DEF SilentEnv
<1>5. /\ Invented(a).path = Append(cur.path, step)
      /\ Invented(a).fresh = fresh + Cardinality(Unbound(Transitions[cursor], env))
      /\ Invented(a).marking
           = Fire(cur.marking, Transitions[cursor], a.choice, step.bindings, cur.depth + 1)
  BY <1>1 DEF Invented
<1>6. \A v \in DOMAIN env \ DOMAIN MergedEnv(a.choice) : env[v] \in ObservedValues
  <2>1. CASE ~ Targeted(a)
    BY <2>1 DEF SilentMatch, Base
  <2>2. CASE Targeted(a)
    <3> DEFINE e == EffectAt(a.target)
    <3>1. Matches(Silent.emits[1], e, Base(a)) /\ env = Unified(Silent.emits[1], e, Base(a))
      BY <2>2 DEF InventedBy, SilentUnifies, SilentMatch
    <3>2. \A v \in DOMAIN env \ DOMAIN Base(a) : \E k \in DOMAIN e.args : env[v] = e.args[k]
      BY <3>1, UnifiedDraws
    <3>3. e \in Effects(obs)
      <4>1. a.target \in DanglingEffects
        BY <2>2 DEF Inv, Control, Targeted
      <4>2. PICK r \in DanglingRecords(obs) :
              \E q \in DOMAIN obs.records[r].effects : a.target = <<r, q>>
        BY <4>1 DEF DanglingEffects
      <4>3. PICK q \in DOMAIN obs.records[r].effects : a.target = <<r, q>>
        BY <4>2
      <4>4. e = obs.records[r].effects[q] /\ r \in Records(obs)
        BY <4>3 DEF EffectAt, DanglingRecords
      <4> QED  BY <4>4 DEF Effects, EffectsIn
    <3> HIDE DEF e
    <3>4. {e.args[k] : k \in DOMAIN e.args} \subseteq ObservedValues
      BY <3>3 DEF ObservedValues
    <3> QED  BY <3>2, <3>4 DEF Base
  <2> QED  BY <2>1, <2>2
<1>7. fresh \in Nat /\ cur.fresh <= fresh
  <2>1. cur.fresh \in Nat
    BY DEF Inv, Live, Good, StateOK
  <2>2. Burnt(a) \in Nat
    BY <1>1, BurntFinite DEF Burnt
  <2> QED  BY <2>1, <2>2
<1> HIDE DEF step, env, fresh
<1> QED  BY <1>1, <1>2, <1>3, <1>4, <1>5, <1>6, <1>7, NovelGrows

-----------------------------------------------------------------------------
(* The results                                                             *)

LEMMA InitTrying == Init => Trying
BY DEF Init, Trying

(* What the loops and the states they hold keep to.                        *)
THEOREM TryingInvariance == Spec => [](Inv /\ Trying)
BY InitInv, NextInv, InitTrying, TryingKept, PTL DEF Spec

(* The states the search holds at its start.                               *)
LEMMA InitLive == Init => Live = {Root} /\ ~ Accepted /\ Root.path = <<>> /\ Root.matched = {}
BY SeqEmpty DEF Init, Live, Accepted, NoOutcome, Root

LEMMA InputsValid ==
  ASSUME \A o \in Observations : Valid(o)
  PROVE  Inv => Valid(obs)
BY DEF Inv, Inputs

LEMMA NamesOnce ==
  ASSUME \A o \in Observations : Valid(o)
  PROVE  Inv => NamedOnce
<1> SUFFICES ASSUME Inv, NEW e \in Effects(obs), NEW f \in Effects(obs), e.id = f.id PROVE e = f
  BY DEF NamedOnce
<1>1. PICK i \in Records(obs) : \E j \in DOMAIN obs.records[i].effects : e = obs.records[i].effects[j]
  BY DEF Effects, EffectsIn
<1>2. PICK k \in Records(obs) : \E l \in DOMAIN obs.records[k].effects : f = obs.records[k].effects[l]
  BY DEF Effects, EffectsIn
<1> QED  BY <1>1, <1>2, InputsValid DEF Valid

AllAuthorized ==
  /\ \A s \in Live : AuthorizedPath(s.path)
  /\ Accepted => AuthorizedPath(outcome.explained)

LEMMA AuthorizedFrame ==
  ASSUME obs' = obs
  PROVE  \A path : AuthorizedPath(path) => AuthorizedPath(path)'
BY DEF AuthorizedPath, Authorized, TransitionOf

LEMMA AuthorizedNext ==
  ASSUME Inv, Trying, AllAuthorized, [Next]_vars
  PROVE  AllAuthorized'
<1>1. obs' = obs /\ \A s \in Live' : s \in Live \/ Pushed(s)
  BY Held
<1>2. cur \in Live
  BY DEF Live
<1>3. \A s : Pushed(s) => AuthorizedPath(s.path)
  BY <1>2, FiredAuthorized, InventedAuthorized DEF Pushed, AllAuthorized
<1>4. \A s \in Live' : AuthorizedPath(s.path)'
  BY <1>1, <1>3, AuthorizedFrame DEF AllAuthorized
<1>5. Accepted' => AuthorizedPath(outcome'.explained)
  BY AcceptedWas DEF AllAuthorized
<1>6. Accepted' => AuthorizedPath(outcome.explained)'
  <2> SUFFICES ASSUME Accepted' PROVE AuthorizedPath(outcome.explained)'
    OBVIOUS
  <2>1. AuthorizedPath(outcome'.explained)
    BY <1>5
  <2> QED  BY <1>1, <2>1 DEF AuthorizedPath, Authorized, TransitionOf
<1> QED  BY <1>4, <1>6 DEF AllAuthorized

(* On the path of every state the search holds, and on the witness of an    *)
(* accepted run: a logged step is one its principal is admitted to and     *)
(* bears the name of its transition, and no step, logged or supposed,      *)
(* lacks the evidence or fails the guard its transition asks for           *)
(* (expand_observed, expand_slack).                                        *)
THEOREM WitnessesAuthorized == Spec => [](AllAuthorized /\ WitnessAuthorized)
<1>1. Init => AllAuthorized
  BY InitLive, SeqEmpty DEF AllAuthorized, AuthorizedPath
<1>2. AllAuthorized => WitnessAuthorized
  BY DEF AllAuthorized, AuthorizedPath, Authorized, WitnessAuthorized
<1> QED  BY <1>1, <1>2, AuthorizedNext, TryingInvariance, PTL DEF Spec

AllRealized ==
  /\ \A s \in Live : RealizedIn(s.path, s.matched)
  /\ Accepted => RealizedIn(outcome.explained, EffectIds(obs))

LEMMA RealizedFrame ==
  ASSUME obs' = obs
  PROVE  \A path, matched : RealizedIn(path, matched) => RealizedIn(path, matched)'
<1>1. \A step, e : Accounts(step, e)' <=> Accounts(step, e)
  BY DEF Accounts, TransitionOf
<1>2. ASSUME NEW path, NEW k, NEW e, Realizes(path, k, e) PROVE Realizes(path, k, e)'
  <2> DEFINE emits == TransitionOf(path[k]).emits
  <2>1. PICK i \in DOMAIN emits :
          /\ emits[i].effect = e.kind
          /\ \A j \in DOMAIN emits[i].requires : \E edge \in obs.edges :
               \E l \in 1 .. (k - 1) : \E target \in EffectNamed(obs, edge.to) :
                 /\ Accounts(path[l], target)
                 /\ Discharges(obs, edge, emits[i].requires[j], e.id, path[k].bindings, {target.id})
    BY <1>2 DEF Realizes
  <2>2. \A j \in DOMAIN emits[i].requires : \E edge \in obs'.edges :
          \E l \in 1 .. (k - 1) : \E target \in EffectNamed(obs', edge.to) :
            /\ Accounts(path[l], target)'
            /\ Discharges(obs', edge, emits[i].requires[j], e.id, path[k].bindings, {target.id})
    BY <1>1, <2>1
  <2>3. Accounts(path[k], e)'
    BY <1>1, <1>2 DEF Realizes
  <2> QED  BY <2>1, <2>2, <2>3 DEF Realizes, TransitionOf
<1> QED  BY <1>2 DEF RealizedIn

LEMMA RealizedNext ==
  ASSUME Inv, Trying, NamedOnce, AllRealized, [Next]_vars
  PROVE  AllRealized'
<1>1. obs' = obs /\ \A s \in Live' : s \in Live \/ Pushed(s)
  BY Held
<1>2. cur \in Live
  BY DEF Live
<1>3. \A s : Pushed(s) => RealizedIn(s.path, s.matched)
  BY <1>2, FiredRealizes, InventedRealizes DEF Pushed, AllRealized
<1>4. \A s \in Live' : RealizedIn(s.path, s.matched)'
  BY <1>1, <1>3, RealizedFrame DEF AllRealized
<1>5. Accepted' => RealizedIn(outcome'.explained, EffectIds(obs))
  BY AcceptedWas DEF AllRealized, Complete
<1>6. Accepted' => RealizedIn(outcome.explained, EffectIds(obs))'
  BY <1>1, <1>5, RealizedFrame
<1> QED  BY <1>4, <1>6 DEF AllRealized

(* The witness of an accepted run accounts for every observed effect with  *)
(* the values it binds, and every relation an emission requires leads to   *)
(* an effect that an earlier step accounts for.                            *)
THEOREM WitnessesRealize ==
  ASSUME \A o \in Observations : Valid(o)
  PROVE  Spec => []EffectsRealized
<1>1. Init => AllRealized
  BY InitLive DEF AllRealized, RealizedIn
<1>2. AllRealized => EffectsRealized
  BY DEF AllRealized, RealizedIn, Realizes, EffectsRealized, EffectIds
<1> QED  BY <1>1, <1>2, NamesOnce, RealizedNext, TryingInvariance, PTL DEF Spec

AllReplayed == \A s \in Live : Replayed(s)

LEMMA InitReplayed == Init => AllReplayed
<1> SUFFICES ASSUME Init PROVE Replayed(Root)
  BY InitLive DEF AllReplayed
<1>1. Root.path = <<>> /\ Root.marking = Initial /\ Len(<<>>) = 0 /\ DOMAIN <<>> = {}
  BY SeqEmpty DEF Root
<1>2. \A p : TakenPairs(<<>>, 0, p) = {} /\ MadePairs(<<>>, 0, p) = {}
  BY DEF TakenPairs, MadePairs
<1>3. \A p : Taken(<<>>, 0, p) = 0 /\ Made(<<>>, 0, p) = 0
  BY <1>2, FS_EmptySet DEF Taken, Made, TakenPairs, MadePairs
<1>4. \A p \in Places : Cardinality(Initial[p]) \in Nat /\ IsFiniteSet(Initial[p])
  BY InitialAssumption, FS_CardinalityType
<1>5. Balanced(Root)
  BY <1>1, <1>3, <1>4 DEF Balanced
<1>6. \A p : IsFiniteSet(TakenPairs(<<>>, 0, p)) /\ IsFiniteSet(MadePairs(<<>>, 0, p))
  BY <1>2, FS_EmptySet
<1> QED  BY <1>1, <1>4, <1>5, <1>6 DEF Replayed

LEMMA ReplayedNext ==
  ASSUME Inv, Trying, AllReplayed, [Next]_vars
  PROVE  AllReplayed'
<1>1. \A s \in Live' : s \in Live \/ Pushed(s)
  BY Held
<1>2. Replayed(cur)
  BY DEF AllReplayed, Live
<1>3. ASSUME NEW s, Pushed(s) PROVE Replayed(s)
  <2>1. CASE pc = "fire"
    <3>1. PICK a \in alts : s = Fired(a)
      BY <1>3, <2>1 DEF Pushed
    <3> DEFINE step == [transition |-> Step.id, principal |-> Rec.principal,
                        record |-> cursor, bindings |-> Env(a)]
    <3>2. /\ s.path = Append(cur.path, step)
          /\ s.marking = Fire(cur.marking, Step, a.choice, Env(a), cur.depth + 1)
      BY <3>1 DEF Fired
    <3>3. PICK i \in DOMAIN Transitions : Step = Transitions[i]
      BY <2>1, StepNamed
    <3>4. TransitionOf(step) = Transitions[i]
      BY <2>1, <3>3, StepNamed DEF TransitionOf
    <3>5. a.choice \in AllChoices(cur.marking, Transitions[i])
      BY <2>1, <3>3, AgreeingFill DEF Trying
    <3> HIDE DEF step
    <3> QED  BY <1>2, <3>2, <3>3, <3>4, <3>5, ReplayGrows
  <2>2. CASE pc = "invent"
    <3>1. PICK a \in alts : s = Invented(a)
      BY <1>3, <2>2 DEF Pushed
    <3> DEFINE step == [transition |-> Silent.id, principal |-> Silent.principal,
                        record |-> 0, bindings |-> SilentEnv(a)]
    <3>2. /\ s.path = Append(cur.path, step)
          /\ s.marking = Fire(cur.marking, Silent, a.choice, SilentEnv(a), cur.depth + 1)
      BY <3>1 DEF Invented
    <3>3. cursor \in DOMAIN Transitions /\ Silent = Transitions[cursor]
      BY <2>2, SilentNamed
    <3>4. TransitionOf(step) = Transitions[cursor]
      BY <2>2, SilentNamed DEF TransitionOf
    <3>5. a.choice \in AllChoices(cur.marking, Transitions[cursor])
      BY <2>2, <3>3, AgreeingFill DEF Trying
    <3> HIDE DEF step
    <3> QED  BY <1>2, <3>2, <3>3, <3>4, <3>5, ReplayGrows
  <2> QED  BY <1>3, <2>1, <2>2 DEF Pushed
<1> QED  BY <1>1, <1>3 DEF AllReplayed

(* The tokens of every state the search holds are those a replay of its    *)
(* path with counters leaves: no firing takes a token that is not there,   *)
(* keeps one it consumed or loses one.                                     *)
THEOREM TokensAreConserved == Spec => []TokensConserved
<1>1. Inv /\ AllReplayed => TokensConserved
  <2> SUFFICES ASSUME Inv, AllReplayed, NEW s \in Newest PROVE PathReplays(s)
    BY DEF TokensConserved
  <2>1. s \in Live
    BY DEF Newest, Live
  <2> QED  BY <2>1 DEF AllReplayed, Replayed, Balanced, PathReplays
<1> QED  BY <1>1, InitReplayed, ReplayedNext, TryingInvariance, PTL DEF Spec

AllBelieved ==
  /\ \A s \in Live : Believed(s.path, s.matched)
  /\ Accepted => Believed(outcome.explained, EffectIds(obs))

LEMMA InitBelieved == Init => AllBelieved
<1> SUFFICES ASSUME Init PROVE Believed(Root.path, Root.matched)
  BY InitLive DEF AllBelieved
<1>1. Root.path = <<>> /\ Root.matched = {} /\ DOMAIN <<>> = {}
  BY InitLive, SeqEmpty
<1>2. \A kind : Unlogged(Root.path, kind) = {} /\ Claimed(Root.matched, kind) = {}
  BY <1>1 DEF Unlogged, Claimed
<1>3. \A kind : /\ IsFiniteSet(Claimed(Root.matched, kind))
                /\ Cardinality(Claimed(Root.matched, kind)) = 0
                /\ Cardinality(Unlogged(Root.path, kind)) = 0
  BY <1>2, FS_EmptySet
<1> QED  BY <1>3 DEF Believed

LEMMA BelievedFrame ==
  ASSUME obs' = obs
  PROVE  \A path, matched : Believed(path, matched) => Believed(path, matched)'
<1>1. ASSUME NEW path, NEW matched, NEW kind
      PROVE  /\ Claimed(matched, kind)' = Claimed(matched, kind)
             /\ Unlogged(path, kind)' = Unlogged(path, kind)
             /\ PlaneCarries(obs, kind)' = PlaneCarries(obs, kind)
  BY DEF Claimed, Unlogged, Emitting, TransitionOf
<1> QED  BY <1>1 DEF Believed

LEMMA BelievedNext ==
  ASSUME Inv, Trying, Valid(obs), NamedOnce, AllBelieved, [Next]_vars
  PROVE  AllBelieved'
<1>1. obs' = obs /\ \A s \in Live' : s \in Live \/ Pushed(s)
  BY Held
<1>2. Believed(cur.path, cur.matched)
  BY DEF Live, AllBelieved
<1>3. \A s : Pushed(s) => Believed(s.path, s.matched)
  BY <1>2, FiredBelieved, InventedBelieved DEF Pushed
<1>4. \A s \in Live' : Believed(s.path, s.matched)'
  BY <1>1, <1>3, BelievedFrame DEF AllBelieved
<1>5. Accepted' => Believed(outcome'.explained, EffectIds(obs))
  BY AcceptedWas DEF AllBelieved, Complete
<1>6. Accepted' => Believed(outcome.explained, EffectIds(obs))'
  BY <1>1, <1>5, BelievedFrame
<1> QED  BY <1>4, <1>6 DEF AllBelieved

(* An accepted run has an unlogged step of its own for every effect logged *)
(* without its step, and no other unlogged step emits a kind of effect     *)
(* that a complete plane carries.                                          *)
THEOREM CompletePlanesAreBelieved ==
  ASSUME \A o \in Observations : Valid(o)
  PROVE  Spec => []CompletePlanesBelieved
<1>1. AllBelieved => CompletePlanesBelieved
  <2> SUFFICES ASSUME Accepted, Believed(outcome.explained, EffectIds(obs))
               PROVE  CompletePlanesBelieved
    BY DEF AllBelieved, CompletePlanesBelieved
  <2>1. ASSUME NEW kind
        PROVE  /\ UnloggedEmitting(kind) = Unlogged(outcome.explained, kind)
               /\ {e \in EffectsIn(obs, DanglingRecords(obs)) : e.kind = kind}
                    = Claimed(EffectIds(obs), kind)
    <3>1. UnloggedEmitting(kind) = Unlogged(outcome.explained, kind)
      BY DEF UnloggedEmitting, Unlogged, Emitting
    <3>2. \A e \in EffectsIn(obs, DanglingRecords(obs)) : e.id \in EffectIds(obs)
      BY DEF EffectIds, Effects, EffectsIn, DanglingRecords
    <3> QED  BY <3>1, <3>2 DEF Claimed
  <2> QED  BY <2>1 DEF CompletePlanesBelieved, Believed
<1> QED  BY <1>1, InitBelieved, InputsValid, NamesOnce, BelievedNext, TryingInvariance, PTL DEF Spec

AllNovel == \A s \in Live : Novel(s)

LEMMA InitNovel == Init => AllNovel
<1> SUFFICES ASSUME Init PROVE Novel(Root)
  BY InitLive DEF AllNovel
<1>1. Root.path = <<>> /\ DOMAIN <<>> = {} /\ Root.marking = Initial
  BY SeqEmpty DEF Root
<1>2. Declared(Initial)
  BY InitialAssumption DEF Declared, Visible
<1> QED  BY <1>1, <1>2 DEF Novel, Sourced, Distinct

LEMMA NovelFrame ==
  ASSUME obs' = obs
  PROVE  \A s : Novel(s) => Novel(s)'
<1>1. ObservedValues' = ObservedValues
  BY DEF ObservedValues
<1>2. \A x : Mints(x)' = Mints(x)
  BY DEF Mints, TransitionOf
<1> QED  BY <1>1, <1>2 DEF Novel, Declared, Sourced, Distinct

LEMMA NovelNext ==
  ASSUME Inv, Trying, Injective, AllNovel, [Next]_vars
  PROVE  AllNovel'
<1>1. obs' = obs /\ \A s \in Live' : s \in Live \/ Pushed(s)
  BY Held
<1>2. \A s : Pushed(s) => Novel(s)
  BY FiredNovel, InventedNovel DEF Pushed, AllNovel, Live
<1>3. \A s \in Live' : Novel(s)
  BY <1>1, <1>2 DEF AllNovel
<1> QED  BY <1>1, <1>3, NovelFrame DEF AllNovel

(* Two values that steps of one path invent are different, unless they     *)
(* were observed: fresh names never run together, whatever order steps and *)
(* unlogged steps come in and however many names an unlogged step burns.   *)
THEOREM FreshNamesStayDistinct ==
  ASSUME \A m, n \in Nat : FreshValue(m) = FreshValue(n) => m = n
  PROVE  Spec => []FreshNamesDistinct
<1>1. Inv /\ AllNovel => FreshNamesDistinct
  <2> SUFFICES ASSUME Inv, AllNovel, NEW s \in Newest PROVE Distinct(s.path)
    BY DEF FreshNamesDistinct, Distinct
  <2>1. s \in Live
    BY DEF Newest, Live
  <2> QED  BY <2>1 DEF AllNovel, Novel
<1>2. Injective
  BY DEF Injective
<1> QED  BY <1>1, <1>2, InitNovel, NovelNext, TryingInvariance, PTL DEF Spec
=============================================================================
