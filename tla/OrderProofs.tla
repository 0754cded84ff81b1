----------------------------- MODULE OrderProofs -----------------------------
(***************************************************************************)
(* Kahn's loop of Observation::order() is correct for every graph over     *)
(* every number of records: its counters never drift, no record is lost or *)
(* queued twice, and it answers "cycle" exactly when the records cannot be *)
(* lined up.                                                               *)
(***************************************************************************)
EXTENDS Order, FiniteSetTheorems, TLAPS

(* The predecessors of a popped record have all been brought up to date.   *)
PoppedClosed ==
  \A i \in popped : preds[i] \subseteq popped \ (IF pc = "release" THEN {node} ELSE {})

(* The popped records can be lined up.                                     *)
PoppedFounded ==
  \A S \in SUBSET popped : S # {} => \E i \in S : preds[i] \cap S = {}

(* What the scan has not reached is not queued yet.                        *)
ScanAhead ==
  /\ scan >= 1
  /\ pc = "collect" => popped = {} /\ \A i \in Queued : i < scan

Inv == TypeOK /\ CountersExact /\ QueueExact /\ Correct
       /\ PoppedClosed /\ PoppedFounded /\ ScanAhead

-----------------------------------------------------------------------------
LEMMA NodesFinite ==
  /\ IsFiniteSet(Nodes) /\ Cardinality(Nodes) = N
  /\ \A S \in SUBSET Nodes : IsFiniteSet(S) /\ Cardinality(S) \in Nat
<1>1. IsFiniteSet(Nodes) /\ Cardinality(Nodes) = N
  BY NAssumption, FS_Interval, SMT DEF Nodes
<1>2. \A S \in SUBSET Nodes : IsFiniteSet(S) /\ Cardinality(S) \in Nat
  BY <1>1, FS_Subset, FS_CardinalityType
<1> QED  BY <1>1, <1>2

(* Appending to the queue adds one element behind the others.              *)
LEMMA QueueAppend ==
  ASSUME NEW q \in Seq(Nodes), NEW x \in Nodes
  PROVE  /\ Append(q, x) \in Seq(Nodes)
         /\ DOMAIN Append(q, x) = DOMAIN q \cup {Len(q) + 1}
         /\ DOMAIN q = 1 .. Len(q) /\ Len(q) \in Nat
         /\ Append(q, x)[Len(q) + 1] = x
         /\ \A k \in DOMAIN q : Append(q, x)[k] = q[k]
OBVIOUS

(* Popping takes the last element away.                                    *)
LEMMA QueuePop ==
  ASSUME NEW q \in Seq(Nodes), q # <<>>
  PROVE  LET r == SubSeq(q, 1, Len(q) - 1)
         IN  /\ r \in Seq(Nodes)
             /\ Len(q) \in DOMAIN q /\ q[Len(q)] \in Nodes
             /\ DOMAIN r = DOMAIN q \ {Len(q)}
             /\ \A k \in DOMAIN r : r[k] = q[k]
OBVIOUS

(* One scan step: what was at or ahead of the scan stays there, but for    *)
(* the record just looked at.                                              *)
LEMMA ScanStep ==
  ASSUME scan \in Nodes
  PROVE  /\ scan + 1 \in Nat /\ scan + 1 >= 1
         /\ scan <= scan /\ ~ (scan + 1 <= scan)
         /\ \A i \in Nodes \ {scan} : scan + 1 <= i <=> scan <= i
BY NAssumption DEF Nodes

LEMMA InitInv == Init => Inv
<1> SUFFICES ASSUME Init PROVE Inv
  OBVIOUS
<1>1. preds \in [Nodes -> SUBSET Nodes]
  BY GraphsAssumption DEF Init, Nodes
<1>2. \A i \in Nodes : Cardinality(preds[i]) \in Nat
  BY <1>1, NodesFinite
<1>3. TypeOK
  BY <1>1, <1>2 DEF Init, TypeOK
<1>4. CountersExact
  <2>1. \A i \in Nodes : Waiting(i) = preds[i]
    BY DEF Init, Waiting
  <2> QED  BY <2>1, FS_EmptySet DEF Init, CountersExact
<1>5. Queued = {}
  BY DEF Init, Queued
<1>6. QueueExact
  BY <1>5 DEF Init, QueueExact, Nodes
<1> QED
  BY <1>3, <1>4, <1>5, <1>6 DEF Init, Inv, Correct, PoppedClosed, PoppedFounded, ScanAhead

LEMMA CollectInv == Inv /\ Collect => Inv'
<1> SUFFICES ASSUME Inv, Collect PROVE Inv'
  OBVIOUS
<1> USE DEF Inv
<1>1. scan \in Nodes /\ queue \in Seq(Nodes) /\ Queued \subseteq Nodes
  BY DEF Collect, TypeOK, Queued
<1>2. TypeOK'
  <2>1. queue' \in Seq(Nodes)
    BY <1>1, QueueAppend DEF Collect
  <2>2. scan' \in Nat
    BY DEF Collect, TypeOK
  <2> QED  BY <2>1, <2>2 DEF Collect, TypeOK
<1>3. \A i \in Nodes : Waiting(i)' = Waiting(i)
  BY DEF Collect, Waiting
<1>4. CountersExact'
  BY <1>3 DEF Collect, CountersExact
<1>5. Queued' = IF indegree[scan] = 0 THEN Queued \cup {scan} ELSE Queued
  BY <1>1, QueueAppend DEF Collect, Queued
<1>6. scan \notin Queued /\ popped = {}
  BY <1>1 DEF Collect, ScanAhead, Nodes
<1>7. QueueExact'
  <2>1. (\A k, l \in DOMAIN queue : queue[k] = queue[l] => k = l)'
    BY <1>1, <1>6, QueueAppend DEF Collect, QueueExact, Queued
  <2>2. \A i \in Nodes : indegree'[i] = 0 => i \in Queued' \/ scan + 1 <= i
    BY <1>1, <1>5, <1>6 DEF Collect, QueueExact, Nodes
  <2> QED  BY <1>5, <1>6, <2>1, <2>2 DEF Collect, QueueExact
<1>8. ScanAhead'
  <2>1. scan' = scan + 1 /\ scan \in Nat /\ scan >= 1
    BY DEF Collect, TypeOK, ScanAhead
  <2>2. \A i \in Queued' : i < scan'
    <3>1. \A i \in Queued : i \in Nat /\ i < scan
      BY <1>1 DEF Collect, ScanAhead, Nodes
    <3> QED  BY <1>5, <2>1, <3>1
  <2> QED  BY <1>6, <2>1, <2>2 DEF Collect, ScanAhead
<1> QED
  BY <1>2, <1>4, <1>7, <1>8
  DEF Collect, Correct, Acyclic, PoppedClosed, PoppedFounded

LEMMA CollectedInv == Inv /\ Collected => Inv'
<1> SUFFICES ASSUME Inv, Collected PROVE Inv'
  OBVIOUS
<1> USE DEF Inv
<1>1. \A i \in Nodes : Waiting(i)' = Waiting(i)
  BY DEF Collected, Waiting
<1>2. CountersExact'
  BY <1>1 DEF Collected, CountersExact
<1>3. Queued' = Queued
  BY DEF Collected, Queued
<1>4. \A i \in Nodes : ~ (scan <= i)
  BY NAssumption DEF Collected, ScanAhead, TypeOK, Nodes
<1>5. QueueExact'
  BY <1>3, <1>4 DEF Collected, QueueExact
<1> QED
  BY <1>2, <1>5
  DEF Collected, TypeOK, Correct, Acyclic, PoppedClosed, PoppedFounded, ScanAhead

LEMMA PopInv == Inv /\ Pop => Inv'
<1> SUFFICES ASSUME Inv, Pop PROVE Inv'
  OBVIOUS
<1> USE DEF Inv
<1>1. /\ node' \in Nodes /\ node' \in Queued /\ node' \notin popped
      /\ queue' \in Seq(Nodes)
  BY QueuePop DEF Pop, TypeOK, Queued, QueueExact
<1>2. Queued' = Queued \ {node'}
  <2>1. \A k \in DOMAIN queue : queue[k] = node' <=> k = Len(queue)
    BY QueuePop DEF Pop, TypeOK, QueueExact
  <2> QED  BY <2>1, QueuePop DEF Pop, TypeOK, Queued
<1>3. preds[node'] \subseteq popped
  <2>1. indegree[node'] = 0 /\ Waiting(node') = preds[node'] \ popped
    BY <1>1 DEF Pop, QueueExact, Waiting
  <2>2. Waiting(node') \in SUBSET Nodes /\ Cardinality(Waiting(node')) = 0
    BY <1>1, <2>1 DEF CountersExact, TypeOK
  <2> QED  BY <2>1, <2>2, NodesFinite, FS_EmptySet
<1>4. TypeOK'
  BY <1>1 DEF Pop, TypeOK
<1>5. CountersExact'
  <2>1. \A i \in Nodes : Waiting(i)' = Waiting(i)
    BY <1>1 DEF Pop, Waiting, Nodes
  <2>2. Cardinality(popped') = Cardinality(popped) + 1
    BY <1>1, NodesFinite, FS_AddElement DEF Pop, TypeOK
  <2> QED  BY <2>1, <2>2 DEF Pop, CountersExact
<1>6. QueueExact'
  <2>1. (\A k, l \in DOMAIN queue : queue[k] = queue[l] => k = l)'
    BY QueuePop DEF Pop, TypeOK, QueueExact
  <2> QED  BY <1>2, <2>1 DEF Pop, QueueExact
<1>7. PoppedClosed'
  BY <1>1, <1>3 DEF Pop, PoppedClosed
<1>8. PoppedFounded'
  <2> SUFFICES ASSUME NEW S \in SUBSET popped', S # {}
               PROVE  \E i \in S : preds[i] \cap S = {}
    BY DEF Pop, PoppedFounded
  <2>1. CASE S = {node'}
    BY <1>1, <1>3, <2>1
  <2>2. CASE S # {node'}
    <3>1. S \ {node'} \in SUBSET popped /\ S \ {node'} # {}
      BY <2>2 DEF Pop
    <3>2. PICK i \in S \ {node'} : preds[i] \cap (S \ {node'}) = {}
      BY <3>1 DEF PoppedFounded
    <3>3. preds[i] \subseteq popped
      BY <3>1, <3>2 DEF PoppedClosed
    <3> QED  BY <1>1, <3>2, <3>3
  <2> QED  BY <2>1, <2>2
<1> QED
  BY <1>4, <1>5, <1>6, <1>7, <1>8 DEF Pop, Correct, Acyclic, ScanAhead

LEMMA ReleaseInv == Inv /\ Release => Inv'
<1> SUFFICES ASSUME Inv, Release PROVE Inv'
  OBVIOUS
<1> USE DEF Inv
<1>1. scan \in Nodes /\ scan \notin popped /\ node \in popped
  BY DEF Release, TypeOK, PoppedClosed
<1>2. /\ node \in Waiting(scan) /\ Waiting(scan) \in SUBSET Nodes
      /\ \A i \in Nodes : i = scan => Waiting(i)' = Waiting(scan) \ {node}
  BY <1>1, ScanStep DEF Release, Waiting, TypeOK
<1>3. \A i \in Nodes \ {scan} : Waiting(i)' = Waiting(i)
  BY <1>1, ScanStep DEF Release, Waiting
<1>4. /\ indegree[scan] = Cardinality(Waiting(scan)) /\ indegree[scan] \in Nat \ {0}
      /\ Cardinality(Waiting(scan) \ {node}) = indegree[scan] - 1
  <2>1. IsFiniteSet(Waiting(scan)) /\ indegree[scan] = Cardinality(Waiting(scan))
    BY <1>1, <1>2, NodesFinite DEF CountersExact
  <2>2. Cardinality(Waiting(scan)) # 0
    BY <1>2, <2>1, FS_EmptySet
  <2>3. indegree[scan] \in Nat
    BY <1>1 DEF TypeOK
  <2>4. Cardinality(Waiting(scan) \ {node}) = Cardinality(Waiting(scan)) - 1
    BY <1>2, <2>1, FS_RemoveElement
  <2> QED  BY <2>1, <2>2, <2>3, <2>4
<1>5. TypeOK'
  <2>1. queue' \in Seq(Nodes)
    BY <1>1, QueueAppend DEF Release, TypeOK
  <2>2. indegree' \in [Nodes -> Nat]
    BY <1>1, <1>4 DEF Release, TypeOK
  <2> QED  BY <1>1, <2>1, <2>2, ScanStep DEF Release, TypeOK
<1>6. CountersExact'
  <2>1. \A i \in Nodes : indegree'[i] = IF i = scan THEN indegree[scan] - 1 ELSE indegree[i]
    BY <1>1 DEF Release, TypeOK
  <2>2. \A i \in Nodes : indegree'[i] = Cardinality(Waiting(i)')
    BY <1>2, <1>3, <1>4, <2>1 DEF CountersExact
  <2> QED  BY <2>2 DEF Release, CountersExact
<1>7. scan \notin Queued
  BY <1>4 DEF QueueExact
<1>8. Queued' = IF indegree[scan] = 1 THEN Queued \cup {scan} ELSE Queued
  BY <1>1, QueueAppend DEF Release, TypeOK, Queued
<1>9. QueueExact'
  <2>1. (\A k, l \in DOMAIN queue : queue[k] = queue[l] => k = l)'
    BY <1>1, <1>7, QueueAppend DEF Release, TypeOK, QueueExact, Queued
  <2>2. indegree'[scan] = indegree[scan] - 1 /\ \A i \in Nodes \ {scan} : indegree'[i] = indegree[i]
    BY <1>1 DEF Release, TypeOK
  <2>3. Queued \subseteq Nodes
    BY DEF Queued, TypeOK
  <2>4. \A i \in Queued' : indegree'[i] = 0
    BY <1>4, <1>7, <1>8, <2>2, <2>3 DEF QueueExact
  <2>5. \A i \in Nodes : indegree'[i] = 0 => i \in Queued' \cup popped'
    BY <1>4, <1>8, <2>2 DEF Release, QueueExact
  <2> QED  BY <1>1, <1>8, <2>1, <2>4, <2>5 DEF Release, QueueExact
<1> QED
  BY <1>1, <1>5, <1>6, <1>9, ScanStep
  DEF Release, Correct, Acyclic, PoppedClosed, PoppedFounded, ScanAhead

LEMMA PassInv == Inv /\ Pass => Inv'
<1> SUFFICES ASSUME Inv, Pass PROVE Inv'
  OBVIOUS
<1> USE DEF Inv
<1>1. \A i \in Nodes : Waiting(i)' = Waiting(i)
  <2>1. \A i \in Nodes : i = scan => Waiting(i)' = Waiting(i)
    BY ScanStep DEF Pass, Waiting
  <2>2. \A i \in Nodes \ {scan} : Waiting(i)' = Waiting(i)
    BY ScanStep DEF Pass, Waiting
  <2> QED  BY <2>1, <2>2
<1>2. CountersExact'
  BY <1>1 DEF Pass, CountersExact
<1>3. QueueExact'
  BY DEF Pass, QueueExact, Queued
<1> QED
  BY <1>2, <1>3, ScanStep
  DEF Pass, TypeOK, Correct, Acyclic, PoppedClosed, PoppedFounded, ScanAhead

LEMMA ReleasedInv == Inv /\ Released => Inv'
<1> SUFFICES ASSUME Inv, Released PROVE Inv'
  OBVIOUS
<1> USE DEF Inv
<1>1. \A i \in Nodes : ~ (scan <= i)
  BY NAssumption DEF Released, ScanAhead, TypeOK, Nodes
<1>2. \A i \in Nodes : Waiting(i)' = Waiting(i)
  BY <1>1 DEF Released, Waiting
<1>3. CountersExact'
  BY <1>2 DEF Released, CountersExact
<1>4. QueueExact'
  BY DEF Released, QueueExact, Queued
<1> QED
  BY <1>3, <1>4
  DEF Released, TypeOK, Correct, Acyclic, PoppedClosed, PoppedFounded, ScanAhead

LEMMA ReturnInv == Inv /\ Return => Inv'
<1> SUFFICES ASSUME Inv, Return PROVE Inv'
  OBVIOUS
<1> USE DEF Inv
<1>1. \A i \in Nodes : Waiting(i)' = Waiting(i)
  BY DEF Return, Waiting
<1>2. CountersExact'
  BY <1>1 DEF Return, CountersExact
<1>3. QueueExact'
  BY DEF Return, QueueExact, Queued
<1>4. popped \in SUBSET Nodes
  BY DEF TypeOK
<1>5. visited = N => Acyclic
  <2>1. visited = N => popped = Nodes
    BY <1>4, NodesFinite, FS_Subset DEF CountersExact
  <2> QED  BY <2>1 DEF PoppedFounded, Acyclic
<1>6. visited # N => ~ Acyclic
  <2> SUFFICES ASSUME visited # N PROVE ~ Acyclic
    OBVIOUS
  <2>1. Nodes \ popped # {}
    BY <1>4, NodesFinite DEF CountersExact
  <2>2. ASSUME NEW i \in Nodes \ popped PROVE preds[i] \cap (Nodes \ popped) # {}
    <3>1. indegree[i] # 0
      BY DEF Return, QueueExact, Queued
    <3>2. Cardinality(preds[i] \ popped) # 0
      BY <3>1 DEF Return, CountersExact, Waiting
    <3>3. preds[i] \ popped # {}
      BY <3>2, FS_EmptySet
    <3> QED  BY <3>3 DEF TypeOK
  <2> QED  BY <2>1, <2>2 DEF Acyclic
<1>7. Correct'
  BY <1>5, <1>6 DEF Return, Correct, Acyclic
<1> QED
  BY <1>2, <1>3, <1>7 DEF Return, TypeOK, PoppedClosed, PoppedFounded, ScanAhead

LEMMA StutterInv == Inv /\ UNCHANGED vars => Inv'
<1> SUFFICES ASSUME Inv, UNCHANGED vars PROVE Inv'
  OBVIOUS
<1> USE DEF Inv, vars
<1>1. TypeOK' /\ Correct' /\ PoppedClosed' /\ PoppedFounded'
  BY DEF TypeOK, Correct, Acyclic, PoppedClosed, PoppedFounded
<1>2. CountersExact'
  BY DEF CountersExact, Waiting
<1>3. QueueExact' /\ ScanAhead'
  BY DEF QueueExact, Queued, ScanAhead
<1> QED  BY <1>1, <1>2, <1>3

(* What the loop maintains for every graph.                                *)
THEOREM Invariance == Spec => []Inv
<1>1. Inv /\ [Next]_vars => Inv'
  BY CollectInv, CollectedInv, PopInv, ReleaseInv, PassInv, ReleasedInv, ReturnInv, StutterInv
  DEF Next
<1> QED  BY <1>1, InitInv, PTL DEF Spec

(* The variables of order() have the types the code gives them.            *)
THEOREM TypeCorrect == Spec => []TypeOK
<1>1. Inv => TypeOK
  BY DEF Inv
<1> QED  BY <1>1, Invariance, PTL

(* indegree[] always counts exactly the predecessors still waiting, so its *)
(* unsigned subtraction never wraps, visited counts the popped, and a       *)
(* record is queued exactly once, when its last predecessor has left.      *)
THEOREM BooksKept == Spec => []Bookkeeping
<1>1. Inv => Bookkeeping
  BY DEF Inv, Bookkeeping
<1> QED  BY <1>1, Invariance, PTL

(* order() answers "ok" only for a graph that can be lined up and          *)
(* CausalCycle only for one that cannot.                                   *)
THEOREM OrderCorrect == Spec => []Correct
<1>1. Inv => Correct
  BY DEF Inv
<1> QED  BY <1>1, Invariance, PTL
=============================================================================
