------------------------------- MODULE Order --------------------------------
(***************************************************************************)
(* The second half of Observation::order() (observation.rs): Kahn's        *)
(* algorithm over the direct predecessors of the records, which decides    *)
(* whether they can be lined up at all.  The `queue' is a Vec used as a    *)
(* stack.  One action is one branch of a loop body.                        *)
(***************************************************************************)
EXTENDS Naturals, Sequences, FiniteSets

CONSTANTS N,         \* the number of records
          Graphs     \* the predecessor functions order() may be asked about

ASSUME NAssumption == N \in Nat
ASSUME GraphsAssumption == Graphs \subseteq [1 .. N -> SUBSET (1 .. N)]

VARIABLES
  preds,             \* record -> its direct predecessors
  pc, indegree, queue, visited, node, scan, result,
  popped             \* history: the records counted in visited

vars == <<preds, pc, indegree, queue, visited, node, scan, result, popped>>

Nodes == 1 .. N

(* Every set of records has one none of the others precedes.               *)
Acyclic == \A S \in SUBSET Nodes : S # {} => \E i \in S : preds[i] \cap S = {}

Init ==
  /\ preds \in Graphs
  /\ pc = "collect"
  /\ indegree = [i \in Nodes |-> Cardinality(preds[i])]
  /\ queue = <<>> /\ visited = 0 /\ node = 0 /\ scan = 1
  /\ result = "none" /\ popped = {}

(* The queue starts with the records nothing precedes, in order.           *)
Collect ==
  /\ pc = "collect" /\ scan \in Nodes
  /\ queue' = IF indegree[scan] = 0 THEN Append(queue, scan) ELSE queue
  /\ scan' = scan + 1
  /\ UNCHANGED <<preds, pc, indegree, visited, node, result, popped>>

Collected ==
  /\ pc = "collect" /\ scan \notin Nodes
  /\ pc' = "pop"
  /\ UNCHANGED <<preds, indegree, queue, visited, node, scan, result, popped>>

(* Mistake the runs must notice: a popped record is not counted. *)
PopUncounted ==
  /\ pc = "pop" /\ queue # <<>>
  /\ node' = queue[Len(queue)]
  /\ queue' = SubSeq(queue, 1, Len(queue) - 1)
  /\ popped' = popped \cup {node'}
  /\ scan' = 1
  /\ pc' = "release"
  /\ UNCHANGED <<preds, indegree, visited, result>>

Pop ==
  /\ pc = "pop" /\ queue # <<>>
  /\ node' = queue[Len(queue)]
  /\ queue' = SubSeq(queue, 1, Len(queue) - 1)
  /\ visited' = visited + 1
  /\ popped' = popped \cup {node'}
  /\ scan' = 1
  /\ pc' = "release"
  /\ UNCHANGED <<preds, indegree, result>>

(* Mistake the runs must notice: every record is released. *)
ReleaseAll ==
  /\ pc = "release" /\ scan \in Nodes
  /\ indegree' = [indegree EXCEPT ![scan] = @ - 1]
  /\ queue' = IF indegree[scan] = 1 THEN Append(queue, scan) ELSE queue
  /\ scan' = scan + 1
  /\ UNCHANGED <<preds, pc, visited, node, result, popped>>

(* indegree is a usize: the subtraction must never meet a zero.            *)
Release ==
  /\ pc = "release" /\ scan \in Nodes
  /\ node \in preds[scan]
  /\ indegree' = [indegree EXCEPT ![scan] = @ - 1]
  /\ queue' = IF indegree[scan] = 1 THEN Append(queue, scan) ELSE queue
  /\ scan' = scan + 1
  /\ UNCHANGED <<preds, pc, visited, node, result, popped>>

(* Mistake the runs must notice: the scan does not advance. *)
PassStuck ==
  /\ pc = "release" /\ scan \in Nodes
  /\ node \notin preds[scan]
  /\ scan' = scan
  /\ UNCHANGED <<preds, pc, indegree, queue, visited, node, result, popped>>

Pass ==
  /\ pc = "release" /\ scan \in Nodes
  /\ node \notin preds[scan]
  /\ scan' = scan + 1
  /\ UNCHANGED <<preds, pc, indegree, queue, visited, node, result, popped>>

Released ==
  /\ pc = "release" /\ scan \notin Nodes
  /\ pc' = "pop"
  /\ UNCHANGED <<preds, indegree, queue, visited, node, scan, result, popped>>

(* Mistake the runs must notice: the count is not compared. *)
ReturnOk ==
  /\ pc = "pop" /\ queue = <<>>
  /\ result' = "ok"
  /\ pc' = "done"
  /\ UNCHANGED <<preds, indegree, queue, visited, node, scan, popped>>

Return ==
  /\ pc = "pop" /\ queue = <<>>
  /\ result' = IF visited = N THEN "ok" ELSE "cycle"
  /\ pc' = "done"
  /\ UNCHANGED <<preds, indegree, queue, visited, node, scan, popped>>

Next == Collect \/ Collected \/ Pop \/ Release \/ Pass \/ Released \/ Return

Spec == Init /\ [][Next]_vars /\ WF_vars(Next)

-----------------------------------------------------------------------------
(* The part of indegree[i] that the current scan has not brought up to     *)
(* date still counts the record just popped.                               *)
Waiting(i) == IF pc = "release" /\ scan <= i THEN preds[i] \ (popped \ {node})
              ELSE preds[i] \ popped

Queued == {queue[k] : k \in DOMAIN queue}

TypeOK ==
  /\ preds \in [Nodes -> SUBSET Nodes]
  /\ pc \in {"collect", "pop", "release", "done"}
  /\ indegree \in [Nodes -> Nat]
  /\ queue \in Seq(Nodes)
  /\ visited \in Nat /\ scan \in Nat /\ popped \subseteq Nodes
  /\ result \in {"none", "ok", "cycle"}
  /\ pc = "release" => node \in popped

(* The counters never underflow and never drift: each is the number of     *)
(* predecessors still waiting, so a decrement always meets at least one.   *)
CountersExact ==
  /\ \A i \in Nodes : indegree[i] = Cardinality(Waiting(i))
  /\ visited = Cardinality(popped)

(* A record enters the queue once, when its last predecessor has left it,  *)
(* and none that is free is forgotten.                                     *)
QueueExact ==
  /\ \A k, l \in DOMAIN queue : queue[k] = queue[l] => k = l
  /\ Queued \cap popped = {}
  /\ \A i \in Queued : indegree[i] = 0
  /\ \A i \in Nodes : indegree[i] = 0 =>
       i \in Queued \cup popped \/ (pc = "collect" /\ scan <= i)

Bookkeeping == CountersExact /\ QueueExact

(* order() succeeds exactly when the records can be lined up.              *)
Correct ==
  /\ result = "ok" => Acyclic
  /\ result = "cycle" => ~ Acyclic

(* order() returns.                                                        *)
Terminates == <>(pc = "done")
=============================================================================
