---------------------------- MODULE Observation ----------------------------
(***************************************************************************)
(* The observation of one run (crates/engine/src/observation.rs): records  *)
(* stitched from several log planes, the effects they carry and the        *)
(* relation edges between effects, as a record                             *)
(*                                                                         *)
(*   [records : Seq of [plane, principal, step, ts, effects],              *)
(*    edges   : set of [ty, from, to],                                     *)
(*    planes  : plane name -> [complete : BOOLEAN, carries : set of kinds]]*)
(*                                                                         *)
(* A record is named by its index.  `step' is NoStep for a record that     *)
(* names no workflow step (step: None in the code); its effects are the    *)
(* dangling ones.  An effect is [id, kind, args] with args a function from *)
(* argument names to values.                                               *)
(***************************************************************************)
EXTENDS Naturals, Sequences, FiniteSets

(* A sequence of values of any kind.                                       *)
Listed(q) == Len(q) \in Nat /\ DOMAIN q = 1 .. Len(q)

NoStep == "none"

Records(o) == DOMAIN o.records

EffectsIn(o, R) == UNION {{o.records[i].effects[j] : j \in DOMAIN o.records[i].effects} : i \in R}

Effects(o) == EffectsIn(o, Records(o))

EffectIds(o) == {e.id : e \in Effects(o)}

(* The effect named id, as a set that is empty when no record carries it.  *)
EffectNamed(o, id) == {e \in Effects(o) : e.id = id}

RecordsOfEffect(o, id) == {i \in Records(o) : \E e \in EffectsIn(o, {i}) : e.id = id}

StepRecords(o) == {i \in Records(o) : o.records[i].step # NoStep}

DanglingRecords(o) == Records(o) \ StepRecords(o)

IdsOfRecord(o, i) == {e.id : e \in EffectsIn(o, {i})}

PlaneCarries(o, kind) ==
  \E p \in DOMAIN o.planes : o.planes[p].complete /\ kind \in o.planes[p].carries

(* i precedes j in the clock of the plane both belong to; equal timestamps *)
(* fall back on the order of the records in the file.                      *)
Earlier(o, i, j) ==
  /\ o.records[i].plane = o.records[j].plane
  /\ \/ o.records[i].ts < o.records[j].ts
     \/ o.records[i].ts = o.records[j].ts /\ i < j

(* windows(2) over the sorted plane: only neighbours are related directly. *)
PlanePreds(o, j) ==
  {i \in Records(o) : /\ Earlier(o, i, j)
                      /\ ~ \E k \in Records(o) : Earlier(o, i, k) /\ Earlier(o, k, j)}

(* An edge runs from the effect to its cause: the cause's record is first. *)
EdgePreds(o, j) ==
  {i \in Records(o) \ {j} :
     \E e \in o.edges : j \in RecordsOfEffect(o, e.from) /\ i \in RecordsOfEffect(o, e.to)}

DirectPreds(o) == [j \in Records(o) |-> PlanePreds(o, j) \cup EdgePreds(o, j)]

(* What Kahn's loop at the end of order() decides; module Order models the *)
(* loop itself and proves that it decides exactly this.                    *)
Acyclic(N, preds) ==
  \A S \in SUBSET N : S # {} => \E i \in S : preds[i] \cap S = {}

(* order() as its callers see it: verify() falls back on no order at all   *)
(* when order() returns CausalCycle.                                       *)
Order(o) ==
  IF Acyclic(Records(o), DirectPreds(o)) THEN DirectPreds(o)
  ELSE [j \in Records(o) |-> {}]

(* validate(): record ids are indices here, so only effect ids can clash.  *)
Valid(o) ==
  /\ \A i, k \in Records(o) :
       \A j \in DOMAIN o.records[i].effects, l \in DOMAIN o.records[k].effects :
         o.records[i].effects[j].id = o.records[k].effects[l].id => i = k /\ j = l
  /\ \A e \in o.edges : {e.from, e.to} \subseteq EffectIds(o)
  /\ Acyclic(Records(o), DirectPreds(o))
=============================================================================
