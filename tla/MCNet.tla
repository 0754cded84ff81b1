------------------------------- MODULE MCNet --------------------------------
(***************************************************************************)
(* Notation shared by the model-checking modules: patterns, templates,     *)
(* transitions, records, and the ways a log departs from a clean run.      *)
(***************************************************************************)
EXTENDS Naturals, Sequences, FiniteSets, TLC

Lit(v)     == [kind |-> "lit", text |-> v, matches |-> {v}]
Var(v)     == [kind |-> "var", text |-> v, matches |-> {}]
Glob(g, S) == [kind |-> "glob", text |-> g, matches |-> S]

Emits(effect, args)              == [effect |-> effect, args |-> args, requires |-> <<>>]
EmitsUnder(effect, args, obs)    == [effect |-> effect, args |-> args, requires |-> obs]
Obligation(ty, target, bind)     == [ty |-> ty, target |-> target, bind |-> bind]

Transition(id, class, admits, consumes, produces, emits) ==
  [id |-> id, principal |-> class, admits |-> admits, consumes |-> consumes,
   produces |-> produces, binds |-> <<>>, attested |-> {}, guard |-> {}, emits |-> emits]

Binding(t, v)  == [t EXCEPT !.binds = Append(@, v)]
Attesting(t, v) == [t EXCEPT !.binds = Append(@, v), !.attested = @ \cup {v}]
GuardedBy(t, c) == [t EXCEPT !.guard = @ \cup {c}]

NamedFresh(n) == "~fresh" \o ToString(n)

Effect(id, kind, args) == [id |-> id, kind |-> kind, args |-> args]

Record(plane, principal, step, ts, effects) ==
  [plane |-> plane, principal |-> principal, step |-> step, ts |-> ts, effects |-> effects]

Edge(ty, from, to) == [ty |-> ty, from |-> from, to |-> to]

-----------------------------------------------------------------------------
(* Departures from a clean log                                             *)

IdsAt(o, i) == {o.records[i].effects[j].id : j \in DOMAIN o.records[i].effects}

AllIds(o) == UNION {IdsAt(o, i) : i \in DOMAIN o.records}

WithoutDeadEdges(o) == [o EXCEPT !.edges = {e \in @ : {e.from, e.to} \subseteq AllIds(o)}]

(* The collector lost the line. *)
DropRecord(o, i) ==
  WithoutDeadEdges([o EXCEPT !.records = SubSeq(@, 1, i - 1) \o SubSeq(@, i + 1, Len(@))])

(* The log shows the effect and not the step: it comes from another plane. *)
EffectOnly(o, i, plane) ==
  [o EXCEPT !.records[i].step = "none", !.records[i].plane = plane]

(* A step logged by another plane has lost its place in the first clock.   *)
OtherPlane(o, i, plane) == [o EXCEPT !.records[i].plane = plane]

(* Every step logged by a plane of its own: no clock relates any two.      *)
Scattered(o) ==
  [o EXCEPT !.records = [i \in DOMAIN @ |-> [@[i] EXCEPT !.plane = "plane" \o ToString(i)]]]

ByPrincipal(o, i, p) == [o EXCEPT !.records[i].principal = p]

Renamed(o, i, s) == [o EXCEPT !.records[i].step = s]

WithArg(o, i, k, v) ==
  [o EXCEPT !.records[i].effects =
     [j \in DOMAIN @ |-> IF k \in DOMAIN @[j].args THEN [@[j] EXCEPT !.args[k] = v] ELSE @[j]]]

NoEffects(o, i) == WithoutDeadEdges([o EXCEPT !.records[i].effects = <<>>])

NoEdges(o) == [o EXCEPT !.edges = {}]

Swapped(o, i) ==
  [o EXCEPT !.records[i].ts = o.records[i + 1].ts, !.records[i + 1].ts = o.records[i].ts]

Again(id) == id \o "b"

(* The same step performed a second time, at the end. *)
Replayed(o, i) ==
  LET r == o.records[i]
  IN  [o EXCEPT
        !.records = Append(@, [r EXCEPT !.ts = 99,
                                 !.effects = [j \in DOMAIN @ |-> [@[j] EXCEPT !.id = Again(@)]]]),
        !.edges = @ \cup {[e EXCEPT !.from = Again(@)] : e \in {f \in @ : f.from \in IdsAt(o, i)}}]

Incomplete(o, plane) == [o EXCEPT !.planes[plane].complete = FALSE]
=============================================================================
