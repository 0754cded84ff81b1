-------------------------- MODULE VerifyProperties --------------------------
(***************************************************************************)
(* What the search must get right, for every state it still holds and for  *)
(* the outcome it returns.  Module VerifyProofs proves them.               *)
(***************************************************************************)
EXTENDS Verify

Live == {stack[i] : i \in DOMAIN stack} \cup {best, cur}

StepCount == Cardinality(StepRecords(obs))

Accepted == outcome.verdict = "accept"
Rejected == outcome.verdict = "reject"

IsSeq(s) == s \in Seq({s[k] : k \in DOMAIN s})

-----------------------------------------------------------------------------
(* Bookkeeping of the search states                                        *)

StateOK(s) ==
  /\ s = [marking |-> s.marking, consumed |-> s.consumed, matched |-> s.matched, used |-> s.used,
          depth |-> s.depth, fresh |-> s.fresh, path |-> s.path]
  /\ MarkingOK(s.marking, s.depth)
  /\ s.consumed \subseteq Records(obs)
  /\ s.matched \subseteq EffectIds(obs)
  /\ s.used \in Nat /\ s.depth \in Nat /\ s.fresh \in Nat
  /\ IsSeq(s.path)

(* The variables have the values the code's types allow, the tokens of a   *)
(* marking keep their identity, and a loop that is trying a record stands  *)
(* on a step record the expanded state has not consumed yet.               *)
TypeOK ==
  /\ pc \in {"start", "pop", "observed", "fire", "slack", "invent", "conclude", "done"}
  /\ preds \in [Records(obs) -> SUBSET Records(obs)]
  /\ IsSeq(stack)
  /\ \A s \in Live : StateOK(s)
  /\ states \in Nat /\ cursor \in Nat /\ exhausted \in BOOLEAN
  /\ pc = "fire" => cursor \in StepRecords(obs) \ cur.consumed
  /\ pc = "invent" => cursor \in DOMAIN Transitions
  /\ \A a \in alts : a.target \in DanglingEffects \cup {Untargeted}

(* A path explains each consumed step record at exactly one of its steps,  *)
(* explains nothing else, and its other steps are the slack it has used,   *)
(* which never exceeds the slack allowed: `depth', `slack_used' and the    *)
(* path of SearchState never drift apart.                                  *)
PathAccounts(s) ==
  /\ Len(s.path) = s.depth
  /\ s.depth = Cardinality(s.consumed \cap StepRecords(obs)) + s.used
  /\ s.used <= options.slack
  /\ DanglingRecords(obs) \subseteq s.consumed
  /\ \A k \in DOMAIN s.path : s.path[k].record \in {0} \cup (s.consumed \cap StepRecords(obs))
  /\ \A i \in s.consumed \cap StepRecords(obs) : \E k \in DOMAIN s.path : s.path[k].record = i
  /\ \A k, l \in DOMAIN s.path : s.path[k].record = s.path[l].record => k = l \/ s.path[k].record = 0

Accounting == \A s \in Live : PathAccounts(s)

(* No path explains a record before one that order() puts ahead of it.     *)
PathOrdered(s) ==
  \A k \in DOMAIN s.path : s.path[k].record # 0 =>
    \A i \in preds[s.path[k].record] \cap StepRecords(obs) :
      \E l \in 1 .. (k - 1) : s.path[l].record = i

WitnessOrdered == \A s \in Live : PathOrdered(s)

(* The depth bound for_observation() computes is high enough never to cut  *)
(* the search: no state on the stack is deeper, so a rejection is never    *)
(* owed to it.                                                             *)
BoundNeverCuts == \A s \in Live : s.depth <= options.bound

-----------------------------------------------------------------------------
(* Soundness of what is held and of what is accepted                       *)

TransitionOf(step) == TransitionById(step.transition)

(* A state is on top of the stack when it is pushed, so looking there sees *)
(* every state the search ever holds.                                      *)
Newest == {stack[i] : i \in DOMAIN stack \cap {Len(stack)}}

SlotsOf(places, p) == {i \in DOMAIN places : places[i] = p}

Taken(path, k, p) ==
  Cardinality(UNION {{j} \X SlotsOf(TransitionOf(path[j]).consumes, p) : j \in 1 .. k})

Made(path, k, p) ==
  Cardinality(UNION {{j} \X SlotsOf(TransitionOf(path[j]).produces, p) : j \in 1 .. k})

(* Replaying a path with counters instead of tokens finds every token it   *)
(* consumes and ends with the number of tokens the search holds.  A token  *)
(* consumed and kept (the invariant approval-single-use of the release     *)
(* workflow) or lost would show as a difference.                           *)
PathReplays(s) ==
  \A p \in Places :
    /\ \A k \in DOMAIN s.path : SlotsOf(TransitionOf(s.path[k]).consumes, p) # {} =>
         Taken(s.path, k, p) <= Cardinality(Initial[p]) + Made(s.path, k - 1, p)
    /\ Cardinality(Initial[p]) + Made(s.path, Len(s.path), p)
         = Taken(s.path, Len(s.path), p) + Cardinality(s.marking[p])

TokensConserved == \A s \in Newest : PathReplays(s)

(* The step accounts for the effect under the values it bound.             *)
Accounts(step, e) ==
  /\ step.record # 0 => e \in EffectsIn(obs, {step.record})
  /\ step.record = 0 => e \in EffectsIn(obs, DanglingRecords(obs))
  /\ \E i \in DOMAIN TransitionOf(step).emits :
       Matches(TransitionOf(step).emits[i], e, step.bindings)

(* An accepted run has, for every observed effect, a step that emits it    *)
(* with the values it bound, and for every relation that step's emission   *)
(* requires, an observed edge to an effect that an earlier step of the     *)
(* path accounts for (README.md, the second verification layer).           *)
EffectsRealized ==
  Accepted =>
    LET path == outcome.explained
    IN  \A e \in Effects(obs) : \E k \in DOMAIN path :
          /\ Accounts(path[k], e)
          /\ \E i \in DOMAIN TransitionOf(path[k]).emits :
               LET tpl == TransitionOf(path[k]).emits[i]
               IN  /\ tpl.effect = e.kind
                   /\ \A j \in DOMAIN tpl.requires : \E edge \in obs.edges :
                        \E l \in 1 .. (k - 1) : \E target \in EffectNamed(obs, edge.to) :
                          /\ Accounts(path[l], target)
                          /\ Discharges(obs, edge, tpl.requires[j], e.id, path[k].bindings, {target.id})

(* A logged step of an accepted run was performed by a principal that may  *)
(* perform it, and no step, logged or not, binds a value that evidence     *)
(* should attest and does not: slack is no way round a certificate.        *)
WitnessAuthorized ==
  Accepted =>
    \A k \in DOMAIN outcome.explained :
      LET step == outcome.explained[k]
          t    == TransitionOf(step)
      IN  /\ step.record # 0 => /\ obs.records[step.record].step = t.id
                                /\ obs.records[step.record].principal \in t.admits
          /\ UnattestedVars(t, step.bindings) = {}
          /\ GuardHolds(t, step.bindings)

(* Every effect logged without its step is owed to an unlogged step of its *)
(* own, and an unlogged step emits a kind of effect that a complete plane  *)
(* carries only when it is such an effect: a complete plane is believed.   *)
UnloggedEmitting(kind) ==
  {k \in DOMAIN outcome.explained :
     /\ outcome.explained[k].record = 0
     /\ \E i \in DOMAIN TransitionOf(outcome.explained[k]).emits :
          TransitionOf(outcome.explained[k]).emits[i].effect = kind}

CompletePlanesBelieved ==
  Accepted =>
    \A kind \in UNION {{t.emits[i].effect : i \in DOMAIN t.emits} :
                         t \in {Transitions[j] : j \in DOMAIN Transitions}} :
      LET silent   == Cardinality(UnloggedEmitting(kind))
          dangling == Cardinality({e \in EffectsIn(obs, DanglingRecords(obs)) : e.kind = kind})
      IN  /\ silent >= dangling
          /\ PlaneCarries(obs, kind) => silent = dangling

(* Values that two unlogged bindings invent, in one step or in two, are    *)
(* never the same: artifacts whose digests nobody saw are not taken for    *)
(* one another.                                                            *)
Mints(step) ==
  LET t == TransitionOf(step)
  IN  {v \in {t.binds[i] : i \in DOMAIN t.binds} :
         \A i \in DOMAIN t.consumes : v \notin PlaceCarries[t.consumes[i]]}

ObservedValues == UNION {{e.args[k] : k \in DOMAIN e.args} : e \in Effects(obs)}

FreshNamesDistinct ==
  \A s \in Newest : \A k, l \in DOMAIN s.path :
    \A v \in Mints(s.path[k]), w \in Mints(s.path[l]) :
      s.path[k].bindings[v] = s.path[l].bindings[w] =>
        <<k, v>> = <<l, w>> \/ s.path[k].bindings[v] \in ObservedValues
=============================================================================
