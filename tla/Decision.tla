------------------------------ MODULE Decision ------------------------------
(***************************************************************************)
(* What verify() promises its callers (ARCHITECTURE.md, section 5): one    *)
(* answer, ACCEPT only for an observation some legal run explains, REJECT  *)
(* only for one that none does, unless the search says it was exhausted.   *)
(***************************************************************************)
EXTENDS Naturals

CONSTANT Explainable(_, _)   \* observation, slack -> BOOLEAN

VARIABLES obs, options, verdict, exhausted

vars == <<obs, options, verdict, exhausted>>

Init ==
  /\ options.slack \in Nat
  /\ verdict = "none"
  /\ exhausted = FALSE

GiveUp ==
  /\ verdict = "none"
  /\ exhausted' = TRUE
  /\ UNCHANGED <<obs, options, verdict>>

Accept ==
  /\ verdict = "none" /\ verdict' = "accept"
  /\ Explainable(obs, options.slack)
  /\ UNCHANGED <<obs, options, exhausted>>

Reject ==
  /\ verdict = "none" /\ verdict' = "reject"
  /\ exhausted \/ ~ Explainable(obs, options.slack)
  /\ UNCHANGED <<obs, options, exhausted>>

Next == GiveUp \/ Accept \/ Reject

Spec == Init /\ [][Next]_vars
=============================================================================
