-------------------------- MODULE VerifyReference ---------------------------
(***************************************************************************)
(* The search against what the documents promise: verify() implements the  *)
(* abstract Decision, with LegalRun saying what a legal run is.            *)
(***************************************************************************)
EXTENDS VerifyProperties, LegalRun

D == INSTANCE Decision WITH verdict <- outcome.verdict

(* verify() gives one answer and it is the right one: ACCEPT only when a   *)
(* legal run explains the observation within the slack, REJECT only when   *)
(* none does, or when the search was exhausted.                            *)
Decides == D!Spec

(* verify() returns: every state it pops is expanded in finitely many      *)
(* steps and the stack runs dry.                                           *)
Terminates == <>(pc = "done")

(* The path a rejection reports is as long as any: no legal partial run    *)
(* explains more records, or as many records and more effects (the test    *)
(* rejection_reports_the_longest_legal_prefix).                            *)
LongestPrefix ==
  Rejected /\ ~ outcome.exhausted =>
    \A cfg \in Configurations(obs, options.slack) :
      ~ Less(Score(best), <<Cardinality(cfg.done \cup DanglingRecords(obs)), Cardinality(cfg.made)>>)

(* "Any rejection is a proof that no legitimate execution of the declared  *)
(* workflow produces the observation.  No false positives with respect to  *)
(* the spec." (ARCHITECTURE.md, section 5)                                 *)
RejectionIsProof ==
  Rejected /\ ~ outcome.exhausted => ~ Explainable(obs, options.slack)

(* "timestamps order events only within one source" (ARCHITECTURE.md,      *)
(* section 6): an accepted path keeps any two steps of one plane in the    *)
(* order of that plane's clock.                                            *)
ClockRespected ==
  Accepted =>
    \A k, l \in DOMAIN outcome.explained :
      LET i == outcome.explained[k].record
          j == outcome.explained[l].record
      IN  i # 0 /\ j # 0 /\ Earlier(obs, i, j) => k < l
=============================================================================
