------------------------------- MODULE Ingest -------------------------------
(***************************************************************************)
(* What the adapters make of a run, and whether the workflow explains it:  *)
(* Normalize composed with the definition of a legal run.  The raw logs of *)
(* the model also say, in `legal', what really happened.                   *)
(***************************************************************************)
EXTENDS Normalize, LegalRun

CONSTANT AssumedSlack   \* the unlogged steps a caller allows for

(* Several jobs of the run are one declared job, and the one that became a  *)
(* record, the first of the listing, is not one the facts speak of.        *)
LegWithoutFact ==
  /\ ~ Bundled
  /\ \E i, j \in {k \in DOMAIN raw.jobs : raw.jobs[k].conclusion = "success"} :
       /\ RuleOf(raw.jobs[i]) = RuleOf(raw.jobs[j])
       /\ FactOf(raw.jobs[i]) = {} /\ FactOf(raw.jobs[j]) # {}
       /\ \E k \in DOMAIN obs.records : obs.records[k].id = raw.jobs[i].id

(* Whichever adapter reads the logs, in whatever order they list the jobs,  *)
(* with failed attempts, foreign jobs and matrix legs among them: what is   *)
(* explained was legal, what was legal is explained, unless a leg stands    *)
(* for its matrix of which no fact tells, and a log is turned away only     *)
(* when a line was delivered twice.                                        *)
JudgedAsHappened ==
  /\ phase = "valid" =>
       /\ Explainable(obs, AssumedSlack) => raw.legal
       /\ raw.legal /\ ~ LegWithoutFact => Explainable(obs, AssumedSlack)
  /\ phase = "refused" => \E i, j \in DOMAIN raw.jobs : i # j /\ raw.jobs[i].id = raw.jobs[j].id
=============================================================================
