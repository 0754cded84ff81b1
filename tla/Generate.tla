------------------------------ MODULE Generate ------------------------------
(***************************************************************************)
(* The specification generated from a GitHub Actions workflow file         *)
(* (crates/wsl/src/generate.rs): one transition and one place per job,     *)
(* joined along the needs of the jobs.                                     *)
(*                                                                         *)
(* A workflow file is [jobs, needs, steps]: its job ids in order, the needs *)
(* of each, and for each step the keywords found in its name and action.   *)
(***************************************************************************)
EXTENDS Naturals, Sequences, Functions

CONSTANT Slug   \* job id -> its transition id

Keywords == <<"checkout", "test", "build", "publish">>
Effects  == <<"vcs_read", "ci_report", "artifact_create", "registry_write">>

Ranks(steps) == {r \in DOMAIN Keywords : \E i \in DOMAIN steps : Keywords[r] \in steps[i]}

(* The strongest signal of a job's steps decides.                          *)
GuessEffect(steps) ==
  IF Ranks(steps) = {} THEN "none"
  ELSE Effects[CHOOSE r \in Ranks(steps) : \A q \in Ranks(steps) : q <= r]

Kind(wf, j) == GuessEffect(wf.steps[j])

HasBuild(wf) == \E i \in DOMAIN wf.jobs : Kind(wf, wf.jobs[i]) = "artifact_create"

Start == <<"start">>
PlaceOf(j) == <<"p", Slug[j]>>

CarriesOf(wf, j) ==
  IF \/ Kind(wf, j) = "artifact_create"
     \/ HasBuild(wf) /\ Kind(wf, j) \in {"ci_report", "registry_write"}
    THEN {"digest"} ELSE {}

Depended(wf) == UNION {Range(wf.needs[wf.jobs[i]]) : i \in DOMAIN wf.jobs}

(* Mistake the runs must notice: a job waits for its first need only. *)
ConsumesFirst(wf, j) == IF wf.needs[j] = <<>> THEN <<Start>> ELSE <<PlaceOf(wf.needs[j][1])>>

Consumes(wf, j) ==
  IF wf.needs[j] = <<>> THEN <<Start>>
  ELSE [i \in DOMAIN wf.needs[j] |-> PlaceOf(wf.needs[j][i])]

(* The variables the emission of a job refers to: a test always reports a  *)
(* digest, a publication only when some job builds one.                    *)
Refers(wf, j) ==
  IF \/ Kind(wf, j) \in {"artifact_create", "ci_report"}
     \/ Kind(wf, j) = "registry_write" /\ HasBuild(wf)
    THEN {"digest"} ELSE {}

Obliges(wf, j) ==
  IF Kind(wf, j) = "registry_write" /\ HasBuild(wf)
    THEN {[effect |-> "registry_write", ty |-> "derives_from", target |-> "artifact_create"]} ELSE {}

TransitionOf(wf, j) ==
  [id |-> Slug[j], principal |-> "gha_runner",
   consumes |-> Consumes(wf, j), produces |-> <<PlaceOf(j)>>,
   binds |-> IF Kind(wf, j) = "artifact_create" THEN {"digest"} ELSE {},
   refs |-> Refers(wf, j), emits |-> {Kind(wf, j)} \ {"none"}, obliges |-> Obliges(wf, j)]

Generated(wf) ==
  LET jobs == wf.jobs
      places == <<Start>> \o [i \in DOMAIN jobs |-> PlaceOf(jobs[i])]
      kinds == {Kind(wf, jobs[i]) : i \in DOMAIN jobs}
      finals == SelectSeq(jobs, LAMBDA j : j \notin Depended(wf))
  IN  [places |-> places,
       carries |-> [i \in DOMAIN places |-> IF i = 1 THEN {} ELSE CarriesOf(wf, jobs[i - 1])],
       tokens |-> [i \in DOMAIN places |-> IF i = 1 THEN 1 ELSE 0],
       principals |-> {"gha_runner"},
       transitions |-> [i \in DOMAIN jobs |-> TransitionOf(wf, jobs[i])],
       finals |-> [i \in DOMAIN finals |-> PlaceOf(finals[i])],
       relations |-> IF {"registry_write", "artifact_create"} \subseteq kinds
                       THEN {[name |-> "derives_from", from |-> "registry_write", to |-> "artifact_create"]}
                       ELSE {},
       once |-> {}, named |-> {}]
=============================================================================
