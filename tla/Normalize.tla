----------------------------- MODULE Normalize ------------------------------
(***************************************************************************)
(* From raw logs to an observation (crates/adapters): lib.rs takes a bundle *)
(* of three planes, github.rs the jobs of a GitHub run and facts about     *)
(* them.  Events are taken in the order the logs list them; provenance     *)
(* becomes an edge only when the build it names is among the records.      *)
(*                                                                         *)
(* A template holds one ${key}; an id is its rank among the ids, which are  *)
(* compared as strings.                                                    *)
(***************************************************************************)
EXTENDS Observation, TLC

CONSTANTS
  Raws,          \* the logs taken in
  Jobs,          \* map: declared job -> [step, effects]
  JobKeys,       \* the declared jobs, in the order of the map
  AuditActions,  \* map: action -> [step, effects]
  RegistryActions, \* map: action -> effect rule
  RunnerPrincipal, \* map: the template of the runner's identity
  MapPlanes,     \* map: what each plane declares
  Parts,         \* runtime job name -> its [tail, base, head]
  Slug,          \* name -> what slugify() makes of it
  NoProvenance

ASSUME MapAssumption ==
  /\ Listed(JobKeys) /\ \A i \in DOMAIN JobKeys : JobKeys[i] \in DOMAIN Jobs
  /\ \A k \in DOMAIN Jobs : Listed(Jobs[k].effects)
  /\ \A k \in DOMAIN AuditActions : Listed(AuditActions[k].effects)

(* GitHub numbers the jobs of a run: two lines of one number are one line, *)
(* delivered twice.                                                        *)
ASSUME RawsAssumption ==
  \A r \in Raws :
    /\ r.adapter \in {"bundle", "github"}
    /\ \A list \in {r.jobs, r.audit, r.events} :
         Listed(list) /\ \A i \in DOMAIN list : list[i].ts \in Nat /\ list[i].id \in Nat
    /\ Listed(r.facts)
    /\ r.adapter = "github" =>
         \A i, j \in DOMAIN r.jobs : r.jobs[i].id = r.jobs[j].id => r.jobs[i] = r.jobs[j]

VARIABLES
  raw, phase, at,        \* the logs, and the loop over them
  records, edges,        \* built so far
  seen, pending,         \* github: steps recorded, provenance not resolved yet
  obs                    \* the observation, when it is built

vars == <<raw, phase, at, records, edges, seen, pending, obs>>

Init ==
  /\ raw \in Raws /\ phase = "jobs" /\ at = 1
  /\ records = <<>> /\ edges = {} /\ seen = {} /\ pending = <<>>
  /\ obs = [records |-> <<>>, edges |-> {}, planes |-> MapPlanes]

-----------------------------------------------------------------------------
Substitute(template, context) ==
  template.before
  \o (IF template.key \in DOMAIN context THEN context[template.key]
      ELSE "<unresolved:" \o template.key \o ">")
  \o template.after

RenderEffects(rules, context, id) ==
  [i \in DOMAIN rules |->
     [id |-> <<id, i>>, kind |-> rules[i].kind,
      args |-> [k \in DOMAIN rules[i].args |-> Substitute(rules[i].args[k], context)]]]

Event(id, plane, principal, step, ts, effects) ==
  [id |-> id, plane |-> plane, principal |-> principal, step |-> step, ts |-> ts, effects |-> effects]

(* The first artifact_create with this digest among the records built.     *)
Builds(digest) ==
  {x \in UNION {{<<i, j>> : j \in DOMAIN records[i].effects} : i \in DOMAIN records} :
     LET e == records[x[1]].effects[x[2]]
     IN  e.kind = "artifact_create" /\ "digest" \in DOMAIN e.args /\ e.args.digest = digest}

FirstBuild(digest) ==
  LET x == CHOOSE x \in Builds(digest) :
             \A y \in Builds(digest) : x[1] < y[1] \/ (x[1] = y[1] /\ x[2] <= y[2])
  IN  records[x[1]].effects[x[2]].id

LinkTo(from, digest) ==
  IF Builds(digest) = {} THEN {}
  ELSE {[ty |-> "derives_from", from |-> from, to |-> FirstBuild(digest)]}

-----------------------------------------------------------------------------
(* Which declared job a job of the run is: a set, empty when it is none.   *)

Bundled == raw.adapter = "bundle"

Exactly(name) == {Jobs[k] : k \in {name} \cap DOMAIN Jobs}

(* What find() finds in a list: the first index of those that will do.     *)
Foremost(S) == {i \in S : \A j \in S : i <= j}

(* resolve_rule(): the name, its tail, its base, and then a slug.           *)
ResolveRule(name) ==
  LET tries == <<name, Parts[name].tail, Parts[name].base>>
      exact == {i \in 1 .. 3 : tries[i] \in DOMAIN Jobs}
      alike == {i \in DOMAIN JobKeys : Slug[JobKeys[i]] \in {Slug[Parts[name].base], Slug[Parts[name].head]}}
  IN  IF exact # {} THEN {Jobs[tries[i]] : i \in Foremost(exact)}
      ELSE {Jobs[JobKeys[i]] : i \in Foremost(alike)}

RuleOf(job) == IF Bundled THEN Exactly(job.name) ELSE ResolveRule(job.name)

(* GitHub reports every leg of a matrix; only the first becomes a record.  *)
Ignored(job) ==
  \/ job.conclusion # "success" \/ RuleOf(job) = {}
  \/ ~ Bundled /\ \A rule \in RuleOf(job) : rule.step \in seen

(* The first fact about a job, by its name or its tail: a set.              *)
FactOf(job) ==
  {raw.facts[i] : i \in Foremost({j \in DOMAIN raw.facts :
                                    raw.facts[j].step \in {job.name, Parts[job.name].tail}})}

(* A fact's values are known by their name and as outputs of the job.      *)
Outputs(args) == [k \in {"outputs." \o n : n \in DOMAIN args} |->
                    args[CHOOSE n \in DOMAIN args : k = "outputs." \o n]]

JobContext(job) ==
  [actor |-> IF Bundled THEN job.actor ELSE raw.actor, repository_name |-> raw.repository[2]]
  @@ (IF Bundled THEN Outputs(job.outputs)
      ELSE LET args == UNION {{<<k, f.args[k]>> : k \in DOMAIN f.args} : f \in FactOf(job)}
               known == [k \in {a[1] : a \in args} |-> (CHOOSE a \in args : a[1] = k)[2]]
           IN  known @@ Outputs(known))

JobRecord(job, rule) ==
  Event(job.id, "runner", Substitute(RunnerPrincipal, JobContext(job)), rule.step, job.ts,
        RenderEffects(rule.effects, JobContext(job), job.id))

Looking(p, list) == phase = p /\ at <= Len(list)

SkipJob ==
  /\ Looking("jobs", raw.jobs) /\ Ignored(raw.jobs[at])
  /\ at' = at + 1
  /\ UNCHANGED <<raw, phase, records, edges, seen, pending, obs>>

Claims(job, rule) == {f \in FactOf(job) : f.provenance # NoProvenance /\ 1 \in DOMAIN rule.effects}

(* Mistake the runs must notice: provenance is resolved against the jobs   *)
(* that are listed earlier.                                                *)
RecordJobLinking ==
  /\ Looking("jobs", raw.jobs) /\ ~ Ignored(raw.jobs[at])
  /\ LET job == raw.jobs[at]
     IN  \E rule \in RuleOf(job) :
           /\ records' = Append(records, JobRecord(job, rule))
           /\ seen' = IF Bundled THEN seen ELSE seen \cup {rule.step}
           /\ edges' = IF Bundled THEN edges
                       ELSE edges \cup UNION {LinkTo(<<job.id, 1>>, f.provenance) : f \in Claims(job, rule)}
  /\ at' = at + 1
  /\ UNCHANGED <<raw, phase, pending, obs>>

RecordJob ==
  /\ Looking("jobs", raw.jobs) /\ ~ Ignored(raw.jobs[at])
  /\ LET job == raw.jobs[at]
     IN  \E rule \in RuleOf(job) :
           /\ records' = Append(records, JobRecord(job, rule))
           /\ IF Bundled \/ Claims(job, rule) = {} THEN UNCHANGED pending
              ELSE \E f \in Claims(job, rule) :
                     pending' = Append(pending, [from |-> <<job.id, 1>>, digest |-> f.provenance])
           /\ seen' = IF Bundled THEN seen ELSE seen \cup {rule.step}
  /\ at' = at + 1
  /\ UNCHANGED <<raw, phase, edges, obs>>

TakeEntry ==
  /\ Looking("audit", raw.audit)
  /\ LET entry == raw.audit[at]
     IN  IF entry.action \in DOMAIN AuditActions
           THEN LET rule == AuditActions[entry.action]
                IN  records' = Append(records,
                      Event(entry.id, "audit", entry.principal, rule.step, entry.ts,
                            RenderEffects(rule.effects, entry.attributes, entry.id)))
           ELSE UNCHANGED records
  /\ at' = at + 1
  /\ UNCHANGED <<raw, phase, edges, seen, pending, obs>>

(* The edge is drawn before the record joins the others.                   *)
TakeEvent ==
  /\ Looking("registry", raw.events)
  /\ LET event == raw.events[at]
     IN  IF event.action \in DOMAIN RegistryActions
           THEN LET effects == RenderEffects(<<RegistryActions[event.action]>>, event.fields, event.id)
                IN  /\ records' = Append(records,
                         Event(event.id, "registry", event.actor, NoStep, event.ts, effects))
                    /\ edges' = IF event.provenance = NoProvenance THEN edges
                                ELSE edges \cup LinkTo(effects[1].id, event.provenance)
           ELSE UNCHANGED <<records, edges>>
  /\ at' = at + 1
  /\ UNCHANGED <<raw, phase, seen, pending, obs>>

Resolve ==
  /\ Looking("link", pending)
  /\ edges' = edges \cup LinkTo(pending[at].from, pending[at].digest)
  /\ at' = at + 1
  /\ UNCHANGED <<raw, phase, records, seen, pending, obs>>

(* Mistake the runs must notice: lines of one second stay as they are listed. *)
SoonerByTime(a, b) == a.ts < b.ts

Sooner(a, b) == a.ts < b.ts \/ (a.ts = b.ts /\ a.id < b.id)

(* sort_by() is stable: a record comes behind those that are sooner and    *)
(* those listed before it that it is not sooner than.                      *)
Sorted(seq) ==
  LET Ahead(i) == {j \in DOMAIN seq : Sooner(seq[j], seq[i]) \/ (~ Sooner(seq[i], seq[j]) /\ j < i)}
  IN  [k \in DOMAIN seq |-> seq[CHOOSE i \in DOMAIN seq : Cardinality(Ahead(i)) = k - 1]]

Finished(p) ==
  CASE p = "jobs" -> at > Len(raw.jobs)
    [] p = "audit" -> at > Len(raw.audit)
    [] p = "registry" -> at > Len(raw.events)
    [] p = "link" -> at > Len(pending)

NextList ==
  /\ phase \in {"jobs", "audit"} /\ Finished(phase)
  /\ phase' = CASE phase = "jobs" /\ Bundled -> "audit"
                [] phase = "jobs" /\ ~ Bundled -> "link"
                [] phase = "audit" -> "registry"
  /\ at' = 1
  /\ UNCHANGED <<raw, records, edges, seen, pending, obs>>

(* The ingest command and the service validate what they get and go no      *)
(* further when it is not valid; scenario_leg() of the command line does   *)
(* not look.                                                               *)
Finish ==
  /\ phase \in {"registry", "link"} /\ Finished(phase)
  /\ obs' = [obs EXCEPT !.records = Sorted(records), !.edges = edges]
  /\ phase' = IF Valid(obs') THEN "valid" ELSE "refused"
  /\ UNCHANGED <<raw, at, records, edges, seen, pending>>

Next == SkipJob \/ RecordJob \/ TakeEntry \/ TakeEvent \/ Resolve \/ NextList \/ Finish

Spec == Init /\ [][Next]_vars

-----------------------------------------------------------------------------
(* The effects that come with a provenance, and the digest it names: those *)
(* of the registry events recorded, or of the jobs a fact is about.        *)
Provenances ==
  IF Bundled
  THEN {<<<<raw.events[i].id, 1>>, raw.events[i].provenance>> :
          i \in {j \in DOMAIN raw.events : raw.events[j].action \in DOMAIN RegistryActions
                                           /\ raw.events[j].provenance # NoProvenance}}
  ELSE UNION {{<<<<raw.jobs[i].id, 1>>, f.provenance>> :
                 f \in {g \in FactOf(raw.jobs[i]) : g.provenance # NoProvenance}} : i \in DOMAIN raw.jobs}

(* Provenance links what was published to what was built, and only that,   *)
(* in whatever order the logs list them: an edge runs from the holder of a *)
(* provenance to an artifact_create of the digest it names, each holder    *)
(* has at most one, and it goes without only when no record of the         *)
(* observation shows such a build (normalize() of lib.rs and of github.rs). *)
LinksObserved ==
  phase = "valid" =>
    LET Shows(digest) == {e \in Effects(obs) : /\ e.kind = "artifact_create"
                                               /\ "digest" \in DOMAIN e.args /\ e.args.digest = digest}
    IN  /\ \A x \in obs.edges : \E p \in Provenances :
             p[1] = x.from /\ x.to \in {e.id : e \in Shows(p[2])}
        /\ \A x, y \in obs.edges : x.from = y.from => x = y
        /\ \A p \in Provenances :
             p[1] \in EffectIds(obs) /\ Shows(p[2]) # {} => \E x \in obs.edges : x.from = p[1]
=============================================================================
