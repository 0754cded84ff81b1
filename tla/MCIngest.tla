------------------------------ MODULE MCIngest ------------------------------
(***************************************************************************)
(* What may have happened on the release workflow, and how a bundle or the *)
(* GitHub API would log it (fixtures/raw, fixtures/actions).               *)
(***************************************************************************)
EXTENDS Ingest, MCRelease

LOCAL INSTANCE Functions

Template(before, key, after) == [before |-> before, key |-> key, after |-> after]
Of(key) == Template("", key, "")
Rule(step, kind, args) == [step |-> step, effects |-> <<[kind |-> kind, args |-> args]>>]

OutputDigest == [digest |-> Of("outputs.digest")]
OutputWrite == [scope |-> Of("outputs.scope"), digest |-> Of("outputs.digest")]

(* spec/adapter.map.json *)
MCJobs == [
  checkout |-> Rule("checkout", "vcs_read", [scope |-> Template("repo/", "repository_name", "")]),
  build    |-> Rule("build", "artifact_create", OutputDigest),
  test     |-> Rule("test", "ci_report", OutputDigest),
  publish  |-> Rule("publish_standard", "registry_write", OutputWrite)]
MCJobKeys == <<"build", "checkout", "publish", "test">>
MCAudit == [grant_emergency_approval |->
  Rule("grant_emergency_approval", "approval_issued", [grant |-> Of("attributes.kind")])]
MCRegistry == [publish |-> [kind |-> "registry_write", args |-> [scope |-> Of("scope"), digest |-> Of("digest")]]]
MCRunner == Template("", "actor", "@ci.internal")

(* A job of a matrix, one of a called workflow, one named in title case.    *)
MCParts ==
  [n \in {"checkout", "build", "test", "publish", "lint"} |-> [tail |-> n, base |-> n, head |-> n]]
  @@ ("test (a)" :> [tail |-> "test (a)", base |-> "test", head |-> "test (a)"])
  @@ ("test (b)" :> [tail |-> "test (b)", base |-> "test", head |-> "test (b)"])
  @@ ("ship / publish" :> [tail |-> "publish", base |-> "publish", head |-> "ship"])
  @@ ("Build" :> [tail |-> "Build", base |-> "Build", head |-> "Build"])
MCSlug == [n \in {"checkout", "build", "test", "publish", "lint", "ship"} |-> n]
  @@ ("Build" :> "build") @@ ("test (a)" :> "test_a") @@ ("test (b)" :> "test_b")

Worlds ==
  [tested : BOOLEAN, published : {"AA11", "BEEF"}, provenance : {"AA11", "BEEF", "none"},
   granted : {"none", "sre", "bot"}]

(* Approved or tested, and by whom it should be; what was built is what is *)
(* published, and its provenance says so.                                  *)
IsLegal(w) ==
  /\ w.published = "AA11" /\ w.provenance = "AA11"
  /\ w.granted # "bot"
  /\ w.tested \/ w.granted = "sre"

Done(name, id, ts, outputs) ==
  [name |-> name, id |-> id, ts |-> ts, actor |-> "ci-bot", conclusion |-> "success", outputs |-> outputs]
Failed(job) == [job EXCEPT !.conclusion = "failure"]

(* Two jobs of one second are told apart by their ids.                     *)
BundleJobs(w, tick) ==
  <<Done("checkout", 1, 1, <<>>), Done("build", 2, tick, [digest |-> "AA11"])>>
  \o (IF w.tested THEN <<Done("test", 3, 2, [digest |-> "AA11"])>> ELSE <<Failed(Done("test", 3, 2, [digest |-> "AA11"]))>>)
  \o <<Done("lint", 6, 2, <<>>)>>

Bundle(w, jobs) ==
  [adapter |-> "bundle", legal |-> IsLegal(w), repository |-> <<"acme", "app">>, jobs |-> jobs, facts |-> <<>>,
   audit |-> IF w.granted = "none" THEN <<[id |-> 7, action |-> "login", principal |-> Bot, ts |-> 2, attributes |-> <<>>]>>
             ELSE <<[id |-> 7, action |-> "grant_emergency_approval", ts |-> 3,
                     principal |-> (IF w.granted = "sre" THEN Sre ELSE Bot),
                     attributes |-> ("attributes.kind" :> "break_glass")]>>,
   events |-> <<[id |-> 8, action |-> "delete", actor |-> Bot, ts |-> 3, provenance |-> "none", fields |-> <<>>],
                [id |-> 9, action |-> "publish", actor |-> Bot, ts |-> 4, provenance |-> w.provenance,
                 fields |-> [scope |-> "registry://prod/app", digest |-> w.published]]>>]

ActionsJobs(w, build, tests, publish) ==
  <<Done("checkout", 1, 1, <<>>), Failed(Done(build, 2, 1, <<>>)), Done(build, 3, 2, <<>>)>>
  \o (IF w.tested THEN tests ELSE <<>>) \o <<Done(publish, 6, 4, <<>>)>>

Fact(step, args, provenance) == [step |-> step, args |-> args, provenance |-> provenance]

Actions(w, jobs, facts) ==
  [adapter |-> "github", legal |-> IsLegal(w), repository |-> <<"acme", "app">>, actor |-> "ci-bot",
   jobs |-> jobs, audit |-> <<>>, events |-> <<>>, facts |-> facts]

ActionsFacts(w, build, test) ==
  <<Fact(build, [digest |-> "AA11"], "none"), Fact(test, [digest |-> "AA11"], "none"),
    Fact("publish", [scope |-> "registry://prod/app", digest |-> w.published], w.provenance)>>

(* A matrix in place of the one test, and facts about one of its legs or    *)
(* about both.                                                             *)
MatrixJobs(w) ==
  <<Done("checkout", 1, 1, <<>>), Done("Build", 3, 2, <<>>)>>
  \o (IF w.tested THEN <<Done("test (a)", 4, 3, <<>>), Done("test (b)", 5, 3, <<>>)>> ELSE <<>>)
  \o <<Done("publish", 6, 4, <<>>)>>

MatrixFacts(w) ==
  {ActionsFacts(w, "Build", "test (a)"),
   Append(ActionsFacts(w, "Build", "test (a)"), Fact("test (b)", [digest |-> "AA11"], "none"))}

(* Every listing of the jobs, the legs of a matrix in either order.         *)
Listings(jobs) ==
  {[i \in DOMAIN jobs |-> jobs[f[i]]] : f \in {g \in [DOMAIN jobs -> DOMAIN jobs] : IsInjective(g)}}

(* A line of the log is delivered once more. *)
Redelivered(jobs) == {Append(jobs, jobs[i]) : i \in DOMAIN jobs}

MCRaws ==
  UNION {{Bundle(w, l) : l \in Redelivered(BundleJobs(w, 1))} : w \in Worlds}
  \cup UNION {{Actions(w, l, ActionsFacts(w, "build", "test (a)")) :
                 l \in Redelivered(ActionsJobs(w, "build", <<Done("test (a)", 4, 3, <<>>)>>, "ship / publish"))}
              : w \in {x \in Worlds : x.granted = "none"}}
  \cup UNION {UNION {{Bundle(w, l) : l \in Listings(BundleJobs(w, tick))} : tick \in {1, 2}} : w \in Worlds}
  \cup UNION {{Actions(w, l, ActionsFacts(w, "build", "test (a)")) :
                 l \in Listings(ActionsJobs(w, "build", <<Done("test (a)", 4, 3, <<>>)>>, "ship / publish"))}
              : w \in {x \in Worlds : x.granted = "none"}}
  \cup UNION {{Actions(w, l, facts) : l \in Listings(MatrixJobs(w)), facts \in MatrixFacts(w)}
              : w \in {x \in Worlds : x.granted = "none"}}
=============================================================================
