----------------------------- MODULE MCRelease ------------------------------
(***************************************************************************)
(* spec/release.wsl.yaml and the observations of fixtures/, each of them   *)
(* also with one or two departures from the log the fixture shows.         *)
(***************************************************************************)
EXTENDS MCNet

ReleasePlaces == {"start", "source", "artifact", "tested", "approval", "released"}

ReleaseCarries ==
  [p \in ReleasePlaces |-> IF p \in {"artifact", "tested"} THEN {"digest"} ELSE {}]

ReleaseInitial ==
  [p \in ReleasePlaces |->
     IF p = "start" THEN {[born |-> <<0, 1>>, env |-> [_type |-> "repo", _value |-> "app"]]} ELSE {}]

ReleaseFinals == {"released"}
ReleaseHidden == {"_type", "_value"}

CiRunner == {"ci-bot@ci.internal"}
Approver == {"sre@corp.example"}

Digest == [digest |-> Var("digest")]

RegistryWrite ==
  EmitsUnder("registry_write",
    [scope |-> Glob("registry://prod/*", {"registry://prod/app"}), digest |-> Var("digest")],
    <<Obligation("derives_from", "artifact_create", Digest)>>)

ReleaseTransitions == <<
  Transition("checkout", "ci_runner", CiRunner, <<"start">>, <<"source">>,
    <<Emits("vcs_read", [scope |-> Glob("repo/*", {"repo/app"})])>>),
  Binding(Transition("build", "ci_runner", CiRunner, <<"source">>, <<"artifact", "source">>,
    <<Emits("artifact_create", Digest)>>), "digest"),
  Transition("test", "ci_runner", CiRunner, <<"artifact">>, <<"tested", "artifact">>,
    <<Emits("ci_report", Digest)>>),
  Transition("grant_emergency_approval", "approver", Approver, <<>>, <<"approval">>,
    <<Emits("approval_issued", [grant |-> Lit("break_glass")])>>),
  Attesting(Transition("restore_prior_artifact", "ci_runner", CiRunner,
    <<"source">>, <<"artifact", "tested", "source">>,
    <<Emits("artifact_create", Digest)>>), "digest"),
  Transition("publish_standard", "ci_runner", CiRunner, <<"tested", "artifact">>, <<"released">>,
    <<RegistryWrite>>),
  Transition("publish_breakglass", "ci_runner", CiRunner, <<"artifact", "approval">>, <<"released">>,
    <<RegistryWrite>>) >>

ReleaseRelations ==
  [derives_from |->
     [from |-> "registry_write", to |-> "artifact_create",
      constraint |-> {[op |-> "==", left |-> [kind |-> "from", text |-> "digest"],
                       right |-> [kind |-> "to", text |-> "digest"]]}]]

-----------------------------------------------------------------------------
(* The fixtures                                                            *)

AllPlanes ==
  [runner   |-> [complete |-> TRUE, carries |-> {"vcs_read", "artifact_create", "ci_report"}],
   registry |-> [complete |-> TRUE, carries |-> {"registry_write"}],
   audit    |-> [complete |-> TRUE, carries |-> {"approval_issued"}]]

Bot == "ci-bot@ci.internal"
Sre == "sre@corp.example"

Checkout(ts, id)      == Record("runner", Bot, "checkout", ts, <<Effect(id, "vcs_read", [scope |-> "repo/app"])>>)
Build(ts, id, d)      == Record("runner", Bot, "build", ts, <<Effect(id, "artifact_create", [digest |-> d])>>)
Test(ts, id, d)       == Record("runner", Bot, "test", ts, <<Effect(id, "ci_report", [digest |-> d])>>)
Restore(ts, id, d)    == Record("runner", Bot, "restore_prior_artifact", ts, <<Effect(id, "artifact_create", [digest |-> d])>>)
Grant(ts, id)         == Record("audit", Sre, "grant_emergency_approval", ts, <<Effect(id, "approval_issued", [grant |-> "break_glass"])>>)
Publish(step, ts, id, d) ==
  Record("runner", Bot, step, ts, <<Effect(id, "registry_write", [scope |-> "registry://prod/app", digest |-> d])>>)

Run(records, edges) == [records |-> records, edges |-> edges, planes |-> AllPlanes]

Case1 == Run(<<Checkout(1, "e1"), Build(2, "e2", "AA11"), Test(3, "e3", "AA11"),
               Publish("publish_standard", 4, "e4", "AA11")>>, {Edge("derives_from", "e4", "e2")})

Case3 == Run(<<Checkout(1, "e1"), Build(2, "e2", "CC22"), Build(4, "e3", "CC23"), Grant(3, "e4"),
               Publish("publish_breakglass", 5, "e5", "CC23")>>, {Edge("derives_from", "e5", "e3")})

Case4 == Run(<<Checkout(1, "e1"), Restore(2, "e2", "AA11"),
               Publish("publish_standard", 3, "e3", "AA11")>>, {Edge("derives_from", "e3", "e2")})

Case5 == Run(<<Checkout(1, "e1"), Restore(2, "e2", "DEAD"),
               Publish("publish_standard", 3, "e3", "DEAD")>>, {Edge("derives_from", "e3", "e2")})

Capjs == NoEdges(WithArg(EffectOnly(Case1, 4, "registry"), 4, "digest", "D00D"))

CapjsProvenance == EffectOnly(Case1, 4, "registry")

Fixtures == {Case1, Case3, Case4, Case5, Capjs, CapjsProvenance}

Steps(o) == DOMAIN o.records

Departures(o) ==
  {o, NoEdges(o), Scattered(o), Incomplete(o, "registry"), Incomplete(o, "audit")}
  \cup {DropRecord(o, i) : i \in Steps(o)}
  \cup {EffectOnly(o, i, "registry") : i \in Steps(o)}
  \cup {Renamed(o, i, "deploy") : i \in Steps(o)}
  \cup {OtherPlane(o, i, "audit") : i \in Steps(o)}
  \cup {ByPrincipal(o, i, p) : i \in Steps(o), p \in {Bot, Sre}}
  \cup {WithArg(o, i, "digest", d) : i \in Steps(o), d \in {"AA11", "BEEF"}}
  \cup {WithArg(o, i, "scope", "registry://dev/app") : i \in Steps(o)}
  \cup {Swapped(o, i) : i \in Steps(o) \ {Len(o.records)}}
  \cup {Replayed(o, i) : i \in {Len(o.records) - 1, Len(o.records)}}

OneDeparture == UNION {Departures(o) : o \in Fixtures}

TwoDepartures == UNION {Departures(p) : p \in UNION {Departures(o) : o \in {Case4}}}

=============================================================================
