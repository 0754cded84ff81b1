----------------------------- MODULE MCEvidence -----------------------------
(***************************************************************************)
(* A build host, a deployment host that trusts it and a laptop without a   *)
(* key.  The runs are those of the fixtures (case1, case3, case4, case5),  *)
(* one with a step unlogged, one with many, one that shows a digest it did *)
(* not build, and one of another workflow.  "lax" is an older version of   *)
(* the release workflow that takes no evidence for a rollback.             *)
(***************************************************************************)
EXTENDS Evidence

Runs0 == {"standard", "emergency", "rollback", "forged", "gap", "far", "tagged", "other", "garbled"}

PerRun(d, special) == [r \in Runs |-> IF r \in DOMAIN special THEN special[r] ELSE d]

MCRestored ==
  [s \in Specs |-> PerRun({}, IF s = "lax" THEN <<>> ELSE [rollback |-> {"AA"}, forged |-> {"OO"}])]
MCShown ==
  PerRun({}, [standard |-> {"AA"}, emergency |-> {"CC"}, gap |-> {"AA", "~fresh0"},
              tagged |-> {"TT"}, other |-> {"OO"}, rollback |-> {"AA"}, forged |-> {"OO"}])
MCPassed == PerRun({}, [standard |-> {"AA"}, other |-> {"OO"}])

MCUnlogged ==
  [s \in Specs |-> PerRun(IF s = "nightly" THEN 9 ELSE 0,
     IF s = "nightly" THEN [other |-> 0] ELSE [gap |-> 1, far |-> 8, other |-> 9])]

MCWorkflowOf == [s \in Specs |-> IF s = "lax" THEN "release" ELSE s]

MCRecords == [r \in Runs |-> 3]

MCSigningKey == [build |-> "k1", deploy |-> "k2", laptop |-> NoKey, web |-> BadKey]
MCEphemeral == [h \in Hosts |-> "k0"]
MCTrusted == [build |-> {}, deploy |-> {"k1"}, laptop |-> {}, web |-> {}]

Cli(run, evidence, out) ==
  [tool |-> "cli", spec |-> "release", run |-> run, slack |-> 0,
   evidence |-> evidence, extra |-> {}, out |-> out]

Service(run, evidence) == [Cli(run, evidence, NoPath) EXCEPT !.tool = "service"]

NoAsks == [h \in Hosts |-> {}]
Load(build, deploy, laptop) ==
  [NoAsks EXCEPT !["build"] = build, !["deploy"] = deploy, !["laptop"] = laptop]

Lax(run, out) == [Cli(run, <<>>, out) EXCEPT !.spec = "lax"]
Nightly(out) == [Cli("other", <<>>, out) EXCEPT !.spec = "nightly"]
WithSlack(a, k) == [a EXCEPT !.slack = k]
Trusting(a, ks) == [a EXCEPT !.extra = ks]

MCLoads ==
  { Load({Cli("standard", <<>>, "p"), Cli("emergency", <<>>, "q")},     \* rollbacks chained and crossed
         {Cli("rollback", <<"p", "q">>, "p")},
         {Trusting(Cli("rollback", <<"p">>, "q"), {"k1", "k2"})}),
    Load({Nightly("p"), Cli("standard", <<>>, "p")},                    \* another workflow's digests
         {Cli("forged", <<"p">>, "q"), Cli("rollback", <<"q">>, "p")}, {}),
    Load({WithSlack(Cli("gap", <<>>, "p"), 1), Cli("far", <<>>, "q")},    \* steps unlogged
         {Cli("gap", <<"p">>, NoPath)}, {Service("rollback", <<"gap">>)}),
    Load({Service("rollback", <<"standard">>), Service("rollback", <<"rollback">>)},
         {Cli("standard", <<>>, "p")}, {Service("rollback", <<"emergency">>), Cli("rollback", <<"p">>, "p")}),
    Load({Lax("rollback", "p"), Cli("tagged", <<>>, "q")},              \* attested, and not built
         {Cli("rollback", <<"p">>, "p"), Cli("forged", <<"q">>, "q")}, {}),
    [Load({Service("rollback", <<"garbled">>)}, {}, {})                 \* a web host with a bad key
       EXCEPT !["web"] = {Cli("standard", <<>>, "p"), Cli("garbled", <<>>, "p"),
                          Service("rollback", <<"standard">>)}] }
=============================================================================
