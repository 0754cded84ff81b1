----------------------------- MODULE MCRegistry -----------------------------
(***************************************************************************)
(* Requests that meet at the registry: the workflow of one repository      *)
(* onboarded twice, another repository, runs judged meanwhile.             *)
(***************************************************************************)
EXTENDS Registry

Onboard(name, w) == [kind |-> "onboard", fault |-> "none", name |-> name, workflow |-> w]
Live(spec, jobs) == [kind |-> "live", fault |-> "none", spec |-> spec, jobs |-> jobs]
Faulty(f, x)     == [x EXCEPT !.fault = f]

MCRequests == {"first", "second", "other", "run", "again"}

Runs == {Live("app", {"Build", "Ship"}), Live("lib", {"Pack"}), Live("none", {"Build"}),
         Live("none", {"Ship"})}

Refused == {Onboard("lib", "loop"), Onboard("", "lib_v1"),
            Faulty("malformed", Onboard("app", "app_v2")),
            Faulty("malformed", Live("app", {"Build"})),
            Faulty("clashing", Live("app", {"Build", "Ship"}))}

LoadOf(second, run, again) ==
  [first |-> Onboard("app", "app_v1"), second |-> second, other |-> Onboard("lib", "lib_v1"),
   run |-> run, again |-> again]

MCLoads ==
  {LoadOf(Onboard("app", "app_v2"), a, b) : a \in {Live("app", {"Build", "Ship"})}, b \in Runs}
  \cup {LoadOf(x, Live("app", {"Build", "Ship"}), Live("lib", {"Pack"})) : x \in Refused}

MCNames == {"release", "app", "lib", ""}

MCDeclares ==
  [rel    |-> {"build", "publish"},
   app_v1 |-> {"build", "ship"},
   app_v2 |-> {"bake", "ship"},
   lib_v1 |-> {"pack"},
   loop   |-> {"spin"}]

MCJobsMap ==
  [default |-> [Build |-> "build", Pack |-> "deliver"],
   app_v1  |-> [Build |-> "build", Ship |-> "ship"],
   app_v2  |-> [Build |-> "bake", Ship |-> "ship"],
   lib_v1  |-> [Pack |-> "pack"],
   loop    |-> [Spin |-> "spin"]]

MCLoaded == [release |-> "rel"]
=============================================================================
