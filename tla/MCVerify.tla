------------------------------ MODULE MCVerify ------------------------------
(***************************************************************************)
(* The search on the release workflow and the fixtures.                    *)
(***************************************************************************)
EXTENDS VerifyReference, MCRelease

MCFresh(n) == NamedFresh(n)

(* Mistake the runs must notice: the bound forgets the slack. *)
OptionsWithoutSlack(o, most) ==
  {[bound |-> (IF StepRecords(o) = {} THEN 1 ELSE Cardinality(StepRecords(o))),
    slack |-> s, maxStates |-> 200000] : s \in 0 .. most}

(* for_observation(), as the command line and the service call it.         *)
OptionsUpTo(o, most) ==
  {[bound |-> (IF StepRecords(o) = {} THEN 1 ELSE Cardinality(StepRecords(o))) + s,
    slack |-> s, maxStates |-> 200000] : s \in 0 .. most}

(* Callers of the library may also cap the states lower: the search then    *)
(* stops in the middle of its work.                                        *)
Capped(o) ==
  OptionsUpTo(o, 2)
  \cup (IF o \in Fixtures THEN {[opt EXCEPT !.maxStates = m] : opt \in OptionsUpTo(o, 1), m \in {1, 3, 5}} ELSE {})

DepartedLogs == {o \in OneDeparture \cup TwoDepartures : Valid(o)}

(* The thread that runs the function runs it to its end: assumed, and its   *)
(* return looked for, where the search starts from a fixture.               *)
FairOnFixtures == Spec /\ WF_vars(obs \in Fixtures /\ Next)

(* verify() returns on every fixture, also when it is told to stop after    *)
(* one, three or five states.                                              *)
SearchReturns == obs \in Fixtures => Terminates

(* The clock of the runner puts the test before the build; a line that      *)
(* shows the effect of the checkout and not the step stands between them.  *)
TestBeforeBuild ==
  {o \in {EffectOnly(Run(<<Test(2, "e3", "AA11"), Checkout(3, "e1"), Build(4, "e2", "AA11"),
                          Publish("publish_standard", 5, "e4", "AA11")>>,
                        {Edge("derives_from", "e4", "e2")}), 2, "runner")} : Valid(o)}
=============================================================================
