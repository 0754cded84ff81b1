------------------------------- MODULE MCToy --------------------------------
(***************************************************************************)
(* A small assembly workflow with what the release workflow has not: two   *)
(* tokens of one place in one firing, tokens that disagree on a variable,  *)
(* a guard, a transition with two emissions.                               *)
(***************************************************************************)
EXTENDS VerifyReference, MCNet

ToyPlaces == {"stock", "left", "right", "both", "out"}

ToyCarries ==
  [p \in ToyPlaces |-> CASE p = "left" -> {"x"} [] p = "right" -> {"y"}
                         [] p = "both" -> {"x", "y"} [] OTHER -> {}]

ToyInitial ==
  [p \in ToyPlaces |->
     IF p = "stock" THEN {[born |-> <<0, i>>, env |-> [_type |-> "blank", _value |-> "b"]] : i \in 1 .. 3}
     ELSE {}]

Anyone == {"worker"}

ToyTransitions == <<
  Binding(Transition("cut_left", "worker", Anyone, <<"stock">>, <<"left">>,
    <<Emits("cut", [v |-> Var("x")])>>), "x"),
  Binding(Transition("cut_right", "worker", Anyone, <<"stock">>, <<"right">>,
    <<Emits("cut", [v |-> Var("y")])>>), "y"),
  Transition("stack_left", "worker", Anyone, <<"left", "left">>, <<"left">>,
    <<Emits("stacked", [v |-> Var("x")])>>),
  GuardedBy(Transition("join", "worker", Anyone, <<"left", "right">>, <<"both">>,
    <<EmitsUnder("joined", [l |-> Var("x"), r |-> Var("y")],
        <<Obligation("made_of", "cut", [v |-> Var("x")]), Obligation("made_of", "cut", [v |-> Var("y")])>>)>>),
    [op |-> "!=", left |-> Var("x"), right |-> Var("y")]),
  Transition("ship", "worker", Anyone, <<"both">>, <<"out">>,
    <<Emits("part", [v |-> Var("x")]), Emits("part", [v |-> Var("y")])>>) >>

ToyRelations == [made_of |-> [from |-> "joined", to |-> "cut", constraint |-> {}]]

ToyPlanes == [shop |-> [complete |-> TRUE, carries |-> {"cut", "stacked", "joined"}],
              dock |-> [complete |-> TRUE, carries |-> {"part"}]]

By(step, plane, ts, effects) == Record(plane, "worker", step, ts, effects)

Assembly(l1, l2, r) ==
  [records |-> <<
     By("cut_left", "shop", 1, <<Effect("c1", "cut", [v |-> l1])>>),
     By("cut_left", "shop", 2, <<Effect("c2", "cut", [v |-> l2])>>),
     By("cut_right", "shop", 3, <<Effect("c3", "cut", [v |-> r])>>),
     By("join", "shop", 4, <<Effect("j", "joined", [l |-> l1, r |-> r])>>),
     By("ship", "dock", 5, <<Effect("s1", "part", [v |-> l1]), Effect("s2", "part", [v |-> r])>>) >>,
   edges |-> {Edge("made_of", "j", "c1"), Edge("made_of", "j", "c3")},
   planes |-> ToyPlanes]

Stacking(l1, l2) ==
  [Assembly(l1, l2, "r") EXCEPT
     !.records = <<@[1], @[2], By("stack_left", "shop", 3, <<Effect("k", "stacked", [v |-> l1])>>),
                   [@[3] EXCEPT !.ts = 4], [@[4] EXCEPT !.ts = 5], @[5]>>]

Clean == {Assembly("a", "b", "r"), Assembly("a", "a", "r"), Assembly("a", "b", "a"),
          Stacking("a", "a"), Stacking("a", "b")}

ToyDepartures(o) ==
  {o, NoEdges(o), Scattered(o)}
  \cup {DropRecord(o, i) : i \in DOMAIN o.records}
  \cup {EffectOnly(o, i, "dock") : i \in 1 .. (Len(o.records) - 1)}
  \cup {Renamed(o, i, "cut_left") : i \in DOMAIN o.records}
  \cup {WithArg(o, i, "v", "z") : i \in DOMAIN o.records}
  \cup {Swapped(o, i) : i \in 1 .. (Len(o.records) - 1)}

OpenPlanes(o) == [o EXCEPT !.planes = [p \in DOMAIN @ |-> [@[p] EXCEPT !.complete = FALSE]]]

MCFresh(n) == NamedFresh(n)

ToyLogs == {o \in UNION {ToyDepartures(o) : o \in Clean} : Valid(o)}

(* Logs in which cuts went unseen, or were seen without what they cut.     *)
PatchyLogs ==
  {o \in UNION {{OpenPlanes(NoEffects(c, 1)), OpenPlanes(NoEffects(NoEffects(c, 1), 2)),
                  OpenPlanes(NoEffects(NoEdges(c), 3)), OpenPlanes(DropRecord(c, 1))} :
                 c \in Clean \ {Stacking("a", "a")}} : Valid(o)}

AllLogs == ToyLogs \cup PatchyLogs

ToyOptions(o) ==
  {[bound |-> (IF StepRecords(o) = {} THEN 1 ELSE Cardinality(StepRecords(o))) + s,
    slack |-> s, maxStates |-> m] : s \in 0 .. 1, m \in {5, 200000}}
=============================================================================
