------------------------------- MODULE MCMus --------------------------------
(***************************************************************************)
(* Every oracle over three facts with every order of the list, no fact at   *)
(* all, an edge observed twice, and oracles over four and five facts in     *)
(* which one fact, like a derives_from edge, makes the others acceptable.   *)
(***************************************************************************)
EXTENDS Mus

Lists == {<<>>, <<1>>, <<1, 2>>, <<2, 1>>, <<1, 2, 3>>, <<1, 3, 2>>, <<2, 1, 3>>,
          <<2, 3, 1>>, <<3, 1, 2>>, <<3, 2, 1>>, <<1, 2, 2>>, <<1, 3, 2, 3>>}

AnyOracle ==
  UNION {{[facts |-> l, rejected |-> R] : R \in SUBSET SUBSET {l[i] : i \in DOMAIN l}} : l \in Lists}

(* Rejected are the sets that hold one of the conflicts and nothing that   *)
(* heals it.                                                               *)
Conflicting(F, conflicts, heals) ==
  {K \in SUBSET F : heals \notin K /\ \E C \in conflicts : C \subseteq K}

Healed ==
  {[facts |-> l, rejected |-> Conflicting({l[i] : i \in DOMAIN l}, conflicts, heals)] :
     l \in {<<1, 2, 3, 4>>, <<4, 2, 1, 3>>, <<5, 3, 1, 2, 4>>},
     conflicts \in {{C, D} : C, D \in {{1}, {2, 3}, {1, 4}, {1, 2, 3}, {4}}},
     heals \in 0 .. 5}

MCInstances == AnyOracle \cup Healed
=============================================================================
