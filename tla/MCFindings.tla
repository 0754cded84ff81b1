----------------------------- MODULE MCFindings -----------------------------
(***************************************************************************)
(* Single observations of the assembly workflow on which the search and    *)
(* the documents part.                                                     *)
(***************************************************************************)
EXTENDS MCToy

(* The line of the second cut is lost; the two stacked pieces are equal.   *)
LostCut == {DropRecord(OpenPlanes(Stacking("a", "a")), 2)}

(* The line of the second cut is there and does not show what was cut.     *)
BlankCut == {NoEffects(OpenPlanes(Stacking("a", "a")), 2)}

(* The dock logged the second of the two parts that left.                  *)
SecondPartOnly ==
  {[OpenPlanes(Assembly("a", "b", "r")) EXCEPT !.records[5].effects = Tail(@)]}

(* The dock logged both parts and no step.                                 *)
BothPartsNoStep == {EffectOnly(Assembly("a", "b", "r"), 5, "dock")}

Unproven == LostCut \cup BlankCut \cup SecondPartOnly \cup BothPartsNoStep

(* The join takes the second of the two left pieces.                       *)
SecondPiece ==
  {[Assembly("a", "b", "r") EXCEPT
      !.records[4].effects = <<Effect("j", "joined", [l |-> "b", r |-> "r"])>>,
      !.records[5].effects = <<Effect("s1", "part", [v |-> "b"]), Effect("s2", "part", [v |-> "r"])>>,
      !.edges = {Edge("made_of", "j", "c2"), Edge("made_of", "j", "c3")}]}
=============================================================================
