------------------------------ MODULE MCOrder -------------------------------
(***************************************************************************)
(* Kahn's loop on every directed graph over a few records.                 *)
(***************************************************************************)
EXTENDS Order

(* No record is its own predecessor: order() skips an edge that leaves and *)
(* enters the same record, and neighbours in a plane differ.               *)
AllGraphs == {g \in [1 .. N -> SUBSET (1 .. N)] : \A i \in 1 .. N : i \notin g[i]}
=============================================================================
