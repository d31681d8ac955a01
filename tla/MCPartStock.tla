----------------------------- MODULE MCPartStock -----------------------------
(* Instances of PartStock for TLC: the ids are model values, interchangeable   *)
(* within their kind; locations are numbered because the job page takes the    *)
(* oldest.                                                                     *)
EXTENDS PartStock, TLC

MCTwoLocations == {1, 2}
Symmetry == Permutations(Reservations) \cup Permutations(Requests) \cup Permutations(Updates)
=============================================================================
