-------------------------------- MODULE MCTill --------------------------------
(* Instances of Till for TLC: one sale of one product with two or three units, so *)
(* that a return can be partial, a line can be added to a paid sale and lines be   *)
(* taken off again until less is sold than was paid for.                           *)
EXTENDS Till, TLC

MCTwo == [p \in Parts |-> 2]
MCThree == [p \in Parts |-> 3]
Symmetry == Permutations(Notes) \cup Permutations(Money) \cup Permutations(Calls)
=============================================================================
