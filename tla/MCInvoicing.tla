----------------------------- MODULE MCInvoicing ------------------------------
(* Instances of Invoicing for TLC: one product, whose sale unit holds three base  *)
(* units and is sold by halves.  Two units are in stock, so that issuing can      *)
(* oversell and an edit can run out, and half a unit is the finest grain.         *)
EXTENDS Invoicing, TLC

MCOpening == [p \in Parts |-> 4]
MCGrains == [p \in Parts |-> 3]
Symmetry == Permutations(Invoices) \cup Permutations(Money) \cup Permutations(Calls)
=============================================================================
