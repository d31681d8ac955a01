------------------------------ MODULE MCPayables ------------------------------
(* Instances of Payables for TLC: every document is worth 2, paid in amounts of  *)
(* 1 and 2, so that part payments, full payments and overlaps all happen; a job  *)
(* costs 2 or has no cost yet, and a unit of the bill's currency is worth 2.     *)
EXTENDS Payables, TLC

MCTotalAmount == [b \in Bills |-> 2]
MCRate == [b \in Bills |-> 2]
MCBuckets == {Docs}
\* Bills, expenses and jobs meet in nothing but a bucket: two of them at once.
InPlay ==
    {b \in Bills : bill[b].status # "NONE"} \cup {e \in Expenses : expense[e].status # "NONE"}
    \cup {j \in Jobs : updates > 0 \/ PaymentsOf(j) # {}}
TwoInPlay == Cardinality(InPlay) <= 2

Symmetry == Permutations(Payments) \cup Permutations(Calls) \cup Permutations(Bills)
=============================================================================
