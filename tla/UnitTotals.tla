------------------------------ MODULE UnitTotals ------------------------------
(***************************************************************************)
(* The sum of the quantities of a finite set of rows, as the number of      *)
(* their units: row r contributes the pairs <<r, 1>> .. <<r, qty[r]>>, and  *)
(* none where its quantity is negative.                                     *)
(***************************************************************************)
EXTENDS Integers, FiniteSets

UnitsOf(rows, qty) == UNION {{r} \X (1..qty[r]) : r \in rows}

Total(rows, qty) == Cardinality(UnitsOf(rows, qty))

\* The sum of quantities of either sign: what they add less what they take.
SignedTotal(rows, qty) == Total(rows, qty) - Total(rows, [r \in rows |-> -qty[r]])
=============================================================================
