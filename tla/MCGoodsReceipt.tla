---------------------------- MODULE MCGoodsReceipt ----------------------------
(* Instances of GoodsReceipt for TLC: two parts, so that a reversal can fail at  *)
(* its second line.  With one unit of each ordered the parts are interchangeable *)
(* like the ids.                                                                 *)
EXTENDS GoodsReceipt, TLC

\* A bill for the order, for a note, or for both.
MCForms ==
    {f \in [order : Orders \cup {NoOrder}, note : Notes \cup {NoNote}, amount : {1}] :
        f.order # NoOrder \/ f.note # NoNote}
MCOrdered == [l \in Lines |-> 1]
Symmetry == Permutations(Notes) \cup Permutations(Calls) \cup Permutations(Bills)
            \cup Permutations(Parts)
=============================================================================
