------------------------------ MODULE StockBook ------------------------------
(***************************************************************************)
(* What the handlers that move stock promise, whatever tables they write   *)
(* on the way: the authoritative total of a part changes only together     *)
(* with an entry in the stock book, and goods leave for another location   *)
(* and arrive there without the total noticing.  The promise has one hole, *)
(* which the book keeps apart: a total overwritten by hand, with no entry. *)
(*                                                                         *)
(* An abstract specification: PartStock, GoodsReceipt, Till and Invoicing  *)
(* are each shown to implement it under a refinement mapping.              *)
(***************************************************************************)
EXTENDS Integers

CONSTANT Parts

VARIABLES
    onHand,      \* per part, the total the shop believes in
    transit,     \* per part, units between two locations
    booked,      \* per part, the balance of the book
    slipped      \* per part, what was overwritten past the book

vars == <<onHand, transit, booked, slipped>>

Init ==
    /\ onHand \in [Parts -> Int]
    /\ transit = [p \in Parts |-> 0]
    /\ booked = onHand
    /\ slipped = [p \in Parts |-> 0]

\* Goods come in, go out or are recounted: one entry for each change.
Book ==
    /\ UNCHANGED <<transit, slipped>>
    /\ \A p \in Parts : booked'[p] - booked[p] = onHand'[p] - onHand[p]

\* A part is dispatched, or what was dispatched arrives: the book follows the
\* goods on the road, the total does not move.
Ship(p) ==
    /\ UNCHANGED <<onHand, slipped>>
    /\ transit'[p] >= 0
    /\ transit'[p] # transit[p]
    /\ booked'[p] + transit'[p] = booked[p] + transit[p]
    /\ \A other \in Parts \ {p} : /\ booked'[other] = booked[other]
                                  /\ transit'[other] = transit[other]

\* The total of one part becomes a number somebody typed, never a negative one.
Slip(p) ==
    /\ UNCHANGED <<transit, booked>>
    /\ onHand'[p] >= 0
    /\ slipped'[p] - slipped[p] = onHand'[p] - onHand[p]
    /\ \A other \in Parts \ {p} : /\ onHand'[other] = onHand[other]
                                  /\ slipped'[other] = slipped[other]

Next == Book \/ \E p \in Parts : Ship(p) \/ Slip(p)

Spec == Init /\ [][Next]_vars

\* The book always explains the total, up to what was overwritten past it.
Balanced == \A p \in Parts : onHand[p] = booked[p] + transit[p] + slipped[p]
=============================================================================
