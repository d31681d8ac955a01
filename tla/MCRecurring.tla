----------------------------- MODULE MCRecurring -----------------------------
(* Instances of Recurring for TLC: sixteen months from a January.             *)
EXTENDS Recurring

MCFirstDay ==
    <<1, 32, 60, 91, 121, 152, 182, 213, 244, 274, 305, 335, 366, 397, 425, 456, 486>>
=============================================================================
