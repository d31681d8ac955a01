------------------------------ MODULE MCOutbox ------------------------------
(* Instances of Outbox for TLC: the executions are the sweep alone, or the     *)
(* sweep and one caller.                                                      *)
EXTENDS Outbox

CONSTANTS w1, w2, m1, m2
OnlyCron == {w1}
TwoWorkers == {w1, w2}
=============================================================================
