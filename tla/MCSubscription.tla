--------------------------- MODULE MCSubscription ---------------------------
(* Instances of Subscription for TLC: the sweep with one or two other calls.   *)
EXTENDS Subscription

CONSTANTS cron, h1, h2, o1, o2
OneCaller == {cron, h1}
TwoCallers == {cron, h1, h2}
=============================================================================
