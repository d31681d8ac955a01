---------------------------- MODULE Subscription ----------------------------
(***************************************************************************)
(* The paid subscription of one organisation: Pesapal payments, which the  *)
(* browser callback and the webhook both apply, the daily lapse sweep, the *)
(* downgrade the app shell makes when a cancelled period has ended, the    *)
(* trial and cancel buttons and the platform administrator's overrides.    *)
(*                                                                         *)
(* None of these handlers uses a transaction: each reads the Organization  *)
(* row, decides, and writes it in a later statement, so a handler is a     *)
(* call with what it decided, and other calls run in between.              *)
(*                                                                         *)
(* A definition that stands just before one it resembles is its mutated    *)
(* form: what a plausible bug would make of it.                            *)
(***************************************************************************)
EXTENDS Integers, FiniteSets

CONSTANTS
    Orders,           \* Pesapal order tracking ids
    NoOrder,          \* flwSubscriptionId before the first payment: null
    Calls,            \* concurrent executions
    LapseRun,         \* the execution the daily schedule starts
    Month,            \* what a payment buys, in ticks of the clock
    Trial,            \* the length of a trial, in ticks
    MaxTime,          \* bound: last tick of the clock
    MaxApplications,  \* bound: payments applied
    MaxEdits          \* bound: buttons pressed and overrides

ASSUME LapseRunAssumption == LapseRun \in Calls
ASSUME OrdersAssumption == NoOrder \notin Orders
ASSUME PeriodsAssumption == Month \in Nat \ {0} /\ Trial \in Nat \ {0}
ASSUME BoundsAssumption == MaxTime \in Nat /\ MaxApplications \in Nat /\ MaxEdits \in Nat

Never == 0            \* the dates below are ticks after Never, which stands for null

VARIABLES
    plan,             \* Organization.plan: STARTER, or GROWTH for any paid plan
    billing,          \* Organization.billingStatus
    trialEndsAt,      \* Organization.trialEndsAt
    renewsAt,         \* Organization.planRenewsAt
    lastOrder,        \* Organization.flwSubscriptionId
    paid,             \* orders the customer completed at Pesapal
    call,             \* executions in flight, with what they decided
    now,              \* the clock
    edits,            \* how much of MaxEdits is used up
    granted,          \* history: per order, how often it was applied
    applications      \* history: payments applied

orgVars == <<plan, billing, trialEndsAt, renewsAt, lastOrder>>
appliedVars == <<granted, applications>>
subscriptionVars ==
    <<plan, billing, trialEndsAt, renewsAt, lastOrder, paid, call, now, edits, granted,
      applications>>

Plans == {"STARTER", "GROWTH"}
Statuses == {"TRIALING", "ACTIVE", "PAST_DUE", "CANCELLED"}

NotCalled == [pc |-> "idle", order |-> NoOrder, until |-> Never]
Decide(h, pc, until) ==
    /\ call[h].pc = "idle"
    /\ call' = [call EXCEPT ![h] = [NotCalled EXCEPT !.pc = pc, !.until = until]]
Return(h, pc) == call[h].pc = pc /\ call' = [call EXCEPT ![h] = NotCalled]
UseEdit == edits < MaxEdits /\ edits' = edits + 1

\* Extending from a date in the past would sell time that is over.
Extend(date, length) == IF date # Never /\ date > now THEN date + length ELSE now + length
Past(date) == date # Never /\ date < now

-----------------------------------------------------------------------------
SubscriptionInit ==
    /\ plan \in Plans /\ billing = "TRIALING"
    /\ now = 1
    /\ trialEndsAt = now + Trial
    /\ renewsAt = Never
    /\ lastOrder = NoOrder
    /\ paid = {}
    /\ call = [h \in Calls |-> NotCalled]
    /\ edits = 0
    /\ granted = [o \in Orders |-> 0]
    /\ applications = 0

\* subscribeToPlan submits the order and the customer pays it.
PayOrder(o) ==
    /\ o \notin paid
    /\ paid' = paid \cup {o}
    /\ UNCHANGED <<orgVars, call, now, edits, appliedVars>>

ReadForPaymentAfterTrial(h, o) ==
    /\ o \in paid
    /\ lastOrder # o
    /\ call[h].pc = "idle"
    /\ call' = [call EXCEPT ![h] =
           [pc |-> "apply", order |-> o,
            until |-> Extend(IF renewsAt = Never THEN trialEndsAt ELSE renewsAt, Month)]]
    /\ UNCHANGED <<orgVars, paid, now, edits, appliedVars>>

\* applyPaymentToOrg, from the browser callback or the webhook, which Pesapal may
\* repeat for any completed order.  One that reads its own order stops here.
ReadForPayment(h, o) ==
    /\ o \in paid
    /\ lastOrder # o
    /\ call[h].pc = "idle"
    /\ call' = [call EXCEPT ![h] =
           [pc |-> "apply", order |-> o, until |-> Extend(renewsAt, Month)]]
    /\ UNCHANGED <<orgVars, paid, now, edits, appliedVars>>

\* The guard in the WHERE clause of the update.
NotYetAppliedUnchecked(o) == o \in Orders
NotYetApplied(o) == lastOrder # o

ApplyPayment(h) ==
    LET o == call[h].order IN
    /\ Return(h, "apply")
    /\ IF NotYetApplied(o)
       THEN /\ applications < MaxApplications
            /\ plan' = "GROWTH" /\ billing' = "ACTIVE"
            /\ renewsAt' = call[h].until
            /\ lastOrder' = o
            /\ granted' = [granted EXCEPT ![o] = @ + 1]
            /\ applications' = applications + 1
       ELSE UNCHANGED <<plan, billing, renewsAt, lastOrder, appliedVars>>
    /\ UNCHANGED <<trialEndsAt, paid, now, edits>>

\* runSubscriptionLifecycle, second part: list the lapsed organisations, then
\* mark each by id.
Lapsed == billing = "ACTIVE" /\ Past(renewsAt)

ListLapsedYesterday(h) ==
    /\ billing = "ACTIVE" /\ renewsAt # Never /\ renewsAt = now - 1
    /\ Decide(h, "mark", Never)
    /\ UNCHANGED <<orgVars, paid, now, edits, appliedVars>>

ListLapsed(h) ==
    /\ Lapsed
    /\ Decide(h, "mark", Never)
    /\ UNCHANGED <<orgVars, paid, now, edits, appliedVars>>

MarkPastDue(h) ==
    /\ Return(h, "mark")
    /\ billing' = "PAST_DUE"
    /\ UNCHANGED <<plan, trialEndsAt, renewsAt, lastOrder, paid, now, edits, appliedVars>>

\* The app shell, on any page: a cancelled plan whose period is over.
SeeEndedPlan(h) ==
    /\ billing = "CANCELLED" /\ Past(renewsAt)
    /\ Decide(h, "downgrade", Never)
    /\ UNCHANGED <<orgVars, paid, now, edits, appliedVars>>

Downgrade(h) ==
    /\ Return(h, "downgrade")
    /\ plan' = "STARTER" /\ billing' = "TRIALING"
    /\ trialEndsAt' = Never /\ renewsAt' = Never
    /\ UNCHANGED <<lastOrder, paid, now, edits, appliedVars>>

\* startGrowthTrial.  The page offers it when a STARTER trial is over; a page kept open
\* posts it later.
ReadStarter(h) ==
    /\ UseEdit
    /\ plan = "STARTER"
    /\ Decide(h, "trial", now + Trial)
    /\ UNCHANGED <<orgVars, paid, now, appliedVars>>

StartGrowthTrial(h) ==
    /\ Return(h, "trial")
    /\ plan' = "GROWTH" /\ billing' = "TRIALING" /\ trialEndsAt' = call[h].until
    /\ UNCHANGED <<renewsAt, lastOrder, paid, now, edits, appliedVars>>

\* extendTrialAction of the platform administrator.
ReadTrial(h) ==
    /\ UseEdit
    /\ Decide(h, "extend", Extend(trialEndsAt, Trial))
    /\ UNCHANGED <<orgVars, paid, now, appliedVars>>

ExtendTrial(h) ==
    /\ Return(h, "extend")
    /\ billing' = "TRIALING" /\ trialEndsAt' = call[h].until
    /\ UNCHANGED <<plan, renewsAt, lastOrder, paid, now, edits, appliedVars>>

\* cancelPlan.  The page offers it while ACTIVE; a page kept open posts it later.
CancelPlan ==
    /\ UseEdit
    /\ billing' = "CANCELLED"
    /\ UNCHANGED <<plan, trialEndsAt, renewsAt, lastOrder, paid, call, now, appliedVars>>

\* setPlanAction and setBillingStatusAction: no date is touched.
SetPlan(p) ==
    /\ UseEdit
    /\ plan' = p /\ billing' = IF p = "STARTER" THEN "TRIALING" ELSE "ACTIVE"
    /\ UNCHANGED <<trialEndsAt, renewsAt, lastOrder, paid, call, now, appliedVars>>

SetBillingStatus(s) ==
    /\ UseEdit
    /\ billing' = s
    /\ UNCHANGED <<plan, trialEndsAt, renewsAt, lastOrder, paid, call, now, appliedVars>>

\* An execution dies between its read and its write.
Die(h) ==
    /\ call[h].pc # "idle"
    /\ h # LapseRun
    /\ call' = [call EXCEPT ![h] = NotCalled]
    /\ UNCHANGED <<orgVars, paid, now, edits, appliedVars>>

Tick ==
    /\ now < MaxTime
    /\ now' = now + 1
    /\ UNCHANGED <<orgVars, paid, call, edits, appliedVars>>

-----------------------------------------------------------------------------
Paying ==
    \/ \E o \in Orders : PayOrder(o)
    \/ \E h \in Calls \ {LapseRun}, o \in Orders : ReadForPayment(h, o)
    \/ \E h \in Calls : ApplyPayment(h)

Lapsing ==
    \/ \E h \in Calls : ListLapsed(h)
    \/ \E h \in Calls : MarkPastDue(h)
    \/ \E h \in Calls \ {LapseRun} : SeeEndedPlan(h)
    \/ \E h \in Calls : Downgrade(h)

Deciding ==
    \/ \E h \in Calls \ {LapseRun} : ReadStarter(h)
    \/ \E h \in Calls : StartGrowthTrial(h)
    \/ \E h \in Calls \ {LapseRun} : ReadTrial(h)
    \/ \E h \in Calls : ExtendTrial(h)
    \/ CancelPlan
    \/ \E p \in Plans : SetPlan(p)
    \/ \E s \in Statuses : SetBillingStatus(s)

SubscriptionNext == Paying \/ Lapsing \/ Deciding \/ Tick \/ (\E h \in Calls : Die(h))

SubscriptionSpec == SubscriptionInit /\ [][SubscriptionNext]_subscriptionVars

\* The daily schedule keeps starting the sweep, and a sweep finishes.
SubscriptionFairness ==
    /\ WF_subscriptionVars(ListLapsed(LapseRun))
    /\ WF_subscriptionVars(MarkPastDue(LapseRun))

FairSubscriptionSpec == SubscriptionSpec /\ SubscriptionFairness

-----------------------------------------------------------------------------
(* Properties *)

\* Every variable holds what the row and the locals can hold.
SubscriptionTypeOK ==
    /\ plan \in Plans
    /\ billing \in Statuses
    /\ trialEndsAt \in Nat /\ renewsAt \in Nat
    /\ lastOrder \in Orders \cup {NoOrder}
    /\ paid \subseteq Orders
    /\ call \in [Calls -> [pc : {"idle", "apply", "mark", "downgrade", "trial", "extend"},
                           order : Orders \cup {NoOrder}, until : Nat]]
    /\ now \in Nat \ {0}
    /\ edits \in Nat
    /\ granted \in [Orders -> Nat]
    /\ applications \in Nat

\* However callback and webhook race and repeat for an order, it is applied again
\* only if another order was applied in between (apply-payment.ts:97).
AppliedAgainOnlyAfterAnother ==
    \A o \in Orders : granted[o] <= 1 + (applications - granted[o])

\* No more time is given than the applied payments bought, counted from today,
\* whatever dates the racing calls read.
NoUnappliedTime == renewsAt <= now + Month * applications

\* An ACTIVE organisation whose period is over does not stay ACTIVE unless a new
\* payment moves the date (subscription-lifecycle.ts:18).
LapseIsNoticed == Lapsed ~> ~Lapsed

(* What comments of the code say, and the code does not keep. *)

\* apply-payment.ts:74: a transaction extends the subscription once.
EachOrderAppliedOnce == \A o \in Orders : granted[o] <= 1
=============================================================================
