------------------------------ MODULE Recurring ------------------------------
(***************************************************************************)
(* Schedules of recurring expenses (rent, internet): the daily payables    *)
(* run and the page's "issue now" button raise an unpaid expense for an    *)
(* occurrence that is due and move the schedule on.                        *)
(*                                                                         *)
(* Days are numbered from the first of a month; FirstDay is the calendar.  *)
(* issueRecurringExpense reads the schedule, looks for an expense of the   *)
(* period, and writes in a third statement, so it is a call with a program *)
(* counter.                                                                *)
(*                                                                         *)
(* A definition that stands just before one it resembles is its mutated    *)
(* form: what a plausible bug would make of it.                            *)
(***************************************************************************)
EXTENDS Integers, Sequences, FiniteSets, FiniteSetsExt, Bags

CONSTANTS
    Templates,        \* ids of RecurringExpense rows
    Calls,            \* executions of the payables run or of the button
    Cron,             \* the execution the daily schedule starts
    FirstDay,         \* the first day of each month, and of the one after the last
    Starts,           \* bound: start dates a form gives
    Clock,            \* bound: the days on which anything happens
    MaxFaults,        \* bound: executions killed halfway and issues that fail
    MaxTouched        \* bound: issued expenses edited or deleted

Months == 1..(Len(FirstDay) - 1)
Days == 1..(FirstDay[Len(FirstDay)] - 1)

\* recurringPeriodKey: year and month of a due date.
PeriodKey(day) == CHOOSE m \in Months : FirstDay[m] <= day /\ day < FirstDay[m + 1]

ASSUME CalendarAssumption ==
    /\ FirstDay \in Seq(Nat) /\ Len(FirstDay) > 0 /\ FirstDay[1] = 1
    /\ \A m \in Months : FirstDay[m + 1] - FirstDay[m] \in 28..31
ASSUME ClockAssumption == Clock \subseteq Days /\ Clock # {} /\ Starts \subseteq Days
\* The calendar goes on for as long as a schedule can be moved ahead of the clock.
ASSUME HorizonAssumption == \A day \in Clock : PeriodKey(day) + 13 \in Months
ASSUME TemplatesAssumption == Templates # {}
ASSUME CronAssumption == Cron \in Calls
ASSUME BoundsAssumption == {MaxFaults, MaxTouched} \subseteq Nat

VARIABLES
    template,         \* the schedules
    expenses,         \* per template, a bag of the expenses it raised that exist
    today,
    call,             \* executions, with the schedule they read
    faults, touched,
    issued,           \* history: per template, the due dates ever issued
    excused           \* history: periods two calls were issuing at once, or whose
                      \* expense was deleted or given another reference

rowVars == <<template, expenses>>
bounds == <<faults, touched>>
historyVars == <<issued, excused>>
vars == <<template, expenses, today, call, faults, touched, issued, excused>>

-----------------------------------------------------------------------------
(* The schedule's arithmetic *)

Frequencies == {"WEEKLY", "MONTHLY", "MONTH_END", "QUARTERLY", "ANNUAL"}

\* setMonth and setFullYear keep the day of the month; a day the month does not
\* have runs over into the next one.
AddMonths(day, k) == FirstDay[PeriodKey(day) + k] + (day - FirstDay[PeriodKey(day)])

LastOfNextMonthOverflowing(day) == AddMonths(day, 1)
LastOfNextMonth(day) == FirstDay[PeriodKey(day) + 2] - 1

Advance(day, frequency) ==
    CASE frequency = "WEEKLY"    -> day + 7
      [] frequency = "MONTHLY"   -> AddMonths(day, 1)
      [] frequency = "MONTH_END" -> LastOfNextMonth(day)
      [] frequency = "QUARTERLY" -> AddMonths(day, 3)
      [] frequency = "ANNUAL"    -> AddMonths(day, 12)

-----------------------------------------------------------------------------
Unused == [state |-> "none", frequency |-> "WEEKLY", auto |-> FALSE, start |-> 1,
           next |-> 1]
SomeTemplate == CHOOSE t \in Templates : TRUE
Idle == [pc |-> "idle", run |-> FALSE, rest |-> {}, t |-> SomeTemplate, due |-> 1,
         now |-> 1]

Init ==
    /\ template = [t \in Templates |-> Unused]
    /\ expenses = [t \in Templates |-> EmptyBag]
    /\ today = Min(Clock)
    /\ call = [c \in Calls |-> Idle]
    /\ faults = 0 /\ touched = 0
    /\ issued = [t \in Templates |-> {}]
    /\ excused = [t \in Templates |-> {}]

Exists(t) == template[t].state \in {"active", "paused"}

\* updateMany on a row that may be gone by now.
MoveOn(t, day) ==
    template' = IF Exists(t) THEN [template EXCEPT ![t].next = day] ELSE template

One(e) == SetToBag({e})

\* The reference of an expense: template and period.
HasExpenseNever(t, period) == FALSE
HasExpense(t, period) ==
    \E e \in BagToSet(expenses[t]) : e.tagged /\ PeriodKey(e.due) = period

-----------------------------------------------------------------------------
(* The page *)

CreateTemplate(t, frequency, auto, start) ==
    /\ template[t].state = "none"
    /\ template' = [template EXCEPT ![t] =
            [state |-> "active", frequency |-> frequency, auto |-> auto, start |-> start,
             next |-> start]]
    /\ UNCHANGED <<expenses, today, call, bounds, historyVars>>

\* Two clicks at once both write the same value, as one click would.
ToggleTemplate(t) ==
    /\ Exists(t)
    /\ template' = [template EXCEPT ![t].state = IF @ = "active" THEN "paused" ELSE "active"]
    /\ UNCHANGED <<expenses, today, call, bounds, historyVars>>

DeleteTemplate(t) ==
    /\ Exists(t)
    /\ template' = [template EXCEPT ![t].state = "deleted"]
    /\ UNCHANGED <<expenses, today, call, bounds, historyVars>>

IssueNow(c, t) ==
    /\ call[c].pc = "idle" /\ c # Cron /\ template[t].state # "none"
    /\ call' = [call EXCEPT ![c] = [Idle EXCEPT !.pc = "read", !.t = t, !.now = today]]
    /\ UNCHANGED <<rowVars, today, bounds, historyVars>>

\* What keeps the period from being issued again is gone.
LoseReference(t, e, left) ==
    /\ touched < MaxTouched
    /\ expenses' = [expenses EXCEPT ![t] = left]
    /\ touched' = touched + 1
    /\ excused' = [excused EXCEPT ![t] = @ \cup {PeriodKey(e.due)}]
    /\ UNCHANGED <<template, today, call, faults, issued>>

\* The expense's edit form rewrites its reference.
EditReference(t, e) ==
    /\ e.tagged
    /\ LoseReference(t, e, (expenses[t] (-) One(e)) (+) One([e EXCEPT !.tagged = FALSE]))

DeleteExpense(t, e) == LoseReference(t, e, expenses[t] (-) One(e))

-----------------------------------------------------------------------------
(* The daily run *)

Due(t, now) == template[t].next <= now

\* It lists what is due; every listed template is then issued on its own.  A run that
\* finds no active admin or finance user to act as skips all of it: it is no step.
StartRun(c) ==
    /\ call[c].pc = "idle"
    /\ call' = [call EXCEPT ![c] =
            [Idle EXCEPT !.pc = "next", !.run = TRUE, !.now = today,
                         !.rest = {t \in Templates : /\ template[t].state = "active"
                                                     /\ template[t].auto
                                                     /\ Due(t, today)}]]
    /\ UNCHANGED <<rowVars, today, bounds, historyVars>>

TakeNext(c) ==
    /\ call[c].pc = "next"
    /\ IF call[c].rest = {}
       THEN call' = [call EXCEPT ![c] = Idle]
       ELSE \E t \in call[c].rest :
                call' = [call EXCEPT ![c].pc = "read", ![c].t = t, ![c].rest = @ \ {t}]
    /\ UNCHANGED <<rowVars, today, bounds, historyVars>>

ReturnFailed(c) == call' = [call EXCEPT ![c].pc = "failed"]

\* The end of one issueRecurringExpense: the run goes on, the button is done.
Return(c) ==
    LET at == call[c]
    IN  call' = [call EXCEPT ![c] =
            IF at.run THEN [Idle EXCEPT !.pc = "next", !.run = TRUE, !.rest = at.rest,
                                        !.now = at.now]
            ELSE Idle]

-----------------------------------------------------------------------------
(* issueRecurringExpense *)

ReadTemplate(c) ==
    LET t == call[c].t
    IN  /\ call[c].pc = "read"
        /\ IF template[t].state = "active" /\ Due(t, call[c].now)
           THEN call' = [call EXCEPT ![c].pc = "check", ![c].due = template[t].next]
           ELSE Return(c)
        /\ UNCHANGED <<rowVars, today, bounds, historyVars>>

Issuing(t, period) ==
    {c \in Calls : call[c].pc = "issue" /\ call[c].t = t /\ PeriodKey(call[c].due) = period}

CheckIssued(c) ==
    LET t == call[c].t
        period == PeriodKey(call[c].due)
    IN  /\ call[c].pc = "check"
        /\ IF HasExpense(t, period)
           THEN call' = [call EXCEPT ![c].pc = "advance"] /\ UNCHANGED excused
           ELSE /\ call' = [call EXCEPT ![c].pc = "issue"]
                /\ excused' = IF Issuing(t, period) # {}
                              THEN [excused EXCEPT ![t] = @ \cup {period}] ELSE excused
        /\ UNCHANGED <<rowVars, today, bounds, issued>>

\* Already issued: the schedule moves on all the same.
NextAfterIssuedStuck(c) == call[c].due
NextAfterIssued(c) == Advance(call[c].due, template[call[c].t].frequency)

AdvanceOnly(c) ==
    /\ call[c].pc = "advance"
    /\ MoveOn(call[c].t, NextAfterIssued(c))
    /\ Return(c)
    /\ UNCHANGED <<expenses, today, bounds, historyVars>>

\* One transaction creates the expense and moves the schedule.
Issue(c) ==
    LET t == call[c].t
        due == call[c].due
    IN  /\ call[c].pc = "issue"
        /\ expenses' = [expenses EXCEPT ![t] = @ (+) One([due |-> due, tagged |-> TRUE])]
        /\ MoveOn(t, Advance(due, template[t].frequency))
        /\ issued' = [issued EXCEPT ![t] = @ \cup {due}]
        /\ Return(c)
        /\ UNCHANGED <<today, bounds, excused>>

\* Three numbers in a row were taken, or the write failed: nothing is written,
\* and the run goes on with the next schedule.
IssueFails(c) ==
    /\ call[c].pc = "issue" /\ faults < MaxFaults
    /\ faults' = faults + 1
    /\ Return(c)
    /\ UNCHANGED <<rowVars, today, touched, historyVars>>

Crash(c) ==
    /\ call[c].pc # "idle" /\ faults < MaxFaults
    /\ call' = [call EXCEPT ![c] = Idle]
    /\ faults' = faults + 1
    /\ UNCHANGED <<rowVars, today, touched, historyVars>>

\* Days on which no run succeeds are passed over.  An execution lives for
\* minutes: it sees one midnight at most.
NextDay ==
    /\ today # Max(Clock)
    /\ \A c \in Calls : call[c].pc # "idle" => call[c].now = today
    /\ today' = Min({day \in Clock : day > today})
    /\ UNCHANGED <<rowVars, call, bounds, historyVars>>

-----------------------------------------------------------------------------
Running(c) ==
    \/ TakeNext(c)
    \/ ReadTemplate(c)
    \/ CheckIssued(c)
    \/ AdvanceOnly(c)
    \/ Issue(c)
    \/ IssueFails(c)

Page ==
    \E t \in Templates :
        \/ \E f \in Frequencies, auto \in BOOLEAN, start \in Starts :
                CreateTemplate(t, f, auto, start)
        \/ ToggleTemplate(t)
        \/ DeleteTemplate(t)
        \/ \E c \in Calls : IssueNow(c, t)
        \/ \E e \in BagToSet(expenses[t]) : EditReference(t, e) \/ DeleteExpense(t, e)

Next ==
    \/ Page
    \/ \E c \in Calls : StartRun(c) \/ Running(c) \/ Crash(c)
    \/ NextDay

Spec == Init /\ [][Next]_vars

\* The run is scheduled every day (vercel.json:24; the last day stands for those
\* after it), and an execution that was not killed goes on.  That it issues at all
\* takes an organisation with an active admin or finance user (payables-digest.ts:38).
Fairness == WF_vars(StartRun(Cron)) /\ \A c \in Calls : WF_vars(Running(c))

FairSpec == Spec /\ Fairness

-----------------------------------------------------------------------------
(* Properties *)

Schedules ==
    [state : {"none", "active", "paused", "deleted"}, frequency : Frequencies,
     auto : BOOLEAN, start : Days, next : Days]
CallStates ==
    [pc : {"idle", "next", "read", "check", "advance", "issue"}, run : BOOLEAN,
     rest : SUBSET Templates, t : Templates, due : Days, now : Clock \cup {1}]

\* Schedules, expenses and executions hold what the rows and the locals can hold.
TypeOK ==
    /\ template \in [Templates -> Schedules]
    /\ DOMAIN expenses = Templates
    /\ \A t \in Templates :
          IsABag(expenses[t]) /\ BagToSet(expenses[t]) \subseteq [due : Days, tagged : BOOLEAN]
    /\ today \in Clock
    /\ call \in [Calls -> CallStates]
    /\ faults \in 0..MaxFaults /\ touched \in 0..MaxTouched
    /\ issued \in [Templates -> SUBSET Days]
    /\ excused \in [Templates -> SUBSET Months]

\* A schedule raises one expense for a period, however often the run is repeated
\* or the button pressed (cron/payables/route.ts:16), unless two executions were
\* issuing the period at once or its expense was deleted or rewritten.
OncePerPeriod ==
    \A t \in Templates : \A e, f \in BagToSet(expenses[t]) :
        /\ PeriodKey(e.due) = PeriodKey(f.due)
        /\ e # f \/ expenses[t][e] > 1
        => PeriodKey(e.due) \in excused[t]

\* A schedule by the month, on a day every month has or at its end, has raised an
\* expense for each month it has left behind: no crash, failure or race skips one.
MonthsCovered ==
    \A t \in Templates :
        LET s == template[t]
        IN  (\/ s.frequency = "MONTH_END"
             \/ s.frequency = "MONTHLY" /\ s.start - FirstDay[PeriodKey(s.start)] < 28)
            => \A m \in PeriodKey(s.start)..(PeriodKey(s.next) - 1) :
                    \E day \in issued[t] : PeriodKey(day) = m

\* An active automatic schedule does not stay due: daily runs catch up.
CatchesUp ==
    \A t \in Templates :
        []<>~(template[t].state = "active" /\ template[t].auto /\ Due(t, today))

\* recurring-schedule.ts:38: each scheduled occurrence issues once.
EachOccurrenceIssued ==
    \A t \in Templates : template[t].frequency = "WEEKLY" =>
        \A day \in template[t].start..(template[t].next - 1) :
            (day - template[t].start) % 7 = 0 => day \in issued[t]
=============================================================================
