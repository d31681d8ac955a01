------------------------------- MODULE Outbox -------------------------------
(***************************************************************************)
(* The outbound message queue: OutboundMessage rows, the callers that      *)
(* enqueue a row and deliver it at once, the daily sweep that retries due  *)
(* rows, the outbox page's "Retry Now" and "Discard", and the pickup       *)
(* nudges that are scheduled ahead and cancelled.                          *)
(*                                                                         *)
(* deliverOutboundMessage runs outside any transaction: every prisma call  *)
(* and the call to the provider is a step of its own, other workers run    *)
(* between them, and a worker can die at any of them.  Time is kept only   *)
(* as what the guards compare: whether nextAttemptAt has passed, in which  *)
(* order the due rows became due, and whether a lock is older than its TTL.*)
(*                                                                         *)
(* A definition that stands just before one it resembles is its mutated    *)
(* form: what a plausible bug would make of it.                            *)
(***************************************************************************)
EXTENDS Integers, Sequences, FiniteSets

CONSTANTS
    Messages,         \* ids of OutboundMessage rows
    Nudges,           \* the rows scheduled ahead: ready-for-pickup nudges
    Poison,           \* rows whose document cannot be rendered: delivery throws
    Workers,          \* concurrent executions: server actions, routes, the cron
    Cron,             \* the execution the daily schedule starts
    MaxAttempts,      \* MAX_ATTEMPTS
    SweepLimit,       \* OUTBOX_RETRY_LIMIT
    MayUnconfigure,   \* whether somebody clears the provider's settings
    MaxCrashes        \* bound: executions that die half way

ASSUME MessagesAssumption == Messages # {}
ASSUME NudgesAssumption == Nudges \subseteq Messages
ASSUME PoisonAssumption == Poison \subseteq Messages
ASSUME CronAssumption == Cron \in Workers
ASSUME MaxAttemptsAssumption == MaxAttempts \in Nat \ {0}
ASSUME SweepLimitAssumption == SweepLimit \in Nat \ {0}
ASSUME MayUnconfigureAssumption == MayUnconfigure \in BOOLEAN
ASSUME MaxCrashesAssumption == MaxCrashes \in Nat

VARIABLES
    status,           \* OutboundMessage.status, NONE before the row exists
    attempts,         \* OutboundMessage.attemptCount
    lock,             \* lockedAt: free, fresh, or stale once older than the TTL
    due,              \* rows whose nextAttemptAt has passed
    earlier,          \* per due row, the due rows with an earlier nextAttemptAt
    worker,           \* executions in flight, with what they read
    configured,       \* whether the provider's settings are complete
    crashes,          \* how much of MaxCrashes is used up
    contacted,        \* history: times the provider took the message, 2 for more
    disturbed,        \* history: rows a lock or an answer was lost for
    discarded         \* history: rows discarded or cancelled

rowVars == <<status, attempts, lock, due, earlier>>
historyVars == <<contacted, disturbed, discarded>>
vars == <<status, attempts, lock, due, earlier, worker, configured, crashes,
          contacted, disturbed, discarded>>

Open(m) == status[m] \in {"PENDING", "FAILED"}
Settled(m) == status[m] \in {"SENT", "DEAD"}

\* The worker's locals: the row it works on, the attemptCount it read and, in a
\* sweep, the ids still to come.
Idle == [pc |-> "idle", msg |-> CHOOSE m \in Messages : TRUE, attempts |-> 0, rest |-> <<>>]
Reading(m, rest) == [pc |-> "read", msg |-> m, attempts |-> 0, rest |-> rest]
GoTo(w, pc) == worker' = [worker EXCEPT ![w].pc = pc]
\* deliverOutboundMessage returns: a sweep goes on with its next id.
Finish(w) == worker' = [worker EXCEPT ![w] =
                 IF @.rest = <<>> THEN Idle ELSE Reading(Head(@.rest), Tail(@.rest))]

\* nextAttemptAt passes, or is put into the future.
PutDue(m) == due' = due \cup {m} /\ earlier' = [earlier EXCEPT ![m] = due]
Postpone(m) ==
    /\ due' = due \ {m}
    /\ earlier' = [k \in Messages |-> IF k = m THEN {} ELSE earlier[k] \ {m}]

-----------------------------------------------------------------------------
Init ==
    /\ status = [m \in Messages |-> "NONE"]
    /\ attempts = [m \in Messages |-> 0]
    /\ lock = [m \in Messages |-> "free"]
    /\ due = {}
    /\ earlier = [m \in Messages |-> {}]
    /\ worker = [w \in Workers |-> Idle]
    /\ configured = TRUE
    /\ crashes = 0
    /\ contacted = [m \in Messages |-> 0]
    /\ disturbed = {}
    /\ discarded = {}

\* enqueueWhatsAppMessage / enqueueEmailMessage; the caller delivers the row next.
Enqueue(w, m) ==
    /\ worker[w].pc = "idle" /\ w # Cron
    /\ status[m] = "NONE" /\ m \notin Nudges
    /\ status' = [status EXCEPT ![m] = "PENDING"]
    /\ PutDue(m)
    /\ worker' = [worker EXCEPT ![w] = Reading(m, <<>>)]
    /\ UNCHANGED <<attempts, lock, configured, crashes, historyVars>>

\* With a nextAttemptAt hours ahead, for the sweep to find.
ScheduleNudge(m) ==
    /\ status[m] = "NONE" /\ m \in Nudges
    /\ status' = [status EXCEPT ![m] = "PENDING"]
    /\ UNCHANGED <<attempts, lock, due, earlier, worker, configured, crashes, historyVars>>

\* retryDueOutboundMessages lists the oldest due rows nobody holds and delivers
\* them one after the other.
Sweepable(m) == Open(m) /\ m \in due /\ lock[m] # "fresh"
IsSweepList(list) ==
    LET listed == {list[i] : i \in DOMAIN list} IN
    /\ \A m \in listed : Sweepable(m)
    /\ \A i, j \in DOMAIN list : i < j => list[i] \in earlier[list[j]]
    /\ \A m \in Messages \ listed :
           Sweepable(m) => Len(list) = SweepLimit /\ listed \subseteq earlier[m]

Sweep(w) ==
    /\ worker[w].pc = "idle"
    /\ \E n \in 1..SweepLimit : \E list \in [1..n -> Messages] :
           /\ IsSweepList(list)
           /\ worker' = [worker EXCEPT ![w] = Reading(Head(list), Tail(list))]
    /\ UNCHANGED <<rowVars, configured, crashes, historyVars>>

\* retryOneAction, offered for every row the page does not show as sent.
RetryOne(w, m) ==
    /\ worker[w].pc = "idle" /\ w # Cron
    /\ status[m] # "NONE"
    /\ worker' = [worker EXCEPT ![w] = Reading(m, <<>>)]
    /\ UNCHANGED <<rowVars, configured, crashes, historyVars>>

-----------------------------------------------------------------------------
(* deliverOutboundMessage *)

ReadRow(w) ==
    LET m == worker[w].msg IN
    /\ worker[w].pc = "read"
    /\ IF Open(m) /\ m \in due
       THEN worker' = [worker EXCEPT ![w].pc = "check", ![w].attempts = attempts[m]]
       ELSE Finish(w)
    /\ UNCHANGED <<rowVars, configured, crashes, historyVars>>

\* The number of the attempt under way, from the count read at the start.
AttemptNumberKept(w) == worker[w].attempts
AttemptNumber(w) == worker[w].attempts + 1
StatusAfterFailure(w) == IF AttemptNumber(w) >= MaxAttempts THEN "DEAD" ELSE "FAILED"

CheckConfigured(w) ==
    /\ worker[w].pc = "check" /\ configured
    /\ GoTo(w, "lock")
    /\ UNCHANGED <<rowVars, configured, crashes, historyVars>>

\* Without settings the row is written as it stands by now: no lock is taken, and
\* one that is held, or a verdict reached since the read, is overwritten.
RecordNotConfigured(w) ==
    LET m == worker[w].msg IN
    /\ worker[w].pc = "check" /\ ~configured
    /\ status' = [status EXCEPT ![m] = StatusAfterFailure(w)]
    /\ attempts' = [attempts EXCEPT ![m] = @ + 1]
    /\ lock' = [lock EXCEPT ![m] = "free"]
    /\ Postpone(m)
    /\ disturbed' = IF lock[m] # "free" \/ Settled(m) THEN disturbed \cup {m} ELSE disturbed
    /\ Finish(w)
    /\ UNCHANGED <<configured, crashes, contacted, discarded>>

LockableWhenOpen(m) == Open(m)
LockableWhenUnlocked(m) == lock[m] # "fresh"
Lockable(m) == Open(m) /\ lock[m] # "fresh"

AcquireLock(w) ==
    LET m == worker[w].msg IN
    /\ worker[w].pc = "lock"
    /\ IF Lockable(m)
       THEN lock' = [lock EXCEPT ![m] = "fresh"] /\ GoTo(w, "send")
       ELSE lock' = lock /\ Finish(w)
    /\ UNCHANGED <<status, attempts, due, earlier, configured, crashes, historyVars>>

\* The provider takes the message, or takes it and its answer is lost or carries
\* no id, or rejects it, or reports that the number has no account (133010).
SendUnchecked(w, answer) ==
    LET m == worker[w].msg IN
    /\ worker[w].pc = "send" /\ m \notin Poison
    /\ contacted' = [contacted EXCEPT ![m] =
           IF answer \in {"accepted", "lost"} /\ @ < 2 THEN @ + 1 ELSE @]
    /\ disturbed' = IF answer = "lost" THEN disturbed \cup {m} ELSE disturbed
    /\ GoTo(w, IF answer = "refused" THEN "refused" ELSE "accepted")
    /\ UNCHANGED <<rowVars, configured, crashes, discarded>>

Send(w, answer) ==
    LET m == worker[w].msg IN
    /\ worker[w].pc = "send" /\ m \notin Poison
    /\ contacted' = [contacted EXCEPT ![m] =
           IF answer \in {"accepted", "lost"} /\ @ < 2 THEN @ + 1 ELSE @]
    /\ disturbed' = IF answer = "lost" THEN disturbed \cup {m} ELSE disturbed
    /\ GoTo(w, IF answer = "lost" THEN "rejected" ELSE answer)
    /\ UNCHANGED <<rowVars, configured, crashes, discarded>>

\* The renderer throws: nothing catches it before the worker's caller, so the row
\* stays locked, its attempt is not counted and a sweep ends here.
SendThrows(w) ==
    /\ worker[w].pc = "send" /\ worker[w].msg \in Poison
    /\ worker' = [worker EXCEPT ![w] = Idle]
    /\ UNCHANGED <<rowVars, configured, crashes, historyVars>>

RecordSent(w) ==
    LET m == worker[w].msg IN
    /\ worker[w].pc = "accepted"
    /\ status' = [status EXCEPT ![m] = "SENT"]
    /\ attempts' = [attempts EXCEPT ![m] = AttemptNumber(w)]
    /\ lock' = [lock EXCEPT ![m] = "free"]
    /\ Finish(w)
    /\ UNCHANGED <<due, earlier, configured, crashes, historyVars>>

RecordFailure(w) ==
    LET m == worker[w].msg IN
    /\ worker[w].pc \in {"rejected", "refused"}
    /\ status' = [status EXCEPT ![m] =
           IF worker[w].pc = "refused" THEN "DEAD" ELSE StatusAfterFailure(w)]
    /\ attempts' = [attempts EXCEPT ![m] = AttemptNumber(w)]
    /\ lock' = [lock EXCEPT ![m] = "free"]
    /\ Postpone(m)
    /\ Finish(w)
    /\ UNCHANGED <<configured, crashes, historyVars>>

-----------------------------------------------------------------------------
(* Around deliveries *)

\* markDeadAction.  nextAttemptAt goes to the epoch, which only matters to a row
\* that is open again, and then it has been put into the future.
Discard(m) ==
    /\ status[m] # "NONE"
    /\ status' = [status EXCEPT ![m] = "DEAD"]
    /\ lock' = [lock EXCEPT ![m] = "free"]
    /\ disturbed' = IF lock[m] # "free" THEN disturbed \cup {m} ELSE disturbed
    /\ discarded' = discarded \cup {m}
    /\ UNCHANGED <<attempts, due, earlier, worker, configured, crashes, contacted>>

\* cancelReadyForPickupNudges, when the device is collected.
CancelNudge(m) == m \in Nudges /\ Open(m) /\ Discard(m)

\* Half a minute to an hour, or the hours a nudge waits.
BecomeDue(m) ==
    /\ status[m] # "NONE" /\ m \notin due
    /\ PutDue(m)
    /\ UNCHANGED <<status, attempts, lock, worker, configured, crashes, historyVars>>

\* Two minutes.  Whoever holds the lock may still be at work.
LockExpires(m) ==
    /\ lock[m] = "fresh"
    /\ lock' = [lock EXCEPT ![m] = "stale"]
    /\ disturbed' = disturbed \cup {m}
    /\ UNCHANGED <<status, attempts, due, earlier, worker, configured, crashes, contacted,
                   discarded>>

\* The settings page saves or clears the provider's credentials.
SetConfigured ==
    /\ MayUnconfigure
    /\ configured' = ~configured
    /\ UNCHANGED <<rowVars, worker, crashes, historyVars>>

\* The function is killed or the server restarts.
Crash(w) ==
    /\ worker[w].pc # "idle" /\ crashes < MaxCrashes
    /\ worker' = [worker EXCEPT ![w] = Idle]
    /\ crashes' = crashes + 1
    /\ UNCHANGED <<rowVars, configured, historyVars>>

-----------------------------------------------------------------------------
Answers == {"accepted", "lost", "rejected", "refused"}

Deliver(w) ==
    \/ ReadRow(w)
    \/ CheckConfigured(w)
    \/ RecordNotConfigured(w)
    \/ AcquireLock(w)
    \/ \E answer \in Answers : Send(w, answer)
    \/ SendThrows(w)
    \/ RecordSent(w)
    \/ RecordFailure(w)

Calling ==
    \/ \E w \in Workers, m \in Messages : Enqueue(w, m)
    \/ \E m \in Messages : ScheduleNudge(m)
    \/ \E w \in Workers : Sweep(w)
    \/ \E w \in Workers, m \in Messages : RetryOne(w, m)

Around ==
    \/ \E m \in Messages : Discard(m)
    \/ \E m \in Messages : CancelNudge(m)
    \/ \E m \in Messages : BecomeDue(m)
    \/ \E m \in Messages : LockExpires(m)
    \/ SetConfigured
    \/ \E w \in Workers : Crash(w)

Next == Calling \/ (\E w \in Workers : Deliver(w)) \/ Around

Spec == Init /\ [][Next]_vars

\* The daily schedule keeps starting sweeps, a live execution goes on, and time
\* passes.  Nobody has to press a button, and nothing makes a message be sent.
Fairness ==
    /\ WF_vars(Sweep(Cron))
    /\ \A w \in Workers : WF_vars(Deliver(w))
    /\ \A m \in Messages : WF_vars(BecomeDue(m)) /\ WF_vars(LockExpires(m))

FairSpec == Spec /\ Fairness

-----------------------------------------------------------------------------
(* Properties *)

WorkerStates ==
    [pc : {"idle", "read", "check", "lock", "send", "accepted", "rejected", "refused"},
     msg : Messages, attempts : Nat, rest : Seq(Messages)]

\* Every variable holds what the row and the locals can hold.
TypeOK ==
    /\ status \in [Messages -> {"NONE", "PENDING", "FAILED", "SENT", "DEAD"}]
    /\ attempts \in [Messages -> Nat]
    /\ lock \in [Messages -> {"free", "fresh", "stale"}]
    /\ due \subseteq Messages
    /\ earlier \in [Messages -> SUBSET Messages]
    /\ worker \in [Workers -> WorkerStates]
    /\ configured \in BOOLEAN
    /\ crashes \in Nat
    /\ contacted \in [Messages -> 0..2]
    /\ disturbed \subseteq Messages
    /\ discarded \subseteq Messages

\* A customer gets a message twice only if a lock expired or was cleared under
\* its holder, a verdict was overwritten, or the provider's answer was lost.
OnceUnlessDisturbed == \A m \in Messages : m \notin disturbed => contacted[m] <= 1

\* A row is never marked sent that the provider did not take, however late the
\* worker that marks it.
SentWasTaken == \A m \in Messages : status[m] = "SENT" => contacted[m] >= 1

\* Without such a disturbance SENT and DEAD are final, for every worker that read
\* the row before.
SettledIsFinal ==
    [][\A m \in Messages : Settled(m) /\ m \notin disturbed' => Settled(m)']_vars

\* Every queued row is sent or given up in the end, through crashes, retries,
\* expiring locks and discards (index.ts:566, payment-reminders.ts:342).
QueuedRowsSettle ==
    \A m \in Messages \ Poison : status[m] = "PENDING" ~> [](Settled(m))

\* outbox/page.tsx:225: a discarded row is not retried.
DiscardedNotRetried ==
    [][\A w \in Workers : worker[w].pc = "lock" /\ worker'[w].pc = "send"
                          => worker[w].msg \notin discarded]_vars
=============================================================================
