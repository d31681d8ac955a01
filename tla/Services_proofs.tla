--------------------------- MODULE Services_proofs ---------------------------
(***************************************************************************)
(* Proofs about the components that wait for an outside service: Outbox    *)
(* for the message provider, Subscription for Pesapal.  They share no      *)
(* state; what they share is the shape of the argument, an execution that  *)
(* acts on what it read before the service or another execution answered.  *)
(*                                                                         *)
(* Outbox, for any set of rows, any number of workers and any limits:      *)
(* types, and what holds of a row no lock, verdict or answer was lost for. *)
(*                                                                         *)
(* Subscription, for any orders, calls, periods and bounds: neither safety *)
(* property is inductive.  How often an order was applied depends on       *)
(* whether it is the order the organisation remembers, and the renewal     *)
(* date on the dates that calls in flight have already computed.           *)
(***************************************************************************)
EXTENDS Outbox, Subscription, SequenceTheorems, TLAPS

-----------------------------------------------------------------------------
(* Outbox: types *)

\* The idle state of a worker and a worker that starts on a row are well typed.
LEMMA StartTypes ==
    /\ Idle \in WorkerStates
    /\ \A m \in Messages, rest \in Seq(Messages) : Reading(m, rest) \in WorkerStates
BY MessagesAssumption DEF Idle, Reading, WorkerStates

\* Whatever a worker goes on to, it keeps its fields' types.
LEMMA FinishType ==
    ASSUME TypeOK, NEW w \in Workers, Finish(w)
    PROVE  worker' \in [Workers -> WorkerStates]
<1> DEFINE rest == worker[w].rest
<1>1. rest \in Seq(Messages)
    BY DEF TypeOK, WorkerStates
<1>2. rest # <<>> => Head(rest) \in Messages /\ Tail(rest) \in Seq(Messages)
    BY <1>1, HeadTailProperties
<1> DEFINE next == IF rest = <<>> THEN Idle ELSE Reading(Head(rest), Tail(rest))
<1>3. next \in WorkerStates
    BY <1>2, StartTypes
<1>4. worker' = [worker EXCEPT ![w] = next]
    BY DEF Finish
<1> QED BY <1>3, <1>4 DEF TypeOK

\* Moving the program counter of one worker keeps the types.
LEMMA GoToType ==
    ASSUME TypeOK, NEW w \in Workers,
           NEW pc \in {"idle", "read", "check", "lock", "send", "accepted", "rejected", "refused"},
           GoTo(w, pc)
    PROVE  worker' \in [Workers -> WorkerStates]
BY DEF TypeOK, GoTo, WorkerStates

\* The steps that queue a row or start a worker keep the types.
LEMMA TypeCalling == TypeOK /\ Calling => TypeOK'
<1> SUFFICES ASSUME TypeOK, Calling PROVE TypeOK'
    OBVIOUS
<1>1. ASSUME NEW w \in Workers, NEW m \in Messages, Enqueue(w, m) PROVE TypeOK'
    <2>1. Reading(m, <<>>) \in WorkerStates
        BY StartTypes, EmptySeq
    <2>2. worker' \in [Workers -> WorkerStates]
        BY <1>1, <2>1 DEF Enqueue, TypeOK
    <2> QED BY <1>1, <2>2 DEF Enqueue, PutDue, TypeOK, historyVars
<1>2. ASSUME NEW m \in Messages, ScheduleNudge(m) PROVE TypeOK'
    BY <1>2 DEF ScheduleNudge, TypeOK, historyVars
<1>3. ASSUME NEW w \in Workers, Sweep(w) PROVE TypeOK'
    <2>0. PICK n \in 1..SweepLimit : \E list \in [1..n -> Messages] :
              worker' = [worker EXCEPT ![w] = Reading(Head(list), Tail(list))]
        BY <1>3 DEF Sweep
    <2>1. PICK list \in [1..n -> Messages] :
              worker' = [worker EXCEPT ![w] = Reading(Head(list), Tail(list))]
        BY <2>0
    <2>2. n \in Nat /\ n > 0 /\ list \in Seq(Messages) /\ list # <<>>
        BY <2>1, SweepLimitAssumption
    <2>3. Head(list) \in Messages /\ Tail(list) \in Seq(Messages)
        BY <2>2, HeadTailProperties
    <2>4. Reading(Head(list), Tail(list)) \in WorkerStates
        BY <2>3, StartTypes
    <2>5. worker' \in [Workers -> WorkerStates]
        BY <2>1, <2>4 DEF TypeOK
    <2> QED BY <1>3, <2>5 DEF Sweep, TypeOK, rowVars, historyVars
<1>4. ASSUME NEW w \in Workers, NEW m \in Messages, RetryOne(w, m) PROVE TypeOK'
    <2>1. Reading(m, <<>>) \in WorkerStates
        BY StartTypes, EmptySeq
    <2>2. worker' \in [Workers -> WorkerStates]
        BY <1>4, <2>1 DEF RetryOne, TypeOK
    <2> QED BY <1>4, <2>2 DEF RetryOne, TypeOK, rowVars, historyVars
<1> QED BY <1>1, <1>2, <1>3, <1>4 DEF Calling

\* The steps of a delivery keep the types.
LEMMA TypeDeliver == ASSUME TypeOK, NEW w \in Workers, Deliver(w) PROVE TypeOK'
<1> DEFINE m == worker[w].msg
<1>m. m \in Messages /\ worker[w].attempts \in Nat /\ attempts[m] \in Nat
    BY DEF TypeOK, WorkerStates
<1>s. AttemptNumber(w) \in Nat /\ StatusAfterFailure(w) \in {"DEAD", "FAILED"}
    BY <1>m DEF AttemptNumber, StatusAfterFailure
<1>1. CASE ReadRow(w)
    <2>1. worker' \in [Workers -> WorkerStates]
        <3>1. CASE Finish(w)
            BY <3>1, FinishType
        <3>2. CASE worker' = [worker EXCEPT ![w].pc = "check", ![w].attempts = attempts[m]]
            <4>1. worker[w] \in WorkerStates
                BY DEF TypeOK
            <4>2. [worker[w] EXCEPT !.pc = "check", !.attempts = attempts[m]] \in WorkerStates
                BY <4>1, <1>m DEF WorkerStates
            <4>3. worker' = [worker EXCEPT ![w] =
                      [worker[w] EXCEPT !.pc = "check", !.attempts = attempts[m]]]
                BY <3>2 DEF TypeOK
            <4> QED BY <4>2, <4>3 DEF TypeOK
        <3> QED BY <1>1, <3>1, <3>2 DEF ReadRow
    <2> QED BY <1>1, <2>1 DEF ReadRow, TypeOK, rowVars, historyVars
<1>2. CASE CheckConfigured(w)
    BY <1>2, GoToType DEF CheckConfigured, TypeOK, rowVars, historyVars
<1>3. CASE RecordNotConfigured(w)
    <2>1. worker' \in [Workers -> WorkerStates]
        BY <1>3, FinishType DEF RecordNotConfigured
    <2> QED BY <1>3, <2>1, <1>m, <1>s DEF RecordNotConfigured, Postpone, TypeOK
<1>4. CASE AcquireLock(w)
    <2>1. worker' \in [Workers -> WorkerStates]
        BY <1>4, FinishType, GoToType DEF AcquireLock
    <2> QED BY <1>4, <2>1, <1>m DEF AcquireLock, TypeOK, historyVars
<1>5. ASSUME NEW answer \in Answers, Send(w, answer) PROVE TypeOK'
    <2>1. worker' \in [Workers -> WorkerStates]
        BY <1>5, GoToType DEF Send, Answers
    <2>2. contacted' \in [Messages -> 0..2]
        BY <1>5, <1>m DEF Send, TypeOK
    <2> QED BY <1>5, <2>1, <2>2, <1>m DEF Send, TypeOK, rowVars
<1>6. CASE SendThrows(w)
    BY <1>6, StartTypes DEF SendThrows, TypeOK, rowVars, historyVars
<1>7. CASE RecordSent(w)
    <2>1. worker' \in [Workers -> WorkerStates]
        BY <1>7, FinishType DEF RecordSent
    <2> QED BY <1>7, <2>1, <1>m, <1>s DEF RecordSent, TypeOK, historyVars
<1>8. CASE RecordFailure(w)
    <2>1. worker' \in [Workers -> WorkerStates]
        BY <1>8, FinishType DEF RecordFailure
    <2> QED BY <1>8, <2>1, <1>m, <1>s DEF RecordFailure, Postpone, TypeOK, historyVars
<1> QED BY <1>1, <1>2, <1>3, <1>4, <1>5, <1>6, <1>7, <1>8 DEF Deliver

\* The steps around deliveries keep the types.
LEMMA TypeAround == TypeOK /\ Around => TypeOK'
<1> SUFFICES ASSUME TypeOK, Around PROVE TypeOK'
    OBVIOUS
<1>1. ASSUME NEW m \in Messages, Discard(m) PROVE TypeOK'
    BY <1>1 DEF Discard, TypeOK
<1>2. ASSUME NEW m \in Messages, BecomeDue(m) PROVE TypeOK'
    BY <1>2 DEF BecomeDue, PutDue, TypeOK, historyVars
<1>3. ASSUME NEW m \in Messages, LockExpires(m) PROVE TypeOK'
    BY <1>3 DEF LockExpires, TypeOK
<1>4. CASE SetConfigured
    BY <1>4 DEF SetConfigured, TypeOK, rowVars, historyVars
<1>5. ASSUME NEW w \in Workers, Crash(w) PROVE TypeOK'
    BY <1>5, StartTypes DEF Crash, TypeOK, rowVars, historyVars
<1> QED BY <1>1, <1>2, <1>3, <1>4, <1>5 DEF Around, CancelNudge

\* An empty outbox is well typed.
LEMMA TypeInit == Init => TypeOK
BY StartTypes DEF Init, TypeOK

\* Every step keeps the types.
LEMMA TypeStep == TypeOK /\ [Next]_vars => TypeOK'
<1> SUFFICES ASSUME TypeOK, [Next]_vars PROVE TypeOK'
    OBVIOUS
<1>1. CASE UNCHANGED vars
    BY <1>1 DEF vars, TypeOK
<1> QED BY <1>1, TypeCalling, TypeDeliver, TypeAround DEF Next

\* Rows, locals and histories keep their types (schema.prisma:1357,
\* deliverOutboundMessage), with no limit on workers or rows.
THEOREM TypeCorrect == Spec => []TypeOK
<1>1. Init => TypeOK
    BY TypeInit
<1>2. TypeOK /\ [Next]_vars => TypeOK'
    BY TypeStep
<1> QED BY <1>1, <1>2, PTL DEF Spec

-----------------------------------------------------------------------------
(* What holds of a row until a lock, a verdict or an answer is lost *)

\* A worker past the lock and before its verdict.
Holding(w, m) == worker[w].msg = m /\ worker[w].pc \in {"send", "accepted", "rejected", "refused"}

\* While a worker holds the row the lock is fresh, the row is open and nobody else
\* holds it; until the worker hears "accepted" the provider has not taken the
\* message; and once it was taken the row is settled or stays locked.
Guarded(m) ==
    /\ \A w \in Workers : Holding(w, m) =>
           /\ lock[m] = "fresh"
           /\ Open(m)
           /\ worker[w].pc # "accepted" => contacted[m] = 0
    /\ \A v, w \in Workers : Holding(v, m) /\ Holding(w, m) => v = w
    /\ contacted[m] <= 1
    /\ contacted[m] = 1 => Settled(m) \/ lock[m] = "fresh"

GuardedUnlessDisturbed == \A m \in Messages : m \notin disturbed => Guarded(m)

\* A worker that goes on to its next row, or stops, holds nothing; the other
\* workers hold what they held.
LEMMA FinishReleases ==
    ASSUME TypeOK, NEW w \in Workers, NEW m \in Messages, Finish(w)
    PROVE  /\ ~Holding(w, m)'
           /\ \A v \in Workers \ {w} : worker'[v] = worker[v]
<1>1. worker' = [worker EXCEPT ![w] = IF worker[w].rest = <<>> THEN Idle
                     ELSE Reading(Head(worker[w].rest), Tail(worker[w].rest))]
    BY DEF Finish
<1>2. worker'[w].pc \in {"idle", "read"}
    BY <1>1 DEF TypeOK, Idle, Reading
<1> QED BY <1>1, <1>2 DEF TypeOK, Holding

\* A step of one worker that leaves it without a row, and leaves the row's fields
\* alone, keeps the row guarded.
LEMMA ReleaseKeepsGuarded ==
    ASSUME NEW w \in Workers, NEW m \in Messages, Guarded(m), ~Holding(w, m)',
           \A v \in Workers \ {w} : worker'[v] = worker[v],
           status'[m] = status[m], lock'[m] = lock[m], contacted'[m] = contacted[m]
    PROVE  Guarded(m)'
BY DEF Guarded, Holding, Open, Settled

\* A row nobody holds, before and after a step.
LEMMA UnheldIsGuarded ==
    ASSUME NEW m \in Messages, \A w \in Workers : ~Holding(w, m)', contacted'[m] <= 1,
           contacted'[m] = 1 => Settled(m)' \/ lock'[m] = "fresh"
    PROVE  Guarded(m)'
BY DEF Guarded

\* The steps that queue a row or start a worker keep every row guarded.
LEMMA GuardedCalling ==
    ASSUME TypeOK, Calling, NEW m \in Messages, Guarded(m)
    PROVE  Guarded(m)'
<1>1. ASSUME NEW w \in Workers, NEW k \in Messages, Enqueue(w, k) PROVE Guarded(m)'
    <2>1. worker'[w].pc = "read" /\ \A v \in Workers \ {w} : worker'[v] = worker[v]
        BY <1>1 DEF Enqueue, Reading, TypeOK
    <2>2. lock'[m] = lock[m] /\ contacted'[m] = contacted[m]
        BY <1>1 DEF Enqueue, historyVars
    <2>3. status'[m] = IF m = k THEN "PENDING" ELSE status[m]
        BY <1>1 DEF Enqueue, TypeOK
    <2>4. m = k => status[m] = "NONE"
        BY <1>1 DEF Enqueue
    <2> QED BY <2>1, <2>2, <2>3, <2>4 DEF Guarded, Holding, Open, Settled
<1>2. ASSUME NEW k \in Messages, ScheduleNudge(k) PROVE Guarded(m)'
    <2>1. worker' = worker /\ lock'[m] = lock[m] /\ contacted'[m] = contacted[m]
        BY <1>2 DEF ScheduleNudge, historyVars
    <2>2. status'[m] = IF m = k THEN "PENDING" ELSE status[m]
        BY <1>2 DEF ScheduleNudge, TypeOK
    <2>3. m = k => status[m] = "NONE"
        BY <1>2 DEF ScheduleNudge
    <2> QED BY <2>1, <2>2, <2>3 DEF Guarded, Holding, Open, Settled
<1>3. ASSUME NEW w \in Workers, Sweep(w) PROVE Guarded(m)'
    <2>1. worker'[w].pc = "read" /\ \A v \in Workers \ {w} : worker'[v] = worker[v]
        BY <1>3 DEF Sweep, Reading, TypeOK
    <2>2. UNCHANGED <<status, lock, contacted>>
        BY <1>3 DEF Sweep, rowVars, historyVars
    <2> QED BY <2>1, <2>2, ReleaseKeepsGuarded DEF Holding
<1>4. ASSUME NEW w \in Workers, NEW k \in Messages, RetryOne(w, k) PROVE Guarded(m)'
    <2>1. worker'[w].pc = "read" /\ \A v \in Workers \ {w} : worker'[v] = worker[v]
        BY <1>4 DEF RetryOne, Reading, TypeOK
    <2>2. UNCHANGED <<status, lock, contacted>>
        BY <1>4 DEF RetryOne, rowVars, historyVars
    <2> QED BY <2>1, <2>2, ReleaseKeepsGuarded DEF Holding
<1> QED BY <1>1, <1>2, <1>3, <1>4 DEF Calling

\* A delivery of another row leaves this one alone.
LEMMA OtherRowKeepsGuarded ==
    ASSUME TypeOK, NEW w \in Workers, Deliver(w), NEW m \in Messages, Guarded(m),
           worker[w].msg # m
    PROVE  Guarded(m)'
<1>1. \A v \in Workers \ {w} : worker'[v] = worker[v]
    <2>1. Finish(w) => \A v \in Workers \ {w} : worker'[v] = worker[v]
        BY FinishReleases
    <2> QED BY <2>1 DEF Deliver, ReadRow, CheckConfigured, RecordNotConfigured, AcquireLock, Send,
               SendThrows, RecordSent, RecordFailure, GoTo, TypeOK
<1>2. ~Holding(w, m)'
    <2>1. Finish(w) => ~Holding(w, m)'
        BY FinishReleases
    <2>2. ASSUME NEW pc, GoTo(w, pc) PROVE ~Holding(w, m)'
        BY <2>2 DEF GoTo, TypeOK, WorkerStates, Holding
    <2>3. ReadRow(w) => ~Holding(w, m)'
        BY <2>1 DEF ReadRow, TypeOK, WorkerStates, Holding
    <2>4. SendThrows(w) => ~Holding(w, m)'
        BY DEF SendThrows, Idle, TypeOK, Holding
    <2>5. ASSUME NEW answer \in Answers, Send(w, answer) PROVE ~Holding(w, m)'
        BY <2>2, <2>5 DEF Send, Answers
    <2> QED BY <2>1, <2>2, <2>3, <2>4, <2>5 DEF Deliver, CheckConfigured, RecordNotConfigured,
               AcquireLock, RecordSent, RecordFailure
<1>3. status'[m] = status[m] /\ lock'[m] = lock[m] /\ contacted'[m] = contacted[m]
    BY DEF Deliver, ReadRow, CheckConfigured, RecordNotConfigured, AcquireLock, Send,
           SendThrows, RecordSent, RecordFailure, rowVars, historyVars, TypeOK
<1> QED BY <1>1, <1>2, <1>3, ReleaseKeepsGuarded

\* A delivery of the row itself keeps it guarded, unless it disturbs it.
LEMMA OwnRowKeepsGuarded ==
    ASSUME TypeOK, NEW w \in Workers, Deliver(w), NEW m \in Messages, Guarded(m),
           worker[w].msg = m, m \notin disturbed'
    PROVE  Guarded(m)'
<1>1. CASE ReadRow(w)
    <2>1. ~Holding(w, m)' /\ \A v \in Workers \ {w} : worker'[v] = worker[v]
        BY <1>1, FinishReleases DEF ReadRow, TypeOK, WorkerStates, Holding
    <2>2. UNCHANGED <<status, lock, contacted>>
        BY <1>1 DEF ReadRow, rowVars, historyVars
    <2> QED BY <2>1, <2>2, ReleaseKeepsGuarded
<1>2. CASE CheckConfigured(w)
    <2>1. ~Holding(w, m)' /\ \A v \in Workers \ {w} : worker'[v] = worker[v]
        BY <1>2 DEF CheckConfigured, GoTo, TypeOK, WorkerStates, Holding
    <2>2. UNCHANGED <<status, lock, contacted>>
        BY <1>2 DEF CheckConfigured, rowVars, historyVars
    <2> QED BY <2>1, <2>2, ReleaseKeepsGuarded
<1>3. CASE RecordNotConfigured(w)
    <2>1. lock[m] = "free" /\ ~Settled(m)
        BY <1>3 DEF RecordNotConfigured
    <2>2. (\A v \in Workers : ~Holding(v, m)) /\ contacted[m] # 1 /\ contacted[m] <= 1
        BY <2>1 DEF Guarded
    <2>3. ~Holding(w, m)' /\ \A v \in Workers \ {w} : worker'[v] = worker[v]
        BY <1>3, FinishReleases DEF RecordNotConfigured
    <2>4. \A v \in Workers : ~Holding(v, m)'
        BY <2>2, <2>3 DEF Holding
    <2>5. contacted' = contacted
        BY <1>3 DEF RecordNotConfigured
    <2> QED BY <2>2, <2>4, <2>5, UnheldIsGuarded
<1>4. CASE AcquireLock(w)
    <2>1. CASE Lockable(m)
        <3>1. lock[m] # "fresh" /\ Open(m)
            BY <2>1 DEF Lockable
        <3>2. (\A v \in Workers : ~Holding(v, m)) /\ contacted[m] # 1 /\ contacted[m] <= 1
            BY <3>1 DEF Guarded, Open, Settled
        <3>3. contacted[m] = 0
            BY <3>2 DEF TypeOK
        <3>4. lock'[m] = "fresh" /\ status' = status /\ contacted' = contacted
            BY <1>4, <2>1 DEF AcquireLock, historyVars, TypeOK
        <3>5. worker'[w].pc = "send" /\ \A v \in Workers \ {w} : worker'[v] = worker[v]
            BY <1>4, <2>1 DEF AcquireLock, GoTo, TypeOK, WorkerStates
        <3>6. \A v \in Workers : Holding(v, m)' => v = w
            BY <3>2, <3>5 DEF Holding
        <3> QED BY <3>1, <3>3, <3>4, <3>5, <3>6 DEF Guarded, Open
    <2>2. CASE ~Lockable(m)
        <3>1. ~Holding(w, m)' /\ \A v \in Workers \ {w} : worker'[v] = worker[v]
            BY <1>4, <2>2, FinishReleases DEF AcquireLock
        <3>2. UNCHANGED <<status, lock, contacted>>
            BY <1>4, <2>2 DEF AcquireLock, historyVars
        <3> QED BY <3>1, <3>2, ReleaseKeepsGuarded
    <2> QED BY <2>1, <2>2
<1>5. ASSUME NEW answer \in Answers, Send(w, answer) PROVE Guarded(m)'
    <2>1. Holding(w, m) /\ worker[w].pc = "send"
        BY <1>5 DEF Send, Holding
    <2>2. lock[m] = "fresh" /\ Open(m) /\ contacted[m] = 0
          /\ \A v \in Workers : Holding(v, m) => v = w
        BY <2>1 DEF Guarded
    <2>3. answer # "lost"
        BY <1>5 DEF Send
    <2>4. lock'[m] = "fresh" /\ status' = status
        BY <1>5, <2>2 DEF Send, rowVars
    <2>5. contacted'[m] = IF answer = "accepted" THEN 1 ELSE 0
        BY <1>5, <2>2, <2>3 DEF Send, Answers, TypeOK
    <2>6. worker'[w].pc = answer /\ \A v \in Workers \ {w} : worker'[v] = worker[v]
        BY <1>5, <2>3 DEF Send, GoTo, TypeOK, WorkerStates
    <2>7. \A v \in Workers : Holding(v, m)' => v = w
        BY <2>2, <2>6 DEF Holding
    <2> QED BY <2>2, <2>4, <2>5, <2>6, <2>7 DEF Guarded, Open
<1>6. CASE SendThrows(w)
    <2>1. ~Holding(w, m)' /\ \A v \in Workers \ {w} : worker'[v] = worker[v]
        BY <1>6 DEF SendThrows, Idle, TypeOK, Holding
    <2>2. UNCHANGED <<status, lock, contacted>>
        BY <1>6 DEF SendThrows, rowVars, historyVars
    <2> QED BY <2>1, <2>2, ReleaseKeepsGuarded
<1>7. CASE RecordSent(w)
    <2>1. Holding(w, m)
        BY <1>7 DEF RecordSent, Holding
    <2>2. contacted[m] <= 1 /\ \A v \in Workers \ {w} : ~Holding(v, m)
        BY <2>1 DEF Guarded
    <2>3. ~Holding(w, m)' /\ \A v \in Workers \ {w} : worker'[v] = worker[v]
        BY <1>7, FinishReleases DEF RecordSent
    <2>4. \A v \in Workers : ~Holding(v, m)'
        BY <2>2, <2>3 DEF Holding
    <2>5. contacted' = contacted /\ Settled(m)'
        BY <1>7 DEF RecordSent, historyVars, Settled, TypeOK
    <2> QED BY <2>2, <2>4, <2>5, UnheldIsGuarded
<1>8. CASE RecordFailure(w)
    <2>1. Holding(w, m) /\ worker[w].pc # "accepted"
        BY <1>8 DEF RecordFailure, Holding
    <2>2. contacted[m] = 0 /\ \A v \in Workers \ {w} : ~Holding(v, m)
        BY <2>1 DEF Guarded
    <2>3. ~Holding(w, m)' /\ \A v \in Workers \ {w} : worker'[v] = worker[v]
        BY <1>8, FinishReleases DEF RecordFailure
    <2>4. \A v \in Workers : ~Holding(v, m)'
        BY <2>2, <2>3 DEF Holding
    <2>5. contacted' = contacted
        BY <1>8 DEF RecordFailure, historyVars
    <2> QED BY <2>2, <2>4, <2>5, UnheldIsGuarded
<1> QED BY <1>1, <1>2, <1>3, <1>4, <1>5, <1>6, <1>7, <1>8 DEF Deliver

\* Discards, clocks, settings and crashes keep a row guarded, unless they disturb it.
LEMMA GuardedAround ==
    ASSUME TypeOK, Around, NEW m \in Messages, Guarded(m), m \notin disturbed'
    PROVE  Guarded(m)'
<1>1. ASSUME NEW k \in Messages, Discard(k) PROVE Guarded(m)'
    <2>1. worker' = worker /\ contacted' = contacted
        BY <1>1 DEF Discard
    <2>2. CASE k # m
        BY <1>1, <2>1, <2>2 DEF Discard, Guarded, Holding, Open, Settled, TypeOK
    <2>3. CASE k = m
        <3>1. lock[m] = "free" /\ Settled(m)'
            BY <1>1, <2>3 DEF Discard, Settled, TypeOK
        <3>2. \A v \in Workers : ~Holding(v, m)'
            BY <2>1, <3>1 DEF Guarded, Holding
        <3> QED BY <2>1, <3>1, <3>2, UnheldIsGuarded DEF Guarded
    <2> QED BY <2>2, <2>3
<1>2. ASSUME NEW k \in Messages, BecomeDue(k) PROVE Guarded(m)'
    BY <1>2 DEF BecomeDue, Guarded, Holding, Open, Settled, historyVars
<1>3. ASSUME NEW k \in Messages, LockExpires(k) PROVE Guarded(m)'
    <2>1. k # m
        BY <1>3 DEF LockExpires
    <2> QED BY <1>3, <2>1 DEF LockExpires, Guarded, Holding, Open, Settled, TypeOK
<1>4. CASE SetConfigured
    BY <1>4 DEF SetConfigured, Guarded, Holding, Open, Settled, rowVars, historyVars
<1>5. ASSUME NEW w \in Workers, Crash(w) PROVE Guarded(m)'
    <2>1. ~Holding(w, m)' /\ \A v \in Workers \ {w} : worker'[v] = worker[v]
        BY <1>5 DEF Crash, Idle, TypeOK, Holding
    <2>2. UNCHANGED <<status, lock, contacted>>
        BY <1>5 DEF Crash, rowVars, historyVars
    <2> QED BY <2>1, <2>2, ReleaseKeepsGuarded
<1> QED BY <1>1, <1>2, <1>3, <1>4, <1>5 DEF Around, CancelNudge

\* A disturbed row stays disturbed.
LEMMA DisturbedGrows == ASSUME [Next]_vars PROVE disturbed \subseteq disturbed'
BY DEF Next, Calling, Deliver, Around, Enqueue, ScheduleNudge, Sweep, RetryOne, ReadRow,
       CheckConfigured, RecordNotConfigured, AcquireLock, Send, SendThrows, RecordSent,
       RecordFailure, Discard, CancelNudge, BecomeDue, LockExpires, SetConfigured, Crash,
       rowVars, historyVars, vars

\* The inductive step.
LEMMA GuardedStep ==
    TypeOK /\ GuardedUnlessDisturbed /\ [Next]_vars => GuardedUnlessDisturbed'
<1> SUFFICES ASSUME TypeOK, GuardedUnlessDisturbed, [Next]_vars,
                    NEW m \in Messages, m \notin disturbed'
             PROVE  Guarded(m)'
    BY DEF GuardedUnlessDisturbed
<1>1. Guarded(m)
    BY DisturbedGrows DEF GuardedUnlessDisturbed
<1>2. CASE UNCHANGED vars
    BY <1>1, <1>2 DEF vars, Guarded, Holding, Open, Settled
<1>3. CASE Calling
    BY <1>1, <1>3, GuardedCalling
<1>4. ASSUME NEW w \in Workers, Deliver(w) PROVE Guarded(m)'
    BY <1>1, <1>4, OwnRowKeepsGuarded, OtherRowKeepsGuarded
<1>5. CASE Around
    BY <1>1, <1>5, GuardedAround
<1> QED BY <1>2, <1>3, <1>4, <1>5 DEF Next

\* Initially nobody holds anything and nothing was sent.
LEMMA GuardedInit == Init => GuardedUnlessDisturbed
BY DEF Init, Idle, GuardedUnlessDisturbed, Guarded, Holding

\* A customer gets a message twice only after a lock expired or was cleared under
\* its holder, a verdict was overwritten, or an answer was lost: with any number
\* of workers, sweeps and button presses, the lock's updateMany is enough.
THEOREM OnceCorrect == Spec => []OnceUnlessDisturbed
<1>1. Init => TypeOK /\ GuardedUnlessDisturbed
    BY TypeInit, GuardedInit
<1>2. TypeOK /\ GuardedUnlessDisturbed /\ [Next]_vars => TypeOK' /\ GuardedUnlessDisturbed'
    BY TypeStep, GuardedStep
<1>3. GuardedUnlessDisturbed => OnceUnlessDisturbed
    BY DEF GuardedUnlessDisturbed, Guarded, OnceUnlessDisturbed
<1> QED BY <1>1, <1>2, <1>3, PTL DEF Spec

\* Only a holder or a worker without settings writes an open status, and neither
\* can do so to a settled row without disturbing it.
LEMMA SettledStep ==
    ASSUME TypeOK, GuardedUnlessDisturbed, [Next]_vars, NEW m \in Messages, Settled(m),
           m \notin disturbed'
    PROVE  Settled(m)'
<1>1. Guarded(m)
    BY DisturbedGrows DEF GuardedUnlessDisturbed
<1>2. \A w \in Workers : ~Holding(w, m)
    BY <1>1 DEF Guarded, Open, Settled
<1>3. CASE UNCHANGED vars
    BY <1>3 DEF vars, Settled
<1>4. CASE Calling
    BY <1>4 DEF Calling, Enqueue, ScheduleNudge, Sweep, RetryOne, Settled, TypeOK, rowVars
<1>5. ASSUME NEW w \in Workers, Deliver(w) PROVE Settled(m)'
    <2>1. CASE RecordNotConfigured(w)
        BY <2>1 DEF RecordNotConfigured, Settled, TypeOK
    <2>2. CASE RecordSent(w)
        BY <2>2 DEF RecordSent, Settled, TypeOK
    <2>3. CASE RecordFailure(w)
        <3>1. worker[w].msg # m
            BY <1>2, <2>3 DEF RecordFailure, Holding
        <3> QED BY <2>3, <3>1 DEF RecordFailure, Settled, TypeOK
    <2>4. CASE UNCHANGED status
        BY <2>4 DEF Settled
    <2> QED BY <1>5, <2>1, <2>2, <2>3, <2>4 DEF Deliver, ReadRow, CheckConfigured, AcquireLock,
               Send, SendThrows, rowVars
<1>6. CASE Around
    BY <1>6 DEF Around, Discard, CancelNudge, BecomeDue, LockExpires, SetConfigured, Crash,
            Settled, TypeOK, rowVars
<1> QED BY <1>3, <1>4, <1>5, <1>6 DEF Next

\* Whatever a worker read before, a row that was sent or given up is not reopened
\* unless it was disturbed: the status guard of the lock's updateMany suffices.
THEOREM FinalCorrect == Spec => SettledIsFinal
<1>1. Init => TypeOK /\ GuardedUnlessDisturbed
    BY TypeInit, GuardedInit
<1>2. TypeOK /\ GuardedUnlessDisturbed /\ [Next]_vars => TypeOK' /\ GuardedUnlessDisturbed'
    BY TypeStep, GuardedStep
<1>3. TypeOK /\ GuardedUnlessDisturbed /\ [Next]_vars
      => [\A m \in Messages : Settled(m) /\ m \notin disturbed' => Settled(m)']_vars
    BY SettledStep
<1> QED BY <1>1, <1>2, <1>3, PTL DEF Spec, SettledIsFinal

-----------------------------------------------------------------------------
(* What a row marked sent means *)

\* A worker about to mark its row sent heard "accepted" from the provider.
TakenBeforeMarked ==
    /\ SentWasTaken
    /\ \A w \in Workers : worker[w].pc = "accepted" => contacted[worker[w].msg] >= 1

\* The provider never gives a message back.
LEMMA ContactedGrows ==
    ASSUME TypeOK, [Next]_vars, NEW m \in Messages
    PROVE  contacted[m] >= 1 => contacted'[m] >= 1
<1>1. ASSUME NEW w \in Workers, NEW answer \in Answers, Send(w, answer)
      PROVE  contacted[m] >= 1 => contacted'[m] >= 1
    BY <1>1 DEF Send, TypeOK
<1>2. CASE UNCHANGED contacted
    BY <1>2
<1> QED BY <1>1, <1>2 DEF Next, Calling, Deliver, Around, Enqueue, ScheduleNudge, Sweep, RetryOne,
           ReadRow, CheckConfigured, RecordNotConfigured, AcquireLock, SendThrows, RecordSent,
           RecordFailure, Discard, CancelNudge, BecomeDue, LockExpires, SetConfigured, Crash,
           rowVars, historyVars, vars

\* The inductive step.
LEMMA TakenStep == TypeOK /\ TakenBeforeMarked /\ [Next]_vars => TakenBeforeMarked'
<1> SUFFICES ASSUME TypeOK, TakenBeforeMarked, [Next]_vars PROVE TakenBeforeMarked'
    OBVIOUS
<1>1. ASSUME NEW w \in Workers, worker'[w].pc = "accepted"
      PROVE  contacted'[worker'[w].msg] >= 1
    <2>1. CASE worker'[w] = worker[w]
        <3>1. worker[w].msg \in Messages
            BY DEF TypeOK, WorkerStates
        <3> QED BY <1>1, <2>1, <3>1, ContactedGrows DEF TakenBeforeMarked
    <2>2. CASE Send(w, "accepted")
        <3>1. worker[w].msg \in Messages /\ worker'[w].msg = worker[w].msg
            BY <2>2 DEF Send, GoTo, TypeOK, WorkerStates
        <3>2. contacted[worker[w].msg] \in 0..2
            BY <3>1 DEF TypeOK
        <3>3. contacted'[worker[w].msg] = IF contacted[worker[w].msg] < 2
                                          THEN contacted[worker[w].msg] + 1
                                          ELSE contacted[worker[w].msg]
            BY <2>2, <3>1 DEF Send, TypeOK
        <3> QED BY <3>1, <3>2, <3>3
    <2>3. worker'[w] = worker[w] \/ Send(w, "accepted")
        <3>1. CASE UNCHANGED worker
            BY <3>1
        <3>2. CASE Calling
            BY <1>1, <3>2 DEF Calling, Enqueue, ScheduleNudge, Sweep, RetryOne, Reading, TypeOK
        <3>3. CASE Around
            BY <1>1, <3>3 DEF Around, Discard, CancelNudge, BecomeDue, LockExpires, SetConfigured,
                    Crash, Idle, TypeOK
        <3>4. ASSUME NEW v \in Workers, Deliver(v) PROVE worker'[w] = worker[w] \/ Send(w, "accepted")
            <4>1. ASSUME Finish(v) PROVE worker'[w] = worker[w]
                <5>1. CASE v = w
                    <6>1. worker'[w].pc \in {"idle", "read"}
                        BY <4>1, <5>1 DEF Finish, TypeOK, Idle, Reading
                    <6> QED BY <1>1, <6>1
                <5>2. CASE v # w
                    BY <4>1, <5>2, MessagesAssumption, FinishReleases
                <5> QED BY <5>1, <5>2
            <4>2. CASE ReadRow(v)
                BY <1>1, <4>1, <4>2 DEF ReadRow, TypeOK, WorkerStates
            <4>3. CASE CheckConfigured(v)
                BY <1>1, <4>3 DEF CheckConfigured, GoTo, TypeOK, WorkerStates
            <4>4. CASE RecordNotConfigured(v)
                BY <4>1, <4>4 DEF RecordNotConfigured
            <4>5. CASE AcquireLock(v)
                BY <1>1, <4>1, <4>5 DEF AcquireLock, GoTo, TypeOK, WorkerStates
            <4>6. ASSUME NEW answer \in Answers, Send(v, answer)
                  PROVE  worker'[w] = worker[w] \/ Send(w, "accepted")
                BY <1>1, <4>6 DEF Send, GoTo, TypeOK, WorkerStates, Answers
            <4>7. CASE SendThrows(v)
                BY <1>1, <4>7 DEF SendThrows, Idle, TypeOK
            <4>8. CASE RecordSent(v) \/ RecordFailure(v)
                BY <4>1, <4>8 DEF RecordSent, RecordFailure
            <4> QED BY <3>4, <4>2, <4>3, <4>4, <4>5, <4>6, <4>7, <4>8 DEF Deliver
        <3> QED BY <3>1, <3>2, <3>3, <3>4 DEF Next, vars
    <2> QED BY <2>1, <2>2, <2>3
<1>2. ASSUME NEW m \in Messages, status'[m] = "SENT" PROVE contacted'[m] >= 1
    <2>1. CASE status[m] = "SENT"
        BY <2>1, ContactedGrows DEF TakenBeforeMarked, SentWasTaken
    <2>2. CASE status[m] # "SENT"
        <3>1. PICK w \in Workers : RecordSent(w) /\ worker[w].msg = m
            <4>1. ~Calling
                BY <1>2, <2>2 DEF Calling, Enqueue, ScheduleNudge, Sweep, RetryOne, rowVars, TypeOK
            <4>2. ~Around
                BY <1>2, <2>2 DEF Around, Discard, CancelNudge, BecomeDue, LockExpires,
                   SetConfigured, Crash, rowVars, TypeOK
            <4>3. status' # status
                BY <1>2, <2>2
            <4>4. PICK w \in Workers : Deliver(w)
                BY <4>1, <4>2, <4>3 DEF Next, vars
            <4>5. ~RecordNotConfigured(w) /\ ~RecordFailure(w)
                BY <1>2, <2>2 DEF RecordNotConfigured, RecordFailure, StatusAfterFailure, TypeOK
            <4>6. RecordSent(w)
                BY <4>3, <4>4, <4>5 DEF Deliver, ReadRow, CheckConfigured, AcquireLock, Send,
                   SendThrows, rowVars
            <4>7. worker[w].msg = m
                BY <1>2, <2>2, <4>6 DEF RecordSent, TypeOK
            <4> QED BY <4>6, <4>7
        <3>2. contacted[m] >= 1
            BY <3>1 DEF RecordSent, TakenBeforeMarked
        <3> QED BY <3>2, ContactedGrows
    <2> QED BY <2>1, <2>2
<1> QED BY <1>1, <1>2 DEF TakenBeforeMarked, SentWasTaken

\* No interleaving marks a row sent that the provider did not take.
THEOREM SentCorrect == Spec => []SentWasTaken
<1>1. Init => TypeOK /\ TakenBeforeMarked
    BY TypeInit DEF Init, Idle, TakenBeforeMarked, SentWasTaken
<1>2. TypeOK /\ TakenBeforeMarked /\ [Next]_vars => TypeOK' /\ TakenBeforeMarked'
    BY TypeStep, TakenStep
<1>3. TakenBeforeMarked => SentWasTaken
    BY DEF TakenBeforeMarked
<1> QED BY <1>1, <1>2, <1>3, PTL DEF Spec

-----------------------------------------------------------------------------
(* Subscription: the invariant of payments *)

\* Per order: if it is the one the organisation remembers, one application is not
\* yet followed by another order's.
AppliedByTurns ==
    \A o \in Orders :
        granted[o] <= (applications - granted[o]) + (IF lastOrder = o THEN 1 ELSE 0)

\* A call in flight has computed at most one period more than has been bought.
PromisesOnePeriod ==
    \A h \in Calls : call[h].pc = "apply" =>
        /\ call[h].order \in Orders
        /\ call[h].until <= now + Month * (applications + 1)

PaymentInv == SubscriptionTypeOK /\ AppliedByTurns /\ NoUnappliedTime /\ PromisesOnePeriod

Steps == {"idle", "apply", "mark", "downgrade", "trial", "extend"}
CallType == [pc : Steps, order : Orders \cup {NoOrder}, until : Nat]

USE PeriodsAssumption, BoundsAssumption DEF Never

-----------------------------------------------------------------------------
\* One more payment buys one more period.
LEMMA OneMorePeriod ==
    ASSUME NEW a \in Nat
    PROVE  /\ Month * a \in Nat
           /\ Month * (a + 1) = Month * a + Month
           /\ Month * (a + 2) = Month * a + 2 * Month
  OBVIOUS

\* A bound on a date outlives a later clock and an earlier date.
LEMMA StillBought ==
    ASSUME NEW r1 \in Nat, NEW r2 \in Nat, NEW n1 \in Nat, NEW n2 \in Nat, NEW b \in Nat,
           r1 <= n1 + b, r2 <= r1, n1 <= n2
    PROVE  r2 <= n2 + b
  OBVIOUS

\* A call that starts from idle holds what it decided.
LEMMA DecideType ==
    ASSUME call \in [Calls -> CallType], NEW h \in Calls, NEW pc \in Steps,
           NEW until \in Nat, Decide(h, pc, until)
    PROVE  /\ call' \in [Calls -> CallType]
           /\ \A g \in Calls : call'[g] = call[g] \/ call'[g].pc = pc
  BY DEF Decide, NotCalled, CallType

\* A call that returns is idle.
LEMMA ReturnType ==
    ASSUME call \in [Calls -> CallType], NEW h \in Calls, NEW pc \in Steps, Return(h, pc)
    PROVE  /\ call' \in [Calls -> CallType]
           /\ \A g \in Calls : call'[g] = call[g] \/ call'[g].pc = "idle"
  BY DEF Return, NotCalled, CallType, Steps

\* Steps that start or end calls, and neither apply a payment nor raise the renewal
\* date, keep the invariant.
LEMMA OtherStep ==
    ASSUME PaymentInv, SubscriptionTypeOK',
           UNCHANGED <<lastOrder, appliedVars>>,
           renewsAt' <= renewsAt, now <= now',
           \A h \in Calls : call'[h] = call[h] \/ call'[h].pc # "apply"
    PROVE  PaymentInv'
<1>1. AppliedByTurns'
  BY DEF PaymentInv, AppliedByTurns, appliedVars
<1>2. NoUnappliedTime'
  <2>1. applications' = applications /\ applications \in Nat
        /\ renewsAt \in Nat /\ renewsAt' \in Nat /\ now \in Nat /\ now' \in Nat
    BY DEF PaymentInv, SubscriptionTypeOK, appliedVars
  <2>2. Month * applications \in Nat /\ Month * applications' = Month * applications
    BY <2>1, OneMorePeriod
  <2>3. renewsAt <= now + Month * applications
    BY DEF PaymentInv, NoUnappliedTime
  <2>4. renewsAt' <= now' + Month * applications
    BY <2>1, <2>2, <2>3, StillBought
  <2>. QED  BY <2>1, <2>4 DEF NoUnappliedTime
<1>3. PromisesOnePeriod'
  <2>1. ASSUME NEW h \in Calls, call'[h].pc = "apply"
        PROVE  /\ call'[h].order \in Orders
               /\ call'[h].until <= now' + Month * (applications' + 1)
    <3>1. call'[h] = call[h]
      BY <2>1
    <3>2. call[h].order \in Orders /\ call[h].until <= now + Month * (applications + 1)
      BY <2>1, <3>1 DEF PaymentInv, PromisesOnePeriod
    <3>3. call[h].until \in Nat /\ applications \in Nat /\ now \in Nat /\ now' \in Nat
      BY DEF PaymentInv, SubscriptionTypeOK
    <3>. QED  BY <3>1, <3>2, <3>3, OneMorePeriod DEF appliedVars
  <2>. QED  BY <2>1 DEF PromisesOnePeriod
<1>. QED  BY <1>1, <1>2, <1>3 DEF PaymentInv

-----------------------------------------------------------------------------
\* A new organisation satisfies the invariant.
LEMMA PaymentInvInit == SubscriptionInit => PaymentInv
<1>. SUFFICES ASSUME SubscriptionInit PROVE PaymentInv  OBVIOUS
<1>1. SubscriptionTypeOK
  BY DEF SubscriptionInit, SubscriptionTypeOK, NotCalled, Plans, Statuses
<1>2. AppliedByTurns /\ PromisesOnePeriod
  BY OrdersAssumption DEF SubscriptionInit, AppliedByTurns, PromisesOnePeriod, NotCalled
<1>3. NoUnappliedTime
  BY OneMorePeriod DEF SubscriptionInit, NoUnappliedTime
<1>. QED  BY <1>1, <1>2, <1>3 DEF PaymentInv

\* A payment that reads the renewal date promises one period more.
LEMMA PaymentInvReadForPayment ==
    ASSUME PaymentInv, NEW h \in Calls, NEW o \in Orders, ReadForPayment(h, o)
    PROVE  PaymentInv'
<1>1. /\ Extend(renewsAt, Month) \in Nat
      /\ Extend(renewsAt, Month) <= now + Month * (applications + 1)
  <2>1. now \in Nat /\ renewsAt \in Nat /\ applications \in Nat
    BY DEF PaymentInv, SubscriptionTypeOK
  <2>2. /\ Month * applications \in Nat
        /\ Month * (applications + 1) = Month * applications + Month
    BY <2>1, OneMorePeriod
  <2>3. renewsAt <= now + Month * applications
    BY DEF PaymentInv, NoUnappliedTime
  <2>. QED  BY <2>1, <2>2, <2>3 DEF Extend
<1>2. SubscriptionTypeOK'
  BY <1>1 DEF PaymentInv, SubscriptionTypeOK, ReadForPayment, orgVars, appliedVars
<1>3. PromisesOnePeriod'
  BY <1>1 DEF PaymentInv, SubscriptionTypeOK, PromisesOnePeriod, ReadForPayment, appliedVars
<1>. QED
  BY <1>2, <1>3
  DEF PaymentInv, AppliedByTurns, NoUnappliedTime, ReadForPayment, orgVars, appliedVars

\* Applying a payment: the order is not the remembered one, and becomes it.
LEMMA PaymentInvApplyPayment ==
    ASSUME PaymentInv, NEW h \in Calls, ApplyPayment(h)
    PROVE  PaymentInv'
<1>. DEFINE o == call[h].order
<1>1. call \in [Calls -> CallType]
  BY DEF PaymentInv, SubscriptionTypeOK, CallType, Steps
<1>2. /\ call' \in [Calls -> CallType]
      /\ \A g \in Calls : call'[g] = call[g] \/ call'[g].pc = "idle"
  BY <1>1, ReturnType DEF ApplyPayment, Steps
<1>3. o \in Orders /\ call[h].until \in Nat
      /\ call[h].until <= now + Month * (applications + 1)
  BY DEF PaymentInv, SubscriptionTypeOK, PromisesOnePeriod, ApplyPayment, Return
<1>4. CASE NotYetApplied(o)
  <2>1. /\ plan' = "GROWTH" /\ billing' = "ACTIVE" /\ renewsAt' = call[h].until
        /\ lastOrder' = o /\ granted' = [granted EXCEPT ![o] = @ + 1]
        /\ applications' = applications + 1
        /\ UNCHANGED <<trialEndsAt, paid, now, edits>>
    BY <1>4 DEF ApplyPayment
  <2>2. SubscriptionTypeOK'
    BY <1>2, <1>3, <2>1 DEF PaymentInv, SubscriptionTypeOK, CallType, Steps, Plans, Statuses
  <2>3. AppliedByTurns'
    BY <1>3, <1>4, <2>1 DEF PaymentInv, SubscriptionTypeOK, AppliedByTurns, NotYetApplied
  <2>4. NoUnappliedTime'
    BY <1>3, <2>1 DEF NoUnappliedTime
  <2>5. PromisesOnePeriod'
    BY <1>2, <2>1, OneMorePeriod DEF PaymentInv, SubscriptionTypeOK, PromisesOnePeriod
  <2>. QED  BY <2>2, <2>3, <2>4, <2>5 DEF PaymentInv
<1>5. CASE ~NotYetApplied(o)
  <2>1. UNCHANGED <<plan, billing, renewsAt, lastOrder, appliedVars, trialEndsAt, paid, now,
                    edits>>
    BY <1>5 DEF ApplyPayment
  <2>2. SubscriptionTypeOK'
    BY <1>2, <2>1 DEF PaymentInv, SubscriptionTypeOK, CallType, Steps, appliedVars
  <2>. QED  BY <1>2, <2>1, <2>2, OtherStep DEF PaymentInv, SubscriptionTypeOK
<1>. QED  BY <1>4, <1>5

\* Paying, the other half: the customer completes an order.
LEMMA PaymentInvPaying ==
    ASSUME PaymentInv, Paying
    PROVE  PaymentInv'
<1>1. ASSUME NEW o \in Orders, PayOrder(o) PROVE PaymentInv'
  <2>1. SubscriptionTypeOK'
    BY <1>1 DEF PaymentInv, SubscriptionTypeOK, PayOrder, orgVars, appliedVars
  <2>. QED
    BY <1>1, <2>1, OtherStep
    DEF PaymentInv, SubscriptionTypeOK, PayOrder, orgVars, appliedVars
<1>. QED  BY <1>1, PaymentInvReadForPayment, PaymentInvApplyPayment DEF Paying

\* The lapse sweep and the downgrade.
LEMMA PaymentInvLapsing ==
    ASSUME PaymentInv, Lapsing
    PROVE  PaymentInv'
<1>0. call \in [Calls -> CallType]
  BY DEF PaymentInv, SubscriptionTypeOK, CallType, Steps
<1>1. ASSUME NEW h \in Calls, ListLapsed(h) \/ SeeEndedPlan(h) PROVE PaymentInv'
  <2>1. /\ call' \in [Calls -> CallType]
        /\ \A g \in Calls : call'[g] = call[g] \/ call'[g].pc # "apply"
    BY <1>0, <1>1, DecideType DEF ListLapsed, SeeEndedPlan, Steps
  <2>2. UNCHANGED <<orgVars, paid, now, edits, appliedVars>>
    BY <1>1 DEF ListLapsed, SeeEndedPlan
  <2>3. SubscriptionTypeOK'
    BY <2>1, <2>2 DEF PaymentInv, SubscriptionTypeOK, CallType, Steps, orgVars, appliedVars
  <2>. QED  BY <2>1, <2>2, <2>3, OtherStep DEF PaymentInv, SubscriptionTypeOK, orgVars
<1>2. ASSUME NEW h \in Calls, MarkPastDue(h) \/ Downgrade(h) PROVE PaymentInv'
  <2>1. /\ call' \in [Calls -> CallType]
        /\ \A g \in Calls : call'[g] = call[g] \/ call'[g].pc # "apply"
    BY <1>0, <1>2, ReturnType DEF MarkPastDue, Downgrade, Steps
  <2>2. /\ plan' \in Plans /\ billing' \in Statuses
        /\ trialEndsAt' \in Nat /\ renewsAt' \in Nat /\ renewsAt' <= renewsAt
        /\ UNCHANGED <<lastOrder, paid, now, edits, appliedVars>>
    BY <1>2 DEF PaymentInv, SubscriptionTypeOK, MarkPastDue, Downgrade, Plans, Statuses
  <2>3. SubscriptionTypeOK'
    BY <2>1, <2>2 DEF PaymentInv, SubscriptionTypeOK, CallType, Steps, appliedVars
  <2>. QED  BY <2>1, <2>2, <2>3, OtherStep DEF PaymentInv, SubscriptionTypeOK
<1>. QED  BY <1>1, <1>2 DEF Lapsing

\* The buttons and the administrator's overrides.
LEMMA PaymentInvDeciding ==
    ASSUME PaymentInv, Deciding
    PROVE  PaymentInv'
<1>0. call \in [Calls -> CallType]
  BY DEF PaymentInv, SubscriptionTypeOK, CallType, Steps
<1>1. ASSUME NEW h \in Calls, ReadStarter(h) \/ ReadTrial(h) PROVE PaymentInv'
  <2>1. now + Trial \in Nat /\ Extend(trialEndsAt, Trial) \in Nat
    <3>1. now \in Nat /\ trialEndsAt \in Nat
      BY DEF PaymentInv, SubscriptionTypeOK
    <3>. QED  BY <3>1 DEF Extend
  <2>2. /\ call' \in [Calls -> CallType]
        /\ \A g \in Calls : call'[g] = call[g] \/ call'[g].pc # "apply"
    BY <1>0, <1>1, <2>1, DecideType DEF ReadStarter, ReadTrial, Steps
  <2>3. edits' \in Nat /\ UNCHANGED <<orgVars, paid, now, appliedVars>>
    BY <1>1 DEF PaymentInv, SubscriptionTypeOK, ReadStarter, ReadTrial, UseEdit
  <2>4. SubscriptionTypeOK'
    BY <2>2, <2>3 DEF PaymentInv, SubscriptionTypeOK, CallType, Steps, orgVars, appliedVars
  <2>. QED  BY <2>2, <2>3, <2>4, OtherStep DEF PaymentInv, SubscriptionTypeOK, orgVars
<1>2. ASSUME NEW h \in Calls, StartGrowthTrial(h) \/ ExtendTrial(h) PROVE PaymentInv'
  <2>1. /\ call' \in [Calls -> CallType]
        /\ \A g \in Calls : call'[g] = call[g] \/ call'[g].pc # "apply"
    BY <1>0, <1>2, ReturnType DEF StartGrowthTrial, ExtendTrial, Steps
  <2>2. /\ plan' \in Plans /\ billing' \in Statuses /\ trialEndsAt' \in Nat
        /\ UNCHANGED <<renewsAt, lastOrder, paid, now, edits, appliedVars>>
    BY <1>2 DEF PaymentInv, SubscriptionTypeOK, StartGrowthTrial, ExtendTrial, Plans, Statuses
  <2>3. SubscriptionTypeOK'
    BY <2>1, <2>2 DEF PaymentInv, SubscriptionTypeOK, CallType, Steps, appliedVars
  <2>. QED  BY <2>1, <2>2, <2>3, OtherStep DEF PaymentInv, SubscriptionTypeOK
<1>3. ASSUME \/ CancelPlan
             \/ \E p \in Plans : SetPlan(p)
             \/ \E s \in Statuses : SetBillingStatus(s)
      PROVE  PaymentInv'
  <2>1. /\ plan' \in Plans /\ billing' \in Statuses /\ edits' \in Nat
        /\ UNCHANGED <<trialEndsAt, renewsAt, lastOrder, paid, call, now, appliedVars>>
    BY <1>3
    DEF PaymentInv, SubscriptionTypeOK, CancelPlan, SetPlan, SetBillingStatus, UseEdit,
        Plans, Statuses
  <2>2. SubscriptionTypeOK'
    BY <2>1 DEF PaymentInv, SubscriptionTypeOK, appliedVars
  <2>. QED  BY <2>1, <2>2, OtherStep DEF PaymentInv, SubscriptionTypeOK
<1>. QED  BY <1>1, <1>2, <1>3 DEF Deciding

\* A call that dies, and time.
LEMMA PaymentInvRest ==
    ASSUME PaymentInv, Tick \/ \E h \in Calls : Die(h)
    PROVE  PaymentInv'
<1>1. CASE Tick
  <2>1. SubscriptionTypeOK'
    BY <1>1 DEF PaymentInv, SubscriptionTypeOK, Tick, orgVars, appliedVars
  <2>. QED  BY <1>1, <2>1, OtherStep DEF PaymentInv, SubscriptionTypeOK, Tick, orgVars
<1>2. ASSUME NEW h \in Calls, Die(h) PROVE PaymentInv'
  <2>1. SubscriptionTypeOK' /\ \A g \in Calls : call'[g] = call[g] \/ call'[g].pc # "apply"
    BY <1>2 DEF PaymentInv, SubscriptionTypeOK, Die, NotCalled, orgVars, appliedVars
  <2>. QED  BY <1>2, <2>1, OtherStep DEF PaymentInv, SubscriptionTypeOK, Die, orgVars
<1>. QED  BY <1>1, <1>2

-----------------------------------------------------------------------------
\* The strengthened invariant holds in every reachable state.
THEOREM PaymentInvCorrect == SubscriptionSpec => []PaymentInv
<1>1. PaymentInv /\ [SubscriptionNext]_subscriptionVars => PaymentInv'
  <2>. SUFFICES ASSUME PaymentInv, [SubscriptionNext]_subscriptionVars PROVE PaymentInv'  OBVIOUS
  <2>1. CASE UNCHANGED subscriptionVars
    BY <2>1
    DEF subscriptionVars, PaymentInv, SubscriptionTypeOK, AppliedByTurns, NoUnappliedTime,
        PromisesOnePeriod
  <2>. QED
    BY <2>1, PaymentInvPaying, PaymentInvLapsing, PaymentInvDeciding, PaymentInvRest
    DEF SubscriptionNext
<1>. QED  BY PaymentInvInit, <1>1, PTL DEF SubscriptionSpec

\* Whatever calls interleave, every variable keeps its type.
THEOREM SubscriptionTypeCorrect == SubscriptionSpec => []SubscriptionTypeOK
<1>1. PaymentInv => SubscriptionTypeOK
  BY DEF PaymentInv
<1>. QED  BY PaymentInvCorrect, <1>1, PTL

\* The same order is applied again only after another one was, however many
\* callbacks and webhooks race (apply-payment.ts:97).
THEOREM AppliedCorrect == SubscriptionSpec => []AppliedAgainOnlyAfterAnother
<1>1. PaymentInv => AppliedAgainOnlyAfterAnother
  BY DEF PaymentInv, SubscriptionTypeOK, AppliedByTurns, AppliedAgainOnlyAfterAnother
<1>. QED  BY PaymentInvCorrect, <1>1, PTL

\* Racing payments never sell more time than was bought (apply-payment.ts:94).
THEOREM TimeCorrect == SubscriptionSpec => []NoUnappliedTime
<1>1. PaymentInv => NoUnappliedTime
  BY DEF PaymentInv
<1>. QED  BY PaymentInvCorrect, <1>1, PTL
=============================================================================
