-------------------------- MODULE Recurring_proofs --------------------------
(***************************************************************************)
(* Proofs about Recurring, for any schedules, any number of executions and *)
(* any calendar of months of 28 to 31 days that goes on beyond the clock:  *)
(* types, one expense per period, and no month left out.                   *)
(***************************************************************************)
EXTENDS Recurring, WellFoundedInduction, SequenceTheorems, TLAPS

Handling == {"check", "advance", "issue"}

\* An execution in flight took its date from the clock, and what it handles is a
\* schedule that was due by then.
CallsInTime ==
    \A c \in Calls :
        /\ call[c].pc # "idle" => call[c].now \in Clock
        /\ call[c].pc \in Handling =>
              call[c].due <= call[c].now /\ template[call[c].t].state # "none"

HasRaised(t, period) == \E e \in BagToSet(expenses[t]) : PeriodKey(e.due) = period

\* A period that is not excused has at most one expense, with its reference, and at
\* most one execution about to issue it, while it has none.
OneIssue(t, period) ==
    period \notin excused[t] =>
        /\ \A e, f \in BagToSet(expenses[t]) :
              PeriodKey(e.due) = period /\ PeriodKey(f.due) = period =>
                  e = f /\ expenses[t][e] = 1 /\ e.tagged
        /\ \A c, d \in Issuing(t, period) : c = d
        /\ HasRaised(t, period) => Issuing(t, period) = {}

TypeInv == TypeOK /\ CallsInTime

OnceInv == TypeInv /\ \A t \in Templates, period \in Months : OneIssue(t, period)

Offset(day) == day - FirstDay[PeriodKey(day)]

ByTheMonth(s) ==
    \/ s.frequency = "MONTH_END"
    \/ s.frequency = "MONTHLY" /\ Offset(s.start) < 28

EverIssued(t, period) == \E d \in issued[t] : PeriodKey(d) = period

KeepsDay(s, day) == s.frequency = "MONTHLY" => Offset(day) = Offset(s.start)

\* Every month from the schedule's first to the one before the day's has its expense,
\* and a monthly schedule is still on its day.
Covered(t, day) ==
    ByTheMonth(template[t]) =>
        /\ \A m \in PeriodKey(template[t].start)..(PeriodKey(day) - 1) : EverIssued(t, m)
        /\ KeepsDay(template[t], day)

Handles(c, t, due) == call[c].pc \in Handling /\ call[c].t = t /\ call[c].due = due

\* The expenses that exist were issued.
ExpensesIssued ==
    \A t \in Templates : \A e \in BagToSet(expenses[t]) : e.due \in issued[t]

\* The months before a schedule's next date are covered, ...
NextCovered ==
    \A t \in Templates, day \in Days : template[t].next = day => Covered(t, day)

\* ... and those before the date an execution handles, however stale it is; one that
\* only advances has seen an expense of the period.
DueCovered ==
    \A c \in Calls, t \in Templates, due \in Days : Handles(c, t, due) =>
        /\ Covered(t, due)
        /\ call[c].pc = "advance" => EverIssued(t, PeriodKey(due))

CoverInv == TypeInv /\ ExpensesIssued /\ NextCovered /\ DueCovered

-----------------------------------------------------------------------------

(* The calendar *)

\* A set of numbers has a least one.
LEMMA LeastNumber ==
  ASSUME NEW T, T \subseteq Nat, T # {}
  PROVE  \E n \in T : \A m \in T : n <= m
<1>1. T \subseteq Nat /\ T # {}
  OBVIOUS
<1>2. PICK n \in T : \A m \in T : ~ (<<m, n>> \in OpToRel(<, Nat))
  BY <1>1, WFMin, NatLessThanWellFounded
<1>3. \A m \in T : n <= m
  <2> SUFFICES ASSUME NEW m \in T PROVE n <= m
    OBVIOUS
  <2>1. m \in Nat /\ n \in Nat
    BY <1>1
  <2>2. ~ (m < n)
    <3>1. m < n => <<m, n>> \in OpToRel(<, Nat)
      BY <2>1, Zenon DEF OpToRel
    <3> QED BY <1>2, <3>1
  <2> QED BY <2>1, <2>2
<1> QED BY <1>3

\* The days a calendar names are numbers.
LEMMA CalendarType ==
  /\ Len(FirstDay) \in Nat \ {0}
  /\ \A m \in 1..Len(FirstDay) : FirstDay[m] \in Nat
  /\ Months \subseteq Nat \ {0}
  /\ \A m \in Months : m \in 1..Len(FirstDay) /\ m + 1 \in 1..Len(FirstDay)
<1>1. FirstDay \in Seq(Nat) /\ Len(FirstDay) > 0
  BY CalendarAssumption
<1>2. Len(FirstDay) \in Nat /\ \A m \in 1..Len(FirstDay) : FirstDay[m] \in Nat
  BY <1>1, ElementOfSeq, LenProperties
<1> QED BY <1>1, <1>2 DEF Months

\* A month is at least four weeks long.
LEMMA MonthLength ==
  ASSUME NEW m \in Months
  PROVE  /\ FirstDay[m] \in Nat /\ FirstDay[m + 1] \in Nat
         /\ FirstDay[m] + 28 <= FirstDay[m + 1] /\ FirstDay[m + 1] <= FirstDay[m] + 31
<1>1. FirstDay[m] \in Nat /\ FirstDay[m + 1] \in Nat
  BY CalendarType
<1>2. FirstDay[m + 1] - FirstDay[m] \in 28..31
  BY CalendarAssumption
<1> QED BY <1>1, <1>2

\* Later months begin later: the first that did not would begin no later than the
\* one before it.
LEMMA MonthsInOrder ==
  ASSUME NEW m \in 1..Len(FirstDay), NEW n \in 1..Len(FirstDay), m < n
  PROVE  FirstDay[m] < FirstDay[n]
<1> DEFINE T == {k \in 1..Len(FirstDay) : m < k /\ FirstDay[k] <= FirstDay[m]}
<1>1. FirstDay[m] \in Nat /\ FirstDay[n] \in Nat
  BY CalendarType
<1>2. SUFFICES ASSUME T # {} PROVE FALSE
  BY <1>1
<1>3. T \subseteq Nat
  BY CalendarType
<1>4. PICK k \in T : \A j \in T : k <= j
  BY <1>2, <1>3, LeastNumber
<1>5. k - 1 \in Months /\ k \in Nat /\ m \in Nat /\ m < k
  BY CalendarType DEF Months
<1>6. FirstDay[k - 1] < FirstDay[k]
  <2>1. (k - 1) + 1 = k
    BY <1>5
  <2> QED BY <1>5, <2>1, MonthLength
<1>7. k - 1 \notin T
  BY <1>4, <1>5
<1>8. FirstDay[k - 1] \in Nat /\ FirstDay[k] \in Nat /\ k - 1 \in 1..Len(FirstDay)
  BY <1>5, CalendarType
<1>9. CASE m = k - 1
  BY <1>1, <1>6, <1>8, <1>9
<1>10. CASE m # k - 1
  <2>1. m < k - 1
    BY <1>5, <1>10
  <2>2. FirstDay[m] < FirstDay[k - 1]
    BY <1>1, <1>7, <1>8, <2>1
  <2> QED BY <1>1, <1>6, <1>8, <2>2
<1> QED BY <1>9, <1>10

\* A day between the first of a month and the first of the next belongs to it alone.
LEMMA PeriodIs ==
  ASSUME NEW day \in Int, NEW m \in Months, FirstDay[m] <= day, day < FirstDay[m + 1]
  PROVE  PeriodKey(day) = m
<1>1. SUFFICES ASSUME NEW n \in Months, FirstDay[n] <= day, day < FirstDay[n + 1] PROVE n = m
  BY DEF PeriodKey
<1>2. /\ m \in Nat /\ n \in Nat
      /\ m \in 1..Len(FirstDay) /\ m + 1 \in 1..Len(FirstDay)
      /\ n \in 1..Len(FirstDay) /\ n + 1 \in 1..Len(FirstDay)
  BY CalendarType
<1>3. /\ FirstDay[m] \in Nat /\ FirstDay[m + 1] \in Nat
      /\ FirstDay[n] \in Nat /\ FirstDay[n + 1] \in Nat
  BY <1>2, CalendarType
<1>4. ~ (m < n)
  <2> SUFFICES ASSUME m < n PROVE FALSE
    OBVIOUS
  <2>1. FirstDay[m + 1] <= FirstDay[n]
    <3>1. CASE m + 1 = n
      BY <3>1, <1>3
    <3>2. CASE m + 1 < n
      BY <3>2, <1>2, <1>3, MonthsInOrder
    <3> QED BY <1>2, <3>1, <3>2
  <2> QED BY <1>1, <1>3, <2>1
<1>5. ~ (n < m)
  <2> SUFFICES ASSUME n < m PROVE FALSE
    OBVIOUS
  <2>1. FirstDay[n + 1] <= FirstDay[m]
    <3>1. CASE n + 1 = m
      BY <3>1, <1>3
    <3>2. CASE n + 1 < m
      BY <3>2, <1>2, <1>3, MonthsInOrder
    <3> QED BY <1>2, <3>1, <3>2
  <2> QED BY <1>1, <1>3, <2>1
<1> QED BY <1>2, <1>4, <1>5

\* Every day of the calendar has its month: the one before the first that begins
\* after it.
LEMMA PeriodOf ==
  ASSUME NEW day \in Days
  PROVE  /\ day \in Nat \ {0}
         /\ PeriodKey(day) \in Months
         /\ FirstDay[PeriodKey(day)] <= day /\ day < FirstDay[PeriodKey(day) + 1]
<1> DEFINE T == {k \in 1..Len(FirstDay) : day < FirstDay[k]}
<1>1. Len(FirstDay) \in Nat \ {0} /\ FirstDay[Len(FirstDay)] \in Nat
  BY CalendarType
<1>2. day \in Nat \ {0} /\ day < FirstDay[Len(FirstDay)]
  BY <1>1 DEF Days
<1>3. Len(FirstDay) \in T /\ T \subseteq Nat
  BY <1>1, <1>2
<1>4. PICK k \in T : \A j \in T : k <= j
  BY <1>3, LeastNumber
<1>5. k # 1
  BY <1>2, CalendarAssumption
<1>6. k - 1 \in Months /\ k \in Nat /\ k - 1 \in 1..Len(FirstDay) /\ (k - 1) + 1 = k
  BY <1>1, <1>5 DEF Months
<1>7. FirstDay[k - 1] <= day
  <2>1. k - 1 \notin T
    BY <1>4, <1>6
  <2>2. FirstDay[k - 1] \in Nat
    BY <1>6, CalendarType
  <2> QED BY <1>2, <1>6, <2>1, <2>2
<1>8. PeriodKey(day) = k - 1
  <2>1. FirstDay[k - 1] <= day /\ day < FirstDay[(k - 1) + 1]
    BY <1>6, <1>7
  <2> QED BY <1>2, <1>6, <2>1, PeriodIs
<1> QED BY <1>2, <1>6, <1>7, <1>8

\* An earlier day is in the same month or an earlier one.
LEMMA PeriodsInOrder ==
  ASSUME NEW d \in Days, NEW e \in Days, d <= e
  PROVE  PeriodKey(d) <= PeriodKey(e)
<1> DEFINE m == PeriodKey(d)
           n == PeriodKey(e)
<1>1. m \in Months /\ n \in Months /\ FirstDay[m] <= d /\ e < FirstDay[n + 1] /\ d \in Nat /\ e \in Nat
  BY PeriodOf
<1>2. /\ m \in Nat /\ n \in Nat /\ m \in 1..Len(FirstDay) /\ n + 1 \in 1..Len(FirstDay)
      /\ FirstDay[m] \in Nat /\ FirstDay[n + 1] \in Nat
  BY <1>1, CalendarType
<1> HIDE DEF m, n
<1>3. SUFFICES ASSUME n < m PROVE FALSE
  BY <1>2 DEF m, n
<1>4. FirstDay[n + 1] <= FirstDay[m]
  <2>1. CASE n + 1 = m
    BY <2>1, <1>2
  <2>2. CASE n + 1 < m
    BY <2>2, <1>2, MonthsInOrder
  <2> QED BY <1>2, <1>3, <2>1, <2>2
<1> QED BY <1>1, <1>2, <1>4

\* A number between two firsts is a day of the calendar.
LEMMA MonthDay ==
  ASSUME NEW m \in Months, NEW day \in Int, FirstDay[m] <= day, day < FirstDay[m + 1]
  PROVE  day \in Days /\ PeriodKey(day) = m
<1>1. /\ m \in Nat \ {0} /\ m \in 1..Len(FirstDay) /\ m + 1 \in 1..Len(FirstDay)
      /\ 1 \in 1..Len(FirstDay) /\ Len(FirstDay) \in 1..Len(FirstDay) /\ Len(FirstDay) \in Nat
  BY CalendarType
<1>2. /\ FirstDay[m] \in Nat /\ FirstDay[m + 1] \in Nat /\ FirstDay[Len(FirstDay)] \in Nat
  BY <1>1, CalendarType
<1>3. FirstDay[1] = 1
  BY CalendarAssumption
<1>4. 1 <= FirstDay[m]
  <2>1. CASE m = 1
    BY <2>1, <1>3
  <2>2. CASE 1 < m
    BY <2>2, <1>1, <1>2, <1>3, MonthsInOrder
  <2> QED BY <1>1, <2>1, <2>2
<1>5. FirstDay[m + 1] <= FirstDay[Len(FirstDay)]
  <2>1. CASE m + 1 = Len(FirstDay)
    BY <2>1, <1>2
  <2>2. CASE m + 1 < Len(FirstDay)
    BY <2>2, <1>1, <1>2, MonthsInOrder
  <2> QED BY <1>1, <2>1, <2>2
<1>6. day \in Days
  BY <1>2, <1>4, <1>5 DEF Days
<1> QED BY <1>6, PeriodIs

\* So many months later: a day of that month or, run over, of the one after it; on
\* a day every month has, the same day of that month.
LEMMA MonthsLater ==
  ASSUME NEW day \in Days, NEW k \in Nat, PeriodKey(day) + k + 1 \in Months
  PROVE  /\ AddMonths(day, k) \in Days
         /\ Offset(day) < 28 =>
               /\ PeriodKey(AddMonths(day, k)) = PeriodKey(day) + k
               /\ Offset(AddMonths(day, k)) = Offset(day)
<1> DEFINE p == PeriodKey(day)
           q == p + k
           off == day - FirstDay[p]
           later == FirstDay[q] + off
<1>1. p \in Months /\ day \in Nat /\ FirstDay[p] <= day /\ day < FirstDay[p + 1]
  BY PeriodOf
<1>2. p \in Nat \ {0}
  BY <1>1, CalendarType
<1> HIDE DEF p
<1>3. q \in Months /\ q + 1 \in Months /\ q \in Nat
  <2>1. q + 1 \in Months
    BY DEF p
  <2> QED BY <1>2, <2>1, CalendarType DEF Months
<1> HIDE DEF q
<1>4. FirstDay[p] \in Nat /\ FirstDay[p + 1] \in Nat /\ FirstDay[p + 1] <= FirstDay[p] + 31
  BY <1>1, MonthLength
<1>5. off \in 0..30
  BY <1>1, <1>4
<1>6. /\ FirstDay[q] \in Nat /\ FirstDay[q + 1] \in Nat /\ FirstDay[q + 1 + 1] \in Nat
      /\ FirstDay[q] + 28 <= FirstDay[q + 1] /\ FirstDay[q + 1] + 28 <= FirstDay[q + 1 + 1]
  BY <1>3, MonthLength
<1> HIDE DEF off
<1>7. later \in Int /\ FirstDay[q] <= later /\ later < FirstDay[q + 1 + 1]
  BY <1>5, <1>6
<1>8. AddMonths(day, k) = later /\ Offset(day) = off
  BY DEF AddMonths, Offset, p, q, off
<1>9. CASE later < FirstDay[q + 1]
  <2> HIDE DEF later
  <2>1. later \in Days /\ PeriodKey(later) = q
    BY <1>3, <1>7, <1>9, MonthDay
  <2>2. Offset(later) = off
    BY <1>5, <1>6, <2>1 DEF Offset, later
  <2> QED BY <1>8, <2>1, <2>2 DEF p, q
<1>10. CASE FirstDay[q + 1] <= later
  <2>1. ~ (off < 28)
    BY <1>5, <1>6, <1>10
  <2> HIDE DEF later
  <2>2. later \in Days
    BY <1>3, <1>7, <1>10, MonthDay
  <2> QED BY <1>8, <2>1, <2>2
<1> QED BY <1>6, <1>7, <1>9, <1>10

\* The last day of the next month is in the next month.
LEMMA NextMonthsEnd ==
  ASSUME NEW day \in Days, PeriodKey(day) + 1 \in Months
  PROVE  LastOfNextMonth(day) \in Days /\ PeriodKey(LastOfNextMonth(day)) = PeriodKey(day) + 1
<1> DEFINE q == PeriodKey(day) + 1
<1>1. PeriodKey(day) \in Nat
  BY PeriodOf, CalendarType
<1>2. FirstDay[q] \in Nat /\ FirstDay[q + 1] \in Nat /\ FirstDay[q] + 28 <= FirstDay[q + 1]
  BY MonthLength
<1>3. LastOfNextMonth(day) = FirstDay[q + 1] - 1
  BY <1>1 DEF LastOfNextMonth
<1> HIDE DEF q
<1>4. q \in Months
  BY DEF q
<1>5. LastOfNextMonth(day) \in Days /\ PeriodKey(LastOfNextMonth(day)) = q
  BY <1>2, <1>3, <1>4, MonthDay
<1> QED BY <1>5 DEF q

\* A day that the clock has reached is a year and a month before the calendar's end.
LEMMA YearAhead ==
  ASSUME NEW due \in Days, NEW now \in Clock, due <= now
  PROVE  /\ PeriodKey(due) \in Nat
         /\ \A k \in 1..13 : PeriodKey(due) + k \in Months
<1>1. now \in Days /\ PeriodKey(now) + 13 \in Months
  BY ClockAssumption, HorizonAssumption
<1>2. PeriodKey(due) \in Months /\ PeriodKey(now) \in Months
  BY <1>1, PeriodOf
<1>3. PeriodKey(due) \in Nat \ {0} /\ PeriodKey(now) \in Nat
  BY <1>2, CalendarType
<1>4. PeriodKey(due) <= PeriodKey(now)
  BY <1>1, PeriodsInOrder
<1>5. Len(FirstDay) \in Nat
  BY CalendarType
<1>6. PeriodKey(now) + 13 <= Len(FirstDay) - 1
  BY <1>1, <1>3, <1>5 DEF Months
<1>7. ASSUME NEW k \in 1..13 PROVE PeriodKey(due) + k \in Months
  <2>1. PeriodKey(due) + k \in Nat /\ 1 <= PeriodKey(due) + k
        /\ PeriodKey(due) + k <= Len(FirstDay) - 1
    BY <1>3, <1>4, <1>5, <1>6
  <2> QED BY <1>5, <2>1 DEF Months
<1> QED BY <1>3, <1>7

\* A schedule that is due moves on to a day of the calendar.
LEMMA AdvanceType ==
  ASSUME NEW due \in Days, NEW now \in Clock, due <= now, NEW f \in Frequencies
  PROVE  Advance(due, f) \in Days
<1>1. PeriodKey(due) \in Nat /\ \A k \in 1..13 : PeriodKey(due) + k \in Months
  BY YearAhead
<1>2. CASE f = "WEEKLY"
  <2> DEFINE p == PeriodKey(due)
  <2>1. p \in Months /\ due \in Nat /\ FirstDay[p] <= due /\ due < FirstDay[p + 1]
    BY PeriodOf
  <2>2. p \in Nat /\ p + 1 \in Months
    BY <1>1
  <2> HIDE DEF p
  <2>3. /\ FirstDay[p] \in Nat /\ FirstDay[p + 1] \in Nat /\ FirstDay[p + 1 + 1] \in Nat
        /\ FirstDay[p + 1] + 28 <= FirstDay[p + 1 + 1]
    BY <2>1, <2>2, MonthLength
  <2>4. CASE due + 7 < FirstDay[p + 1]
    <3>1. FirstDay[p] <= due + 7 /\ due + 7 \in Int
      BY <2>1, <2>3
    <3> QED BY <1>2, <2>1, <2>4, <3>1, MonthDay DEF Advance
  <2>5. CASE FirstDay[p + 1] <= due + 7
    <3>1. due + 7 < FirstDay[p + 1 + 1] /\ due + 7 \in Int
      BY <2>1, <2>3
    <3> QED BY <1>2, <2>2, <2>5, <3>1, MonthDay DEF Advance
  <2> QED BY <2>1, <2>3, <2>4, <2>5
<1>3. \A k \in 1..12 : AddMonths(due, k) \in Days
  <2> SUFFICES ASSUME NEW k \in 1..12 PROVE AddMonths(due, k) \in Days
    OBVIOUS
  <2>1. PeriodKey(due) + (k + 1) \in Months
    BY <1>1
  <2>2. PeriodKey(due) + k + 1 \in Months
    BY <1>1, <2>1
  <2> QED BY <2>2, MonthsLater
<1>4. CASE f = "MONTH_END"
  BY <1>1, <1>4, NextMonthsEnd DEF Advance
<1> QED BY <1>2, <1>3, <1>4 DEF Frequencies, Advance

\* A schedule by the month moves on by one month, and stays on its day.
LEMMA AdvanceByTheMonth ==
  ASSUME NEW due \in Days, NEW now \in Clock, due <= now, NEW s, ByTheMonth(s),
         KeepsDay(s, due)
  PROVE  /\ PeriodKey(Advance(due, s.frequency)) = PeriodKey(due) + 1
         /\ KeepsDay(s, Advance(due, s.frequency))
<1>1. PeriodKey(due) \in Nat /\ PeriodKey(due) + 1 \in Months /\ PeriodKey(due) + 2 \in Months
  BY YearAhead
<1>2. CASE s.frequency = "MONTH_END"
  BY <1>1, <1>2, NextMonthsEnd DEF Advance, KeepsDay
<1>3. CASE s.frequency = "MONTHLY"
  <2>1. Offset(due) < 28 /\ Offset(due) = Offset(s.start)
    BY <1>3 DEF ByTheMonth, KeepsDay
  <2>2. PeriodKey(due) + 1 + 1 \in Months
    BY <1>1
  <2>3. /\ PeriodKey(AddMonths(due, 1)) = PeriodKey(due) + 1
        /\ Offset(AddMonths(due, 1)) = Offset(due)
    BY <2>1, <2>2, MonthsLater
  <2> QED BY <1>3, <2>1, <2>3 DEF Advance, KeepsDay
<1> QED BY <1>2, <1>3 DEF ByTheMonth

-----------------------------------------------------------------------------
(* Bags *)

\* One copy more of an element leaves the others' numbers alone.
LEMMA OneMore ==
  ASSUME NEW B, IsABag(B), NEW x
  PROVE  /\ IsABag(B (+) One(x))
         /\ BagToSet(B (+) One(x)) = BagToSet(B) \cup {x}
         /\ \A e \in BagToSet(B) : e # x => (B (+) One(x))[e] = B[e]
         /\ x \notin BagToSet(B) => (B (+) One(x))[x] = 1
<1>1. \A e \in DOMAIN B : B[e] \in Nat /\ B[e] > 0
  BY DEF IsABag
<1>2. DOMAIN (B (+) One(x)) = DOMAIN B \cup {x}
  BY DEF (+), One, SetToBag
<1>3. \A e \in DOMAIN B : e # x => (B (+) One(x))[e] = B[e]
  BY <1>1 DEF (+), One, SetToBag
<1>4. (B (+) One(x))[x] = IF x \in DOMAIN B THEN B[x] + 1 ELSE 1
  BY <1>1 DEF (+), One, SetToBag
<1>5. B (+) One(x) = [e \in DOMAIN (B (+) One(x)) |-> (B (+) One(x))[e]]
  BY DEF (+)
<1>6. IsABag(B (+) One(x))
  BY <1>1, <1>2, <1>3, <1>4, <1>5 DEF IsABag
<1> QED BY <1>2, <1>3, <1>4, <1>6 DEF BagToSet

\* One copy less of an element leaves the others' numbers alone.
LEMMA OneLess ==
  ASSUME NEW B, IsABag(B), NEW x
  PROVE  /\ IsABag(B (-) One(x))
         /\ BagToSet(B (-) One(x)) \subseteq BagToSet(B)
         /\ \A e \in BagToSet(B (-) One(x)) : e # x => (B (-) One(x))[e] = B[e]
<1> DEFINE left == [e \in DOMAIN B |-> IF e \in DOMAIN One(x) THEN B[e] - One(x)[e] ELSE B[e]]
           rest == [e \in {d \in DOMAIN left : left[d] > 0} |-> left[e]]
<1>1. \A e \in DOMAIN B : B[e] \in Nat /\ B[e] > 0
  BY DEF IsABag
<1>2. DOMAIN left = DOMAIN B
  OBVIOUS
<1>3. \A e \in DOMAIN B : left[e] = IF e = x THEN B[e] - 1 ELSE B[e]
  BY DEF One, SetToBag
<1>4. B (-) One(x) = rest
  BY DEF (-)
<1> HIDE DEF left
<1>5. \A e \in DOMAIN rest : e \in DOMAIN B /\ rest[e] = left[e] /\ left[e] > 0
  BY <1>2
<1>6. IsABag(rest)
  BY <1>1, <1>3, <1>5 DEF IsABag
<1> HIDE DEF rest
<1> QED BY <1>3, <1>4, <1>5, <1>6 DEF BagToSet

-----------------------------------------------------------------------------
(* Types *)

\* The idle state is well typed.
LEMMA IdleType ==
  /\ 1 \in Days
  /\ SomeTemplate \in Templates
  /\ Idle \in CallStates
<1>1. 1 \in Days
  <2>1. PICK day \in Clock : day \in Days
    BY ClockAssumption
  <2>2. FirstDay[Len(FirstDay)] \in Nat
    BY CalendarType
  <2> QED BY <2>1, <2>2 DEF Days
<1>2. SomeTemplate \in Templates
  BY TemplatesAssumption DEF SomeTemplate
<1> QED BY <1>1, <1>2 DEF Idle, CallStates

\* What an execution that returns goes on with.
LEMMA ReturnShape ==
  ASSUME TypeInv, NEW c \in Calls, call[c].pc # "idle", Return(c)
  PROVE  /\ call' \in [Calls -> CallStates]
         /\ \A d \in Calls : d # c => call'[d] = call[d]
         /\ call'[c].pc \in {"idle", "next"}
         /\ call'[c].pc # "idle" => call'[c].now \in Clock
<1> DEFINE on == [Idle EXCEPT !.pc = "next", !.run = TRUE, !.rest = call[c].rest,
                              !.now = call[c].now]
           next == IF call[c].run THEN on ELSE Idle
<1>1. call \in [Calls -> CallStates] /\ call[c].now \in Clock
  BY DEF TypeInv, TypeOK, CallsInTime
<1>2. call[c].rest \in SUBSET Templates
  BY <1>1 DEF CallStates
<1>3. on \in CallStates /\ on.pc = "next" /\ on.now = call[c].now
  BY <1>1, <1>2, IdleType DEF CallStates, Idle
<1>4. call' = [call EXCEPT ![c] = next]
  BY DEF Return
<1>5. next \in CallStates /\ next.pc \in {"idle", "next"}
      /\ (next.pc # "idle" => next.now \in Clock)
  BY <1>1, <1>3, IdleType DEF Idle
<1> HIDE DEF next
<1> QED BY <1>1, <1>4, <1>5

\* What a step of an execution does to it: the others stay as they are, and it
\* handles only what was due by its date.
LEMMA CallShape ==
  ASSUME TypeInv, NEW c \in Calls,
         StartRun(c) \/ Running(c) \/ Crash(c) \/ \E t \in Templates : IssueNow(c, t)
  PROVE  /\ call' \in [Calls -> CallStates]
         /\ \A d \in Calls : d # c => call'[d] = call[d]
         /\ call'[c].pc # "idle" => call'[c].now \in Clock
         /\ call'[c].pc \in Handling =>
               /\ call'[c].due <= call'[c].now /\ template[call'[c].t].state # "none"
               /\ ReadTemplate(c) \/ CheckIssued(c)
<1>0. /\ call \in [Calls -> CallStates] /\ today \in Clock /\ template \in [Templates -> Schedules]
      /\ call[c] \in CallStates
  BY DEF TypeInv, TypeOK
<1>1. CASE StartRun(c)
  <2> DEFINE due == {t \in Templates : /\ template[t].state = "active"
                                       /\ template[t].auto
                                       /\ Due(t, today)}
             next == [Idle EXCEPT !.pc = "next", !.run = TRUE, !.now = today, !.rest = due]
  <2>1. call' = [call EXCEPT ![c] = next]
    BY <1>1 DEF StartRun
  <2>2. due \in SUBSET Templates
    OBVIOUS
  <2> HIDE DEF due
  <2>3. next \in CallStates /\ next.pc = "next" /\ next.now = today
    BY <1>0, <2>2, IdleType DEF CallStates, Idle
  <2> HIDE DEF next
  <2> QED BY <1>0, <2>1, <2>3 DEF Handling
<1>2. CASE TakeNext(c)
  <2>1. CASE call[c].rest = {}
    <3>1. call' = [call EXCEPT ![c] = Idle]
      BY <1>2, <2>1 DEF TakeNext
    <3> QED BY <1>0, <3>1, IdleType DEF Idle, Handling
  <2>2. CASE call[c].rest # {}
    <3>1. PICK t \in call[c].rest :
             call' = [call EXCEPT ![c].pc = "read", ![c].t = t, ![c].rest = @ \ {t}]
      BY <1>2, <2>2 DEF TakeNext
    <3>2. call[c].rest \in SUBSET Templates /\ call[c].pc = "next"
      BY <1>0, <1>2 DEF TakeNext, CallStates
    <3>3. t \in Templates /\ call[c].now \in Clock
      BY <3>2 DEF TypeInv, CallsInTime
    <3>4. call'[c].pc = "read" /\ call'[c].now = call[c].now /\ call' \in [Calls -> CallStates]
      BY <1>0, <3>1, <3>2, <3>3 DEF CallStates
    <3> QED BY <1>0, <3>1, <3>3, <3>4 DEF Handling
  <2> QED BY <2>1, <2>2
<1>3. CASE ReadTemplate(c)
  <2> DEFINE t == call[c].t
  <2>1. call[c].pc = "read" /\ call[c].now \in Clock /\ t \in Templates
    BY <1>0, <1>3 DEF ReadTemplate, TypeInv, CallsInTime, CallStates
  <2>2. CASE template[t].state = "active" /\ Due(t, call[c].now)
    <3>1. call' = [call EXCEPT ![c].pc = "check", ![c].due = template[t].next]
      BY <1>3, <2>2 DEF ReadTemplate
    <3>2. template[t].next \in Days /\ template[t].next <= call[c].now
      BY <1>0, <2>1, <2>2 DEF Schedules, Due
    <3>3. /\ call' \in [Calls -> CallStates]
          /\ call'[c].due = template[t].next /\ call'[c].now = call[c].now /\ call'[c].t = t
      BY <1>0, <3>1, <3>2 DEF CallStates
    <3> QED BY <1>0, <1>3, <2>1, <2>2, <3>1, <3>2, <3>3
  <2>3. CASE ~ (template[t].state = "active" /\ Due(t, call[c].now))
    <3>1. Return(c)
      BY <1>3, <2>3 DEF ReadTemplate
    <3> QED BY <2>1, <3>1, ReturnShape DEF Handling
  <2> QED BY <2>2, <2>3
<1>4. CASE CheckIssued(c)
  <2>1. PICK pc \in {"advance", "issue"} : call' = [call EXCEPT ![c].pc = pc]
    BY <1>4 DEF CheckIssued
  <2>2. /\ call[c].pc = "check" /\ call[c].now \in Clock
        /\ call[c].due <= call[c].now /\ template[call[c].t].state # "none"
    BY <1>4 DEF CheckIssued, TypeInv, CallsInTime, Handling
  <2>3. /\ call' \in [Calls -> CallStates]
        /\ call'[c].due = call[c].due /\ call'[c].now = call[c].now /\ call'[c].t = call[c].t
    BY <1>0, <2>1 DEF CallStates
  <2> QED BY <1>0, <1>4, <2>1, <2>2, <2>3
<1>5. CASE AdvanceOnly(c)
  BY <1>5, ReturnShape DEF AdvanceOnly, Handling
<1>6. CASE Issue(c)
  BY <1>6, ReturnShape DEF Issue, Handling
<1>7. CASE IssueFails(c)
  BY <1>7, ReturnShape DEF IssueFails, Handling
<1>8. CASE Crash(c)
  BY <1>0, <1>8, IdleType DEF Crash, Idle, Handling
<1>9. ASSUME NEW t \in Templates, IssueNow(c, t)
      PROVE  /\ call' \in [Calls -> CallStates]
             /\ \A d \in Calls : d # c => call'[d] = call[d]
             /\ call'[c].pc = "read" /\ call'[c].now \in Clock
  <2> DEFINE next == [Idle EXCEPT !.pc = "read", !.t = t, !.now = today]
  <2>1. call' = [call EXCEPT ![c] = next]
    BY <1>9 DEF IssueNow
  <2>2. next \in CallStates /\ next.pc = "read" /\ next.now = today
    BY <1>0, IdleType DEF CallStates, Idle
  <2> HIDE DEF next
  <2> QED BY <1>0, <2>1, <2>2
<1> QED BY <1>1, <1>2, <1>3, <1>4, <1>5, <1>6, <1>7, <1>8, <1>9 DEF Running, Handling

\* Moving a schedule on changes its next date and nothing else.
LEMMA MoveOnShape ==
  ASSUME template \in [Templates -> Schedules], NEW t \in Templates, NEW day \in Days,
         MoveOn(t, day)
  PROVE  /\ template' \in [Templates -> Schedules]
         /\ \A s \in Templates :
               /\ template'[s].state = template[s].state
               /\ template'[s].frequency = template[s].frequency
               /\ template'[s].start = template[s].start
               /\ template'[s].next = template[s].next \/ (s = t /\ template'[s].next = day)
<1>1. CASE Exists(t)
  <2>1. template' = [template EXCEPT ![t].next = day]
    BY <1>1 DEF MoveOn
  <2> QED BY <2>1 DEF Schedules
<1>2. CASE ~Exists(t)
  BY <1>2 DEF MoveOn
<1> QED BY <1>1, <1>2

\* Where an execution moves its schedule on to.
LEMMA HandledDue ==
  ASSUME TypeInv, NEW c \in Calls, call[c].pc \in Handling
  PROVE  /\ call[c].t \in Templates /\ call[c].due \in Days /\ call[c].now \in Clock
         /\ call[c].due <= call[c].now
         /\ template[call[c].t].state # "none"
         /\ PeriodKey(call[c].due) \in Months
         /\ Advance(call[c].due, template[call[c].t].frequency) \in Days
<1>1. /\ call[c].t \in Templates /\ call[c].due \in Days /\ call[c].now \in Clock
      /\ call[c].due <= call[c].now /\ template[call[c].t].state # "none"
  BY DEF TypeInv, TypeOK, CallsInTime, CallStates, Handling
<1>2. template[call[c].t].frequency \in Frequencies
  BY <1>1 DEF TypeInv, TypeOK, Schedules
<1>3. PeriodKey(call[c].due) \in Months
  BY <1>1, PeriodOf
<1>4. Advance(call[c].due, template[call[c].t].frequency) \in Days
  BY <1>1, <1>2, AdvanceType
<1> QED BY <1>1, <1>3, <1>4

\* A schedule never becomes one that was not there, and keeps its frequency and its
\* first date.
LEMMA TemplateShape ==
  ASSUME TypeInv, [Next]_vars
  PROVE  /\ template' \in [Templates -> Schedules]
         /\ \A t \in Templates : template[t].state # "none" =>
               /\ template'[t].state # "none"
               /\ template'[t].frequency = template[t].frequency
               /\ template'[t].start = template[t].start
<1>0. template \in [Templates -> Schedules]
  BY DEF TypeInv, TypeOK
<1>1. ASSUME NEW t \in Templates, NEW f \in Frequencies, NEW auto \in BOOLEAN,
             NEW start \in Starts, CreateTemplate(t, f, auto, start)
      PROVE  /\ template' \in [Templates -> Schedules]
             /\ \A s \in Templates : template[s].state # "none" => template'[s] = template[s]
  <2> DEFINE new == [state |-> "active", frequency |-> f, auto |-> auto, start |-> start,
                     next |-> start]
  <2>1. start \in Days
    BY ClockAssumption
  <2>2. new \in Schedules
    BY <2>1 DEF Schedules
  <2>3. template[t].state = "none" /\ template' = [template EXCEPT ![t] = new]
    BY <1>1 DEF CreateTemplate
  <2> HIDE DEF new
  <2> QED BY <1>0, <2>2, <2>3
<1>2. ASSUME NEW t \in Templates, ToggleTemplate(t) \/ DeleteTemplate(t)
      PROVE  /\ template' \in [Templates -> Schedules]
             /\ \A s \in Templates : template[s].state # "none" =>
                   /\ template'[s].state # "none"
                   /\ template'[s].frequency = template[s].frequency
                   /\ template'[s].start = template[s].start
  <2>1. PICK state \in {"active", "paused", "deleted"} :
            template' = [template EXCEPT ![t].state = state]
    BY <1>2 DEF ToggleTemplate, DeleteTemplate
  <2> QED BY <1>0, <2>1 DEF Schedules
<1>3. ASSUME NEW c \in Calls, AdvanceOnly(c) \/ Issue(c)
      PROVE  /\ template' \in [Templates -> Schedules]
             /\ \A s \in Templates :
                   /\ template'[s].state = template[s].state
                   /\ template'[s].frequency = template[s].frequency
                   /\ template'[s].start = template[s].start
  <2> DEFINE day == Advance(call[c].due, template[call[c].t].frequency)
  <2>1. call[c].pc \in Handling /\ MoveOn(call[c].t, day)
    BY <1>3 DEF AdvanceOnly, Issue, NextAfterIssued, Handling
  <2>2. call[c].t \in Templates /\ day \in Days
    BY <2>1, HandledDue
  <2> HIDE DEF day
  <2> QED BY <1>0, <2>1, <2>2, MoveOnShape
<1>4. ASSUME UNCHANGED template
      PROVE  /\ template' \in [Templates -> Schedules]
             /\ \A s \in Templates : template'[s] = template[s]
  BY <1>0, <1>4
<1>5. CASE UNCHANGED vars
  BY <1>4, <1>5 DEF vars
<1>6. CASE Page
  <2>1. ASSUME NEW t \in Templates, NEW c \in Calls, IssueNow(c, t) PROVE UNCHANGED template
    BY <2>1 DEF IssueNow, rowVars
  <2>2. ASSUME NEW t \in Templates, NEW e, EditReference(t, e) \/ DeleteExpense(t, e)
        PROVE  UNCHANGED template
    BY <2>2 DEF EditReference, DeleteExpense, LoseReference
  <2> QED BY <1>1, <1>2, <1>4, <1>6, <2>1, <2>2 DEF Page
<1>7. ASSUME NEW c \in Calls,
             \/ StartRun(c) \/ TakeNext(c) \/ ReadTemplate(c) \/ CheckIssued(c)
             \/ IssueFails(c) \/ Crash(c)
      PROVE  UNCHANGED template
  BY <1>7 DEF StartRun, TakeNext, ReadTemplate, CheckIssued, IssueFails, Crash, rowVars
<1>8. CASE NextDay
  BY <1>4, <1>8 DEF NextDay, rowVars
<1> QED BY <1>3, <1>4, <1>5, <1>6, <1>7, <1>8 DEF Next, Running

\* An expense that loses its reference, or goes: the bag keeps its other expenses, and
\* none of another period appears.
LEMMA LoseShape ==
  ASSUME TypeInv, NEW t \in Templates, NEW e \in BagToSet(expenses[t]),
         EditReference(t, e) \/ DeleteExpense(t, e)
  PROVE  \E left :
            /\ expenses' = [expenses EXCEPT ![t] = left]
            /\ IsABag(left)
            /\ \A f \in BagToSet(left) :
                  /\ f \in [due : Days, tagged : BOOLEAN]
                  /\ f \in BagToSet(expenses[t]) \/ f.due = e.due
                  /\ f.due # e.due => left[f] = expenses[t][f]
            /\ excused' = [excused EXCEPT ![t] = @ \cup {PeriodKey(e.due)}]
            /\ touched' \in 0..MaxTouched
            /\ UNCHANGED <<template, today, call, faults, issued>>
<1> DEFINE B == expenses[t]
           less == B (-) One(e)
           bare == [e EXCEPT !.tagged = FALSE]
<1>1. IsABag(B) /\ BagToSet(B) \subseteq [due : Days, tagged : BOOLEAN]
  BY DEF TypeInv, TypeOK
<1>2. /\ IsABag(less) /\ BagToSet(less) \subseteq BagToSet(B)
      /\ \A f \in BagToSet(less) : f # e => less[f] = B[f]
  BY <1>1, OneLess
<1>3. e \in [due : Days, tagged : BOOLEAN]
  BY <1>1
<1>4. bare \in [due : Days, tagged : BOOLEAN] /\ bare.due = e.due
  BY <1>3
<1>5. touched \in 0..MaxTouched /\ MaxTouched \in Nat
  BY BoundsAssumption DEF TypeInv, TypeOK
<1>6. ASSUME NEW left, LoseReference(t, e, left)
      PROVE  /\ expenses' = [expenses EXCEPT ![t] = left]
             /\ excused' = [excused EXCEPT ![t] = @ \cup {PeriodKey(e.due)}]
             /\ touched' \in 0..MaxTouched
             /\ UNCHANGED <<template, today, call, faults, issued>>
  BY <1>5, <1>6 DEF LoseReference
<1> HIDE DEF B, less, bare
<1>7. CASE DeleteExpense(t, e)
  <2>1. LoseReference(t, e, less)
    BY <1>7 DEF DeleteExpense, less, B
  <2>2. \A f \in BagToSet(less) :
           /\ f \in [due : Days, tagged : BOOLEAN]
           /\ f \in BagToSet(B)
           /\ f.due # e.due => less[f] = B[f]
    BY <1>1, <1>2
  <2> QED BY <1>2, <1>6, <2>1, <2>2 DEF B
<1>8. CASE EditReference(t, e)
  <2> DEFINE left == less (+) One(bare)
  <2>1. LoseReference(t, e, left)
    BY <1>8 DEF EditReference, less, B, bare
  <2>2. /\ IsABag(left) /\ BagToSet(left) = BagToSet(less) \cup {bare}
        /\ \A f \in BagToSet(less) : f # bare => left[f] = less[f]
    BY <1>2, OneMore
  <2> HIDE DEF left
  <2>3. \A f \in BagToSet(left) :
           /\ f \in [due : Days, tagged : BOOLEAN]
           /\ f \in BagToSet(B) \/ f.due = e.due
           /\ f.due # e.due => left[f] = B[f]
    BY <1>1, <1>2, <1>4, <2>2
  <2> QED BY <1>6, <2>1, <2>2, <2>3 DEF B
<1> QED BY <1>7, <1>8

\* Issuing adds an expense of the occurrence.
LEMMA IssueShape ==
  ASSUME TypeInv, NEW c \in Calls, Issue(c)
  PROVE  LET t == call[c].t
             new == [due |-> call[c].due, tagged |-> TRUE]
         IN  /\ t \in Templates /\ new \in [due : Days, tagged : BOOLEAN]
             /\ expenses' = [expenses EXCEPT ![t] = expenses[t] (+) One(new)]
             /\ IsABag(expenses[t] (+) One(new))
             /\ BagToSet(expenses[t] (+) One(new)) = BagToSet(expenses[t]) \cup {new}
             /\ \A e \in BagToSet(expenses[t]) :
                   e # new => (expenses[t] (+) One(new))[e] = expenses[t][e]
             /\ new \notin BagToSet(expenses[t]) => (expenses[t] (+) One(new))[new] = 1
<1> DEFINE t == call[c].t
           new == [due |-> call[c].due, tagged |-> TRUE]
<1>1. t \in Templates /\ call[c].due \in Days
  BY HandledDue DEF Issue, Handling
<1>2. IsABag(expenses[t]) /\ new \in [due : Days, tagged : BOOLEAN]
  BY <1>1 DEF TypeInv, TypeOK
<1>3. expenses' = [expenses EXCEPT ![t] = expenses[t] (+) One(new)]
  BY DEF Issue
<1> HIDE DEF t, new
<1>4. /\ IsABag(expenses[t] (+) One(new))
      /\ BagToSet(expenses[t] (+) One(new)) = BagToSet(expenses[t]) \cup {new}
      /\ \A e \in BagToSet(expenses[t]) : e # new => (expenses[t] (+) One(new))[e] = expenses[t][e]
      /\ new \notin BagToSet(expenses[t]) => (expenses[t] (+) One(new))[new] = 1
  BY <1>2, OneMore
<1> QED BY <1>1, <1>2, <1>3, <1>4 DEF t, new

\* A step of an execution keeps the executions' types, and their time.
LEMMA CallsStep ==
  ASSUME TypeInv, [Next]_vars
  PROVE  call' \in [Calls -> CallStates] /\ CallsInTime'
<1>0. call \in [Calls -> CallStates] /\ template \in [Templates -> Schedules] /\ CallsInTime
  BY DEF TypeInv, TypeOK
<1>1. \A t \in Templates : template[t].state # "none" => template'[t].state # "none"
  BY TemplateShape
<1>2. CASE UNCHANGED call
  <2>1. \A d \in Calls : call'[d] = call[d] /\ call[d].t \in Templates
    BY <1>0, <1>2 DEF CallStates
  <2> QED BY <1>0, <1>1, <1>2, <2>1 DEF CallsInTime
<1>3. ASSUME NEW c \in Calls,
             StartRun(c) \/ Running(c) \/ Crash(c) \/ \E t \in Templates : IssueNow(c, t)
      PROVE  call' \in [Calls -> CallStates] /\ CallsInTime'
  <2>1. /\ call' \in [Calls -> CallStates]
        /\ \A d \in Calls : d # c => call'[d] = call[d]
        /\ call'[c].pc # "idle" => call'[c].now \in Clock
        /\ call'[c].pc \in Handling =>
              call'[c].due <= call'[c].now /\ template[call'[c].t].state # "none"
    BY <1>3, CallShape
  <2>2. \A d \in Calls : call'[d].t \in Templates
    BY <2>1 DEF CallStates
  <2>3. ASSUME NEW d \in Calls
        PROVE  /\ call'[d].pc # "idle" => call'[d].now \in Clock
               /\ call'[d].pc \in Handling =>
                     call'[d].due <= call'[d].now /\ template'[call'[d].t].state # "none"
    <3>1. CASE d = c
      BY <1>1, <2>1, <2>2, <3>1
    <3>2. CASE d # c
      <4>1. call'[d] = call[d] /\ call[d].t \in Templates
        BY <2>1, <2>2, <3>2
      <4> QED BY <1>0, <1>1, <4>1 DEF CallsInTime
    <3> QED BY <3>1, <3>2
  <2> QED BY <2>1, <2>3 DEF CallsInTime
<1>4. ASSUME NEW t \in Templates, NEW e \in BagToSet(expenses[t]),
             EditReference(t, e) \/ DeleteExpense(t, e)
      PROVE  UNCHANGED call
  BY <1>4 DEF EditReference, DeleteExpense, LoseReference
<1>5. ASSUME NEW t \in Templates, NEW f \in Frequencies, NEW auto \in BOOLEAN,
             NEW start \in Starts,
             CreateTemplate(t, f, auto, start) \/ ToggleTemplate(t) \/ DeleteTemplate(t)
      PROVE  UNCHANGED call
  BY <1>5 DEF CreateTemplate, ToggleTemplate, DeleteTemplate
<1>6. CASE NextDay \/ UNCHANGED vars
  BY <1>2, <1>6 DEF NextDay, vars
<1>7. ASSUME NEW t \in Templates, ToggleTemplate(t) \/ DeleteTemplate(t) PROVE UNCHANGED call
  BY <1>7 DEF ToggleTemplate, DeleteTemplate
<1>8. CASE Page
  BY <1>2, <1>3, <1>4, <1>5, <1>7, <1>8 DEF Page
<1> QED BY <1>3, <1>6, <1>8 DEF Next

\* The steps that write neither a schedule nor an expense.
LEMMA QuietSteps ==
  ASSUME NEW c \in Calls, \/ StartRun(c) \/ TakeNext(c) \/ ReadTemplate(c) \/ AdvanceOnly(c)
                          \/ IssueFails(c) \/ Crash(c) \/ \E t \in Templates : IssueNow(c, t)
  PROVE  UNCHANGED <<expenses, today, touched, issued, excused>>
BY DEF StartRun, TakeNext, ReadTemplate, AdvanceOnly, IssueFails, Crash, IssueNow, rowVars,
       bounds, historyVars

\* The next day is one the clock has.
LEMMA NextDayType ==
  ASSUME today \in Clock, NextDay
  PROVE  today' \in Clock
<1> DEFINE later == {day \in Clock : day > today}
<1>1. Clock \subseteq Nat
  BY ClockAssumption, PeriodOf
<1>2. later # {}
  <2> SUFFICES ASSUME later = {} PROVE FALSE
    OBVIOUS
  <2>1. \A day \in Clock : today >= day
    BY <1>1
  <2>2. \A day \in Clock : (\A d \in Clock : day >= d) => day = today
    BY <1>1, <2>1
  <2>3. Max(Clock) = today
    BY <2>1, <2>2 DEF Max
  <2> QED BY <2>3 DEF NextDay
<1>3. PICK n \in later : \A m \in later : n <= m
  <2>1. later \subseteq Nat
    BY <1>1
  <2> QED BY <1>2, <2>1, LeastNumber
<1>4. Min(later) \in later
  BY <1>3 DEF Min
<1> QED BY <1>4 DEF NextDay

\* Every variable but the schedules and executions keeps its type.
LEMMA RowsStep ==
  ASSUME TypeInv, [Next]_vars
  PROVE  /\ DOMAIN expenses' = Templates
         /\ \A t \in Templates : /\ IsABag(expenses'[t])
                                 /\ BagToSet(expenses'[t]) \subseteq [due : Days, tagged : BOOLEAN]
         /\ today' \in Clock
         /\ faults' \in 0..MaxFaults /\ touched' \in 0..MaxTouched
         /\ issued' \in [Templates -> SUBSET Days]
         /\ excused' \in [Templates -> SUBSET Months]
<1> DEFINE Goal == 
             /\ DOMAIN expenses' = Templates
             /\ \A t \in Templates :
                   /\ IsABag(expenses'[t])
                   /\ BagToSet(expenses'[t]) \subseteq [due : Days, tagged : BOOLEAN]
             /\ today' \in Clock
             /\ faults' \in 0..MaxFaults /\ touched' \in 0..MaxTouched
             /\ issued' \in [Templates -> SUBSET Days]
             /\ excused' \in [Templates -> SUBSET Months]
<1>0. /\ DOMAIN expenses = Templates
      /\ \A t \in Templates : /\ IsABag(expenses[t])
                              /\ BagToSet(expenses[t]) \subseteq [due : Days, tagged : BOOLEAN]
      /\ today \in Clock
      /\ faults \in 0..MaxFaults /\ touched \in 0..MaxTouched
      /\ issued \in [Templates -> SUBSET Days]
      /\ excused \in [Templates -> SUBSET Months]
      /\ MaxFaults \in Nat /\ MaxTouched \in Nat
  BY BoundsAssumption DEF TypeInv, TypeOK
<1>1. CASE UNCHANGED <<expenses, today, faults, touched, issued, excused>>
  BY <1>0, <1>1
<1>2. ASSUME NEW t \in Templates, NEW e \in BagToSet(expenses[t]),
             EditReference(t, e) \/ DeleteExpense(t, e)
      PROVE  Goal
  <2>1. PICK left :
            /\ expenses' = [expenses EXCEPT ![t] = left]
            /\ IsABag(left)
            /\ \A f \in BagToSet(left) : f \in [due : Days, tagged : BOOLEAN]
            /\ excused' = [excused EXCEPT ![t] = @ \cup {PeriodKey(e.due)}]
            /\ touched' \in 0..MaxTouched
            /\ UNCHANGED <<today, faults, issued>>
    BY <1>2, LoseShape
  <2>2. PeriodKey(e.due) \in Months
    <3>1. e \in [due : Days, tagged : BOOLEAN]
      BY <1>0
    <3> QED BY <3>1, PeriodOf
  <2>3. DOMAIN expenses' = Templates /\ excused' \in [Templates -> SUBSET Months]
    BY <1>0, <2>1, <2>2
  <2>4. \A s \in Templates : expenses'[s] = IF s = t THEN left ELSE expenses[s]
    BY <1>0, <2>1
  <2>5. BagToSet(left) \subseteq [due : Days, tagged : BOOLEAN]
    BY <2>1
  <2> QED BY <1>0, <2>1, <2>3, <2>4, <2>5
<1>3. ASSUME NEW c \in Calls, Issue(c) PROVE Goal
  <2> DEFINE t == call[c].t
             new == [due |-> call[c].due, tagged |-> TRUE]
             more == expenses[t] (+) One(new)
  <2>1. /\ t \in Templates /\ new \in [due : Days, tagged : BOOLEAN]
        /\ expenses' = [expenses EXCEPT ![t] = more]
        /\ IsABag(more) /\ BagToSet(more) = BagToSet(expenses[t]) \cup {new}
    BY <1>3, IssueShape
  <2>2. UNCHANGED <<today, faults, touched, excused>> /\ issued' = [issued EXCEPT ![t] = @ \cup {call[c].due}]
    BY <1>3 DEF Issue, bounds
  <2>3. call[c].due \in Days
    BY <1>3, HandledDue DEF Issue, Handling
  <2> HIDE DEF t, new, more
  <2>4. DOMAIN expenses' = Templates /\ issued' \in [Templates -> SUBSET Days]
    BY <1>0, <2>1, <2>2, <2>3
  <2>5. \A s \in Templates : expenses'[s] = IF s = t THEN more ELSE expenses[s]
    BY <1>0, <2>1
  <2>6. BagToSet(more) \subseteq [due : Days, tagged : BOOLEAN]
    BY <1>0, <2>1
  <2> QED BY <1>0, <2>1, <2>2, <2>4, <2>5, <2>6
<1>4. ASSUME NEW c \in Calls, CheckIssued(c) PROVE Goal
  <2> DEFINE t == call[c].t
             period == PeriodKey(call[c].due)
  <2>1. t \in Templates /\ period \in Months
    BY <1>4, HandledDue DEF CheckIssued, Handling
  <2>2. /\ UNCHANGED <<expenses, today, faults, touched, issued>>
        /\ excused' \in {excused, [excused EXCEPT ![t] = @ \cup {period}]}
    BY <1>4 DEF CheckIssued, rowVars, bounds
  <2> HIDE DEF t, period
  <2>3. excused' \in [Templates -> SUBSET Months]
    BY <1>0, <2>1, <2>2
  <2> QED BY <1>0, <2>2, <2>3
<1>5. ASSUME NEW c \in Calls, StartRun(c) \/ TakeNext(c) \/ ReadTemplate(c) \/ AdvanceOnly(c)
                              \/ \E t \in Templates : IssueNow(c, t)
      PROVE  UNCHANGED <<expenses, today, faults, touched, issued, excused>>
  BY <1>5 DEF StartRun, TakeNext, ReadTemplate, AdvanceOnly, IssueNow, rowVars, bounds, historyVars
<1>6. ASSUME NEW c \in Calls, IssueFails(c) \/ Crash(c) PROVE Goal
  <2>1. UNCHANGED <<expenses, today, touched, issued, excused>>
    BY <1>6, QuietSteps
  <2>2. faults' \in 0..MaxFaults
    BY <1>0, <1>6 DEF IssueFails, Crash
  <2> QED BY <1>0, <2>1, <2>2
<1>7. CASE NextDay
  <2>1. UNCHANGED <<expenses, faults, touched, issued, excused>>
    BY <1>7 DEF NextDay, rowVars, bounds, historyVars
  <2> QED BY <1>0, <1>7, <2>1, NextDayType
<1>8. CASE UNCHANGED vars
  BY <1>1, <1>8 DEF vars
<1>9. CASE Page
  <2>1. ASSUME NEW t \in Templates, NEW f \in Frequencies, NEW auto \in BOOLEAN,
               NEW start \in Starts, CreateTemplate(t, f, auto, start)
        PROVE  UNCHANGED <<expenses, today, faults, touched, issued, excused>>
    BY <2>1 DEF CreateTemplate, bounds, historyVars
  <2>2. ASSUME NEW t \in Templates, ToggleTemplate(t) \/ DeleteTemplate(t)
        PROVE  UNCHANGED <<expenses, today, faults, touched, issued, excused>>
    BY <2>2 DEF ToggleTemplate, DeleteTemplate, bounds, historyVars
  <2> QED BY <1>1, <1>2, <1>5, <1>9, <2>1, <2>2 DEF Page
<1> QED BY <1>1, <1>3, <1>4, <1>5, <1>6, <1>7, <1>8, <1>9 DEF Next, Running

\* The types hold at first and are kept by every step.
LEMMA TypeInit == Init => TypeInv
<1> SUFFICES ASSUME Init PROVE TypeInv
  OBVIOUS
<1>1. template \in [Templates -> Schedules]
  BY IdleType DEF Init, Unused, Schedules, Frequencies
<1>2. DOMAIN expenses = Templates /\ \A t \in Templates : expenses[t] = EmptyBag
  BY DEF Init
<1>3. IsABag(EmptyBag) /\ BagToSet(EmptyBag) = {}
  BY DEF IsABag, BagToSet, EmptyBag, SetToBag
<1>4. today \in Clock
  <2>1. Clock \subseteq Nat /\ Clock # {}
    BY ClockAssumption, PeriodOf
  <2>2. PICK n \in Clock : \A m \in Clock : n <= m
    BY <2>1, LeastNumber
  <2>3. Min(Clock) \in Clock
    BY <2>2 DEF Min
  <2> QED BY <2>3 DEF Init
<1>5. call \in [Calls -> CallStates] /\ \A c \in Calls : call[c].pc = "idle"
  BY IdleType DEF Init, Idle
<1>6. faults \in 0..MaxFaults /\ touched \in 0..MaxTouched
  BY BoundsAssumption DEF Init
<1>7. issued \in [Templates -> SUBSET Days] /\ excused \in [Templates -> SUBSET Months]
  BY DEF Init
<1>8. CallsInTime
  BY <1>5 DEF CallsInTime, Handling
<1> QED BY <1>1, <1>2, <1>3, <1>4, <1>5, <1>6, <1>7, <1>8 DEF TypeInv, TypeOK

LEMMA TypeStep == TypeInv /\ [Next]_vars => TypeInv'
<1> SUFFICES ASSUME TypeInv, [Next]_vars PROVE TypeInv'
  OBVIOUS
<1>1. TypeOK'
  BY TemplateShape, CallsStep, RowsStep DEF TypeOK
<1> QED BY <1>1, CallsStep DEF TypeInv

\* Whatever runs, buttons, edits, failures and days interleave, the rows and the
\* executions keep their types: no schedule is moved off the calendar.
THEOREM TypeCorrect == Spec => []TypeOK
<1>1. Spec => []TypeInv
  BY TypeInit, TypeStep, PTL DEF Spec
<1>2. TypeInv => TypeOK
  BY DEF TypeInv
<1> QED BY <1>1, <1>2, PTL

-----------------------------------------------------------------------------
(* One expense per period *)

\* Periods stay excused.
LEMMA ExcusedGrows ==
  ASSUME TypeInv, [Next]_vars, NEW t \in Templates
  PROVE  excused[t] \subseteq excused'[t]
<1>0. excused \in [Templates -> SUBSET Months]
  BY DEF TypeInv, TypeOK
<1>1. ASSUME NEW s \in Templates, NEW e \in BagToSet(expenses[s]),
             EditReference(s, e) \/ DeleteExpense(s, e)
      PROVE  excused[t] \subseteq excused'[t]
  BY <1>0, <1>1 DEF EditReference, DeleteExpense, LoseReference
<1>2. ASSUME NEW c \in Calls, CheckIssued(c) PROVE excused[t] \subseteq excused'[t]
  BY <1>0, <1>2 DEF CheckIssued
<1>3. ASSUME NEW c \in Calls, StartRun(c) \/ TakeNext(c) \/ ReadTemplate(c) \/ AdvanceOnly(c)
                              \/ Issue(c) \/ IssueFails(c) \/ Crash(c)
                              \/ \E s \in Templates : IssueNow(c, s)
      PROVE  UNCHANGED excused
  BY <1>3, QuietSteps DEF Issue
<1>4. ASSUME NEW s \in Templates, NEW f \in Frequencies, NEW auto \in BOOLEAN,
             NEW start \in Starts, CreateTemplate(s, f, auto, start)
      PROVE  UNCHANGED excused
  BY <1>4 DEF CreateTemplate, historyVars
<1>5. ASSUME NEW s \in Templates, ToggleTemplate(s) \/ DeleteTemplate(s)
      PROVE  UNCHANGED excused
  BY <1>5 DEF ToggleTemplate, DeleteTemplate, historyVars
<1>6. CASE Page
  BY <1>1, <1>3, <1>4, <1>5, <1>6 DEF Page
<1>7. CASE NextDay \/ UNCHANGED vars
  BY <1>7 DEF NextDay, vars, historyVars
<1> QED BY <1>2, <1>3, <1>6, <1>7 DEF Next, Running

\* A step that leaves a schedule's expenses alone and after which no execution is
\* newly about to issue one.
LEMMA CalmKeepsOne ==
  ASSUME NEW t \in Templates, NEW period \in Months, OneIssue(t, period),
         excused[t] \subseteq excused'[t], expenses'[t] = expenses[t],
         \A c \in Calls : call'[c] = call[c] \/ call'[c].pc # "issue"
  PROVE  OneIssue(t, period)'
<1>1. Issuing(t, period)' \subseteq Issuing(t, period)
  BY DEF Issuing
<1>2. HasRaised(t, period)' <=> HasRaised(t, period)
  BY DEF HasRaised
<1> QED BY <1>1, <1>2 DEF OneIssue

\* A rewritten or deleted expense excuses its own period, and no other is touched.
LEMMA LoseKeepsOne ==
  ASSUME TypeInv, NEW s \in Templates, NEW x \in BagToSet(expenses[s]),
         EditReference(s, x) \/ DeleteExpense(s, x),
         NEW t \in Templates, NEW period \in Months, OneIssue(t, period)
  PROVE  OneIssue(t, period)'
<1>0. excused \in [Templates -> SUBSET Months] /\ DOMAIN expenses = Templates
  BY DEF TypeInv, TypeOK
<1>1. PICK left :
         /\ expenses' = [expenses EXCEPT ![s] = left]
         /\ \A f \in BagToSet(left) :
               /\ f \in BagToSet(expenses[s]) \/ f.due = x.due
               /\ f.due # x.due => left[f] = expenses[s][f]
         /\ excused' = [excused EXCEPT ![s] = @ \cup {PeriodKey(x.due)}]
         /\ UNCHANGED call
  BY LoseShape
<1>2. CASE s # t
  <2>1. expenses'[t] = expenses[t] /\ excused'[t] = excused[t]
    BY <1>0, <1>1, <1>2
  <2> QED BY <1>1, <2>1, CalmKeepsOne
<1>3. CASE s = t
  <2>1. expenses'[t] = left /\ excused'[t] = excused[t] \cup {PeriodKey(x.due)}
    BY <1>0, <1>1, <1>3
  <2>2. SUFFICES ASSUME period \notin excused'[t] PROVE OneIssue(t, period)'
    BY DEF OneIssue
  <2>3. period # PeriodKey(x.due) /\ period \notin excused[t]
    BY <2>1, <2>2
  <2>4. \A f \in BagToSet(left) : PeriodKey(f.due) = period =>
           f \in BagToSet(expenses[t]) /\ left[f] = expenses[t][f]
    BY <1>1, <1>3, <2>3
  <2>5. Issuing(t, period)' = Issuing(t, period)
    BY <1>1 DEF Issuing
  <2>6. HasRaised(t, period)' => HasRaised(t, period)
    BY <2>1, <2>4 DEF HasRaised
  <2> QED BY <2>1, <2>3, <2>4, <2>5, <2>6 DEF OneIssue
<1> QED BY <1>2, <1>3

\* An execution that found no expense is about to issue: if another one is, the
\* period is excused, and otherwise it is the only one.
LEMMA CheckKeepsOne ==
  ASSUME TypeInv, NEW c \in Calls, CheckIssued(c),
         NEW t \in Templates, NEW period \in Months, OneIssue(t, period)
  PROVE  OneIssue(t, period)'
<1> DEFINE own == call[c].t
           p == PeriodKey(call[c].due)
<1>0. /\ excused \in [Templates -> SUBSET Months] /\ call \in [Calls -> CallStates]
      /\ UNCHANGED expenses /\ call[c].pc = "check"
  BY DEF TypeInv, TypeOK, CheckIssued, rowVars
<1>1. CASE HasExpense(own, p)
  <2>1. call' = [call EXCEPT ![c].pc = "advance"] /\ UNCHANGED excused
    BY <1>1 DEF CheckIssued
  <2>2. \A d \in Calls : call'[d] = call[d] \/ call'[d].pc # "issue"
    BY <1>0, <2>1 DEF CallStates
  <2> QED BY <1>0, <2>1, <2>2, CalmKeepsOne
<1>2. CASE ~HasExpense(own, p)
  <2>1. /\ call' = [call EXCEPT ![c].pc = "issue"]
        /\ excused' = IF Issuing(own, p) # {} THEN [excused EXCEPT ![own] = @ \cup {p}]
                      ELSE excused
    BY <1>2 DEF CheckIssued
  <2>2. /\ \A d \in Calls : d # c => call'[d] = call[d]
        /\ call'[c].t = own /\ PeriodKey(call'[c].due) = p
    BY <1>0, <2>1 DEF CallStates
  <2>3. own \in Templates /\ p \in Months
    BY HandledDue DEF CheckIssued, Handling
  <2> HIDE DEF own, p
  <2>4. excused[t] \subseteq excused'[t]
    BY <1>0, <2>1, <2>3
  <2>5. CASE own # t \/ p # period
    <3>1. Issuing(t, period)' \subseteq Issuing(t, period)
      BY <2>2, <2>5 DEF Issuing
    <3>2. HasRaised(t, period)' <=> HasRaised(t, period)
      BY <1>0 DEF HasRaised
    <3> QED BY <1>0, <2>4, <3>1, <3>2 DEF OneIssue
  <2>6. CASE own = t /\ p = period
    <3>1. SUFFICES ASSUME period \notin excused'[t] PROVE OneIssue(t, period)'
      BY DEF OneIssue
    <3>2. Issuing(t, period) = {}
      BY <1>0, <2>1, <2>3, <2>6, <3>1
    <3>3. Issuing(t, period)' \subseteq {c}
      BY <2>2, <3>2 DEF Issuing
    <3>4. period \notin excused[t]
      BY <2>4, <3>1
    <3>5. ~HasRaised(t, period)
      <4>1. \A e \in BagToSet(expenses[t]) : PeriodKey(e.due) = period => e.tagged
        BY <3>4 DEF OneIssue
      <4> QED BY <1>2, <2>6, <4>1 DEF HasRaised, HasExpense
    <3>6. ~HasRaised(t, period)'
      BY <1>0, <3>5 DEF HasRaised
    <3> QED BY <3>3, <3>6 DEF OneIssue, HasRaised
  <2> QED BY <2>5, <2>6
<1> QED BY <1>1, <1>2

\* Issuing raises the first expense of its period, unless that is excused.
LEMMA IssueKeepsOne ==
  ASSUME TypeInv, NEW c \in Calls, Issue(c),
         NEW t \in Templates, NEW period \in Months, OneIssue(t, period)
  PROVE  OneIssue(t, period)'
<1> DEFINE own == call[c].t
           new == [due |-> call[c].due, tagged |-> TRUE]
           more == expenses[own] (+) One(new)
           p == PeriodKey(call[c].due)
<1>0. /\ UNCHANGED excused /\ DOMAIN expenses = Templates /\ call[c].pc = "issue"
  BY DEF TypeInv, TypeOK, Issue
<1>1. /\ own \in Templates /\ expenses' = [expenses EXCEPT ![own] = more]
      /\ BagToSet(more) = BagToSet(expenses[own]) \cup {new}
      /\ \A e \in BagToSet(expenses[own]) : e # new => more[e] = expenses[own][e]
      /\ new \notin BagToSet(expenses[own]) => more[new] = 1
  BY IssueShape
<1>2. new.tagged /\ PeriodKey(new.due) = p
  OBVIOUS
<1>3. /\ \A d \in Calls : d # c => call'[d] = call[d]
      /\ call'[c].pc # "issue"
  BY <1>0, ReturnShape DEF Issue
<1>4. c \in Issuing(own, p)
  BY <1>0 DEF Issuing
<1> HIDE DEF own, new, p
<1> HIDE DEF more
<1>5. Issuing(t, period)' \subseteq Issuing(t, period) \ {c}
  BY <1>3 DEF Issuing
<1>6. CASE own # t
  <2>1. expenses'[t] = expenses[t]
    BY <1>0, <1>1, <1>6
  <2> QED BY <1>0, <1>3, <2>1, CalmKeepsOne
<1>7. CASE own = t
  <2>1. expenses'[t] = more
    BY <1>0, <1>1, <1>7
  <2>2. SUFFICES ASSUME period \notin excused'[t] PROVE OneIssue(t, period)'
    BY DEF OneIssue
  <2>3. period \notin excused[t]
    BY <1>0, <2>2
  <2>4. CASE p = period
    <3>1. Issuing(t, period)' = {}
      BY <1>4, <1>5, <1>7, <2>3, <2>4 DEF OneIssue
    <3>2. \A e \in BagToSet(expenses[t]) : PeriodKey(e.due) # period
      BY <1>4, <1>7, <2>3, <2>4 DEF OneIssue, HasRaised
    <3>3. \A e \in BagToSet(more) : PeriodKey(e.due) = period => e = new
      BY <1>1, <1>7, <3>2
    <3>4. more[new] = 1
      BY <1>1, <1>2, <1>7, <2>4, <3>2
    <3> QED BY <1>2, <2>1, <3>1, <3>3, <3>4 DEF OneIssue
  <2>5. CASE p # period
    <3>1. \A e \in BagToSet(more) : PeriodKey(e.due) = period =>
             e \in BagToSet(expenses[t]) /\ more[e] = expenses[t][e]
      BY <1>1, <1>2, <1>7, <2>5
    <3>2. HasRaised(t, period)' => HasRaised(t, period)
      BY <2>1, <3>1 DEF HasRaised
    <3> QED BY <1>5, <2>1, <2>3, <3>1, <3>2 DEF OneIssue
  <2> QED BY <2>4, <2>5
<1> QED BY <1>6, <1>7

LEMMA OneStep ==
  ASSUME TypeInv, [Next]_vars, NEW t \in Templates, NEW period \in Months, OneIssue(t, period)
  PROVE  OneIssue(t, period)'
<1>0. excused[t] \subseteq excused'[t]
  BY ExcusedGrows
<1>1. ASSUME UNCHANGED <<expenses, call>> PROVE OneIssue(t, period)'
  BY <1>0, <1>1, CalmKeepsOne
<1>2. ASSUME NEW c \in Calls, StartRun(c) \/ TakeNext(c) \/ ReadTemplate(c) \/ AdvanceOnly(c)
                              \/ IssueFails(c) \/ Crash(c) \/ \E s \in Templates : IssueNow(c, s)
      PROVE  OneIssue(t, period)'
  <2>1. UNCHANGED expenses
    BY <1>2, QuietSteps
  <2>2. /\ \A d \in Calls : d # c => call'[d] = call[d]
        /\ call'[c].pc \in Handling => ReadTemplate(c) \/ CheckIssued(c)
    BY <1>2, CallShape DEF Running
  <2>3. call'[c].pc # "issue"
    <3>1. ASSUME ReadTemplate(c) PROVE call'[c].pc # "issue"
      <4>1. call \in [Calls -> CallStates] /\ call[c].pc = "read"
        BY <3>1 DEF TypeInv, TypeOK, ReadTemplate
      <4>2. CASE Return(c)
        BY <4>1, <4>2, ReturnShape
      <4>3. CASE ~Return(c)
        <5>1. call' = [call EXCEPT ![c].pc = "check", ![c].due = template[call[c].t].next]
          BY <3>1, <4>3 DEF ReadTemplate
        <5>2. call'[c].pc = "check"
          BY <4>1, <5>1 DEF CallStates
        <5> QED BY <5>2
      <4> QED BY <4>2, <4>3
    <3>2. ASSUME CheckIssued(c) PROVE call[c].pc = "check"
      BY <3>2 DEF CheckIssued
    <3>3. call[c].pc = "check" => Crash(c)
      BY <1>2 DEF StartRun, TakeNext, ReadTemplate, AdvanceOnly, IssueFails, IssueNow
    <3>4. Crash(c) => call'[c].pc = "idle"
      BY DEF Crash, Idle, TypeInv, TypeOK
    <3> QED BY <2>2, <3>1, <3>2, <3>3, <3>4 DEF Handling
  <2> QED BY <1>0, <2>1, <2>2, <2>3, CalmKeepsOne
<1>3. ASSUME NEW s \in Templates, NEW f \in Frequencies, NEW auto \in BOOLEAN,
             NEW start \in Starts, CreateTemplate(s, f, auto, start)
      PROVE  UNCHANGED <<expenses, call>>
  BY <1>3 DEF CreateTemplate
<1>4. ASSUME NEW s \in Templates, ToggleTemplate(s) \/ DeleteTemplate(s)
      PROVE  UNCHANGED <<expenses, call>>
  BY <1>4 DEF ToggleTemplate, DeleteTemplate
<1>5. CASE Page
  BY <1>1, <1>2, <1>3, <1>4, <1>5, LoseKeepsOne DEF Page
<1>6. CASE NextDay \/ UNCHANGED vars
  BY <1>1, <1>6 DEF NextDay, vars, rowVars
<1> QED BY <1>2, <1>5, <1>6, CheckKeepsOne, IssueKeepsOne DEF Next, Running

LEMMA OnceInit == Init => OnceInv
<1> SUFFICES ASSUME Init PROVE OnceInv
  OBVIOUS
<1>1. \A t \in Templates : BagToSet(expenses[t]) = {}
  BY DEF Init, BagToSet, EmptyBag, SetToBag
<1>2. \A c \in Calls : call[c].pc = "idle"
  BY DEF Init, Idle
<1>3. \A t \in Templates, period \in Months : OneIssue(t, period)
  BY <1>1, <1>2 DEF OneIssue, Issuing, HasRaised
<1> QED BY <1>3, TypeInit DEF OnceInv

LEMMA OnceStep == OnceInv /\ [Next]_vars => OnceInv'
<1> SUFFICES ASSUME OnceInv, [Next]_vars PROVE OnceInv'
  OBVIOUS
<1>1. TypeInv'
  BY TypeStep DEF OnceInv
<1>2. \A t \in Templates, period \in Months : OneIssue(t, period)'
  BY OneStep DEF OnceInv
<1> QED BY <1>1, <1>2 DEF OnceInv

\* A schedule raises one expense for a period, however often the run is repeated or
\* the button pressed (cron/payables/route.ts:16), unless two executions were issuing
\* the period at once or its expense was deleted or rewritten.
THEOREM OnceCorrect == Spec => []OncePerPeriod
<1>1. Spec => []OnceInv
  BY OnceInit, OnceStep, PTL DEF Spec
<1>2. OnceInv => OncePerPeriod
  <2> SUFFICES ASSUME OnceInv, NEW t \in Templates,
                      NEW e \in BagToSet(expenses[t]), NEW f \in BagToSet(expenses[t]),
                      PeriodKey(e.due) = PeriodKey(f.due),
                      e # f \/ expenses[t][e] > 1,
                      PeriodKey(e.due) \notin excused[t]
               PROVE  FALSE
    BY DEF OncePerPeriod
  <2>1. e.due \in Days
    BY DEF OnceInv, TypeInv, TypeOK
  <2>2. PeriodKey(e.due) \in Months
    BY <2>1, PeriodOf
  <2>3. OneIssue(t, PeriodKey(e.due))
    BY <2>2 DEF OnceInv
  <2>4. e = f /\ expenses[t][e] = 1
    BY <2>3 DEF OneIssue
  <2> QED BY <2>4
<1> QED BY <1>1, <1>2, PTL

-----------------------------------------------------------------------------
(* No month left out *)

\* What was issued stays issued; only Issue adds to it, and to the expenses.
LEMMA IssuedGrows ==
  ASSUME TypeInv, [Next]_vars
  PROVE  /\ \A t \in Templates : issued[t] \subseteq issued'[t]
         /\ ExpensesIssued => ExpensesIssued'
<1>0. issued \in [Templates -> SUBSET Days] /\ DOMAIN expenses = Templates
  BY DEF TypeInv, TypeOK
<1> DEFINE Goal == /\ \A t \in Templates : issued[t] \subseteq issued'[t]
                   /\ ExpensesIssued => ExpensesIssued'
<1>1. CASE UNCHANGED <<expenses, issued>>
  BY <1>1 DEF ExpensesIssued
<1>2. ASSUME NEW s \in Templates, NEW x \in BagToSet(expenses[s]),
             EditReference(s, x) \/ DeleteExpense(s, x)
      PROVE  Goal
  <2>1. PICK left :
           /\ expenses' = [expenses EXCEPT ![s] = left]
           /\ \A f \in BagToSet(left) : f \in BagToSet(expenses[s]) \/ f.due = x.due
           /\ UNCHANGED issued
    BY <1>2, LoseShape
  <2>2. \A t \in Templates : expenses'[t] = IF t = s THEN left ELSE expenses[t]
    BY <1>0, <2>1
  <2>3. ASSUME ExpensesIssued, NEW t \in Templates, NEW f \in BagToSet(expenses'[t])
        PROVE  f.due \in issued'[t]
    <3>1. CASE t = s
      BY <2>1, <2>2, <2>3, <3>1 DEF ExpensesIssued
    <3>2. CASE t # s
      BY <2>1, <2>2, <2>3, <3>2 DEF ExpensesIssued
    <3> QED BY <3>1, <3>2
  <2> QED BY <2>1, <2>3 DEF ExpensesIssued
<1>3. ASSUME NEW c \in Calls, Issue(c) PROVE Goal
  <2> DEFINE own == call[c].t
             new == [due |-> call[c].due, tagged |-> TRUE]
             more == expenses[own] (+) One(new)
  <2>1. /\ own \in Templates /\ expenses' = [expenses EXCEPT ![own] = more]
        /\ BagToSet(more) = BagToSet(expenses[own]) \cup {new}
    BY <1>3, IssueShape
  <2>2. issued' = [issued EXCEPT ![own] = @ \cup {new.due}]
    BY <1>3 DEF Issue
  <2> HIDE DEF own, new
  <2> HIDE DEF more
  <2>3. /\ \A t \in Templates : expenses'[t] = IF t = own THEN more ELSE expenses[t]
        /\ \A t \in Templates : issued'[t] = IF t = own THEN issued[t] \cup {new.due} ELSE issued[t]
    BY <1>0, <2>1, <2>2
  <2>4. ASSUME ExpensesIssued, NEW t \in Templates, NEW f \in BagToSet(expenses'[t])
        PROVE  f.due \in issued'[t]
    <3>1. CASE t = own
      BY <2>1, <2>3, <2>4, <3>1 DEF ExpensesIssued
    <3>2. CASE t # own
      BY <2>3, <2>4, <3>2 DEF ExpensesIssued
    <3> QED BY <3>1, <3>2
  <2> QED BY <2>3, <2>4 DEF ExpensesIssued
<1>4. ASSUME NEW c \in Calls, \/ StartRun(c) \/ TakeNext(c) \/ ReadTemplate(c) \/ AdvanceOnly(c)
                              \/ IssueFails(c) \/ Crash(c) \/ \E s \in Templates : IssueNow(c, s)
      PROVE  UNCHANGED <<expenses, issued>>
  BY <1>4, QuietSteps
<1>5. ASSUME NEW c \in Calls, CheckIssued(c) PROVE UNCHANGED <<expenses, issued>>
  BY <1>5 DEF CheckIssued, rowVars
<1>6. ASSUME NEW s \in Templates, NEW f \in Frequencies, NEW auto \in BOOLEAN,
             NEW start \in Starts, CreateTemplate(s, f, auto, start)
      PROVE  UNCHANGED <<expenses, issued>>
  BY <1>6 DEF CreateTemplate, historyVars
<1>7. ASSUME NEW s \in Templates, ToggleTemplate(s) \/ DeleteTemplate(s)
      PROVE  UNCHANGED <<expenses, issued>>
  BY <1>7 DEF ToggleTemplate, DeleteTemplate, historyVars
<1>8. CASE Page
  BY <1>1, <1>2, <1>4, <1>6, <1>7, <1>8 DEF Page
<1>9. CASE NextDay \/ UNCHANGED vars
  BY <1>1, <1>9 DEF NextDay, vars, rowVars, historyVars
<1> QED BY <1>1, <1>3, <1>4, <1>5, <1>8, <1>9 DEF Next, Running

\* How a step changes a schedule: not its dates, or it is a new one, or an execution
\* that handled its occurrence moves it on.
LEMMA TemplateMoves ==
  ASSUME TypeInv, [Next]_vars, NEW t \in Templates
  PROVE  \/ /\ template'[t].frequency = template[t].frequency
            /\ template'[t].start = template[t].start
            /\ template'[t].next = template[t].next
         \/ template'[t].start \in Days /\ template'[t].next = template'[t].start
         \/ /\ template'[t].frequency = template[t].frequency
            /\ template'[t].start = template[t].start
            /\ \E c \in Calls : /\ AdvanceOnly(c) \/ Issue(c)
                                /\ call[c].t = t
                                /\ template'[t].next = Advance(call[c].due, template[t].frequency)
<1>0. template \in [Templates -> Schedules]
  BY DEF TypeInv, TypeOK
<1> DEFINE Same == /\ template'[t].frequency = template[t].frequency
                   /\ template'[t].start = template[t].start
                   /\ template'[t].next = template[t].next
<1>1. ASSUME NEW s \in Templates, NEW f \in Frequencies, NEW auto \in BOOLEAN,
             NEW start \in Starts, CreateTemplate(s, f, auto, start)
      PROVE  Same \/ (template'[t].start \in Days /\ template'[t].next = template'[t].start)
  <2> DEFINE new == [state |-> "active", frequency |-> f, auto |-> auto, start |-> start,
                     next |-> start]
  <2>1. start \in Days /\ new.next = start /\ new.start = start
    BY ClockAssumption
  <2>2. template' = [template EXCEPT ![s] = new]
    BY <1>1 DEF CreateTemplate
  <2> HIDE DEF new
  <2>3. template'[t] = IF s = t THEN new ELSE template[t]
    BY <1>0, <2>2
  <2> QED BY <2>1, <2>3
<1>2. ASSUME NEW s \in Templates, ToggleTemplate(s) \/ DeleteTemplate(s) PROVE Same
  <2>1. PICK state \in {"active", "paused", "deleted"} :
            template' = [template EXCEPT ![s].state = state]
    BY <1>2 DEF ToggleTemplate, DeleteTemplate
  <2> QED BY <1>0, <2>1 DEF Schedules
<1>3. ASSUME NEW c \in Calls, AdvanceOnly(c) \/ Issue(c)
      PROVE  /\ template'[t].frequency = template[t].frequency
             /\ template'[t].start = template[t].start
             /\ \/ template'[t].next = template[t].next
                \/ /\ call[c].t = t
                   /\ template'[t].next = Advance(call[c].due, template[t].frequency)
  <2> DEFINE own == call[c].t
             day == Advance(call[c].due, template[own].frequency)
  <2>1. call[c].pc \in Handling /\ MoveOn(own, day)
    BY <1>3 DEF AdvanceOnly, Issue, NextAfterIssued, Handling
  <2>2. own \in Templates /\ day \in Days
    BY <2>1, HandledDue
  <2> HIDE DEF day
  <2> HIDE DEF own
  <2>3. /\ template'[t].frequency = template[t].frequency
        /\ template'[t].start = template[t].start
        /\ template'[t].next = template[t].next \/ (t = own /\ template'[t].next = day)
    BY <1>0, <2>1, <2>2, MoveOnShape
  <2> QED BY <2>3 DEF own, day
<1>4. ASSUME UNCHANGED template PROVE Same
  BY <1>4
<1>5. ASSUME NEW c \in Calls,
             \/ StartRun(c) \/ TakeNext(c) \/ ReadTemplate(c) \/ CheckIssued(c)
             \/ IssueFails(c) \/ Crash(c) \/ \E s \in Templates : IssueNow(c, s)
      PROVE  UNCHANGED template
  BY <1>5 DEF StartRun, TakeNext, ReadTemplate, CheckIssued, IssueFails, Crash, IssueNow, rowVars
<1>6. ASSUME NEW s \in Templates, NEW x \in BagToSet(expenses[s]),
             EditReference(s, x) \/ DeleteExpense(s, x)
      PROVE  UNCHANGED template
  BY <1>6 DEF EditReference, DeleteExpense, LoseReference
<1>7. CASE Page
  BY <1>1, <1>2, <1>4, <1>5, <1>6, <1>7 DEF Page
<1>8. CASE NextDay \/ UNCHANGED vars
  BY <1>4, <1>8 DEF NextDay, vars, rowVars
<1> QED BY <1>3, <1>4, <1>5, <1>7, <1>8 DEF Next, Running

\* A step after which an execution handles an occurrence, which it did not handle
\* just so before, has read the schedule or looked for its expense.
LEMMA CallMoves ==
  ASSUME TypeInv, [Next]_vars, NEW c \in Calls, call'[c].pc \in Handling
  PROVE  call'[c] = call[c] \/ ReadTemplate(c) \/ CheckIssued(c)
<1>1. ASSUME UNCHANGED call PROVE call'[c] = call[c]
  BY <1>1
<1>2. ASSUME NEW d \in Calls,
             StartRun(d) \/ Running(d) \/ Crash(d) \/ \E t \in Templates : IssueNow(d, t)
      PROVE  call'[c] = call[c] \/ ReadTemplate(c) \/ CheckIssued(c)
  <2>1. CASE d = c
    BY <1>2, <2>1, CallShape
  <2>2. CASE d # c
    BY <1>2, <2>2, CallShape
  <2> QED BY <2>1, <2>2
<1>3. ASSUME NEW s \in Templates, NEW x \in BagToSet(expenses[s]),
             EditReference(s, x) \/ DeleteExpense(s, x)
      PROVE  UNCHANGED call
  BY <1>3 DEF EditReference, DeleteExpense, LoseReference
<1>4. ASSUME NEW s \in Templates, NEW f \in Frequencies, NEW auto \in BOOLEAN,
             NEW start \in Starts, CreateTemplate(s, f, auto, start)
      PROVE  UNCHANGED call
  BY <1>4 DEF CreateTemplate
<1>5. ASSUME NEW s \in Templates, ToggleTemplate(s) \/ DeleteTemplate(s) PROVE UNCHANGED call
  BY <1>5 DEF ToggleTemplate, DeleteTemplate
<1>6. CASE Page
  BY <1>1, <1>2, <1>3, <1>4, <1>5, <1>6 DEF Page
<1>7. CASE NextDay \/ UNCHANGED vars
  BY <1>1, <1>7 DEF NextDay, vars
<1> QED BY <1>2, <1>6, <1>7 DEF Next

\* Months that are covered stay so while the schedule keeps its frequency and start.
LEMMA CoveredStays ==
  ASSUME TypeInv, [Next]_vars, NEW t \in Templates, NEW day \in Days, Covered(t, day),
         template'[t].frequency = template[t].frequency, template'[t].start = template[t].start
  PROVE  Covered(t, day)'
<1>1. \A m : EverIssued(t, m) => EverIssued(t, m)'
  BY IssuedGrows DEF EverIssued
<1> QED BY <1>1 DEF Covered, ByTheMonth, KeepsDay

\* A schedule that moves on from a month that has its expense has covered one month
\* more.
LEMMA OneMonthMore ==
  ASSUME TypeInv, [Next]_vars, NEW t \in Templates, NEW due \in Days, NEW now \in Clock,
         due <= now, Covered(t, due), EverIssued(t, PeriodKey(due))',
         template'[t].frequency = template[t].frequency,
         template'[t].start = template[t].start,
         NEW day \in Days, day = Advance(due, template[t].frequency)
  PROVE  Covered(t, day)'
<1> DEFINE s == template[t]
           first == PeriodKey(s.start)
           p == PeriodKey(due)
<1>1. CASE ~ByTheMonth(s)
  BY <1>1 DEF Covered, ByTheMonth
<1>2. CASE ByTheMonth(s)
  <2>1. /\ \A m \in first..(p - 1) : EverIssued(t, m)
        /\ KeepsDay(s, due)
    BY <1>2 DEF Covered
  <2>2. PeriodKey(day) = p + 1 /\ KeepsDay(s, day)
    BY <1>2, <2>1, AdvanceByTheMonth
  <2>3. p \in Nat /\ first \in Nat
    <3>1. s.start \in Days
      BY DEF TypeInv, TypeOK, Schedules
    <3>2. p \in Months /\ first \in Months
      BY <3>1, PeriodOf
    <3> QED BY <3>2, CalendarType
  <2>4. \A m : EverIssued(t, m) => EverIssued(t, m)'
    BY IssuedGrows DEF EverIssued
  <2>5. EverIssued(t, p)'
    OBVIOUS
  <2> HIDE DEF p, first
  <2>6. \A m \in first..(PeriodKey(day) - 1) : EverIssued(t, m)'
    <3> SUFFICES ASSUME NEW m \in first..(PeriodKey(day) - 1) PROVE EverIssued(t, m)'
      OBVIOUS
    <3>1. m = p \/ m \in first..(p - 1)
      BY <2>2, <2>3
    <3> QED BY <2>1, <2>4, <2>5, <3>1
  <2>7. \A m \in PeriodKey(template[t].start)'..(PeriodKey(day) - 1) : EverIssued(t, m)'
    BY <2>6 DEF first
  <2> QED BY <2>2, <2>7 DEF Covered, KeepsDay
<1> QED BY <1>1, <1>2

\* An occurrence that is issued, or only advanced over, has an expense of its period.
LEMMA HandledIssued ==
  ASSUME CoverInv, NEW c \in Calls, AdvanceOnly(c) \/ Issue(c),
         NEW t \in Templates, NEW due \in Days, call[c].t = t, call[c].due = due
  PROVE  Covered(t, due) /\ EverIssued(t, PeriodKey(due))'
<1>1. Handles(c, t, due)
  BY DEF Handles, AdvanceOnly, Issue, Handling
<1>2. Covered(t, due) /\ (call[c].pc = "advance" => EverIssued(t, PeriodKey(due)))
  BY <1>1 DEF CoverInv, DueCovered
<1>3. CASE AdvanceOnly(c)
  <2>1. UNCHANGED issued /\ call[c].pc = "advance"
    BY <1>3 DEF AdvanceOnly, historyVars
  <2> QED BY <1>2, <2>1 DEF EverIssued
<1>4. CASE Issue(c)
  <2>1. issued' = [issued EXCEPT ![t] = @ \cup {due}]
    BY <1>4 DEF Issue
  <2>2. due \in issued'[t]
    BY <2>1 DEF CoverInv, TypeInv, TypeOK
  <2> QED BY <1>2, <2>2 DEF EverIssued
<1> QED BY <1>3, <1>4

LEMMA NextCoveredStep == CoverInv /\ [Next]_vars => NextCovered'
<1> SUFFICES ASSUME CoverInv, [Next]_vars,
                    NEW t \in Templates, NEW day \in Days, template'[t].next = day
             PROVE  Covered(t, day)'
  BY DEF NextCovered
<1>0. TypeInv /\ NextCovered
  BY DEF CoverInv
<1>1. CASE /\ template'[t].frequency = template[t].frequency
           /\ template'[t].start = template[t].start
           /\ template'[t].next = template[t].next
  <2>1. Covered(t, day)
    BY <1>0, <1>1 DEF NextCovered
  <2> QED BY <1>0, <1>1, <2>1, CoveredStays
<1>2. CASE template'[t].start \in Days /\ template'[t].next = template'[t].start
  <2>1. template'[t].start = day
    BY <1>2
  <2>2. PeriodKey(day) \in Nat
    <3>1. PeriodKey(day) \in Months
      BY PeriodOf
    <3> QED BY <3>1, CalendarType
  <2>3. PeriodKey(day)..(PeriodKey(day) - 1) = {}
    BY <2>2
  <2> QED BY <2>1, <2>3 DEF Covered, KeepsDay
<1>3. ASSUME template'[t].frequency = template[t].frequency,
             template'[t].start = template[t].start,
             NEW c \in Calls, AdvanceOnly(c) \/ Issue(c), call[c].t = t,
             template'[t].next = Advance(call[c].due, template[t].frequency)
      PROVE  Covered(t, day)'
  <2>1. call[c].pc \in Handling
    BY <1>3 DEF AdvanceOnly, Issue, Handling
  <2>2. PICK due \in Days : due = call[c].due
    BY <1>0, <2>1, HandledDue
  <2>3. PICK now \in Clock : due <= now
    BY <1>0, <2>1, <2>2, HandledDue
  <2>4. Covered(t, due) /\ EverIssued(t, PeriodKey(due))'
    BY <1>3, <2>2, HandledIssued
  <2>5. day = Advance(due, template[t].frequency)
    BY <1>3, <2>2
  <2> QED BY <1>0, <1>3, <2>3, <2>4, <2>5, OneMonthMore
<1> QED BY <1>0, <1>1, <1>2, <1>3, TemplateMoves

LEMMA DueCoveredStep == CoverInv /\ [Next]_vars => DueCovered'
<1> SUFFICES ASSUME CoverInv, [Next]_vars,
                    NEW c \in Calls, NEW t \in Templates, NEW due \in Days,
                    Handles(c, t, due)'
             PROVE  /\ Covered(t, due)'
                    /\ call'[c].pc = "advance" => EverIssued(t, PeriodKey(due))'
  BY DEF DueCovered
<1>0. /\ TypeInv /\ ExpensesIssued /\ NextCovered /\ DueCovered
      /\ call \in [Calls -> CallStates]
  BY DEF CoverInv, TypeInv, TypeOK
<1>1. call'[c].pc \in Handling /\ call'[c].t = t /\ call'[c].due = due
  BY DEF Handles
<1>2. \A m : EverIssued(t, m) => EverIssued(t, m)'
  BY <1>0, IssuedGrows DEF EverIssued
<1>3. ASSUME Covered(t, due), template[t].state # "none" PROVE Covered(t, due)'
  <2>1. /\ template'[t].frequency = template[t].frequency
        /\ template'[t].start = template[t].start
    BY <1>0, <1>3, TemplateShape
  <2> QED BY <1>0, <1>3, <2>1, CoveredStays
<1>4. CASE call'[c] = call[c]
  <2>1. Handles(c, t, due)
    BY <1>1, <1>4 DEF Handles
  <2>2. template[t].state # "none"
    BY <1>0, <2>1, HandledDue DEF Handles
  <2>3. Covered(t, due) /\ (call[c].pc = "advance" => EverIssued(t, PeriodKey(due)))
    BY <1>0, <2>1 DEF DueCovered
  <2> QED BY <1>2, <1>3, <1>4, <2>2, <2>3
<1>5. CASE ReadTemplate(c)
  <2>1. call[c].pc = "read"
    BY <1>5 DEF ReadTemplate
  <2>2. ~Return(c)
    BY <1>0, <1>1, <2>1, ReturnShape DEF Handling
  <2>3. /\ template[call[c].t].state = "active"
        /\ call' = [call EXCEPT ![c].pc = "check", ![c].due = template[call[c].t].next]
    BY <1>5, <2>2 DEF ReadTemplate
  <2>4. call'[c].pc = "check" /\ call'[c].t = call[c].t /\ call'[c].due = template[call[c].t].next
    BY <1>0, <2>3 DEF CallStates
  <2>5. template[t].state = "active" /\ template[t].next = due
    BY <1>1, <2>3, <2>4
  <2>6. Covered(t, due)
    BY <1>0, <2>5 DEF NextCovered
  <2> QED BY <1>3, <2>4, <2>5, <2>6
<1>6. CASE CheckIssued(c)
  <2>1. PICK pc \in {"advance", "issue"} : /\ call' = [call EXCEPT ![c].pc = pc]
                                           /\ pc = "advance" => HasExpense(call[c].t, PeriodKey(call[c].due))
    BY <1>6 DEF CheckIssued
  <2>2. /\ call[c].pc = "check" /\ call'[c].pc = pc
        /\ call[c].t = t /\ call[c].due = due
    BY <1>0, <1>1, <1>6, <2>1 DEF CheckIssued, CallStates
  <2>3. Handles(c, t, due)
    BY <2>2 DEF Handles, Handling
  <2>4. template[t].state # "none"
    BY <1>0, <2>3, HandledDue DEF Handles
  <2>5. Covered(t, due)
    BY <1>0, <2>3 DEF DueCovered
  <2>6. pc = "advance" => EverIssued(t, PeriodKey(due))
    BY <1>0, <2>1, <2>2 DEF HasExpense, ExpensesIssued, EverIssued
  <2> QED BY <1>2, <1>3, <2>2, <2>4, <2>5, <2>6
<1> QED BY <1>0, <1>1, <1>4, <1>5, <1>6, CallMoves

LEMMA CoverInit == Init => CoverInv
<1> SUFFICES ASSUME Init PROVE CoverInv
  OBVIOUS
<1>1. \A t \in Templates : BagToSet(expenses[t]) = {} /\ template[t] = Unused
  BY DEF Init, BagToSet, EmptyBag, SetToBag
<1>2. \A c \in Calls : call[c].pc = "idle"
  BY DEF Init, Idle
<1>3. \A t \in Templates : ~ByTheMonth(template[t])
  BY <1>1 DEF ByTheMonth, Unused
<1>4. NextCovered
  BY <1>3 DEF NextCovered, Covered
<1>5. ExpensesIssued /\ DueCovered
  BY <1>1, <1>2 DEF ExpensesIssued, DueCovered, Handles, Handling
<1> QED BY <1>4, <1>5, TypeInit DEF CoverInv

LEMMA CoverStep == CoverInv /\ [Next]_vars => CoverInv'
<1> SUFFICES ASSUME CoverInv, [Next]_vars PROVE CoverInv'
  OBVIOUS
<1>1. TypeInv' /\ ExpensesIssued'
  BY TypeStep, IssuedGrows DEF CoverInv
<1> QED BY <1>1, NextCoveredStep, DueCoveredStep DEF CoverInv

\* A schedule by the month, on a day every month has or at its end, has raised an
\* expense for each month it has left behind: no crash, failure, race or stale read
\* skips one.
THEOREM CoveredCorrect == Spec => []MonthsCovered
<1>1. Spec => []CoverInv
  BY CoverInit, CoverStep, PTL DEF Spec
<1>2. CoverInv => MonthsCovered
  <2> SUFFICES ASSUME CoverInv, NEW t \in Templates,
                      \/ template[t].frequency = "MONTH_END"
                      \/ /\ template[t].frequency = "MONTHLY"
                         /\ Offset(template[t].start) < 28,
                      NEW m \in PeriodKey(template[t].start)..(PeriodKey(template[t].next) - 1)
               PROVE  \E day \in issued[t] : PeriodKey(day) = m
    BY DEF MonthsCovered, Offset
  <2>1. PICK next \in Days : template[t].next = next
    BY DEF CoverInv, TypeInv, TypeOK, Schedules
  <2>2. Covered(t, next)
    BY <2>1 DEF CoverInv, NextCovered
  <2>3. EverIssued(t, m)
    BY <2>1, <2>2 DEF Covered, ByTheMonth
  <2> QED BY <2>3 DEF EverIssued
<1> QED BY <1>1, <1>2, PTL
=============================================================================
