---------------------------- MODULE Payables_proofs ----------------------------
(***************************************************************************)
(* What the shop owes is paid once and booked once, for any sets of        *)
(* documents, payments and concurrent requests: bills and expenses add up, *)
(* technicians are paid once, and the books follow the payments.           *)
(***************************************************************************)
EXTENDS Payables, UnitTotals_proofs

-----------------------------------------------------------------------------
(* Sums over the payments of a document, as operators on the rows *)

PaymentRows == [Payments -> [doc : Docs, amount : Nat, rate : Nat, state : {"none", "live", "gone"}]]
LiveOf(rows, d) == {p \in Payments : rows[p].state = "live" /\ rows[p].doc = d}
AmountsOf(rows) == [p \in Payments |-> rows[p].amount]
SumFor(rows, d) == Total(LiveOf(rows, d), AmountsOf(rows))
WithPayment(rows, p, d, amount, rate) ==
    [rows EXCEPT ![p] = [doc |-> d, amount |-> amount, rate |-> rate, state |-> "live"]]
Without(rows, p) == [rows EXCEPT ![p].state = "gone"]

LEMMA PaidIsSum == \A d : PaidFor(d) = SumFor(payment, d) /\ PaidFor(d)' = SumFor(payment', d)
BY DEF PaidFor, SumFor, PaymentsOf, LiveOf, AmountsOf

LEMMA SumType ==
  ASSUME NEW rows \in PaymentRows, NEW d
  PROVE  /\ IsFiniteSet(LiveOf(rows, d)) /\ IsFiniteSet(UnitsOf(LiveOf(rows, d), AmountsOf(rows)))
         /\ SumFor(rows, d) \in Nat
<1>1. IsFiniteSet(LiveOf(rows, d))
  BY DocsAssumption, FS_Subset DEF LiveOf
<1>2. \A p \in LiveOf(rows, d) : AmountsOf(rows)[p] \in Nat
  BY DEF LiveOf, AmountsOf, PaymentRows
<1> QED
  BY <1>1, <1>2, NatUnits DEF SumFor

\* Two tables with the same live payments of a document, of the same amounts.
LEMMA SameSum ==
  ASSUME NEW rows, NEW new, NEW d, LiveOf(new, d) = LiveOf(rows, d),
         \A p \in LiveOf(rows, d) : new[p].amount = rows[p].amount
  PROVE  SumFor(new, d) = SumFor(rows, d)
<1>1. \A p \in LiveOf(rows, d) : AmountsOf(new)[p] = AmountsOf(rows)[p]
  BY DEF LiveOf, AmountsOf
<1> QED
  BY <1>1, SameUnits DEF SumFor

\* A payment that comes to life adds its amount to its document and to no other.
LEMMA Added ==
  ASSUME NEW rows \in PaymentRows, NEW p \in Payments, NEW d \in Docs, NEW amount \in Nat,
         NEW rate \in Nat, rows[p].state # "live"
  PROVE  /\ WithPayment(rows, p, d, amount, rate) \in PaymentRows
         /\ SumFor(WithPayment(rows, p, d, amount, rate), d) = SumFor(rows, d) + amount
         /\ \A x : x # d => SumFor(WithPayment(rows, p, d, amount, rate), x) = SumFor(rows, x)
<1> DEFINE new == WithPayment(rows, p, d, amount, rate)
<1>1. new \in PaymentRows /\ \A q \in Payments \ {p} : new[q] = rows[q]
  BY DEF PaymentRows, WithPayment
<1>2. new[p] = [doc |-> d, amount |-> amount, rate |-> rate, state |-> "live"]
  BY DEF PaymentRows, WithPayment
<1> HIDE DEF new
<1>3. \A x : x # d => SumFor(new, x) = SumFor(rows, x)
  <2> SUFFICES ASSUME NEW x, x # d PROVE SumFor(new, x) = SumFor(rows, x)
    OBVIOUS
  <2>1. LiveOf(new, x) = LiveOf(rows, x)
    BY <1>1, <1>2 DEF LiveOf
  <2>2. \A q \in LiveOf(rows, x) : new[q].amount = rows[q].amount
    BY <1>1 DEF LiveOf
  <2> QED
    BY <2>1, <2>2, SameSum
<1>4. LiveOf(new, d) = LiveOf(rows, d) \cup {p} /\ p \notin LiveOf(rows, d)
  BY <1>1, <1>2 DEF LiveOf
<1>5. \A q \in LiveOf(rows, d) : AmountsOf(new)[q] = AmountsOf(rows)[q]
  BY <1>1 DEF LiveOf, AmountsOf
<1>6. AmountsOf(new)[p] = amount
  BY <1>2 DEF AmountsOf
<1>7. /\ UnitsOf(LiveOf(rows, d), AmountsOf(new)) = UnitsOf(LiveOf(rows, d), AmountsOf(rows))
      /\ Total(LiveOf(rows, d), AmountsOf(new)) = SumFor(rows, d)
  BY <1>5, SameUnits DEF SumFor
<1>8. IsFiniteSet(UnitsOf(LiveOf(rows, d), AmountsOf(new)))
  BY <1>7, SumType
<1>9. SumFor(new, d) = SumFor(rows, d) + amount
  <2>1. Total(LiveOf(rows, d) \cup {p}, AmountsOf(new))
          = Total(LiveOf(rows, d), AmountsOf(new)) + AmountsOf(new)[p]
    BY <1>4, <1>6, <1>8, AddUnits
  <2> QED
    BY <1>4, <1>6, <1>7, <2>1 DEF SumFor
<1> QED
  BY <1>1, <1>3, <1>9 DEF new

\* A payment that goes takes its amount from its document and from no other.
LEMMA Removed ==
  ASSUME NEW rows \in PaymentRows, NEW p \in Payments, rows[p].state = "live"
  PROVE  /\ Without(rows, p) \in PaymentRows
         /\ SumFor(rows, rows[p].doc) = SumFor(Without(rows, p), rows[p].doc) + rows[p].amount
         /\ \A x : x # rows[p].doc => SumFor(Without(rows, p), x) = SumFor(rows, x)
<1> DEFINE new == Without(rows, p)
<1>1. new \in PaymentRows /\ new[p].state # "live"
  BY DEF PaymentRows, Without
<1>2. rows = WithPayment(new, p, rows[p].doc, rows[p].amount, rows[p].rate)
  BY DEF PaymentRows, Without, WithPayment
<1>3. rows[p].doc \in Docs /\ rows[p].amount \in Nat /\ rows[p].rate \in Nat
  BY DEF PaymentRows
<1> HIDE DEF new
<1>4. /\ SumFor(rows, rows[p].doc) = SumFor(new, rows[p].doc) + rows[p].amount
      /\ \A x : x # rows[p].doc => SumFor(rows, x) = SumFor(new, x)
  BY <1>1, <1>2, <1>3, Added
<1> QED
  BY <1>1, <1>4 DEF new

-----------------------------------------------------------------------------
(* The inductive invariant, in the order its parts rest on each other *)

\* Types, with two things they rest on: amounts are never negative, and no bill is
\* paid beyond its total.
BillRows == [status : {"NONE", "POSTED", "PART_PAID", "PAID", "CANCELLED"}, paid : Int]
ExpenseRows == [status : {"NONE", "OWED", "PAID", "DELETED"}, amount : Nat, paid : Nat]
Owed == [doc : Docs, amount : Nat]
CallRows == [pc : {"idle", "edit", "cost", "payout", "bulk"}, doc : Docs, amount : Nat,
             since : SUBSET {"cost", "paid"}, todo : SUBSET Owed]

RowsTyped ==
    /\ bill \in [Bills -> BillRows] /\ expense \in [Expenses -> ExpenseRows]
    /\ cost \in [Jobs -> Costs] /\ settled \in [Jobs -> BOOLEAN]
    /\ \A b \in Bills : bill[b].paid <= TotalAmount[b]
MoneyTyped == payment \in PaymentRows /\ recent \subseteq Payments
BooksTyped == books \in BooksOver(Refs) /\ posting \subseteq Refs
HistoryTyped ==
    /\ updates \in 0..MaxUpdates /\ rewritten \subseteq Expenses
    /\ atOdds \subseteq Jobs /\ agreed \subseteq Jobs
    /\ bulked \subseteq Payments /\ unbooked \subseteq Payments /\ late \subseteq Refs
CallsTyped ==
    /\ call \in [Calls -> CallRows]
    /\ \A c \in Calls :
        /\ call[c].pc = "edit" => call[c].doc \in Expenses
        /\ call[c].pc \in {"cost", "payout"} => call[c].doc \in Jobs
Typed == RowsTyped /\ MoneyTyped /\ BooksTyped /\ HistoryTyped /\ CallsTyped

\* What a request of a job's technician knows, of the cost and of what is due: the
\* cost unless that changed since, no less than is due if only payouts came since, and
\* exactly what is due if nothing did.
Knows(r, due, price) ==
    /\ r.pc = "cost" /\ "cost" \notin r.since => r.amount = price
    /\ r.pc = "payout" /\ "cost" \notin r.since => r.amount >= due
    /\ r.pc = "payout" /\ r.since = {} => r.amount = due

CallsKnow ==
    \A c \in Calls :
        /\ call[c].pc = "edit" => call[c].amount >= 1
        /\ \A j \in Jobs : call[c].doc = j => Knows(call[c], Due(j), cost[j])

-----------------------------------------------------------------------------
(* Types *)

LEMMA ConstantTypes ==
  /\ SomeDoc \in Docs /\ Idle \in CallRows
  /\ \A d \in Docs : d \in Bills \/ d \in Expenses \/ d \in Jobs
  /\ \A b \in Bills : b \in Docs /\ b \notin Expenses /\ b \notin Jobs /\ TotalAmount[b] \in Nat
                     /\ BillRate(b) \in Nat
  /\ \A e \in Expenses : e \in Docs /\ e \notin Bills /\ e \notin Jobs /\ e \notin Payments /\ e \in Refs
  /\ \A j \in Jobs : j \in Docs /\ j \notin Bills /\ j \notin Expenses
  /\ \A x \in Costs : x \in Nat
  /\ \A x \in SettledRates : x \in Nat
  /\ MaxUpdates \in Nat
  /\ \A p \in Payments : p \in Refs /\ p \notin Expenses
  /\ \A amount \in Amounts : amount \in Nat /\ amount >= 1
<1>1. SomeDoc \in Docs
  BY DocsAssumption DEF SomeDoc
<1>2. Idle \in CallRows
  BY <1>1 DEF Idle, CallRows
<1> QED
  BY <1>1, <1>2, DocsAssumption, AmountsAssumption DEF Docs, Refs, Amounts, BillRate

LEMMA TypedImplies == Typed => TypeOK
BY DEF Typed, TypeOK, RowsTyped, MoneyTyped, BooksTyped, HistoryTyped, CallsTyped, BillRows,
       ExpenseRows, PaymentRows, CallRows, Owed

LEMMA PostTypes ==
  ASSUME NEW b \in BooksOver(Refs), NEW r \in Refs, NEW amount \in Int
  PROVE  Post(b, r, amount) \in BooksOver(Refs) /\ Reverse(b, r) \in BooksOver(Refs)
<1>1. [b EXCEPT !.entry[r] = amount, !.account = @ + amount] \in BooksOver(Refs)
  <2>1. b.entry \in [Refs -> Int] /\ b.account \in Int /\ b.account + amount \in Int
    BY DEF BooksOver
  <2>2. [b.entry EXCEPT ![r] = amount] \in [Refs -> Int]
    BY <2>1
  <2> QED
    BY <2>1, <2>2 DEF BooksOver
<1>2. [b EXCEPT !.reversed = @ \cup {r}] \in BooksOver(Refs)
  BY DEF BooksOver
<1> QED
  BY <1>1, <1>2 DEF Post, Reverse

LEMMA SumsTyped ==
  Typed => (\A d : PaidFor(d) \in Nat) /\ (\A j \in Jobs : Due(j) \in Nat /\ cost[j] \in Nat)
<1> SUFFICES ASSUME Typed PROVE (\A d : PaidFor(d) \in Nat) /\ (\A j \in Jobs : Due(j) \in Nat /\ cost[j] \in Nat)
  OBVIOUS
<1>1. \A d : PaidFor(d) \in Nat
  BY SumType, PaidIsSum DEF Typed, MoneyTyped
<1>2. \A j \in Jobs : cost[j] \in Nat
  BY ConstantTypes DEF Typed, RowsTyped
<1> QED
  BY <1>1, <1>2 DEF Due, Left

LEMMA PayTypes ==
  ASSUME Typed, NEW p \in Payments, NEW d \in Docs, NEW amount \in Nat, NEW rate \in Nat,
         PayAt(p, d, amount, rate)
  PROVE  MoneyTyped'
BY DEF Typed, MoneyTyped, PaymentRows, PayAt

LEMMA InitTyped == Init => Typed
<1> SUFFICES ASSUME Init PROVE Typed
  OBVIOUS
<1>1. RowsTyped
  BY ConstantTypes DEF Init, RowsTyped, BillRows, ExpenseRows, NoExpense
<1>2. MoneyTyped /\ BooksTyped
  BY ConstantTypes DEF Init, MoneyTyped, PaymentRows, NoPayment, BooksTyped, BooksOver, NewBooks
<1> QED
  BY <1>1, <1>2, ConstantTypes DEF Init, Typed, HistoryTyped, CallsTyped, Idle

LEMMA StutterTyped == Typed /\ UNCHANGED vars => Typed'
BY DEF Typed, RowsTyped, MoneyTyped, BooksTyped, HistoryTyped, CallsTyped, PaymentRows, vars

\* What a payment writes on a bill: the amount is at most what is left of it.
LEMMA SettleTypes ==
  ASSUME Typed, NEW b \in Bills, NEW p \in Payments, NEW amount \in Nat,
         NEW rate \in Nat, NEW posted \in Nat,
         amount <= TotalAmount[b] - bill[b].paid, SettleBill(b, p, amount, rate, posted),
         UNCHANGED <<expense, jobVars, posting>>
  PROVE  RowsTyped' /\ MoneyTyped' /\ BooksTyped'
<1>1. MoneyTyped'
  BY PayTypes, ConstantTypes DEF SettleBill
<1>2. BooksTyped'
  BY PostTypes, ConstantTypes DEF SettleBill, Typed, BooksTyped
<1>3. bill[b].paid \in Int /\ BillStatus(b, bill[b].paid + amount) \in {"POSTED", "PART_PAID", "PAID"}
  BY DEF Typed, RowsTyped, BillRows, BillStatus
<1>4. RowsTyped'
  BY <1>3, ConstantTypes DEF SettleBill, jobVars, Typed, RowsTyped, BillRows
<1> QED
  BY <1>1, <1>2, <1>4

LEMMA BillStepsTyped == Typed /\ BillSteps => Typed'
<1> SUFFICES ASSUME Typed, BillSteps PROVE Typed'
  OBVIOUS
<1>1. ASSUME NEW b \in Bills, CreateBill(b) \/ CancelBill(b) PROVE Typed'
  <2>1. RowsTyped'
    BY <1>1 DEF CreateBill, CancelBill, jobVars, Typed, RowsTyped, BillRows
  <2> QED
    BY <1>1, <2>1 DEF CreateBill, CancelBill, Typed, MoneyTyped, BooksTyped, HistoryTyped,
                      CallsTyped, payVars, historyVars
<1>2. ASSUME NEW b \in Bills, NEW p \in Payments, NEW amount \in Amounts, NEW rate,
             PayBill(b, p, amount, rate)
      PROVE Typed'
  <2>1. rate \in Nat /\ amount \in Nat /\ amount * rate \in Nat
    BY <1>2, ConstantTypes DEF PayBill
  <2>2. RowsTyped' /\ MoneyTyped' /\ BooksTyped'
    BY <1>2, <2>1, SettleTypes DEF PayBill
  <2> QED
    BY <1>2, <2>2 DEF PayBill, Typed, HistoryTyped, CallsTyped, historyVars
<1>3. ASSUME NEW p \in Payments, DeleteBillPayment(p) PROVE Typed'
  <2>1. PICK b \in Bills : b = payment[p].doc
    BY <1>3 DEF DeleteBillPayment, LiveBills
  <2>2. payment[p].amount \in Nat /\ bill[b].paid \in Int
    BY DEF Typed, MoneyTyped, PaymentRows, RowsTyped, BillRows
  <2>3. BillStatus(b, bill[b].paid - payment[p].amount) \in {"POSTED", "PART_PAID", "PAID"}
    BY DEF BillStatus
  <2>4. bill' = [bill EXCEPT ![b] = [status |-> BillStatus(b, bill[b].paid - payment[p].amount),
                                     paid |-> bill[b].paid - payment[p].amount]]
    BY <1>3, <2>1 DEF DeleteBillPayment
  <2>5. RowsTyped'
    <3>1. bill' \in [Bills -> BillRows]
      BY <2>2, <2>3, <2>4 DEF Typed, RowsTyped, BillRows
    <3>2. \A x \in Bills : bill'[x].paid <= bill[x].paid
      BY <2>2, <2>4 DEF Typed, RowsTyped, BillRows
    <3>3. \A x \in Bills : bill'[x].paid <= TotalAmount[x]
      BY <3>1, <3>2, ConstantTypes DEF Typed, RowsTyped, BillRows
    <3> QED
      BY <1>3, <3>1, <3>3 DEF DeleteBillPayment, jobVars, Typed, RowsTyped
  <2>6. MoneyTyped'
    BY <1>3 DEF DeleteBillPayment, Typed, MoneyTyped, PaymentRows
  <2>7. BooksTyped'
    BY <1>3, PostTypes, ConstantTypes DEF DeleteBillPayment, Typed, BooksTyped
  <2> QED
    BY <1>3, <2>5, <2>6, <2>7 DEF DeleteBillPayment, Typed, HistoryTyped, CallsTyped, historyVars
<1> QED
  BY <1>1, <1>2, <1>3 DEF BillSteps

\* A payment of an expense is no more than its balance.
LEMMA RecordTypes ==
  ASSUME Typed, NEW e \in Expenses, NEW p \in Payments, NEW amount \in Nat,
         RecordExpensePayment(e, p, amount), UNCHANGED <<bill, jobVars>>
  PROVE  RowsTyped' /\ MoneyTyped'
<1>1. MoneyTyped'
  BY PayTypes, ConstantTypes DEF RecordExpensePayment, Pay
<1>2. RowsTyped'
  <2>1. expense[e] \in ExpenseRows /\ expense[e].paid + amount \in Nat
    BY DEF Typed, RowsTyped, ExpenseRows
  <2>2. \A x \in Expenses \ {e} : expense'[x] = expense[x]
    BY DEF RecordExpensePayment, Typed, RowsTyped
  <2>3. expense'[e] \in ExpenseRows
    BY <2>1 DEF RecordExpensePayment, Typed, RowsTyped, ExpenseRows
  <2>4. expense' \in [Expenses -> ExpenseRows]
    BY <2>2, <2>3 DEF RecordExpensePayment, Typed, RowsTyped
  <2> QED
    BY <2>4 DEF jobVars, Typed, RowsTyped
<1> QED
  BY <1>1, <1>2

LEMMA ExpenseStepsTyped == Typed /\ ExpenseSteps => Typed'
<1> SUFFICES ASSUME Typed, ExpenseSteps PROVE Typed'
  OBVIOUS
<1>1. ASSUME NEW e \in Expenses, NEW amount \in Amounts, NEW paid \in BOOLEAN,
             CreateExpense(e, amount, paid)
      PROVE Typed'
  <2>1. RowsTyped'
    BY <1>1, ConstantTypes DEF CreateExpense, jobVars, Typed, RowsTyped, ExpenseRows
  <2>2. BooksTyped'
    BY <1>1, ConstantTypes DEF CreateExpense, Typed, BooksTyped
  <2> QED
    BY <1>1, <2>1, <2>2 DEF CreateExpense, Typed, MoneyTyped, HistoryTyped, CallsTyped, payVars, historyVars
<1>2. ASSUME NEW e \in Expenses, NEW p \in Payments, NEW amount \in Amounts,
             MarkExpensePaid(e, p, amount) \/ PayExpense(e, p, amount)
      PROVE Typed'
  <2>1. RowsTyped' /\ MoneyTyped'
    BY <1>2, RecordTypes, ConstantTypes DEF MarkExpensePaid, PayExpense
  <2>2. BooksTyped'
    BY <1>2, ConstantTypes DEF MarkExpensePaid, PayExpense, Typed, BooksTyped
  <2> QED
    BY <1>2, <2>1, <2>2 DEF MarkExpensePaid, PayExpense, Typed, HistoryTyped, CallsTyped, historyVars
<1>3. ASSUME NEW r \in Refs, PostExpense(r) \/ LosePosting(r) PROVE Typed'
  <2>1. RowsTyped' /\ MoneyTyped' /\ CallsTyped'
    BY <1>3 DEF PostExpense, LosePosting, rowVars, payVars, Typed, RowsTyped, MoneyTyped, CallsTyped,
                PaymentRows
  <2>2. AmountOf(r) \in Nat
    BY DEF AmountOf, Refs, Typed, RowsTyped, MoneyTyped, ExpenseRows, PaymentRows
  <2>3. BooksTyped'
    BY <1>3, <2>2, PostTypes DEF PostExpense, LosePosting, Typed, BooksTyped
  <2>4. HistoryTyped'
    BY <1>3 DEF PostExpense, LosePosting, Typed, HistoryTyped
  <2> QED
    BY <2>1, <2>3, <2>4 DEF Typed
<1>4. ASSUME NEW c \in Calls, NEW e \in Expenses, NEW amount \in Amounts, ReadForEdit(c, e, amount)
      PROVE Typed'
  <2>1. CallsTyped'
    BY <1>4, ConstantTypes DEF ReadForEdit, Typed, CallsTyped, CallRows
  <2> QED
    BY <1>4, <2>1 DEF ReadForEdit, rowVars, payVars, historyVars, Typed, RowsTyped, MoneyTyped,
                      BooksTyped, HistoryTyped, PaymentRows
<1>5. ASSUME NEW c \in Calls, WriteEdit(c) PROVE Typed'
  <2>1. CallsTyped'
    BY <1>5, ConstantTypes DEF WriteEdit, Return, Typed, CallsTyped, Idle
  <2>2. call[c].amount \in Nat
    BY DEF Typed, CallsTyped, CallRows
  <2>3. RowsTyped'
    BY <1>5, <2>2 DEF WriteEdit, jobVars, Typed, RowsTyped, ExpenseRows
  <2>4. HistoryTyped'
    BY <1>5 DEF WriteEdit, Typed, HistoryTyped, CallsTyped
  <2> QED
    BY <1>5, <2>1, <2>3, <2>4 DEF WriteEdit, payVars, Typed, MoneyTyped, BooksTyped, PaymentRows
<1>6. ASSUME NEW e \in Expenses, DeleteExpense(e) PROVE Typed'
  <2>1. RowsTyped'
    BY <1>6 DEF DeleteExpense, jobVars, Typed, RowsTyped, ExpenseRows
  <2>2. MoneyTyped'
    BY <1>6 DEF DeleteExpense, Typed, MoneyTyped, PaymentRows
  <2>3. BooksTyped'
    BY <1>6, ConstantTypes DEF DeleteExpense, TakeBack, PaymentsOf, Typed, BooksTyped, BooksOver
  <2> QED
    BY <1>6, <2>1, <2>2, <2>3 DEF DeleteExpense, Typed, HistoryTyped, CallsTyped
<1> QED
  BY <1>1, <1>2, <1>3, <1>4, <1>5, <1>6 DEF ExpenseSteps

\* Requests that were overtaken keep what they are about.
LEMMA PaidOvertakes ==
  ASSUME Typed, NEW j \in Jobs
  PROVE  /\ Overtake(j, {"payout"}, "paid") \in [Calls -> CallRows]
         /\ \A c \in Calls :
              /\ Overtake(j, {"payout"}, "paid")[c].pc = call[c].pc
              /\ Overtake(j, {"payout"}, "paid")[c].doc = call[c].doc
              /\ Overtake(j, {"payout"}, "paid")[c].amount = call[c].amount
              /\ Overtake(j, {"payout"}, "paid")[c].since =
                   IF call[c].pc = "payout" /\ call[c].doc = j THEN call[c].since \cup {"paid"} ELSE call[c].since
<1> DEFINE new == [c \in Calls |-> IF call[c].pc \in {"payout"} /\ call[c].doc = j
                                    THEN [call[c] EXCEPT !.since = @ \cup {"paid"}] ELSE call[c]]
<1>1. ASSUME NEW c \in Calls
      PROVE  /\ new[c] \in CallRows
             /\ new[c].pc = call[c].pc /\ new[c].doc = call[c].doc /\ new[c].amount = call[c].amount
             /\ new[c].since = IF call[c].pc = "payout" /\ call[c].doc = j THEN call[c].since \cup {"paid"}
                               ELSE call[c].since
  <2>1. call[c] \in CallRows
    BY DEF Typed, CallsTyped
  <2>2. new[c] = IF call[c].pc = "payout" /\ call[c].doc = j
                 THEN [call[c] EXCEPT !.since = @ \cup {"paid"}] ELSE call[c]
    OBVIOUS
  <2> HIDE DEF new
  <2> QED
    BY <2>1, <2>2 DEF CallRows
<1>2. new \in [Calls -> CallRows]
  BY <1>1
<1>3. Overtake(j, {"payout"}, "paid") = new
  BY DEF Overtake
<1> HIDE DEF new
<1> QED
  BY <1>1, <1>2, <1>3

\* The same of an edit of the cost, which concerns every open payout of the job.
LEMMA CostOvertakes ==
  ASSUME Typed, NEW j \in Jobs
  PROVE  /\ Overtake(j, {"cost", "payout"}, "cost") \in [Calls -> CallRows]
         /\ \A c \in Calls :
              /\ Overtake(j, {"cost", "payout"}, "cost")[c].pc = call[c].pc
              /\ Overtake(j, {"cost", "payout"}, "cost")[c].doc = call[c].doc
              /\ Overtake(j, {"cost", "payout"}, "cost")[c].amount = call[c].amount
              /\ Overtake(j, {"cost", "payout"}, "cost")[c].since =
                   IF call[c].pc \in {"cost", "payout"} /\ call[c].doc = j THEN call[c].since \cup {"cost"} ELSE call[c].since
<1> DEFINE new == [c \in Calls |-> IF call[c].pc \in {"cost", "payout"} /\ call[c].doc = j
                                    THEN [call[c] EXCEPT !.since = @ \cup {"cost"}] ELSE call[c]]
<1>1. ASSUME NEW c \in Calls
      PROVE  /\ new[c] \in CallRows
             /\ new[c].pc = call[c].pc /\ new[c].doc = call[c].doc /\ new[c].amount = call[c].amount
             /\ new[c].since = IF call[c].pc \in {"cost", "payout"} /\ call[c].doc = j THEN call[c].since \cup {"cost"}
                               ELSE call[c].since
  <2>1. call[c] \in CallRows
    BY DEF Typed, CallsTyped
  <2>2. new[c] = IF call[c].pc \in {"cost", "payout"} /\ call[c].doc = j
                 THEN [call[c] EXCEPT !.since = @ \cup {"cost"}] ELSE call[c]
    OBVIOUS
  <2> HIDE DEF new
  <2> QED
    BY <2>1, <2>2 DEF CallRows
<1>2. new \in [Calls -> CallRows]
  BY <1>1
<1>3. Overtake(j, {"cost", "payout"}, "cost") = new
  BY DEF Overtake
<1> HIDE DEF new
<1> QED
  BY <1>1, <1>2, <1>3

\* A request that is done with a job is idle or goes on with its bucket.
LEMMA FinishTypes ==
  ASSUME Typed, NEW c \in Calls, NEW calls \in [Calls -> CallRows],
         \A k \in Calls : calls[k].pc = call[k].pc /\ calls[k].doc = call[k].doc,
         call' = Finish(calls, c)
  PROVE  /\ CallsTyped'
         /\ call'[c].pc \in {"idle", "bulk"}
         /\ \A k \in Calls \ {c} : call'[k] = calls[k]
<1> DEFINE left == {r \in call[c].todo : r.doc # call[c].doc}
<1> DEFINE rest == IF left = {} THEN Idle ELSE [Idle EXCEPT !.pc = "bulk", !.todo = left]
<1>1. left \subseteq Owed
  BY DEF Typed, CallsTyped, CallRows
<1>2. rest \in CallRows /\ rest.pc \in {"idle", "bulk"}
  BY <1>1, ConstantTypes DEF Idle, CallRows
<1>3. call' = [calls EXCEPT ![c] = rest]
  BY DEF Finish
<1> HIDE DEF left, rest
<1>4. call'[c] = rest /\ \A k \in Calls \ {c} : call'[k] = calls[k]
  BY <1>3
<1>5. call' \in [Calls -> CallRows]
  BY <1>2, <1>3
<1> QED
  BY <1>2, <1>4, <1>5 DEF Typed, CallsTyped

\* The same of a request that has paid a technician.
LEMMA FinishPaid ==
  ASSUME Typed, NEW j \in Jobs, NEW c \in Calls, call' = Finish(Overtake(j, {"payout"}, "paid"), c)
  PROVE  /\ CallsTyped'
         /\ call'[c].pc \in {"idle", "bulk"}
         /\ \A k \in Calls \ {c} : call'[k] = Overtake(j, {"payout"}, "paid")[k]
<1> DEFINE calls == Overtake(j, {"payout"}, "paid")
<1>1. /\ calls \in [Calls -> CallRows]
      /\ \A k \in Calls : calls[k].pc = call[k].pc /\ calls[k].doc = call[k].doc
  BY PaidOvertakes
<1>2. call' = Finish(calls, c)
  OBVIOUS
<1>3. calls = Overtake(j, {"payout"}, "paid")
  OBVIOUS
<1> HIDE DEF calls
<1>4. CallsTyped' /\ call'[c].pc \in {"idle", "bulk"} /\ \A k \in Calls \ {c} : call'[k] = calls[k]
  BY <1>1, <1>2, FinishTypes
<1> QED
  BY <1>3, <1>4

LEMMA TechnicianStepsTyped == Typed /\ TechnicianSteps => Typed'
<1> SUFFICES ASSUME Typed, TechnicianSteps PROVE Typed'
  OBVIOUS
<1>1. ASSUME NEW j \in Jobs, NEW amount \in Costs, NEW paid \in BOOLEAN, UpdateJob(j, amount, paid)
      PROVE Typed'
  <2>1. RowsTyped'
    BY <1>1 DEF UpdateJob, Typed, RowsTyped
  <2>2. MoneyTyped' /\ BooksTyped'
    BY <1>1 DEF UpdateJob, payVars, Typed, MoneyTyped, BooksTyped, PaymentRows
  <2>3. HistoryTyped'
    BY <1>1, ConstantTypes DEF UpdateJob, Typed, HistoryTyped
  <2>4. CallsTyped'
    <3>1. CASE amount = cost[j]
      BY <1>1, <3>1 DEF UpdateJob, Typed, CallsTyped
    <3>2. CASE amount # cost[j]
      <4>1. call' = Overtake(j, {"cost", "payout"}, "cost")
        BY <1>1, <3>2 DEF UpdateJob
      <4> QED
        BY <4>1, CostOvertakes DEF Typed, CallsTyped
    <3> QED
      BY <3>1, <3>2
  <2> QED
    BY <2>1, <2>2, <2>3, <2>4 DEF Typed
<1>2. ASSUME NEW c \in Calls, NEW p \in Payments, NEW amount \in Amounts, NEW confirmed \in BOOLEAN,
             RecordPayout(c, p, amount, confirmed)
      PROVE Typed'
  <2>1. PICK j \in Jobs : j = call[c].doc
    BY <1>2 DEF RecordPayout, Typed, CallsTyped
  <2>2. MoneyTyped'
    BY <1>2, <2>1, PayTypes, ConstantTypes DEF RecordPayout, Pay
  <2>3. BooksTyped'
    BY <1>2, PostTypes, ConstantTypes DEF RecordPayout, Typed, BooksTyped
  <2>4. call' = Finish(Overtake(j, {"payout"}, "paid"), c)
    BY <1>2, <2>1 DEF RecordPayout
  <2>5. CallsTyped'
    BY <2>4, FinishPaid
  <2>6. RowsTyped' /\ HistoryTyped'
    BY <1>2, <2>1 DEF RecordPayout, Typed, RowsTyped, HistoryTyped
  <2> QED
    BY <2>2, <2>3, <2>5, <2>6 DEF Typed
<1>3. ASSUME NEW c \in Calls, NEW j \in Jobs, ReadCost(c, j) PROVE Typed'
  <2>1. cost[j] \in Nat /\ j \in Docs
    BY SumsTyped, ConstantTypes
  <2>2. CallsTyped'
    BY <1>3, <2>1 DEF ReadCost, Typed, CallsTyped, CallRows, Idle
  <2> QED
    BY <1>3, <2>2 DEF ReadCost, rowVars, payVars, historyVars, Typed, RowsTyped, MoneyTyped,
                      BooksTyped, HistoryTyped, PaymentRows
<1>4. ASSUME NEW c \in Calls, ReadPaid(c) PROVE Typed'
  <2>1. CallsTyped'
    <3>1. call[c] \in CallRows /\ call[c].doc \in Jobs /\ PaidFor(call[c].doc) \in Nat
      BY <1>4, SumsTyped DEF ReadPaid, Typed, CallsTyped
    <3>2. Left(call[c].amount, PaidFor(call[c].doc)) \in Nat
      BY <3>1 DEF Left, CallRows
    <3>3. CASE call' = Finish(call, c)
      BY <3>3, FinishTypes DEF Typed, CallsTyped
    <3>4. CASE call' = [call EXCEPT ![c].pc = "payout",
                                    ![c].amount = Left(call[c].amount, PaidFor(call[c].doc))]
      BY <3>1, <3>2, <3>4 DEF Typed, CallsTyped, CallRows
    <3> QED
      BY <1>4, <3>3, <3>4 DEF ReadPaid
  <2> QED
    BY <1>4, <2>1 DEF ReadPaid, rowVars, payVars, historyVars, Typed, RowsTyped, MoneyTyped,
                      BooksTyped, HistoryTyped, PaymentRows
<1>5. ASSUME NEW c \in Calls, NEW p \in Payments, PayOut(c, p) PROVE Typed'
  <2>1. call[c].amount \in Nat /\ call[c].doc \in Docs
    BY DEF Typed, CallsTyped, CallRows
  <2>2. PICK j \in Jobs : j = call[c].doc
    BY <1>5 DEF PayOut, Typed, CallsTyped
  <2>3. MoneyTyped'
    <3>1. CASE call[c].amount = 0
      BY <1>5, <3>1 DEF PayOut, payVars, Typed, MoneyTyped, PaymentRows
    <3>2. CASE call[c].amount # 0
      BY <1>5, <2>1, <3>2, PayTypes DEF PayOut, Pay
    <3> QED
      BY <3>1, <3>2
  <2>4. BooksTyped'
    BY <1>5, <2>1, PostTypes, ConstantTypes DEF PayOut, Typed, BooksTyped
  <2>5. CallsTyped'
    <3>1. CASE call' = Finish(call, c)
      BY <3>1, FinishTypes DEF Typed, CallsTyped
    <3>2. CASE call' = Finish(Overtake(j, {"payout"}, "paid"), c)
      BY <3>2, FinishPaid
    <3> QED
      BY <1>5, <2>2, <3>1, <3>2 DEF PayOut
  <2>6. RowsTyped' /\ HistoryTyped'
    BY <1>5, <2>2 DEF PayOut, Typed, RowsTyped, HistoryTyped
  <2> QED
    BY <2>3, <2>4, <2>5, <2>6 DEF Typed
<1> QED
  BY <1>1, <1>2, <1>3, <1>4, <1>5 DEF TechnicianSteps

\* What payBucketAction lists is owed, and by now.
LEMMA ListedTypes == Typed => Listed \subseteq Owed
<1> SUFFICES ASSUME Typed, NEW r \in Listed PROVE r \in Owed
  OBVIOUS
<1>1. ASSUME NEW b \in Bills PROVE b \in Docs /\ TotalAmount[b] - bill[b].paid \in Nat
  BY ConstantTypes DEF Typed, RowsTyped, BillRows
<1>2. ASSUME NEW e \in Expenses, expense[e].paid < expense[e].amount
      PROVE  e \in Docs /\ expense[e].amount - expense[e].paid \in Nat
  BY <1>2, ConstantTypes DEF Typed, RowsTyped, ExpenseRows
<1>3. ASSUME NEW j \in Jobs PROVE j \in Docs /\ Due(j) \in Nat
  BY SumsTyped, ConstantTypes
<1> QED
  BY <1>1, <1>2, <1>3 DEF Listed, LiveBills, Owed

\* A request that is done with a row keeps the rest of its list.
LEMMA DoneTypes ==
  ASSUME Typed, NEW c \in Calls, NEW r \in call[c].todo, Done(c, r), call[c].pc = "bulk"
  PROVE  CallsTyped'
<1> DEFINE rest == [call[c] EXCEPT !.todo = call[c].todo \ {r}]
<1>1. rest \in CallRows /\ rest.pc = "bulk"
  BY DEF Typed, CallsTyped, CallRows
<1>2. call' = [call EXCEPT ![c] = IF call[c].todo = {r} THEN Idle ELSE rest]
  BY DEF Done
<1> HIDE DEF rest
<1> QED
  BY <1>1, <1>2, ConstantTypes DEF Typed, CallsTyped, Idle

LEMMA BucketStepsTyped == Typed /\ BucketSteps => Typed'
<1> SUFFICES ASSUME Typed, BucketSteps PROVE Typed'
  OBVIOUS
<1>1. ASSUME NEW c \in Calls, NEW bucket \in Buckets, ListBucket(c, bucket) PROVE Typed'
  <2>1. {r \in Listed : r.doc \in bucket} \subseteq Owed
    BY ListedTypes
  <2>2. CallsTyped'
    BY <1>1, <2>1, ConstantTypes DEF ListBucket, Typed, CallsTyped, CallRows, Idle
  <2> QED
    BY <1>1, <2>2 DEF ListBucket, rowVars, payVars, historyVars, Typed, RowsTyped, MoneyTyped,
                      BooksTyped, HistoryTyped, PaymentRows
<1>2. ASSUME NEW c \in Calls, NEW p \in Payments, NEW r \in call[c].todo, BulkPayBill(c, r, p)
      PROVE Typed'
  <2>1. r.doc \in Bills /\ r.amount \in Nat
    BY <1>2 DEF BulkPayBill, LiveBills, Typed, CallsTyped, CallRows, Owed
  <2>2. /\ Capped(r.doc, r.amount) \in Nat
        /\ Capped(r.doc, r.amount) <= TotalAmount[r.doc] - bill[r.doc].paid
    BY <1>2, <2>1, ConstantTypes DEF BulkPayBill, Capped, Typed, RowsTyped, BillRows
  <2>3. RowsTyped' /\ MoneyTyped' /\ BooksTyped'
    BY <1>2, <2>1, <2>2, SettleTypes, ConstantTypes DEF BulkPayBill
  <2>4. CallsTyped'
    BY <1>2, DoneTypes DEF BulkPayBill, IsNext
  <2> QED
    BY <1>2, <2>3, <2>4 DEF BulkPayBill, Typed, HistoryTyped
<1>3. ASSUME NEW c \in Calls, NEW p \in Payments, NEW r \in call[c].todo, BulkPayExpense(c, r, p)
      PROVE Typed'
  <2>1. r.doc \in Expenses /\ r.amount \in Nat
    BY <1>3 DEF BulkPayExpense, Typed, CallsTyped, CallRows, Owed
  <2>2. RowsTyped' /\ MoneyTyped'
    BY <1>3, <2>1, RecordTypes DEF BulkPayExpense
  <2>3. CallsTyped'
    BY <1>3, DoneTypes DEF BulkPayExpense, IsNext
  <2> QED
    BY <1>3, <2>2, <2>3 DEF BulkPayExpense, Typed, HistoryTyped, BooksTyped
<1>4. ASSUME NEW c \in Calls, NEW r \in call[c].todo, BulkReadCost(c, r) PROVE Typed'
  <2>1. r.doc \in Jobs /\ cost[r.doc] \in Nat /\ r.doc \in Docs /\ call[c].todo \subseteq Owed
    BY <1>4, SumsTyped, ConstantTypes DEF BulkReadCost, Typed, CallsTyped, CallRows
  <2>2. CallsTyped'
    BY <1>4, <2>1 DEF BulkReadCost, Idle, Typed, CallsTyped, CallRows
  <2> QED
    BY <1>4, <2>2 DEF BulkReadCost, rowVars, payVars, historyVars, Typed, RowsTyped, MoneyTyped,
                      BooksTyped, HistoryTyped, PaymentRows
<1>5. ASSUME NEW c \in Calls, NEW r \in call[c].todo, BulkSkip(c, r) PROVE Typed'
  <2>1. CallsTyped'
    BY <1>5, DoneTypes DEF BulkSkip, IsNext
  <2> QED
    BY <1>5, <2>1 DEF BulkSkip, rowVars, payVars, historyVars, Typed, RowsTyped, MoneyTyped,
                      BooksTyped, HistoryTyped, PaymentRows
<1>6. ASSUME NEW c \in Calls, EndCall(c) PROVE Typed'
  <2>1. CallsTyped'
    BY <1>6, ConstantTypes DEF EndCall, Return, Typed, CallsTyped, Idle
  <2> QED
    BY <1>6, <2>1 DEF EndCall, rowVars, payVars, historyVars, Typed, RowsTyped, MoneyTyped,
                      BooksTyped, HistoryTyped, PaymentRows
<1> QED
  BY <1>1, <1>2, <1>3, <1>4, <1>5, <1>6 DEF BucketSteps

LEMMA TypedAlways == Spec => []Typed
<1>1. Typed /\ [Next]_vars => Typed'
  <2> SUFFICES ASSUME Typed, [Next]_vars PROVE Typed'
    OBVIOUS
  <2>1. ASSUME NEW p \in Payments, WindowPasses(p) PROVE Typed'
    BY <2>1 DEF WindowPasses, rowVars, historyVars, Typed, RowsTyped, MoneyTyped, BooksTyped,
                HistoryTyped, CallsTyped
  <2> QED
    BY <2>1, StutterTyped, BillStepsTyped, ExpenseStepsTyped, TechnicianStepsTyped,
       BucketStepsTyped DEF Next
<1> QED
  BY <1>1, InitTyped, PTL DEF Spec

\* Every variable holds what the schema and the handlers' locals can hold.
THEOREM TypeCorrect == Spec => []TypeOK
BY TypedAlways, TypedImplies, PTL

-----------------------------------------------------------------------------
(* What a step does to the sums of bills, expenses and jobs *)

SumsKept(docs) == \A d \in docs : PaidFor(d)' = PaidFor(d)
BillsKept == UNCHANGED bill /\ SumsKept(Bills)
ExpensesKept == UNCHANGED expense /\ SumsKept(Expenses)
JobsKept == UNCHANGED jobVars /\ SumsKept(Jobs)

LEMMA NothingPaid == ASSUME UNCHANGED payment, NEW docs PROVE SumsKept(docs)
BY DEF SumsKept, PaidFor, PaymentsOf

LEMMA PayAdds ==
  ASSUME Typed, NEW p \in Payments, NEW d \in Docs, NEW amount \in Nat, NEW rate \in Nat,
         PayAt(p, d, amount, rate)
  PROVE  /\ PaidFor(d)' = PaidFor(d) + amount
         /\ \A x : x # d => PaidFor(x)' = PaidFor(x)
<1>1. payment \in PaymentRows
  BY DEF Typed, MoneyTyped
<1>2. /\ payment[p].state # "live"
      /\ payment' = WithPayment(payment, p, d, amount, rate)
  BY DEF PayAt, WithPayment
<1>3. /\ SumFor(payment', d) = SumFor(payment, d) + amount
      /\ \A x : x # d => SumFor(payment', x) = SumFor(payment, x)
  BY <1>1, <1>2, Added
<1> QED
  BY <1>3, PaidIsSum

LEMMA DeletionTakes ==
  ASSUME Typed, NEW p \in Payments, DeleteBillPayment(p), NEW d, d = payment[p].doc
  PROVE  /\ d \in Bills /\ payment[p].amount \in Nat
         /\ PaidFor(d) = PaidFor(d)' + payment[p].amount
         /\ \A x : x # d => PaidFor(x)' = PaidFor(x)
<1>1. payment \in PaymentRows
  BY DEF Typed, MoneyTyped
<1>2. payment[p].state = "live" /\ payment' = Without(payment, p)
  BY DEF DeleteBillPayment, Without
<1>3. /\ SumFor(payment, d) = SumFor(payment', d) + payment[p].amount
      /\ \A x : x # d => SumFor(payment', x) = SumFor(payment, x)
  BY <1>1, <1>2, Removed
<1>4. d \in Bills /\ payment[p].amount \in Nat
  BY <1>1 DEF DeleteBillPayment, LiveBills, PaymentRows
<1> QED
  BY <1>3, <1>4, PaidIsSum

LEMMA ExpenseDeletionTakes ==
  ASSUME Typed, NEW e \in Expenses, DeleteExpense(e)
  PROVE  PaidFor(e)' = 0 /\ \A x : x # e => PaidFor(x)' = PaidFor(x)
<1>1. LiveOf(payment', e) = {}
  BY DEF LiveOf, DeleteExpense, PaymentsOf, Typed, MoneyTyped, PaymentRows
<1>2. PaidFor(e)' = 0
  BY <1>1, NoUnits, PaidIsSum DEF SumFor
<1>3. ASSUME NEW x, x # e PROVE PaidFor(x)' = PaidFor(x)
  <2>1. LiveOf(payment', x) = LiveOf(payment, x)
    BY <1>3 DEF LiveOf, DeleteExpense, PaymentsOf, Typed, MoneyTyped, PaymentRows
  <2>2. \A q \in LiveOf(payment, x) : payment'[q].amount = payment[q].amount
    BY <1>3 DEF LiveOf, DeleteExpense, PaymentsOf, Typed, MoneyTyped, PaymentRows
  <2> QED
    BY <2>1, <2>2, SameSum, PaidIsSum
<1> QED
  BY <1>2, <1>3

LEMMA BillStepsKeep == Typed /\ BillSteps => ExpensesKept /\ JobsKept
<1> SUFFICES ASSUME Typed, BillSteps PROVE ExpensesKept /\ JobsKept
  OBVIOUS
<1>1. ASSUME NEW b \in Bills, CreateBill(b) \/ CancelBill(b) PROVE ExpensesKept /\ JobsKept
  BY <1>1, NothingPaid DEF CreateBill, CancelBill, payVars, ExpensesKept, JobsKept
<1>2. ASSUME NEW b \in Bills, NEW p \in Payments, NEW amount \in Amounts, NEW rate,
             PayBill(b, p, amount, rate)
      PROVE ExpensesKept /\ JobsKept
  <2>1. rate \in Nat
    BY <1>2, ConstantTypes DEF PayBill
  <2> QED
    BY <1>2, <2>1, PayAdds, ConstantTypes DEF PayBill, SettleBill, ExpensesKept, JobsKept, SumsKept
<1>3. ASSUME NEW p \in Payments, DeleteBillPayment(p) PROVE ExpensesKept /\ JobsKept
  BY <1>3, DeletionTakes, ConstantTypes DEF DeleteBillPayment, ExpensesKept, JobsKept, SumsKept
<1> QED
  BY <1>1, <1>2, <1>3 DEF BillSteps

LEMMA ExpenseStepsKeep == Typed /\ ExpenseSteps => BillsKept /\ JobsKept
<1> SUFFICES ASSUME Typed, ExpenseSteps PROVE BillsKept /\ JobsKept
  OBVIOUS
<1>1. ASSUME NEW e \in Expenses, NEW amount \in Amounts, NEW paid \in BOOLEAN,
             CreateExpense(e, amount, paid)
      PROVE BillsKept /\ JobsKept
  BY <1>1, NothingPaid DEF CreateExpense, payVars, BillsKept, JobsKept
<1>2. ASSUME NEW e \in Expenses, NEW p \in Payments, NEW amount \in Amounts,
             MarkExpensePaid(e, p, amount) \/ PayExpense(e, p, amount)
      PROVE BillsKept /\ JobsKept
  BY <1>2, PayAdds, ConstantTypes DEF MarkExpensePaid, PayExpense, RecordExpensePayment, Pay,
                                      BillsKept, JobsKept, SumsKept
<1>3. ASSUME NEW r \in Refs, PostExpense(r) \/ LosePosting(r) PROVE BillsKept /\ JobsKept
  BY <1>3, NothingPaid DEF PostExpense, LosePosting, rowVars, jobVars, payVars, BillsKept, JobsKept
<1>4. ASSUME NEW c \in Calls, NEW e \in Expenses, NEW amount \in Amounts, ReadForEdit(c, e, amount)
      PROVE BillsKept /\ JobsKept
  BY <1>4, NothingPaid DEF ReadForEdit, rowVars, jobVars, payVars, BillsKept, JobsKept
<1>5. ASSUME NEW c \in Calls, WriteEdit(c) PROVE BillsKept /\ JobsKept
  BY <1>5, NothingPaid DEF WriteEdit, payVars, BillsKept, JobsKept
<1>6. ASSUME NEW e \in Expenses, DeleteExpense(e) PROVE BillsKept /\ JobsKept
  BY <1>6, ExpenseDeletionTakes, ConstantTypes DEF DeleteExpense, BillsKept, JobsKept, SumsKept
<1> QED
  BY <1>1, <1>2, <1>3, <1>4, <1>5, <1>6 DEF ExpenseSteps

LEMMA TechnicianStepsKeep == Typed /\ TechnicianSteps => BillsKept /\ ExpensesKept
<1> SUFFICES ASSUME Typed, TechnicianSteps PROVE BillsKept /\ ExpensesKept
  OBVIOUS
<1>1. ASSUME NEW j \in Jobs, NEW amount \in Costs, NEW paid \in BOOLEAN, UpdateJob(j, amount, paid)
      PROVE BillsKept /\ ExpensesKept
  BY <1>1, NothingPaid DEF UpdateJob, payVars, BillsKept, ExpensesKept
<1>2. ASSUME NEW c \in Calls, NEW p \in Payments, NEW amount \in Amounts, NEW confirmed \in BOOLEAN,
             RecordPayout(c, p, amount, confirmed)
      PROVE BillsKept /\ ExpensesKept
  <2>1. call[c].doc \in Jobs
    BY <1>2 DEF RecordPayout, Typed, CallsTyped
  <2> QED
    BY <1>2, <2>1, PayAdds, ConstantTypes DEF RecordPayout, Pay, BillsKept, ExpensesKept, SumsKept
<1>3. ASSUME NEW c \in Calls, ReadPaid(c) \/ \E j \in Jobs : ReadCost(c, j) PROVE BillsKept /\ ExpensesKept
  BY <1>3, NothingPaid DEF ReadPaid, ReadCost, rowVars, payVars, BillsKept, ExpensesKept
<1>4. ASSUME NEW c \in Calls, NEW p \in Payments, PayOut(c, p) PROVE BillsKept /\ ExpensesKept
  <2>1. call[c].amount \in Nat /\ call[c].doc \in Jobs
    BY <1>4 DEF PayOut, Typed, CallsTyped, CallRows
  <2>2. CASE call[c].amount = 0
    BY <1>4, <2>2, NothingPaid DEF PayOut, payVars, BillsKept, ExpensesKept
  <2>3. CASE call[c].amount # 0
    BY <1>4, <2>1, <2>3, PayAdds, ConstantTypes DEF PayOut, Pay, BillsKept, ExpensesKept, SumsKept
  <2> QED
    BY <2>2, <2>3
<1> QED
  BY <1>1, <1>2, <1>3, <1>4 DEF TechnicianSteps

\* Of the bucket's steps two pay, one a bill and one an expense.
LEMMA BucketStepsKeep ==
  ASSUME Typed, BucketSteps
  PROVE  /\ JobsKept
         /\ \/ BillsKept
            \/ \E c \in Calls, p \in Payments : \E r \in call[c].todo : BulkPayBill(c, r, p)
         /\ \/ ExpensesKept
            \/ \E c \in Calls, p \in Payments : \E r \in call[c].todo : BulkPayExpense(c, r, p)
<1>1. ASSUME NEW c \in Calls, NEW r \in call[c].todo
      PROVE  r.amount \in Nat /\ r.doc \in Docs
  BY DEF Typed, CallsTyped, CallRows, Owed
<1>2. ASSUME NEW c \in Calls, NEW p \in Payments, NEW r \in call[c].todo, BulkPayBill(c, r, p)
      PROVE  JobsKept /\ ExpensesKept
  <2>1. r.doc \in Bills /\ Capped(r.doc, r.amount) \in Nat
    BY <1>1, <1>2, ConstantTypes DEF BulkPayBill, LiveBills, Capped, Typed, RowsTyped, BillRows
  <2> QED
    BY <1>2, <2>1, PayAdds, ConstantTypes DEF BulkPayBill, SettleBill, JobsKept, ExpensesKept, SumsKept
<1>3. ASSUME NEW c \in Calls, NEW p \in Payments, NEW r \in call[c].todo, BulkPayExpense(c, r, p)
      PROVE  JobsKept /\ BillsKept
  BY <1>1, <1>3, PayAdds, ConstantTypes DEF BulkPayExpense, RecordExpensePayment, Pay, JobsKept, BillsKept,
                                            SumsKept
<1>4. ASSUME UNCHANGED <<rowVars, payVars>> PROVE JobsKept /\ BillsKept /\ ExpensesKept
  BY <1>4, NothingPaid DEF rowVars, jobVars, payVars, JobsKept, BillsKept, ExpensesKept
<1> QED
  BY <1>2, <1>3, <1>4 DEF BucketSteps, ListBucket, BulkReadCost, BulkSkip, EndCall

-----------------------------------------------------------------------------
(* Supplier bills *)

BillAddsUp(b) ==
    /\ bill[b].paid = PaidFor(b)
    /\ bill[b].paid <= TotalAmount[b]
    /\ bill[b].status \in {"NONE", "CANCELLED", BillStatus(b, bill[b].paid)}
    /\ b \notin LiveBills => bill[b].paid = 0

LEMMA BillsOneByOne == BillsAddUp <=> \A b \in Bills : BillAddsUp(b)
BY DEF BillsAddUp, BillAddsUp

LEMMA KeptBill ==
  ASSUME NEW b \in Bills, BillAddsUp(b), bill'[b] = bill[b], PaidFor(b)' = PaidFor(b)
  PROVE  BillAddsUp(b)'
BY DEF BillAddsUp, BillStatus, LiveBills

\* One payment more, within what is left of a live bill.
LEMMA SettledBill ==
  ASSUME Typed, NEW b \in LiveBills, NEW p \in Payments, NEW amount \in Nat,
         NEW rate \in Nat, NEW posted,
         amount <= TotalAmount[b] - bill[b].paid, SettleBill(b, p, amount, rate, posted),
         \A x \in Bills : BillAddsUp(x)
  PROVE  \A x \in Bills : BillAddsUp(x)'
<1>1. b \in Bills /\ b \in Docs /\ TotalAmount[b] \in Nat
  BY ConstantTypes DEF LiveBills
<1>2. PaidFor(b)' = PaidFor(b) + amount /\ \A x : x # b => PaidFor(x)' = PaidFor(x)
  BY <1>1, PayAdds DEF SettleBill
<1>3. ASSUME NEW x \in Bills, x # b PROVE BillAddsUp(x)'
  <2>1. bill'[x] = bill[x]
    BY <1>1, <1>3 DEF SettleBill, Typed, RowsTyped
  <2> QED
    BY <1>2, <1>3, <2>1, KeptBill
<1>4. BillAddsUp(b)'
  <2>1. /\ bill'[b].paid = bill[b].paid + amount
        /\ bill'[b].status = BillStatus(b, bill'[b].paid)
    BY <1>1 DEF SettleBill, Typed, RowsTyped, BillRows
  <2>2. bill'[b].paid = PaidFor(b)' /\ bill'[b].paid <= TotalAmount[b]
    BY <1>1, <1>2, <2>1 DEF BillAddsUp, Typed, RowsTyped, BillRows
  <2>3. bill'[b].status \notin {"NONE", "CANCELLED"}
    BY <2>1 DEF BillStatus
  <2> QED
    BY <1>1, <2>1, <2>2, <2>3 DEF BillAddsUp, LiveBills, BillStatus
<1> QED
  BY <1>3, <1>4

LEMMA BillsStep == Typed /\ BillsAddUp /\ [Next]_vars => BillsAddUp'
<1> SUFFICES ASSUME Typed, \A x \in Bills : BillAddsUp(x), [Next]_vars
             PROVE  \A x \in Bills : BillAddsUp(x)'
  BY DEF BillsAddUp, BillAddsUp
<1>1. CASE BillsKept
  BY <1>1, KeptBill DEF BillsKept, SumsKept
<1>2. ASSUME NEW b \in Bills, CreateBill(b) \/ CancelBill(b) PROVE \A x \in Bills : BillAddsUp(x)'
  <2>1. \A x \in Bills : PaidFor(x)' = PaidFor(x)
    BY <1>2, NothingPaid DEF CreateBill, CancelBill, payVars, SumsKept
  <2>2. bill[b].paid = 0 /\ TotalAmount[b] \in Nat
    BY <1>2, ConstantTypes DEF CreateBill, CancelBill, Cancellable, BillAddsUp, LiveBills
  <2>3. bill' \in [Bills -> BillRows] /\ bill'[b].paid = 0 /\ bill'[b].status \in {"POSTED", "CANCELLED"}
    BY <1>2, <2>2 DEF CreateBill, CancelBill, Typed, RowsTyped, BillRows
  <2>4. BillAddsUp(b)'
    BY <2>1, <2>2, <2>3 DEF BillAddsUp, BillStatus, LiveBills
  <2>5. \A x \in Bills \ {b} : bill'[x] = bill[x]
    BY <1>2 DEF CreateBill, CancelBill, Typed, RowsTyped
  <2> QED
    BY <2>1, <2>4, <2>5, KeptBill
<1>3. ASSUME NEW b \in Bills, NEW p \in Payments, NEW amount \in Amounts, NEW rate,
             PayBill(b, p, amount, rate)
      PROVE \A x \in Bills : BillAddsUp(x)'
  <2>1. rate \in Nat
    BY <1>3, ConstantTypes DEF PayBill
  <2> QED
    BY <1>3, <2>1, SettledBill, ConstantTypes DEF PayBill
<1>4. ASSUME NEW p \in Payments, DeleteBillPayment(p) PROVE \A x \in Bills : BillAddsUp(x)'
  <2>1. PICK b \in Bills : b = payment[p].doc
    BY <1>4 DEF DeleteBillPayment, LiveBills
  <2>2. /\ payment[p].amount \in Nat
        /\ PaidFor(b) = PaidFor(b)' + payment[p].amount
        /\ \A x : x # b => PaidFor(x)' = PaidFor(x)
    BY <1>4, <2>1, DeletionTakes
  <2>3. PaidFor(b)' \in Nat
    <3>1. payment' = Without(payment, p) /\ payment[p].state = "live"
      BY <1>4 DEF DeleteBillPayment, Without
    <3>2. payment' \in PaymentRows
      BY <3>1, Removed DEF Typed, MoneyTyped
    <3> QED
      BY <3>2, SumType, PaidIsSum
  <2>4. /\ bill'[b].paid = bill[b].paid - payment[p].amount
        /\ bill'[b].status = BillStatus(b, bill'[b].paid)
        /\ \A x \in Bills \ {b} : bill'[x] = bill[x]
    BY <1>4, <2>1 DEF DeleteBillPayment, Typed, RowsTyped, BillRows
  <2>5. bill'[b].status \notin {"NONE", "CANCELLED"}
    BY <2>4 DEF BillStatus
  <2>6. bill'[b].paid = PaidFor(b)' /\ bill'[b].paid <= TotalAmount[b]
    BY <2>2, <2>3, <2>4, ConstantTypes DEF BillAddsUp, Typed, RowsTyped, BillRows
  <2>7. BillAddsUp(b)'
    BY <2>4, <2>5, <2>6 DEF BillAddsUp, LiveBills, BillStatus
  <2> QED
    BY <2>2, <2>4, <2>7, KeptBill
<1>5. ASSUME NEW c \in Calls, NEW p \in Payments, NEW r \in call[c].todo, BulkPayBill(c, r, p)
      PROVE \A x \in Bills : BillAddsUp(x)'
  <2>1. r.doc \in LiveBills /\ r.doc \in Bills /\ r.amount \in Nat
    BY <1>5 DEF BulkPayBill, LiveBills, Typed, CallsTyped, CallRows, Owed
  <2>2. /\ Capped(r.doc, r.amount) \in Nat
        /\ Capped(r.doc, r.amount) <= TotalAmount[r.doc] - bill[r.doc].paid
    BY <1>5, <2>1, ConstantTypes DEF BulkPayBill, Capped, Typed, RowsTyped, BillRows
  <2> QED
    BY <1>5, <2>1, <2>2, SettledBill, ConstantTypes DEF BulkPayBill
<1>6. ASSUME UNCHANGED <<bill, payment>> PROVE BillsKept
  BY <1>6, NothingPaid DEF BillsKept
<1>7. CASE BillSteps
  BY <1>2, <1>3, <1>4, <1>7 DEF BillSteps
<1>8. CASE BucketSteps
  BY <1>1, <1>5, <1>8, BucketStepsKeep
<1>9. CASE UNCHANGED vars \/ \E p \in Payments : WindowPasses(p)
  BY <1>1, <1>6, <1>9 DEF vars, WindowPasses, rowVars
<1> QED
  BY <1>1, <1>7, <1>8, <1>9, ExpenseStepsKeep, TechnicianStepsKeep DEF Next

\* However a bill is paid, unpaid and bulk-paid at once, its rollup is the sum of
\* its payments, its status follows the rollup, it is never overpaid, and a
\* cancelled bill has no payment.
THEOREM BillsCorrect == Spec => []BillsAddUp
<1>1. Init => BillsAddUp
  <2> SUFFICES ASSUME Init PROVE BillsAddUp
    OBVIOUS
  <2>1. \A d : PaymentsOf(d) = {}
    BY DEF Init, PaymentsOf, NoPayment
  <2>2. \A d : PaidFor(d) = 0
    BY <2>1, NoUnits DEF PaidFor
  <2> QED
    BY <2>2, ConstantTypes DEF Init, BillsAddUp, LiveBills
<1> QED
  BY <1>1, BillsStep, TypedAlways, PTL DEF Spec

-----------------------------------------------------------------------------
(* External technicians *)

\* What a step does to the jobs: nothing, or it is a save or a payout.
LEMMA JobsPaid ==
  ASSUME Typed, [Next]_vars
  PROVE  \/ JobsKept /\ UNCHANGED <<atOdds, agreed>>
         \/ \E j \in Jobs, amount \in Costs, paid \in BOOLEAN : UpdateJob(j, amount, paid)
         \/ \E c \in Calls, p \in Payments, amount \in Amounts, confirmed \in BOOLEAN :
                RecordPayout(c, p, amount, confirmed)
         \/ \E c \in Calls, p \in Payments : PayOut(c, p)
<1>1. ASSUME UNCHANGED <<cost, settled, payment>> PROVE JobsKept
  BY <1>1, NothingPaid DEF JobsKept, jobVars
<1>2. CASE BillSteps
  <2>1. UNCHANGED <<atOdds, agreed>>
    BY <1>2 DEF BillSteps, CreateBill, CancelBill, PayBill, DeleteBillPayment, historyVars
  <2> QED
    BY <1>2, <2>1, BillStepsKeep
<1>3. CASE ExpenseSteps
  <2>1. UNCHANGED <<atOdds, agreed>>
    BY <1>3 DEF ExpenseSteps, CreateExpense, MarkExpensePaid, PayExpense, PostExpense, LosePosting,
                ReadForEdit, WriteEdit, DeleteExpense, historyVars
  <2> QED
    BY <1>3, <2>1, ExpenseStepsKeep
<1>4. CASE TechnicianSteps
  BY <1>1, <1>4 DEF TechnicianSteps, ReadCost, ReadPaid, rowVars, payVars, historyVars
<1>5. CASE BucketSteps
  <2>1. UNCHANGED <<atOdds, agreed>>
    BY <1>5 DEF BucketSteps, ListBucket, BulkPayBill, BulkPayExpense, BulkReadCost, BulkSkip, EndCall,
                historyVars
  <2> QED
    BY <1>5, <2>1, BucketStepsKeep
<1>6. CASE UNCHANGED vars \/ \E p \in Payments : WindowPasses(p)
  BY <1>1, <1>6 DEF vars, WindowPasses, rowVars, historyVars
<1> QED
  BY <1>2, <1>3, <1>4, <1>5, <1>6 DEF Next

LEMMA RecordPayoutAdds ==
  ASSUME Typed, NEW c \in Calls, NEW p \in Payments, NEW amount \in Amounts, NEW confirmed \in BOOLEAN,
         RecordPayout(c, p, amount, confirmed), NEW j, j = call[c].doc
  PROVE  /\ j \in Jobs /\ call[c].amount \in Nat /\ amount \in Nat
         /\ PaidFor(j)' = PaidFor(j) + amount
         /\ \A x : x # j => PaidFor(x)' = PaidFor(x)
<1>1. j \in Jobs /\ j \in Docs /\ call[c].amount \in Nat /\ amount \in Nat
  BY ConstantTypes DEF RecordPayout, Typed, CallsTyped, CallRows
<1> QED
  BY <1>1, PayAdds DEF RecordPayout, Pay

LEMMA PayOutAdds ==
  ASSUME Typed, NEW c \in Calls, NEW p \in Payments, PayOut(c, p), NEW j, j = call[c].doc
  PROVE  /\ j \in Jobs /\ call[c].amount \in Nat
         /\ PaidFor(j)' = PaidFor(j) + call[c].amount
         /\ \A x : x # j => PaidFor(x)' = PaidFor(x)
<1>1. call[c].amount \in Nat /\ j \in Jobs /\ j \in Docs /\ PaidFor(j) \in Nat
  BY SumsTyped, ConstantTypes DEF PayOut, Typed, CallsTyped, CallRows
<1>2. CASE call[c].amount = 0
  BY <1>1, <1>2 DEF PayOut, payVars, PaidFor, PaymentsOf
<1>3. CASE call[c].amount # 0
  BY <1>1, <1>3, PayAdds DEF PayOut, Pay
<1> QED
  BY <1>1, <1>2, <1>3

\* What a request knows after a step that leaves the jobs alone: what it knew, or what
\* it has just read.
LEMMA CallsLearn ==
  ASSUME Typed, CallsKnow, JobsKept, [Next]_vars, NEW c \in Calls,
         ~(\E j \in Jobs, amount \in Costs, paid \in BOOLEAN : UpdateJob(j, amount, paid)),
         ~(\E b \in Calls, p \in Payments, amount \in Amounts, confirmed \in BOOLEAN :
               RecordPayout(b, p, amount, confirmed)),
         ~(\E b \in Calls, p \in Payments : PayOut(b, p))
  PROVE  \/ call'[c] = call[c]
         \/ call'[c].pc \in {"idle", "bulk"}
         \/ call'[c].pc = "edit" /\ call'[c].amount >= 1
         \/ /\ call'[c].pc \in {"cost", "payout"}
            /\ \A j \in Jobs : call'[c].doc = j => Knows(call'[c], Due(j), cost[j])
<1> DEFINE Learnt == \/ call'[c] = call[c]
                     \/ call'[c].pc \in {"idle", "bulk"}
                     \/ call'[c].pc = "edit" /\ call'[c].amount >= 1
                     \/ /\ call'[c].pc \in {"cost", "payout"}
                        /\ \A j \in Jobs : call'[c].doc = j => Knows(call'[c], Due(j), cost[j])
<1> USE ConstantTypes DEF Typed, CallsTyped
<1>1. ASSUME UNCHANGED call PROVE Learnt
  BY <1>1
<1>2. ASSUME NEW b \in Calls, Return(b) PROVE Learnt
  BY <1>2 DEF Return, Idle
<1>3. ASSUME NEW b \in Calls, NEW r, Done(b, r), call[b].pc = "bulk" PROVE Learnt
  BY <1>3 DEF Done, Idle, CallRows
<1>4. ASSUME NEW b \in Calls, NEW e \in Expenses, NEW amount \in Amounts, ReadForEdit(b, e, amount)
      PROVE Learnt
  BY <1>4 DEF ReadForEdit, Idle
<1>5. ASSUME NEW b \in Calls, NEW j \in Jobs, NEW r, call' = [call EXCEPT ![b] = r],
             r.pc = "cost", r.doc = j, r.amount = cost[j]
      PROVE Learnt
  BY <1>5 DEF Knows
<1>6. ASSUME NEW b \in Calls, ReadPaid(b) PROVE Learnt
  <2>1. PICK j \in Jobs : j = call[b].doc
    BY <1>6 DEF ReadPaid
  <2>2. call[b] \in CallRows /\ Knows(call[b], Due(j), cost[j]) /\ cost[j] \in Nat /\ PaidFor(j) \in Nat
    BY <2>1, SumsTyped DEF CallsKnow
  <2>3. CASE b # c
    <3>1. call'[c] = call[c]
      BY <1>6, <2>3 DEF ReadPaid, Finish
    <3> QED
      BY <3>1
  <2>4. CASE b = c /\ call' = Finish(call, b)
    <3>1. call'[c].pc \in {"idle", "bulk"}
      BY <2>4, FinishTypes
    <3> QED
      BY <3>1
  <2>5. CASE b = c /\ call' = [call EXCEPT ![b].pc = "payout",
                                          ![b].amount = Left(call[b].amount, PaidFor(call[b].doc))]
    <3>1. /\ call'[c].pc = "payout" /\ call'[c].doc = j /\ call'[c].since = call[c].since
          /\ call'[c].amount = Left(call[c].amount, PaidFor(j))
      BY <2>1, <2>2, <2>5 DEF CallRows
    <3>2. "cost" \notin call[c].since => call'[c].amount = Due(j)
      BY <1>6, <2>2, <2>5, <3>1 DEF ReadPaid, Knows, Due
    <3>3. Due(j) \in Nat
      BY SumsTyped
    <3>4. Knows(call'[c], Due(j), cost[j])
      BY <3>1, <3>2, <3>3 DEF Knows
    <3> QED
      BY <3>1, <3>4
  <2> QED
    BY <1>6, <2>3, <2>4, <2>5 DEF ReadPaid
<1>7. ASSUME NEW b \in Calls, NEW bucket \in Buckets, ListBucket(b, bucket) PROVE Learnt
  BY <1>7 DEF ListBucket, Idle
<1>8. ASSUME NEW b \in Calls, NEW j \in Jobs, ReadCost(b, j) PROVE Learnt
  <2> DEFINE r == [Idle EXCEPT !.pc = "cost", !.doc = j, !.amount = cost[j]]
  <2>1. call' = [call EXCEPT ![b] = r]
    BY <1>8 DEF ReadCost
  <2>2. r.pc = "cost" /\ r.doc = j /\ r.amount = cost[j]
    BY DEF Idle
  <2> HIDE DEF r
  <2> QED
    BY <1>5, <2>1, <2>2
<1>9. ASSUME NEW b \in Calls, NEW r \in call[b].todo, BulkReadCost(b, r) PROVE Learnt
  <2> DEFINE row == [Idle EXCEPT !.pc = "cost", !.doc = r.doc, !.amount = cost[r.doc],
                                 !.todo = call[b].todo]
  <2>1. call' = [call EXCEPT ![b] = row] /\ r.doc \in Jobs
    BY <1>9 DEF BulkReadCost
  <2>2. row.pc = "cost" /\ row.doc = r.doc /\ row.amount = cost[r.doc]
    BY DEF Idle
  <2> HIDE DEF row
  <2> QED
    BY <1>5, <2>1, <2>2
<1>10. CASE BillSteps
  BY <1>1, <1>10 DEF BillSteps, CreateBill, CancelBill, PayBill, DeleteBillPayment
<1>11. CASE ExpenseSteps
  BY <1>1, <1>2, <1>4, <1>11 DEF ExpenseSteps, CreateExpense, MarkExpensePaid, PayExpense, PostExpense,
                                 LosePosting, WriteEdit, DeleteExpense
<1>12. CASE TechnicianSteps
  BY <1>6, <1>8, <1>12 DEF TechnicianSteps
<1>13. CASE BucketSteps
  BY <1>2, <1>3, <1>7, <1>9, <1>13 DEF BucketSteps, BulkPayBill, BulkPayExpense, BulkSkip, EndCall, IsNext
<1> QED
  BY <1>1, <1>10, <1>11, <1>12, <1>13 DEF Next, WindowPasses, vars

\* A payout of a job lowers what is due for it; a request that had read that is told.
LEMMA PayoutTold ==
  ASSUME Typed, CallsKnow, NEW j \in Jobs, NEW amount \in Nat, UNCHANGED cost,
         PaidFor(j)' = PaidFor(j) + amount, \A x : x # j => PaidFor(x)' = PaidFor(x),
         NEW c \in Calls, call'[c] = Overtake(j, {"payout"}, "paid")[c]
  PROVE  /\ call'[c].pc = "edit" => call'[c].amount >= 1
         /\ \A k \in Jobs : call'[c].doc = k => Knows(call'[c], Due(k)', cost'[k])
<1>1. /\ call'[c].pc = call[c].pc /\ call'[c].doc = call[c].doc /\ call'[c].amount = call[c].amount
      /\ call'[c].since = IF call[c].pc \in {"payout"} /\ call[c].doc = j THEN call[c].since \cup {"paid"}
                          ELSE call[c].since
  BY PaidOvertakes
<1>2. call[c].pc = "edit" => call[c].amount >= 1
  BY DEF CallsKnow
<1>3. ASSUME NEW k \in Jobs, call'[c].doc = k PROVE Knows(call'[c], Due(k)', cost'[k])
  <2>1. Knows(call[c], Due(k), cost[k]) /\ call[c].amount \in Nat
    BY <1>1, <1>3 DEF CallsKnow, Typed, CallsTyped, CallRows
  <2>2. cost'[k] = cost[k] /\ cost[k] \in Nat /\ PaidFor(k) \in Nat
    BY SumsTyped
  <2>3. Due(k)' = Left(cost'[k], PaidFor(k)')
    BY DEF Due
  <2>4. CASE k # j
    <3>1. Due(k)' = Due(k)
      BY <2>2, <2>3, <2>4 DEF Due
    <3>2. call'[c].since = call[c].since
      BY <1>1, <1>3, <2>4
    <3> QED
      BY <1>1, <2>1, <2>2, <3>1, <3>2 DEF Knows
  <2>5. CASE k = j
    <3>1. Due(k)' <= Due(k) /\ Due(k)' \in Nat /\ Due(k) \in Nat
      BY <2>2, <2>3, <2>5 DEF Due, Left
    <3>2. call'[c].pc = "payout" => call'[c].since # {} /\ ("cost" \in call'[c].since <=> "cost" \in call[c].since)
      BY <1>1, <1>3, <2>5
    <3>3. call'[c].pc = "cost" => call'[c].since = call[c].since
      BY <1>1
    <3> QED
      BY <1>1, <2>1, <2>2, <3>1, <3>2, <3>3 DEF Knows
  <2> QED
    BY <2>4, <2>5
<1> QED
  BY <1>1, <1>2, <1>3

LEMMA CallsKnowStep == Typed /\ CallsKnow /\ [Next]_vars => CallsKnow'
<1> SUFFICES ASSUME Typed, CallsKnow, [Next]_vars, NEW c \in Calls
             PROVE  /\ call'[c].pc = "edit" => call'[c].amount >= 1
                    /\ \A j \in Jobs : call'[c].doc = j => Knows(call'[c], Due(j)', cost'[j])
  BY DEF CallsKnow
<1> DEFINE KnowsNow == /\ call'[c].pc = "edit" => call'[c].amount >= 1
                       /\ \A j \in Jobs : call'[c].doc = j => Knows(call'[c], Due(j)', cost'[j])
<1>1. ASSUME NEW j \in Jobs, NEW amount \in Costs, NEW paid \in BOOLEAN, UpdateJob(j, amount, paid)
      PROVE KnowsNow
  <2>1. \A k \in Jobs : PaidFor(k)' = PaidFor(k)
    BY <1>1, NothingPaid DEF UpdateJob, payVars, SumsKept
  <2>2. \A k \in Jobs \ {j} : cost'[k] = cost[k] /\ Due(k)' = Due(k)
    BY <1>1, <2>1 DEF UpdateJob, Due, Typed, RowsTyped
  <2>3. CASE amount = cost[j]
    <3>1. cost' = cost /\ call' = call
      BY <1>1, <2>3 DEF UpdateJob, Typed, RowsTyped
    <3>2. \A k \in Jobs : Due(k)' = Due(k)
      BY <2>1, <3>1 DEF Due
    <3> QED
      BY <3>1, <3>2 DEF CallsKnow
  <2>4. CASE amount # cost[j]
    <3>1. call' = Overtake(j, {"cost", "payout"}, "cost")
      BY <1>1, <2>4 DEF UpdateJob
    <3>2. /\ call'[c].pc = call[c].pc /\ call'[c].doc = call[c].doc /\ call'[c].amount = call[c].amount
          /\ call'[c].since = IF call[c].pc \in {"cost", "payout"} /\ call[c].doc = j
                              THEN call[c].since \cup {"cost"} ELSE call[c].since
      BY <3>1, CostOvertakes
    <3>3. ASSUME NEW k \in Jobs, call'[c].doc = k PROVE Knows(call'[c], Due(k)', cost'[k])
      <4>1. CASE k = j
        BY <3>2, <3>3, <4>1 DEF Knows
      <4>2. CASE k # j
        <5>1. call'[c].since = call[c].since /\ Knows(call[c], Due(k), cost[k])
          BY <3>2, <3>3, <4>2 DEF CallsKnow
        <5> QED
          BY <2>2, <3>2, <4>2, <5>1 DEF Knows
      <4> QED
        BY <4>1, <4>2
    <3>4. call'[c].pc = "edit" => call'[c].amount >= 1
      BY <3>2 DEF CallsKnow
    <3> QED
      BY <3>3, <3>4
  <2> QED
    BY <2>3, <2>4
<1>2. ASSUME NEW b \in Calls, NEW p \in Payments, NEW amount \in Amounts, NEW confirmed \in BOOLEAN,
             RecordPayout(b, p, amount, confirmed)
      PROVE KnowsNow
  <2>1. PICK j \in Jobs : j = call[b].doc
    BY <1>2 DEF RecordPayout, Typed, CallsTyped
  <2>2. /\ amount \in Nat /\ PaidFor(j)' = PaidFor(j) + amount
        /\ \A x : x # j => PaidFor(x)' = PaidFor(x)
    BY <1>2, <2>1, RecordPayoutAdds
  <2>3. call' = Finish(Overtake(j, {"payout"}, "paid"), b) /\ UNCHANGED cost
    BY <1>2, <2>1 DEF RecordPayout
  <2>4. CASE b = c
    <3>1. call'[c].pc \in {"idle", "bulk"}
      BY <2>3, <2>4, FinishPaid
    <3> QED
      BY <3>1 DEF Knows
  <2>5. CASE b # c
    <3>1. call'[c] = Overtake(j, {"payout"}, "paid")[c]
      BY <2>3, <2>5, FinishPaid
    <3> QED
      BY <2>2, <2>3, <3>1, PayoutTold
  <2> QED
    BY <2>4, <2>5
<1>3. ASSUME NEW b \in Calls, NEW p \in Payments, PayOut(b, p) PROVE KnowsNow
  <2>1. PICK j \in Jobs : j = call[b].doc
    BY <1>3 DEF PayOut, Typed, CallsTyped
  <2>2. /\ call[b].amount \in Nat /\ PaidFor(j)' = PaidFor(j) + call[b].amount
        /\ \A x : x # j => PaidFor(x)' = PaidFor(x)
    BY <1>3, <2>1, PayOutAdds
  <2>3. /\ UNCHANGED cost
        /\ call' = Finish(IF call[b].amount = 0 THEN call ELSE Overtake(j, {"payout"}, "paid"), b)
    BY <1>3, <2>1 DEF PayOut
  <2>4. CASE b = c
    <3>1. CASE call[b].amount = 0
      BY <2>3, <2>4, <3>1, FinishTypes DEF Typed, CallsTyped, Knows
    <3>2. CASE call[b].amount # 0
      <4>1. call'[c].pc \in {"idle", "bulk"}
        BY <2>3, <2>4, <3>2, FinishPaid
      <4> QED
        BY <4>1 DEF Knows
    <3> QED
      BY <3>1, <3>2
  <2>5. CASE b # c /\ call[b].amount # 0
    <3>1. call'[c] = Overtake(j, {"payout"}, "paid")[c]
      BY <2>3, <2>5, FinishPaid
    <3> QED
      BY <2>2, <2>3, <3>1, PayoutTold
  <2>6. CASE b # c /\ call[b].amount = 0
    <3>1. call'[c] = call[c]
      BY <2>3, <2>6, FinishTypes DEF Typed, CallsTyped
    <3>2. \A k \in Jobs : PaidFor(k)' = PaidFor(k)
      BY <2>2, <2>6, SumsTyped
    <3>3. \A k \in Jobs : Due(k)' = Due(k) /\ cost'[k] = cost[k]
      BY <2>3, <3>2 DEF Due
    <3> QED
      BY <3>1, <3>3 DEF CallsKnow
  <2> QED
    BY <2>4, <2>5, <2>6
<1>4. CASE JobsKept /\ ~(\E j \in Jobs, amount \in Costs, paid \in BOOLEAN : UpdateJob(j, amount, paid))
           /\ ~(\E b \in Calls, p \in Payments, amount \in Amounts, confirmed \in BOOLEAN :
                    RecordPayout(b, p, amount, confirmed))
           /\ ~(\E b \in Calls, p \in Payments : PayOut(b, p))
  <2>1. \A j \in Jobs : Due(j)' = Due(j) /\ cost'[j] = cost[j]
    BY <1>4 DEF JobsKept, jobVars, SumsKept, Due
  <2>2. CASE call'[c] = call[c]
    BY <2>1, <2>2 DEF CallsKnow
  <2>3. CASE call'[c].pc \in {"idle", "bulk", "edit"}
    BY <1>4, <2>2, <2>3, CallsLearn DEF Knows
  <2> QED
    BY <1>4, <2>1, <2>2, <2>3, CallsLearn
<1> QED
  BY <1>1, <1>2, <1>3, <1>4, JobsPaid

LEMMA CallsKnowAlways == Spec => []CallsKnow
<1>1. Init => CallsKnow
  BY DEF Init, CallsKnow, Idle, Knows
<1> QED
  BY <1>1, CallsKnowStep, TypedAlways, PTL DEF Spec

\* Of one job: its flag, and what was paid for it.
PaidOnce(j) ==
    /\ cost[j] > 0 /\ j \notin atOdds => (settled[j] <=> PaidFor(j) >= cost[j])
    /\ PaidFor(j) > cost[j] => j \in agreed

LEMMA KeptJob ==
  ASSUME NEW j \in Jobs, PaidOnce(j), cost'[j] = cost[j], settled'[j] = settled[j],
         PaidFor(j)' = PaidFor(j), j \in atOdds' <=> j \in atOdds, j \in agreed => j \in agreed'
  PROVE  PaidOnce(j)'
BY DEF PaidOnce

LEMMA TechniciansStep == Typed /\ CallsKnow /\ TechniciansPaidOnce /\ [Next]_vars => TechniciansPaidOnce'
<1> SUFFICES ASSUME Typed, CallsKnow, \A x \in Jobs : PaidOnce(x), [Next]_vars, NEW j \in Jobs
             PROVE  PaidOnce(j)'
  BY DEF TechniciansPaidOnce, PaidOnce
<1>1. PaidFor(j) \in Nat /\ cost[j] \in Nat /\ j \in Docs /\ PaidOnce(j)
  BY SumsTyped, ConstantTypes
<1>2. CASE JobsKept /\ UNCHANGED <<atOdds, agreed>>
  BY <1>1, <1>2, KeptJob DEF JobsKept, jobVars, SumsKept
<1>3. ASSUME NEW k \in Jobs, NEW amount \in Costs, NEW paid \in BOOLEAN, UpdateJob(k, amount, paid)
      PROVE PaidOnce(j)'
  <2>1. PaidFor(j)' = PaidFor(j)
    BY <1>3, NothingPaid DEF UpdateJob, payVars, SumsKept
  <2>2. CASE k # j
    <3>1. /\ cost'[j] = cost[j] /\ settled'[j] = settled[j]
          /\ j \in atOdds' <=> j \in atOdds
          /\ j \in agreed => j \in agreed'
      BY <1>3, <2>2 DEF UpdateJob, Typed, RowsTyped
    <3> QED
      BY <1>1, <2>1, <3>1, KeptJob
  <2>3. CASE k = j
    <3>1. cost'[j] = amount /\ settled'[j] = paid
      BY <1>3, <2>3 DEF UpdateJob, Typed, RowsTyped
    <3>2. amount > 0 /\ paid # (PaidFor(j) >= amount) => j \in atOdds'
      BY <1>3, <2>3 DEF UpdateJob
    <3>3. PaidFor(j) > amount => j \in agreed'
      BY <1>3, <2>3 DEF UpdateJob
    <3>4. amount > 0 /\ j \notin atOdds' => (paid <=> PaidFor(j) >= amount)
      <4> DEFINE enough == PaidFor(j) >= amount
      <4>1. enough \in BOOLEAN /\ (amount > 0 /\ paid # enough => j \in atOdds')
        BY <3>2
      <4> HIDE DEF enough
      <4>2. amount > 0 /\ j \notin atOdds' => paid = enough
        BY <4>1
      <4>3. amount > 0 /\ j \notin atOdds' => (paid <=> enough)
        BY <4>2
      <4> QED
        BY <4>3 DEF enough
    <3> QED
      BY <2>1, <3>1, <3>3, <3>4 DEF PaidOnce
  <2> QED
    BY <2>2, <2>3
<1>4. ASSUME NEW c \in Calls, NEW p \in Payments, NEW amount \in Amounts, NEW confirmed \in BOOLEAN,
             RecordPayout(c, p, amount, confirmed)
      PROVE PaidOnce(j)'
  <2>1. PICK k \in Jobs : k = call[c].doc
    BY <1>4 DEF RecordPayout, Typed, CallsTyped
  <2>2. /\ call[c].amount \in Nat /\ amount \in Nat /\ PaidFor(k)' = PaidFor(k) + amount
        /\ \A x : x # k => PaidFor(x)' = PaidFor(x)
    BY <1>4, <2>1, RecordPayoutAdds
  <2>3. CASE k # j
    <3>1. /\ cost'[j] = cost[j] /\ settled'[j] = settled[j]
          /\ j \in atOdds' <=> j \in atOdds
          /\ j \in agreed => j \in agreed'
      BY <1>4, <2>1, <2>3 DEF RecordPayout, Typed, RowsTyped
    <3> QED
      BY <1>1, <2>2, <2>3, <3>1, KeptJob
  <2>4. CASE k = j /\ "cost" \in call[c].since
    <3>1. j \in atOdds' /\ j \in agreed'
      BY <1>4, <2>1, <2>4 DEF RecordPayout
    <3> QED
      BY <3>1 DEF PaidOnce
  <2>5. CASE k = j /\ "cost" \notin call[c].since
    <3>1. call[c].amount = cost[j] /\ cost'[j] = cost[j]
      BY <1>4, <2>1, <2>5 DEF RecordPayout, CallsKnow, Knows
    <3>2. settled'[j] <=> cost[j] > 0 /\ PaidFor(j) + amount >= cost[j]
      BY <1>4, <2>1, <2>5, <3>1 DEF RecordPayout, Typed, RowsTyped
    <3>3. confirmed => j \in agreed'
      BY <1>4, <2>1, <2>5 DEF RecordPayout
    <3>4. ~confirmed => PaidFor(j) + amount <= cost[j]
      BY <1>4, <2>1, <2>5, <3>1 DEF RecordPayout, WithinCost
    <3>5. PaidFor(j)' = PaidFor(j) + amount
      BY <2>2, <2>5
    <3> QED
      BY <1>1, <2>2, <3>1, <3>2, <3>3, <3>4, <3>5 DEF PaidOnce
  <2> QED
    BY <2>3, <2>4, <2>5
<1>5. ASSUME NEW c \in Calls, NEW p \in Payments, PayOut(c, p) PROVE PaidOnce(j)'
  <2>1. PICK k \in Jobs : k = call[c].doc
    BY <1>5 DEF PayOut, Typed, CallsTyped
  <2>2. /\ call[c].amount \in Nat /\ PaidFor(k)' = PaidFor(k) + call[c].amount
        /\ \A x : x # k => PaidFor(x)' = PaidFor(x)
    BY <1>5, <2>1, PayOutAdds
  <2>3. CASE k # j
    <3>1. /\ cost'[j] = cost[j] /\ settled'[j] = settled[j]
          /\ j \in atOdds' <=> j \in atOdds
          /\ j \in agreed => j \in agreed'
      BY <1>5, <2>1, <2>3 DEF PayOut, Typed, RowsTyped
    <3> QED
      BY <1>1, <2>2, <2>3, <3>1, KeptJob
  <2>4. CASE k = j
    <3>1. settled'[j] = TRUE /\ cost'[j] = cost[j] /\ (j \in agreed => j \in agreed')
      BY <1>5, <2>1, <2>4 DEF PayOut, Typed, RowsTyped
    <3>2. /\ call[c].since # {} => j \in agreed'
          /\ "cost" \in call[c].since => j \in atOdds'
      BY <1>5, <2>1, <2>4 DEF PayOut
    <3>3. /\ "cost" \notin call[c].since => call[c].amount >= Due(j)
          /\ call[c].since = {} => call[c].amount = Due(j)
      BY <1>5, <2>1, <2>4 DEF PayOut, CallsKnow, Knows
    <3>4. Due(j) = IF PaidFor(j) >= cost[j] THEN 0 ELSE cost[j] - PaidFor(j)
      BY DEF Due, Left
    <3>5. PaidFor(j)' = PaidFor(j) + call[c].amount
      BY <2>2, <2>4
    <3>6. "cost" \notin call[c].since => PaidFor(j)' >= cost[j]
      BY <1>1, <2>2, <3>3, <3>4, <3>5
    <3>7. PaidFor(j)' > cost[j] => j \in agreed'
      <4>1. CASE call[c].since = {} /\ PaidFor(j) >= cost[j]
        BY <1>1, <3>1, <3>3, <3>4, <3>5, <4>1 DEF PaidOnce
      <4>2. CASE call[c].since = {} /\ ~(PaidFor(j) >= cost[j])
        BY <1>1, <3>3, <3>4, <3>5, <4>2
      <4> QED
        BY <3>2, <4>1, <4>2
    <3> QED
      BY <3>1, <3>2, <3>6, <3>7 DEF PaidOnce
  <2> QED
    BY <2>3, <2>4
<1> QED
  BY <1>2, <1>3, <1>4, <1>5, JobsPaid

\* A technician who is marked paid has been paid, one who was paid is marked, and
\* none gets more than the cost without confirmation, unless a cost or a flag was typed
\* over what was paid, or a payout went by what had changed since it was read.
THEOREM TechniciansCorrect == Spec => []TechniciansPaidOnce
<1>1. Init => TechniciansPaidOnce
  <2> SUFFICES ASSUME Init, NEW j \in Jobs PROVE PaidFor(j) = 0 /\ ~settled[j] /\ cost[j] \in Nat
    BY DEF TechniciansPaidOnce
  <2>1. PaymentsOf(j) = {}
    BY DEF Init, PaymentsOf, NoPayment
  <2> QED
    BY <2>1, NoUnits, ConstantTypes DEF Init, PaidFor
<1> QED
  BY <1>1, TechniciansStep, CallsKnowAlways, TypedAlways, PTL DEF Spec

-----------------------------------------------------------------------------
(* Expenses *)

\* Of one expense: what the property says, and that one that is not there has no
\* payments while one that is there is of some amount.
ExpenseAddsUp(e) ==
    /\ ~Exists(e) => PaidFor(e) = 0
    /\ Exists(e) => expense[e].amount >= 1
    /\ Exists(e) /\ e \notin rewritten =>
         /\ expense[e].status = "PAID" <=> expense[e].paid >= expense[e].amount
         /\ expense[e].paid <= expense[e].amount
         /\ PaidFor(e) = expense[e].paid \/ (PaidFor(e) = 0 /\ expense[e].status = "PAID")

LEMMA ExpensesOneByOne == (\A e \in Expenses : ExpenseAddsUp(e)) => ExpensesAddUp
BY DEF ExpenseAddsUp, ExpensesAddUp

LEMMA KeptExpense ==
  ASSUME NEW e \in Expenses, ExpenseAddsUp(e), expense'[e] = expense[e], PaidFor(e)' = PaidFor(e),
         rewritten \subseteq rewritten'
  PROVE  ExpenseAddsUp(e)'
BY DEF ExpenseAddsUp, Exists

\* One payment more, within the balance.
LEMMA RecordedExpense ==
  ASSUME Typed, NEW e \in Expenses, NEW p \in Payments, NEW amount \in Nat,
         RecordExpensePayment(e, p, amount), \A x \in Expenses : ExpenseAddsUp(x),
         rewritten \subseteq rewritten'
  PROVE  \A x \in Expenses : ExpenseAddsUp(x)'
<1>1. PaidFor(e)' = PaidFor(e) + amount /\ \A x : x # e => PaidFor(x)' = PaidFor(x)
  BY PayAdds, ConstantTypes DEF RecordExpensePayment, Pay
<1>2. \A x \in Expenses \ {e} : expense'[x] = expense[x]
  BY DEF RecordExpensePayment, Typed, RowsTyped
<1>3. expense[e].status = "OWED" /\ amount <= expense[e].amount - expense[e].paid
  BY DEF RecordExpensePayment, Payable
<1>4. expense[e].amount \in Nat /\ expense[e].paid \in Nat
  BY DEF Typed, RowsTyped, ExpenseRows
<1>5. /\ expense'[e].paid = expense[e].paid + amount /\ expense'[e].amount = expense[e].amount
      /\ expense'[e].status = IF expense[e].paid + amount >= expense[e].amount THEN "PAID" ELSE "OWED"
  BY DEF RecordExpensePayment, Typed, RowsTyped, ExpenseRows
<1>6. ExpenseAddsUp(e)'
  BY <1>1, <1>3, <1>4, <1>5 DEF ExpenseAddsUp, Exists
<1> QED
  BY <1>1, <1>2, <1>6, KeptExpense

LEMMA ExpensesStep ==
  ASSUME Typed, CallsKnow, \A x \in Expenses : ExpenseAddsUp(x), [Next]_vars
  PROVE  \A x \in Expenses : ExpenseAddsUp(x)'
<1>1. rewritten \subseteq rewritten'
  BY DEF Next, BillSteps, ExpenseSteps, TechnicianSteps, BucketSteps, CreateBill, CancelBill, PayBill,
         DeleteBillPayment, CreateExpense, MarkExpensePaid, PayExpense, PostExpense, LosePosting,
         ReadForEdit, WriteEdit, DeleteExpense, UpdateJob, RecordPayout, ReadCost, ReadPaid, PayOut,
         ListBucket, BulkPayBill, BulkPayExpense, BulkReadCost, BulkSkip, EndCall, WindowPasses, historyVars, vars
<1>2. CASE ExpensesKept
  BY <1>1, <1>2, KeptExpense DEF ExpensesKept, SumsKept
<1>3. ASSUME NEW e \in Expenses, NEW amount \in Amounts, NEW paid \in BOOLEAN,
             CreateExpense(e, amount, paid)
      PROVE \A x \in Expenses : ExpenseAddsUp(x)'
  <2>1. \A x : PaidFor(x)' = PaidFor(x)
    BY <1>3 DEF CreateExpense, payVars, PaidFor, PaymentsOf
  <2>2. \A x \in Expenses \ {e} : expense'[x] = expense[x]
    BY <1>3 DEF CreateExpense, Typed, RowsTyped
  <2>3. PaidFor(e) = 0 /\ amount \in Nat /\ amount >= 1
    BY <1>3, ConstantTypes DEF CreateExpense, ExpenseAddsUp, Exists
  <2>4. expense'[e] = IF paid THEN [status |-> "PAID", amount |-> amount, paid |-> amount]
                      ELSE [status |-> "OWED", amount |-> amount, paid |-> 0]
    BY <1>3 DEF CreateExpense, Typed, RowsTyped
  <2>5. ExpenseAddsUp(e)'
    <3>1. CASE paid
      BY <2>1, <2>3, <2>4, <3>1 DEF ExpenseAddsUp, Exists
    <3>2. CASE ~paid
      BY <2>1, <2>3, <2>4, <3>2 DEF ExpenseAddsUp, Exists
    <3> QED
      BY <3>1, <3>2
  <2> QED
    BY <1>1, <2>1, <2>2, <2>5, KeptExpense
<1>4. ASSUME NEW e \in Expenses, NEW p \in Payments, NEW amount \in Amounts,
             MarkExpensePaid(e, p, amount) \/ PayExpense(e, p, amount)
      PROVE \A x \in Expenses : ExpenseAddsUp(x)'
  BY <1>1, <1>4, RecordedExpense, ConstantTypes DEF MarkExpensePaid, PayExpense
<1>5. ASSUME NEW c \in Calls, WriteEdit(c) PROVE \A x \in Expenses : ExpenseAddsUp(x)'
  <2>1. \A x : PaidFor(x)' = PaidFor(x)
    BY <1>5 DEF WriteEdit, payVars, PaidFor, PaymentsOf
  <2>2. PICK e \in Expenses : e = call[c].doc
    BY <1>5 DEF WriteEdit, Typed, CallsTyped
  <2>3. \A x \in Expenses \ {e} : expense'[x] = expense[x]
    BY <1>5, <2>2 DEF WriteEdit, Typed, RowsTyped
  <2>4. call[c].amount \in Nat /\ call[c].amount >= 1
    BY <1>5 DEF WriteEdit, CallsKnow, Typed, CallsTyped, CallRows
  <2>5. /\ Exists(e) /\ expense'[e].amount = call[c].amount
        /\ expense'[e].status = expense[e].status /\ expense'[e].paid = expense[e].paid
        /\ expense[e].paid \in Nat /\ expense[e].amount \in Nat
    BY <1>5, <2>2 DEF WriteEdit, jobVars, Typed, RowsTyped, ExpenseRows
  <2>6. expense[e].paid > 0 => e \in rewritten'
    BY <1>5, <2>2 DEF WriteEdit
  <2>7. ExpenseAddsUp(e)'
    BY <1>1, <2>1, <2>4, <2>5, <2>6 DEF ExpenseAddsUp, Exists
  <2> QED
    BY <1>1, <2>1, <2>3, <2>7, KeptExpense
<1>6. ASSUME NEW e \in Expenses, DeleteExpense(e) PROVE \A x \in Expenses : ExpenseAddsUp(x)'
  <2>1. PaidFor(e)' = 0 /\ \A x : x # e => PaidFor(x)' = PaidFor(x)
    BY <1>6, ExpenseDeletionTakes
  <2>2. \A x \in Expenses \ {e} : expense'[x] = expense[x]
    BY <1>6 DEF DeleteExpense, Typed, RowsTyped
  <2>3. expense'[e].status = "DELETED"
    BY <1>6 DEF DeleteExpense, Typed, RowsTyped, ExpenseRows
  <2>4. ExpenseAddsUp(e)'
    BY <2>1, <2>3 DEF ExpenseAddsUp, Exists
  <2> QED
    BY <1>1, <2>1, <2>2, <2>4, KeptExpense
<1>7. ASSUME NEW c \in Calls, NEW p \in Payments, NEW r \in call[c].todo, BulkPayExpense(c, r, p)
      PROVE \A x \in Expenses : ExpenseAddsUp(x)'
  <2>1. r.doc \in Expenses /\ r.amount \in Nat
    BY <1>7 DEF BulkPayExpense, Typed, CallsTyped, CallRows, Owed
  <2> QED
    BY <1>1, <1>7, <2>1, RecordedExpense DEF BulkPayExpense
<1>8. ASSUME UNCHANGED <<expense, payment>> PROVE ExpensesKept
  BY <1>8, NothingPaid DEF ExpensesKept
<1>9. CASE ExpenseSteps
  BY <1>2, <1>3, <1>4, <1>5, <1>6, <1>8, <1>9
     DEF ExpenseSteps, PostExpense, LosePosting, ReadForEdit, rowVars, payVars
<1>10. CASE BucketSteps
  BY <1>2, <1>7, <1>10, BucketStepsKeep
<1>11. CASE UNCHANGED vars \/ \E p \in Payments : WindowPasses(p)
  BY <1>2, <1>8, <1>11 DEF vars, WindowPasses, rowVars
<1> QED
  BY <1>2, <1>9, <1>10, <1>11, BillStepsKeep, TechnicianStepsKeep DEF Next

\* An expense counts as paid exactly when all of it is, unless its amount was
\* edited over a payment.
THEOREM ExpensesCorrect == Spec => []ExpensesAddUp
<1> DEFINE IInv == \A e \in Expenses : ExpenseAddsUp(e)
<1>1. Init => IInv
  <2> SUFFICES ASSUME Init, NEW e \in Expenses PROVE ExpenseAddsUp(e)
    OBVIOUS
  <2>1. PaymentsOf(e) = {}
    BY DEF Init, PaymentsOf, NoPayment
  <2> QED
    BY <2>1, NoUnits DEF Init, PaidFor, ExpenseAddsUp, Exists, NoExpense
<1>2. IInv /\ Typed /\ CallsKnow /\ [Next]_vars => IInv'
  BY ExpensesStep
<1>3. IInv => ExpensesAddUp
  BY ExpensesOneByOne
<1> HIDE DEF IInv
<1> QED
  BY <1>1, <1>2, <1>3, CallsKnowAlways, TypedAlways, PTL DEF Spec

-----------------------------------------------------------------------------
(* The journal *)

\* Of one payment: what the journal can hold of it, and that it holds what it should.
PaymentBooked(p) ==
    /\ payment[p].state = "none" => books.entry[p] = 0 /\ p \notin posting /\ p \notin bulked
    /\ payment[p].state # "gone" => p \notin books.reversed
    /\ payment[p].state = "live" =>
         books.entry[p] = -Booking(p) \/ (books.entry[p] = 0 /\ p \in posting \cup unbooked)
    /\ payment[p].state = "gone" => Balance(books, p) = 0 \/ p \in late
    /\ p \in posting => Booking(p) = payment[p].amount

\* Of one expense that was paid when it was entered.
ExpenseBooked(e) ==
    /\ expense[e].status = "NONE" => books.entry[e] = 0 /\ e \notin posting
    /\ expense[e].status = "DELETED" => Balance(books, e) = 0 \/ e \in late

Booked == (\A p \in Payments : PaymentBooked(p)) /\ (\A e \in Expenses : ExpenseBooked(e))

LEMMA BookedImplies == Typed /\ Booked => BooksFollowPayments
<1> SUFFICES ASSUME Typed, Booked PROVE BooksFollowPayments
  OBVIOUS
<1>1. ASSUME NEW p \in Payments
      PROVE  /\ payment[p].state = "live" =>
                  Balance(books, p) = -Booking(p) \/ p \in posting \cup unbooked
             /\ payment[p].state # "live" => Balance(books, p) = 0 \/ p \in late
  <2>1. payment[p].state \in {"none", "live", "gone"} /\ PaymentBooked(p)
    BY DEF Typed, MoneyTyped, PaymentRows, Booked
  <2> QED
    BY <2>1 DEF PaymentBooked, Balance
<1>2. ASSUME NEW e \in Expenses, ~Exists(e) PROVE Balance(books, e) = 0 \/ e \in late
  <2>1. expense[e].status \in {"NONE", "DELETED"} /\ ExpenseBooked(e)
    BY <1>2 DEF Typed, RowsTyped, ExpenseRows, Exists, Booked
  <2> QED
    BY <2>1 DEF ExpenseBooked, Balance
<1> QED
  BY <1>1, <1>2 DEF BooksFollowPayments

\* What a step leaves of one payment's books, and of one expense's.
EntryKept(r) ==
    /\ books'.entry[r] = books.entry[r]
    /\ r \in books'.reversed <=> r \in books.reversed
    /\ r \in posting' <=> r \in posting
    /\ r \in late => r \in late'
    /\ r \in unbooked => r \in unbooked'
    /\ r \in bulked' <=> r \in bulked

LEMMA KeptPayment ==
  ASSUME NEW p \in Payments, PaymentBooked(p), payment'[p] = payment[p], EntryKept(p)
  PROVE  PaymentBooked(p)'
BY DEF PaymentBooked, EntryKept, Balance, Booking

LEMMA KeptExpenseEntry ==
  ASSUME NEW e \in Expenses, ExpenseBooked(e), EntryKept(e),
         expense'[e].status = expense[e].status \/ expense'[e].status \notin {"NONE", "DELETED"}
  PROVE  ExpenseBooked(e)'
BY DEF ExpenseBooked, EntryKept, Balance

LEMMA PostPosts ==
  ASSUME Typed, NEW r \in Refs, NEW amount \in Int
  PROVE  /\ Post(books, r, amount).reversed = books.reversed
         /\ Post(books, r, amount).entry[r] = IF books.entry[r] = 0 THEN amount ELSE books.entry[r]
         /\ \A q \in Refs \ {r} : Post(books, r, amount).entry[q] = books.entry[q]
<1>1. books \in BooksOver(Refs)
  BY DEF Typed, BooksTyped
<1>2. CASE Posted(books, r)
  BY <1>2 DEF Post, Posted
<1>3. CASE ~Posted(books, r)
  BY <1>1, <1>3 DEF Post, Posted, BooksOver
<1> QED
  BY <1>2, <1>3

\* A payment posted in the transaction that writes it.
LEMMA PaidAndPosted ==
  ASSUME Typed, Booked, NEW p \in Payments, NEW d \in Docs, NEW amount \in Nat, NEW rate \in Nat,
         PayAt(p, d, amount, rate), NEW posted \in Nat, books' = Post(books, p, -posted),
         UNCHANGED <<expense, posting, unbooked, late>>,
         \/ posted = amount * rate /\ UNCHANGED bulked
         \/ posted = amount /\ rate = 1 /\ UNCHANGED bulked
         \/ posted = amount /\ bulked' = bulked \cup {p}
  PROVE  Booked'
<1>1. p \in Refs /\ \A e \in Expenses : e \in Refs /\ e # p
  BY ConstantTypes
<1>2. \A q \in Refs \ {p} : EntryKept(q)
  BY <1>1, PostPosts DEF EntryKept
<1>3. /\ payment[p].state = "none" /\ books.entry[p] = 0 /\ p \notin books.reversed
      /\ p \notin posting /\ p \notin bulked
  BY DEF PayAt, Booked, PaymentBooked
<1>4. books'.entry[p] = -posted /\ p \notin books'.reversed
  BY <1>1, <1>3, PostPosts
<1>5. payment'[p] = [doc |-> d, amount |-> amount, rate |-> rate, state |-> "live"]
      /\ \A q \in Payments \ {p} : payment'[q] = payment[q]
  BY DEF PayAt, Typed, MoneyTyped, PaymentRows
<1>6. PaymentBooked(p)'
  <2>1. Booking(p)' = posted
    BY <1>3, <1>5 DEF Booking
  <2>2. p \notin posting'
    BY <1>3
  <2> QED
    BY <1>4, <1>5, <2>1, <2>2 DEF PaymentBooked
<1>7. \A q \in Payments \ {p} : PaymentBooked(q)'
  BY <1>2, <1>5, KeptPayment, ConstantTypes DEF Booked
<1>8. \A e \in Expenses : ExpenseBooked(e)'
  BY <1>1, <1>2, KeptExpenseEntry DEF Booked
<1> QED
  BY <1>6, <1>7, <1>8 DEF Booked

\* A payment of an expense, whose posting runs on its own or is never asked for.
LEMMA PaidNotPosted ==
  ASSUME Typed, Booked, NEW e \in Expenses, NEW p \in Payments, NEW amount \in Nat,
         RecordExpensePayment(e, p, amount), UNCHANGED <<books, late, bulked>>,
         \/ posting' = posting \cup {p} /\ UNCHANGED unbooked
         \/ unbooked' = unbooked \cup {p} /\ UNCHANGED posting
  PROVE  Booked'
<1>1. p \in Refs /\ \A x \in Expenses : x \in Refs /\ x # p
  BY ConstantTypes
<1>2. \A q \in Refs \ {p} : EntryKept(q)
  BY DEF EntryKept
<1>3. payment[p].state = "none" /\ books.entry[p] = 0 /\ p \notin books.reversed
  BY DEF RecordExpensePayment, Pay, PayAt, Booked, PaymentBooked
<1>4. /\ payment'[p].state = "live" /\ payment'[p].amount = amount /\ payment'[p].rate = 1
      /\ \A q \in Payments \ {p} : payment'[q] = payment[q]
  BY DEF RecordExpensePayment, Pay, PayAt, Typed, MoneyTyped, PaymentRows
<1>5. PaymentBooked(p)'
  <2>1. Booking(p)' = payment'[p].amount
    BY <1>4 DEF Booking
  <2> QED
    BY <1>3, <1>4, <2>1 DEF PaymentBooked
<1>6. \A q \in Payments \ {p} : PaymentBooked(q)'
  BY <1>2, <1>4, KeptPayment, ConstantTypes DEF Booked
<1>7. /\ expense'[e].status \notin {"NONE", "DELETED"}
      /\ \A x \in Expenses \ {e} : expense'[x] = expense[x]
  BY DEF RecordExpensePayment, Typed, RowsTyped, ExpenseRows
<1>8. \A x \in Expenses : ExpenseBooked(x)'
  BY <1>1, <1>2, <1>7, KeptExpenseEntry DEF Booked
<1> QED
  BY <1>5, <1>6, <1>8 DEF Booked

\* A step that touches neither payments nor books.
LEMMA NothingBooked ==
  ASSUME Booked, UNCHANGED <<payment, books, posting, bulked, unbooked, late>>,
         \A e \in Expenses : expense'[e].status = expense[e].status
  PROVE  Booked'
BY KeptPayment, KeptExpenseEntry DEF Booked, EntryKept


LEMMA BillStepsBooked == Typed /\ Booked /\ BillSteps => Booked'
<1> SUFFICES ASSUME Typed, Booked, BillSteps PROVE Booked'
  OBVIOUS
<1>1. ASSUME NEW b \in Bills, CreateBill(b) \/ CancelBill(b) PROVE Booked'
  BY <1>1, NothingBooked DEF CreateBill, CancelBill, payVars, historyVars
<1>2. ASSUME NEW b \in Bills, NEW p \in Payments, NEW amount \in Amounts, NEW rate,
             PayBill(b, p, amount, rate)
      PROVE Booked'
  <2>1. rate \in Nat /\ amount \in Nat /\ amount * rate \in Nat
    BY <1>2, ConstantTypes DEF PayBill
  <2> QED
    BY <1>2, <2>1, PaidAndPosted, ConstantTypes DEF PayBill, SettleBill, historyVars
<1>3. ASSUME NEW p \in Payments, DeleteBillPayment(p) PROVE Booked'
  <2>1. p \in Refs /\ \A e \in Expenses : e \in Refs /\ e # p
    BY ConstantTypes
  <2>2. /\ books'.entry = books.entry
        /\ books'.reversed = IF books.entry[p] # 0 THEN books.reversed \cup {p} ELSE books.reversed
    BY <1>3 DEF DeleteBillPayment, Reverse, Posted, Typed, BooksTyped, BooksOver
  <2>3. \A q \in Refs \ {p} : EntryKept(q)
    BY <1>3, <2>2 DEF DeleteBillPayment, historyVars, EntryKept
  <2>4. payment'[p].state = "gone" /\ \A q \in Payments \ {p} : payment'[q] = payment[q]
    BY <1>3 DEF DeleteBillPayment, Typed, MoneyTyped, PaymentRows
  <2>5. PaymentBooked(p)'
    <3>1. /\ payment'[p].amount = payment[p].amount /\ payment'[p].rate = payment[p].rate
          /\ p \in posting' => p \in posting
          /\ p \in bulked' <=> p \in bulked
      BY <1>3 DEF DeleteBillPayment, historyVars, Typed, MoneyTyped, PaymentRows
    <3>2. Booking(p)' = Booking(p)
      BY <3>1 DEF Booking
    <3>3. p \in posting' => Booking(p)' = payment'[p].amount
      BY <3>1, <3>2 DEF Booked, PaymentBooked
    <3> QED
      BY <2>2, <2>4, <3>3 DEF PaymentBooked, Balance
  <2>6. \A q \in Payments \ {p} : PaymentBooked(q)'
    BY <2>3, <2>4, KeptPayment, ConstantTypes DEF Booked
  <2>7. \A e \in Expenses : ExpenseBooked(e)'
    BY <1>3, <2>1, <2>3, KeptExpenseEntry DEF DeleteBillPayment, Booked
  <2> QED
    BY <2>5, <2>6, <2>7 DEF Booked
<1> QED
  BY <1>1, <1>2, <1>3 DEF BillSteps

\* The posting that runs on its own: late where its document is gone by then.
LEMMA PostingBooked ==
  ASSUME Typed, Booked, NEW r \in Refs, PostExpense(r)
  PROVE  Booked'
<1>1. AmountOf(r) \in Nat
  BY DEF AmountOf, Refs, Typed, RowsTyped, MoneyTyped, ExpenseRows, PaymentRows
<1>2. /\ books'.reversed = books.reversed
      /\ books'.entry[r] = IF books.entry[r] = 0 THEN -AmountOf(r) ELSE books.entry[r]
      /\ \A q \in Refs \ {r} : books'.entry[q] = books.entry[q]
  BY <1>1, PostPosts DEF PostExpense
<1>3. \A q \in Refs \ {r} : EntryKept(q)
  BY <1>2 DEF PostExpense, EntryKept
<1>4. ASSUME NEW p \in Payments PROVE PaymentBooked(p)'
  <2>1. CASE p # r
    BY <1>3, <2>1, KeptPayment, ConstantTypes DEF PostExpense, payVars, Booked
  <2>2. CASE p = r
    <3>1. PaymentBooked(p) /\ p \in posting /\ UNCHANGED payment /\ payment[p].state # "none"
      BY <2>2 DEF PostExpense, payVars, Booked, PaymentBooked
    <3>2. payment[p].state = "gone" => p \in late'
      BY <2>2, ConstantTypes DEF PostExpense, Gone
    <3>3. AmountOf(r) = payment[p].amount /\ payment[p].amount \in Nat
      BY <1>1, <2>2 DEF AmountOf
    <3>4. Booking(p)' = Booking(p) /\ Booking(p) = payment[p].amount
      BY <3>1 DEF PostExpense, Booking, PaymentBooked
    <3> QED
      BY <1>2, <2>2, <3>1, <3>2, <3>3, <3>4 DEF PaymentBooked
  <2> QED
    BY <2>1, <2>2
<1>5. ASSUME NEW e \in Expenses PROVE ExpenseBooked(e)'
  <2>1. CASE e # r
    BY <1>3, <2>1, KeptExpenseEntry, ConstantTypes DEF PostExpense, rowVars, Booked
  <2>2. CASE e = r
    <3>1. ExpenseBooked(e) /\ e \in posting /\ UNCHANGED expense /\ expense[e].status # "NONE"
      BY <2>2 DEF PostExpense, rowVars, Booked, ExpenseBooked
    <3>2. expense[e].status = "DELETED" => e \in late'
      BY <2>2, ConstantTypes DEF PostExpense, Gone
    <3> QED
      BY <3>1, <3>2 DEF ExpenseBooked
  <2> QED
    BY <2>1, <2>2
<1> QED
  BY <1>4, <1>5 DEF Booked

LEMMA LostBooked ==
  ASSUME Typed, Booked, NEW r \in Refs, LosePosting(r)
  PROVE  Booked'
<1>1. \A q \in Refs \ {r} : EntryKept(q)
  BY DEF LosePosting, EntryKept
<1>2. UNCHANGED <<payment, expense, books, late>>
  BY DEF LosePosting, rowVars, payVars
<1>3. ASSUME NEW p \in Payments PROVE PaymentBooked(p)'
  <2>1. CASE p # r
    BY <1>1, <1>2, <2>1, KeptPayment, ConstantTypes DEF Booked
  <2>2. CASE p = r
    <3>1. payment[p].state = "live" => p \in unbooked'
      BY <2>2, ConstantTypes DEF LosePosting, Gone
    <3>2. payment[p].state = "none" => p \notin posting'
      BY <2>2 DEF LosePosting
    <3>3. Booking(p)' = Booking(p) /\ p \notin posting'
      BY <1>2, <2>2 DEF LosePosting, Booking
    <3>4. /\ payment'[p] = payment[p] /\ books'.entry[p] = books.entry[p]
          /\ p \in books'.reversed <=> p \in books.reversed
          /\ Balance(books, p)' = Balance(books, p)
          /\ bulked' = bulked /\ unbooked \subseteq unbooked' /\ late' = late
      BY <1>2 DEF LosePosting, historyVars
    <3>5. PaymentBooked(p)
      BY DEF Booked
    <3> QED
      BY <3>1, <3>2, <3>3, <3>4, <3>5 DEF PaymentBooked
  <2> QED
    BY <2>1, <2>2
<1>4. ASSUME NEW e \in Expenses PROVE ExpenseBooked(e)'
  BY <1>2 DEF LosePosting, Booked, ExpenseBooked, Balance
<1> QED
  BY <1>3, <1>4 DEF Booked

\* A deletion takes the expense's entry and its payments' entries back.
LEMMA DeletionBooked ==
  ASSUME Typed, Booked, NEW e \in Expenses, DeleteExpense(e)
  PROVE  Booked'
<1> DEFINE undone == {r \in PaymentsOf(e) \cup {e} : Posted(books, r)}
<1>1. books'.entry = books.entry /\ books'.reversed = books.reversed \cup undone
  BY DEF DeleteExpense, TakeBack, Typed, BooksTyped, BooksOver
<1>2. \A r \in PaymentsOf(e) \cup {e} : Balance(books', r) = 0
  BY <1>1 DEF Balance, Posted
<1>3. \A q \in Refs : q \notin PaymentsOf(e) \cup {e} => EntryKept(q)
  BY <1>1 DEF DeleteExpense, EntryKept
<1>4. ASSUME NEW p \in Payments PROVE PaymentBooked(p)'
  <2>1. CASE p \in PaymentsOf(e)
    <3>1. payment'[p].state = "gone"
      BY <2>1 DEF DeleteExpense, Typed, MoneyTyped, PaymentRows
    <3>2. Balance(books', p) = 0
      BY <1>2, <2>1
    <3>3. /\ payment'[p].amount = payment[p].amount /\ payment'[p].rate = payment[p].rate
          /\ UNCHANGED <<posting, bulked>>
      BY <2>1 DEF DeleteExpense, Typed, MoneyTyped, PaymentRows
    <3>4. Booking(p)' = Booking(p)
      BY <3>3 DEF Booking
    <3> QED
      BY <3>1, <3>2, <3>3, <3>4 DEF Booked, PaymentBooked, Balance
  <2>2. CASE p \notin PaymentsOf(e)
    <3>1. payment'[p] = payment[p]
      BY <2>2 DEF DeleteExpense
    <3> QED
      BY <1>3, <2>2, <3>1, KeptPayment, ConstantTypes DEF Booked
  <2> QED
    BY <2>1, <2>2
<1>5. ASSUME NEW x \in Expenses PROVE ExpenseBooked(x)'
  <2>1. CASE x = e
    <3>1. expense'[e].status = "DELETED"
      BY DEF DeleteExpense, Typed, RowsTyped, ExpenseRows
    <3>2. Balance(books', e) = 0
      BY <1>2
    <3> QED
      BY <2>1, <3>1, <3>2 DEF ExpenseBooked, Balance
  <2>2. CASE x # e
    <3>1. x \notin PaymentsOf(e) \cup {e} /\ x \in Refs
      BY <2>2, ConstantTypes DEF PaymentsOf
    <3>2. expense'[x] = expense[x]
      BY <2>2 DEF DeleteExpense, Typed, RowsTyped
    <3> QED
      BY <1>3, <3>1, <3>2, KeptExpenseEntry DEF Booked
  <2> QED
    BY <2>1, <2>2
<1> QED
  BY <1>4, <1>5 DEF Booked

LEMMA ExpenseStepsBooked == Typed /\ Booked /\ ExpenseSteps => Booked'
<1> SUFFICES ASSUME Typed, Booked, ExpenseSteps PROVE Booked'
  OBVIOUS
<1>1. ASSUME NEW e \in Expenses, NEW amount \in Amounts, NEW paid \in BOOLEAN,
             CreateExpense(e, amount, paid)
      PROVE Booked'
  <2>1. \A q \in Refs \ {e} : EntryKept(q)
    BY <1>1 DEF CreateExpense, historyVars, EntryKept
  <2>2. \A p \in Payments : PaymentBooked(p)'
    BY <1>1, <2>1, KeptPayment, ConstantTypes DEF CreateExpense, payVars, Booked
  <2>3. /\ expense'[e].status \in {"PAID", "OWED"}
        /\ \A x \in Expenses \ {e} : expense'[x] = expense[x]
    BY <1>1 DEF CreateExpense, Typed, RowsTyped, ExpenseRows
  <2>4. ExpenseBooked(e)'
    BY <2>3 DEF ExpenseBooked
  <2>5. \A x \in Expenses \ {e} : ExpenseBooked(x)'
    BY <2>1, <2>3, KeptExpenseEntry, ConstantTypes DEF Booked
  <2> QED
    BY <2>2, <2>4, <2>5 DEF Booked
<1>2. ASSUME NEW e \in Expenses, NEW p \in Payments, NEW amount \in Amounts,
             MarkExpensePaid(e, p, amount) \/ PayExpense(e, p, amount)
      PROVE Booked'
  BY <1>2, PaidNotPosted, ConstantTypes DEF MarkExpensePaid, PayExpense, historyVars
<1>3. ASSUME NEW c \in Calls, NEW e \in Expenses, NEW amount \in Amounts, ReadForEdit(c, e, amount)
      PROVE Booked'
  BY <1>3, NothingBooked DEF ReadForEdit, rowVars, payVars, historyVars
<1>4. ASSUME NEW c \in Calls, WriteEdit(c) PROVE Booked'
  <2>1. \A e \in Expenses : expense'[e].status = expense[e].status
    BY <1>4 DEF WriteEdit, Typed, RowsTyped, ExpenseRows
  <2> QED
    BY <1>4, <2>1, NothingBooked DEF WriteEdit, payVars
<1> QED
  BY <1>1, <1>2, <1>3, <1>4, PostingBooked, LostBooked, DeletionBooked DEF ExpenseSteps

LEMMA TechnicianStepsBooked == Typed /\ Booked /\ TechnicianSteps => Booked'
<1> SUFFICES ASSUME Typed, Booked, TechnicianSteps PROVE Booked'
  OBVIOUS
<1>1. ASSUME NEW j \in Jobs, NEW amount \in Costs, NEW paid \in BOOLEAN, UpdateJob(j, amount, paid)
      PROVE Booked'
  BY <1>1, NothingBooked DEF UpdateJob, payVars
<1>2. ASSUME NEW c \in Calls, NEW p \in Payments, NEW amount \in Amounts, NEW confirmed \in BOOLEAN,
             RecordPayout(c, p, amount, confirmed)
      PROVE Booked'
  <2>1. call[c].doc \in Docs /\ amount \in Nat
    BY ConstantTypes DEF Typed, CallsTyped, CallRows
  <2>2. /\ PayAt(p, call[c].doc, amount, 1) /\ books' = Post(books, p, -amount)
        /\ UNCHANGED <<expense, posting, unbooked, late, bulked>>
    BY <1>2 DEF RecordPayout, Pay
  <2> QED
    BY <2>1, <2>2, PaidAndPosted
<1>3. ASSUME NEW c \in Calls, ReadPaid(c) \/ \E j \in Jobs : ReadCost(c, j) PROVE Booked'
  BY <1>3, NothingBooked DEF ReadPaid, ReadCost, rowVars, payVars, historyVars
<1>4. ASSUME NEW c \in Calls, NEW p \in Payments, PayOut(c, p) PROVE Booked'
  <2>1. call[c].amount \in Nat /\ call[c].doc \in Docs
    BY DEF Typed, CallsTyped, CallRows
  <2>2. UNCHANGED <<expense, posting, unbooked, late, bulked>>
    BY <1>4 DEF PayOut
  <2>3. CASE call[c].amount = 0
    BY <1>4, <2>2, <2>3, NothingBooked DEF PayOut, payVars
  <2>4. CASE call[c].amount # 0
    <3>1. PayAt(p, call[c].doc, call[c].amount, 1) /\ books' = Post(books, p, -call[c].amount)
      BY <1>4, <2>4 DEF PayOut, Pay
    <3> QED
      BY <2>1, <2>2, <3>1, PaidAndPosted
  <2> QED
    BY <2>3, <2>4
<1> QED
  BY <1>1, <1>2, <1>3, <1>4 DEF TechnicianSteps

LEMMA BucketStepsBooked == Typed /\ Booked /\ BucketSteps => Booked'
<1> SUFFICES ASSUME Typed, Booked, BucketSteps PROVE Booked'
  OBVIOUS
<1>1. ASSUME NEW c \in Calls, NEW r \in call[c].todo
      PROVE  r.amount \in Nat /\ r.doc \in Docs
  BY DEF Typed, CallsTyped, CallRows, Owed
<1>2. ASSUME NEW c \in Calls, NEW p \in Payments, NEW r \in call[c].todo, BulkPayBill(c, r, p)
      PROVE  Booked'
  <2>1. r.doc \in Bills /\ Capped(r.doc, r.amount) \in Nat
    BY <1>1, <1>2, ConstantTypes DEF BulkPayBill, LiveBills, Capped, Typed, RowsTyped, BillRows
  <2> QED
    BY <1>1, <1>2, <2>1, PaidAndPosted, ConstantTypes DEF BulkPayBill, SettleBill
<1>3. ASSUME NEW c \in Calls, NEW p \in Payments, NEW r \in call[c].todo, BulkPayExpense(c, r, p)
      PROVE  Booked'
  BY <1>1, <1>3, PaidNotPosted DEF BulkPayExpense
<1>4. ASSUME UNCHANGED <<rowVars, payVars, books, posting, historyVars>> PROVE Booked'
  BY <1>4, NothingBooked DEF rowVars, payVars, historyVars
<1> QED
  BY <1>2, <1>3, <1>4 DEF BucketSteps, ListBucket, BulkReadCost, BulkSkip, EndCall

\* The books hold each payment once with its amount and nothing of a deleted one,
\* but for expenses: their postings may be pending, lost, never asked for, or
\* arrive after the deletion that should have reversed them.
THEOREM BooksCorrect == Spec => []BooksFollowPayments
<1>1. Init => Booked
  BY DEF Init, Booked, PaymentBooked, ExpenseBooked, NewBooks, NoPayment, NoExpense, Refs
<1>2. Typed /\ Booked /\ [Next]_vars => Booked'
  <2> SUFFICES ASSUME Typed, Booked, [Next]_vars PROVE Booked'
    OBVIOUS
  <2>1. CASE UNCHANGED vars \/ \E p \in Payments : WindowPasses(p)
    BY <2>1, NothingBooked DEF vars, WindowPasses, rowVars, historyVars
  <2> QED
    BY <2>1, BillStepsBooked, ExpenseStepsBooked, TechnicianStepsBooked, BucketStepsBooked DEF Next
<1> QED
  BY <1>1, <1>2, BookedImplies, TypedAlways, PTL DEF Spec
=============================================================================
