------------------------------- MODULE Payables -------------------------------
(***************************************************************************)
(* What the shop owes: supplier bills, expenses and the fees of external   *)
(* technicians, paid one at a time or a whole bucket at once, and the      *)
(* books each payment is posted to.                                        *)
(*                                                                         *)
(* A handler that reads first and writes in a later statement is a call    *)
(* with a program counter; its prisma.$transaction is one action.  A       *)
(* payment is in the currency of its document, the books are in the base   *)
(* currency; transfer fees are left out.                                   *)
(*                                                                         *)
(* A definition that stands just before one it resembles is its mutated    *)
(* form: what a plausible bug would make of it.                            *)
(***************************************************************************)
EXTENDS Integers, FiniteSets, Ledger, UnitTotals

CONSTANTS
    Bills,            \* ids of SupplierBill rows
    Expenses,         \* ids of Expense rows
    Jobs,             \* jobs an external technician repaired
    Payments,         \* ids of SupplierPayment, ExpensePayment, TechnicianPayout
    TotalAmount,      \* per bill, SupplierBill.totalAmount
    Foreign,          \* bills in another currency than the books
    Rate,             \* per bill, SupplierBill.exchangeRateToBase, 0 where it has none
    SettledRates,     \* what left the account by what was paid, 0 where it is not said
    Costs,            \* what a technician may be due for a job, 0 where nothing is set
    Buckets,          \* sets of documents that mature together
    Calls,            \* concurrent requests
    MaxAmount,        \* bound: largest amount of a form
    MaxUpdates        \* bound: jobs saved over and over

Docs == Bills \cup Expenses \cup Jobs

ASSUME DocsAssumption ==
    /\ Bills \cap Expenses = {} /\ Bills \cap Jobs = {} /\ Expenses \cap Jobs = {}
    /\ Docs # {}
    /\ Payments \cap Expenses = {} /\ Payments # {} /\ IsFiniteSet(Payments)
ASSUME AmountsAssumption ==
    /\ TotalAmount \in [Bills -> Nat \ {0}]
    /\ Foreign \subseteq Bills /\ Rate \in [Bills -> Nat] /\ SettledRates \subseteq Nat
    /\ Costs \subseteq Nat /\ Costs # {}
    /\ MaxAmount \in Nat /\ MaxUpdates \in Nat
    /\ Buckets \subseteq SUBSET Docs

VARIABLES
    bill,             \* SupplierBill.status and paidAmount
    expense,          \* Expense: amount, paidAmount and whether paidAt is set
    cost,             \* per job, what externalTechFee and externalTechBill come to
    settled,          \* per job, Job.externalPaid
    payment,          \* the payment rows
    recent,           \* payments younger than the dedupe window
    books,            \* journal and tracked accounts
    posting,          \* journal entries about to be posted on their own
    call,             \* requests in flight, with what they read
    updates,          \* how often a job was saved, up to the bound
    rewritten,        \* history: expenses whose amount was edited over a payment
    atOdds,           \* history: jobs whose flag was set, or whose cost was changed, by hand
    agreed,           \* history: jobs paid above their cost by confirmation or at once, or
                      \* that were made to cost less than what was paid
    bulked,           \* history: payments of bills out of a bucket
    unbooked,         \* history: live payments whose posting was lost or not asked for
    late              \* history: postings that came after their expense was deleted

jobVars == <<cost, settled>>
rowVars == <<bill, expense, cost, settled>>
payVars == <<payment, recent>>
historyVars == <<updates, rewritten, atOdds, agreed, bulked, unbooked, late>>
vars == <<bill, expense, cost, settled, payment, recent, books, posting, call, updates,
          rewritten, atOdds, agreed, bulked, unbooked, late>>

Refs == Payments \cup Expenses
SomeDoc == CHOOSE d \in Docs : TRUE
NoPayment == [doc |-> SomeDoc, amount |-> 0, rate |-> 1, state |-> "none"]
NoExpense == [status |-> "NONE", amount |-> 0, paid |-> 0]
\* A request: what it is about, what it read, what has changed of that since, and
\* the rows of its bucket that it has not paid yet.
Idle == [pc |-> "idle", doc |-> SomeDoc, amount |-> 0, since |-> {}, todo |-> {}]
Return(c) == call' = [call EXCEPT ![c] = Idle]

PaymentsOf(d) == {p \in Payments : payment[p].state = "live" /\ payment[p].doc = d}
PaidFor(d) == Total(PaymentsOf(d), [p \in Payments |-> payment[p].amount])

-----------------------------------------------------------------------------
Init ==
    /\ bill = [b \in Bills |-> [status |-> "NONE", paid |-> 0]]
    /\ expense = [e \in Expenses |-> NoExpense]
    /\ cost \in [Jobs -> Costs]
    /\ settled = [j \in Jobs |-> FALSE]
    /\ payment = [p \in Payments |-> NoPayment]
    /\ recent = {}
    /\ books = NewBooks(Refs)
    /\ posting = {}
    /\ call = [c \in Calls |-> Idle]
    /\ updates = 0 /\ rewritten = {} /\ atOdds = {} /\ agreed = {} /\ bulked = {} /\ unbooked = {} /\ late = {}

\* A payment row, young enough to be found by the dedupe, and the rate at which its
\* amount is one of the base currency.
PayAt(p, d, amount, rate) ==
    /\ payment[p].state = "none"
    /\ payment' = [payment EXCEPT ![p] = [doc |-> d, amount |-> amount, rate |-> rate, state |-> "live"]]
    /\ recent' = recent \cup {p}
Pay(p, d, amount) == PayAt(p, d, amount, 1)

PaidJustNow(d, amount) == \E p \in recent : payment[p].doc = d /\ payment[p].amount = amount

WindowPasses(p) ==
    /\ p \in recent
    /\ recent' = recent \ {p}
    /\ UNCHANGED <<rowVars, payment, books, posting, call, historyVars>>

-----------------------------------------------------------------------------
(* Supplier bills *)

LiveBills == {b \in Bills : bill[b].status \notin {"NONE", "CANCELLED"}}

\* createSupplierBillAction; what it asks of note and order is in GoodsReceipt.
CreateBill(b) ==
    /\ bill[b].status = "NONE"
    /\ bill' = [bill EXCEPT ![b].status = "POSTED"]
    /\ UNCHANGED <<expense, jobVars, payVars, books, posting, call, historyVars>>

\* cancelSupplierBillAction: the condition is part of the write.
CancellableAlways(b) == bill[b].status # "NONE"
Cancellable(b) == bill[b].status # "NONE" /\ bill[b].paid = 0

CancelBill(b) ==
    /\ Cancellable(b)
    /\ bill' = [bill EXCEPT ![b].status = "CANCELLED"]
    /\ UNCHANGED <<expense, jobVars, payVars, books, posting, call, historyVars>>

BillStatus(b, paid) ==
    IF paid <= 0 THEN "POSTED" ELSE IF paid >= TotalAmount[b] THEN "PAID" ELSE "PART_PAID"

\* toBaseAmount: the bill's rate, which a bill in base currency has no need of.
BillRate(b) == IF b \in Foreign THEN Rate[b] ELSE 1

\* The rows of all three ways to pay a bill; what they post is not the same.
SettleBill(b, p, amount, rate, posted) ==
    /\ PayAt(p, b, amount, rate)
    /\ bill' = [bill EXCEPT ![b] = [status |-> BillStatus(b, @.paid + amount), paid |-> @.paid + amount]]
    /\ books' = Post(books, p, -posted)

\* createSupplierPaymentAction converts by what left the account,
\* paySupplierBillAction of the Payables page by the bill's rate.
PayBill(b, p, amount, rate) ==
    /\ b \in LiveBills
    /\ amount <= TotalAmount[b] - bill[b].paid
    /\ ~PaidJustNow(b, amount)
    /\ rate = BillRate(b) \/ (b \in Foreign /\ rate \in SettledRates)
    /\ SettleBill(b, p, amount, rate, amount * rate)
    /\ UNCHANGED <<expense, jobVars, posting, call, historyVars>>

\* deleteSupplierPaymentAction.
DeleteBillPayment(p) ==
    LET b == payment[p].doc  left == bill[b].paid - payment[p].amount IN
    /\ payment[p].state = "live" /\ b \in LiveBills
    /\ payment' = [payment EXCEPT ![p].state = "gone"]
    /\ recent' = recent \ {p}
    /\ bill' = [bill EXCEPT ![b] = [status |-> BillStatus(b, left), paid |-> left]]
    /\ books' = Reverse(books, p)
    /\ UNCHANGED <<expense, jobVars, posting, call, historyVars>>

-----------------------------------------------------------------------------
(* Expenses *)

Exists(e) == expense[e].status \in {"OWED", "PAID"}

\* createExpenseAction: owed, or paid on record and then posted under its own key.
CreateExpense(e, amount, paid) ==
    /\ expense[e].status = "NONE"
    /\ expense' = [expense EXCEPT ![e] = IF paid THEN [status |-> "PAID", amount |-> amount, paid |-> amount]
                                          ELSE [status |-> "OWED", amount |-> amount, paid |-> 0]]
    /\ posting' = IF paid THEN posting \cup {e} ELSE posting
    /\ UNCHANGED <<bill, jobVars, payVars, books, call, historyVars>>

\* recordExpensePayment: never more than the balance.
PayableAsListed(e, amount) == expense[e].status = "OWED"
Payable(e, amount) == expense[e].status = "OWED" /\ amount <= expense[e].amount - expense[e].paid

RecordExpensePayment(e, p, amount) ==
    LET paid == expense[e].paid + amount IN
    /\ Payable(e, amount)
    /\ Pay(p, e, amount)
    /\ expense' = [expense EXCEPT ![e].paid = paid,
                                  ![e].status = IF paid >= expense[e].amount THEN "PAID" ELSE "OWED"]

\* markExpensePaidAction lets the posting run on its own.
MarkExpensePaid(e, p, amount) ==
    /\ RecordExpensePayment(e, p, amount)
    /\ posting' = posting \cup {p}
    /\ UNCHANGED <<bill, jobVars, books, call, historyVars>>

\* payExpenseAction of the Payables page asks for none.
PayExpense(e, p, amount) ==
    /\ RecordExpensePayment(e, p, amount)
    /\ unbooked' = unbooked \cup {p}
    /\ UNCHANGED <<bill, jobVars, books, posting, call, updates, rewritten, atOdds, agreed, bulked, late>>

AmountOf(r) == IF r \in Payments THEN payment[r].amount ELSE expense[r].paid
Gone(r) == IF r \in Payments THEN payment[r].state = "gone" ELSE expense[r].status = "DELETED"

\* postExpensePaymentToLedger, whenever it gets there: the amount is its argument.
PostExpense(r) ==
    /\ r \in posting
    /\ books' = Post(books, r, -AmountOf(r))
    /\ posting' = posting \ {r}
    /\ late' = IF Gone(r) THEN late \cup {r} ELSE late
    /\ UNCHANGED <<rowVars, payVars, call, updates, rewritten, atOdds, agreed, bulked, unbooked>>

\* It fails, which is logged, or the server stops first.
LosePosting(r) ==
    /\ r \in posting
    /\ posting' = posting \ {r}
    /\ unbooked' = IF r \in Payments /\ ~Gone(r) THEN unbooked \cup {r} ELSE unbooked
    /\ UNCHANGED <<rowVars, payVars, books, call, updates, rewritten, atOdds, agreed, bulked, late>>

\* updateExpenseAction: the amount may change while paidAt was read as null.
ReadForEdit(c, e, amount) ==
    /\ call[c].pc = "idle" /\ expense[e].status = "OWED"
    /\ call' = [call EXCEPT ![c] = [Idle EXCEPT !.pc = "edit", !.doc = e, !.amount = amount]]
    /\ UNCHANGED <<rowVars, payVars, books, posting, historyVars>>

WriteEdit(c) ==
    LET e == call[c].doc IN
    /\ call[c].pc = "edit" /\ Exists(e)
    /\ expense' = [expense EXCEPT ![e].amount = call[c].amount]
    /\ rewritten' = IF expense[e].paid > 0 THEN rewritten \cup {e} ELSE rewritten
    /\ Return(c)
    /\ UNCHANGED <<bill, jobVars, payVars, books, posting, updates, atOdds, agreed, bulked, unbooked, late>>

\* deleteExpenseAction: each payment's entry and the expense's own are reversed,
\* and the payments go with the row.
TakeBackOnlyOwn(e) == Reverse(books, e)
TakeBack(e) ==
    LET undone == {r \in PaymentsOf(e) \cup {e} : Posted(books, r)} IN
    [books EXCEPT !.reversed = @ \cup undone]

DeleteExpense(e) ==
    /\ Exists(e)
    /\ expense' = [expense EXCEPT ![e].status = "DELETED"]
    /\ payment' = [p \in Payments |-> IF p \in PaymentsOf(e) THEN [payment[p] EXCEPT !.state = "gone"]
                                      ELSE payment[p]]
    /\ recent' = recent \ PaymentsOf(e)
    /\ books' = TakeBack(e)
    /\ unbooked' = unbooked \ PaymentsOf(e)
    /\ UNCHANGED <<bill, jobVars, posting, call, updates, rewritten, atOdds, agreed, bulked, late>>

-----------------------------------------------------------------------------
(* External technicians *)

Left(due, paid) == IF paid >= due THEN 0 ELSE due - paid
Due(j) == Left(cost[j], PaidFor(j))

\* Requests that read something of the job before it changed.
Overtake(j, pcs, what) ==
    [c \in Calls |-> IF call[c].pc \in pcs /\ call[c].doc = j
                     THEN [call[c] EXCEPT !.since = @ \cup {what}] ELSE call[c]]

\* updateJobAction: whoever may, types another bill or fee and ticks the flag, with
\* no look at what was paid.
UpdateJob(j, amount, paid) ==
    /\ updates < MaxUpdates /\ updates' = updates + 1
    /\ amount # cost[j] \/ paid # settled[j]
    /\ cost' = [cost EXCEPT ![j] = amount]
    /\ settled' = [settled EXCEPT ![j] = paid]
    /\ call' = IF amount = cost[j] THEN call ELSE Overtake(j, {"cost", "payout"}, "cost")
    /\ atOdds' = IF amount > 0 /\ paid # (PaidFor(j) >= amount) THEN atOdds \cup {j} ELSE atOdds \ {j}
    /\ agreed' = IF PaidFor(j) > amount THEN agreed \cup {j} ELSE agreed
    /\ UNCHANGED <<bill, expense, payVars, books, posting, rewritten, bulked, unbooked, late>>

\* The job is read before anything else, for its cost.
ReadCost(c, j) ==
    /\ call[c].pc = "idle"
    /\ call' = [call EXCEPT ![c] = [Idle EXCEPT !.pc = "cost", !.doc = j, !.amount = cost[j]]]
    /\ UNCHANGED <<rowVars, payVars, books, posting, historyVars>>

\* A request that has paid a job goes on with its bucket, if it has one.
Finish(calls, c) ==
    LET left == {r \in call[c].todo : r.doc # call[c].doc} IN
    [calls EXCEPT ![c] = IF left = {} THEN Idle ELSE [Idle EXCEPT !.pc = "bulk", !.todo = left]]

\* recordTechnicianPayoutAction: ceiling and dedupe beside the write, by the cost it
\* was told.  Where there is none, only a confirmed payout goes through.
WithinCostAlways(j, technicianCost, amount, confirmed) == TRUE
WithinCost(j, technicianCost, amount, confirmed) == confirmed \/ PaidFor(j) + amount <= technicianCost

RecordPayout(c, p, amount, confirmed) ==
    LET j == call[c].doc  technicianCost == call[c].amount IN
    /\ call[c].pc = "cost" /\ call[c].todo = {}
    /\ WithinCost(j, technicianCost, amount, confirmed)
    /\ ~PaidJustNow(j, amount)
    /\ Pay(p, j, amount)
    /\ books' = Post(books, p, -amount)
    /\ settled' = [settled EXCEPT ![j] = technicianCost > 0 /\ PaidFor(j) + amount >= technicianCost]
    /\ atOdds' = IF "cost" \in call[c].since THEN atOdds \cup {j} ELSE atOdds \ {j}
    /\ agreed' = IF confirmed \/ call[c].since # {} THEN agreed \cup {j} ELSE agreed
    /\ call' = Finish(Overtake(j, {"payout"}, "paid"), c)
    /\ UNCHANGED <<bill, expense, cost, posting, updates, rewritten, bulked, unbooked, late>>

\* markExternalTechPaid, and the bucket for each job: then what was paid is read.
\* The bucket passes over a job that is due nothing any more.
ReadPaid(c) ==
    LET due == Left(call[c].amount, PaidFor(call[c].doc)) IN
    /\ call[c].pc = "cost"
    /\ call' = IF due = 0 /\ call[c].todo # {} THEN Finish(call, c)
               ELSE [call EXCEPT ![c].pc = "payout", ![c].amount = due]
    /\ UNCHANGED <<rowVars, payVars, books, posting, historyVars>>

\* The transaction pays what was due.  Two that read before either paid both pay.
PayOut(c, p) ==
    LET j == call[c].doc  amount == call[c].amount IN
    /\ call[c].pc = "payout"
    /\ IF amount = 0 THEN UNCHANGED <<payVars, books>>
       ELSE Pay(p, j, amount) /\ books' = Post(books, p, -amount)
    /\ settled' = [settled EXCEPT ![j] = TRUE]
    /\ atOdds' = IF "cost" \in call[c].since THEN atOdds \cup {j} ELSE atOdds \ {j}
    /\ agreed' = IF call[c].since # {} THEN agreed \cup {j} ELSE agreed
    /\ call' = Finish(IF amount = 0 THEN call ELSE Overtake(j, {"payout"}, "paid"), c)
    /\ UNCHANGED <<bill, expense, cost, posting, updates, rewritten, bulked, unbooked, late>>

-----------------------------------------------------------------------------
(* payBucketAction: the rows as listed, bills first, each in a transaction. *)

Listed ==
    {[doc |-> b, amount |-> TotalAmount[b] - bill[b].paid] :
        b \in {b \in LiveBills : bill[b].status # "PAID"}}
    \cup {[doc |-> e, amount |-> expense[e].amount - expense[e].paid] :
        e \in {e \in Expenses : expense[e].status = "OWED" /\ expense[e].paid < expense[e].amount}}
    \cup {[doc |-> j, amount |-> Due(j)] : j \in {j \in Jobs : ~settled[j] /\ Due(j) > 0}}

ListBucket(c, bucket) ==
    LET rows == {r \in Listed : r.doc \in bucket} IN
    /\ call[c].pc = "idle"
    /\ rows # {}
    /\ call' = [call EXCEPT ![c] = [Idle EXCEPT !.pc = "bulk", !.todo = rows]]
    /\ UNCHANGED <<rowVars, payVars, books, posting, historyVars>>

Rank(d) == IF d \in Bills THEN 1 ELSE IF d \in Expenses THEN 2 ELSE 3
IsNext(c, r) ==
    /\ call[c].pc = "bulk" /\ r \in call[c].todo
    /\ \A s \in call[c].todo : Rank(r.doc) <= Rank(s.doc)
Done(c, r) ==
    call' = [call EXCEPT ![c] = IF @.todo = {r} THEN Idle ELSE [call[c] EXCEPT !.todo = @ \ {r}]]

\* A bill is paid up to what is left of it by now, and that is what is posted,
\* whatever the currency of the bill.
Capped(b, amount) ==
    IF TotalAmount[b] - bill[b].paid < amount THEN TotalAmount[b] - bill[b].paid ELSE amount

BulkPayBill(c, r, p) ==
    /\ IsNext(c, r) /\ r.doc \in LiveBills
    /\ bill[r.doc].paid < TotalAmount[r.doc]
    /\ SettleBill(r.doc, p, Capped(r.doc, r.amount), BillRate(r.doc), Capped(r.doc, r.amount))
    /\ bulked' = bulked \cup {p}
    /\ Done(c, r)
    /\ UNCHANGED <<expense, jobVars, posting, updates, rewritten, atOdds, agreed, unbooked, late>>

\* An expense that was paid in part meanwhile is passed over.
BulkPayExpense(c, r, p) ==
    /\ IsNext(c, r) /\ r.doc \in Expenses
    /\ RecordExpensePayment(r.doc, p, r.amount)
    /\ unbooked' = unbooked \cup {p}
    /\ Done(c, r)
    /\ UNCHANGED <<bill, jobVars, books, posting, updates, rewritten, atOdds, agreed, bulked, late>>

\* What is due to the technician is read again, still outside the transaction.
BulkReadCost(c, r) ==
    /\ IsNext(c, r) /\ r.doc \in Jobs
    /\ call' = [call EXCEPT ![c] = [Idle EXCEPT !.pc = "cost", !.doc = r.doc, !.amount = cost[r.doc],
                                               !.todo = call[c].todo]]
    /\ UNCHANGED <<rowVars, payVars, books, posting, historyVars>>

BulkSkip(c, r) ==
    /\ IsNext(c, r) /\ r.doc \notin Jobs
    /\ r.doc \in Bills => r.doc \notin LiveBills \/ bill[r.doc].paid >= TotalAmount[r.doc]
    /\ r.doc \in Expenses => ~Payable(r.doc, r.amount)
    /\ Done(c, r)
    /\ UNCHANGED <<rowVars, payVars, books, posting, historyVars>>

\* A check refuses the request, its row is gone, or the server dies.
EndCall(c) ==
    /\ call[c].pc # "idle"
    /\ Return(c)
    /\ UNCHANGED <<rowVars, payVars, books, posting, historyVars>>

-----------------------------------------------------------------------------
Amounts == 1..MaxAmount

BillSteps ==
    \/ \E b \in Bills : CreateBill(b)
    \/ \E b \in Bills : CancelBill(b)
    \/ \E b \in Bills : \E p \in Payments, amount \in Amounts, rate \in SettledRates \cup {BillRate(b)} :
           PayBill(b, p, amount, rate)
    \/ \E p \in Payments : DeleteBillPayment(p)

ExpenseSteps ==
    \/ \E e \in Expenses, amount \in Amounts, paid \in BOOLEAN : CreateExpense(e, amount, paid)
    \/ \E e \in Expenses, p \in Payments, amount \in Amounts : MarkExpensePaid(e, p, amount)
    \/ \E e \in Expenses, p \in Payments, amount \in Amounts : PayExpense(e, p, amount)
    \/ \E r \in Refs : PostExpense(r)
    \/ \E r \in Refs : LosePosting(r)
    \/ \E c \in Calls, e \in Expenses, amount \in Amounts : ReadForEdit(c, e, amount)
    \/ \E c \in Calls : WriteEdit(c)
    \/ \E e \in Expenses : DeleteExpense(e)

TechnicianSteps ==
    \/ \E j \in Jobs, amount \in Costs, paid \in BOOLEAN : UpdateJob(j, amount, paid)
    \/ \E c \in Calls, j \in Jobs : ReadCost(c, j)
    \/ \E c \in Calls, p \in Payments, amount \in Amounts, confirmed \in BOOLEAN :
           RecordPayout(c, p, amount, confirmed)
    \/ \E c \in Calls : ReadPaid(c)
    \/ \E c \in Calls, p \in Payments : PayOut(c, p)

BucketSteps ==
    \/ \E c \in Calls, bucket \in Buckets : ListBucket(c, bucket)
    \/ \E c \in Calls, p \in Payments : \E r \in call[c].todo : BulkPayBill(c, r, p)
    \/ \E c \in Calls, p \in Payments : \E r \in call[c].todo : BulkPayExpense(c, r, p)
    \/ \E c \in Calls : \E r \in call[c].todo : BulkReadCost(c, r)
    \/ \E c \in Calls : \E r \in call[c].todo : BulkSkip(c, r)
    \/ \E c \in Calls : EndCall(c)

Next ==
    \/ BillSteps \/ ExpenseSteps \/ TechnicianSteps \/ BucketSteps
    \/ \E p \in Payments : WindowPasses(p)

Spec == Init /\ [][Next]_vars

-----------------------------------------------------------------------------
(* Properties *)

\* Every variable holds what the schema and the handlers' locals can hold.
TypeOK ==
    /\ bill \in [Bills -> [status : {"NONE", "POSTED", "PART_PAID", "PAID", "CANCELLED"}, paid : Int]]
    /\ expense \in [Expenses -> [status : {"NONE", "OWED", "PAID", "DELETED"}, amount : Int, paid : Int]]
    /\ cost \in [Jobs -> Costs] /\ settled \in [Jobs -> BOOLEAN]
    /\ payment \in [Payments -> [doc : Docs, amount : Int, rate : Int, state : {"none", "live", "gone"}]]
    /\ recent \subseteq Payments
    /\ books \in BooksOver(Refs)
    /\ posting \subseteq Refs
    /\ call \in [Calls -> [pc : {"idle", "edit", "cost", "payout", "bulk"}, doc : Docs, amount : Int,
                          since : SUBSET {"cost", "paid"}, todo : SUBSET [doc : Docs, amount : Int]]]
    /\ updates \in 0..MaxUpdates /\ rewritten \subseteq Expenses /\ atOdds \subseteq Jobs /\ agreed \subseteq Jobs
    /\ bulked \subseteq Payments /\ unbooked \subseteq Payments /\ late \subseteq Refs

\* However a bill is paid, unpaid and bulk-paid at once, its rollup is the sum of
\* its payments, its status follows the rollup, it is never overpaid, and a
\* cancelled bill has no payment.
BillsAddUp ==
    \A b \in Bills :
        /\ bill[b].paid = PaidFor(b)
        /\ bill[b].paid <= TotalAmount[b]
        /\ bill[b].status \in {"NONE", "CANCELLED", BillStatus(b, bill[b].paid)}
        /\ b \notin LiveBills => bill[b].paid = 0

\* An expense counts as paid exactly when all of it is, unless its amount was
\* edited over a payment (finance/expenses/page.tsx:474).
ExpensesAddUp ==
    \A e \in Expenses \ rewritten :
        Exists(e) =>
            /\ expense[e].status = "PAID" <=> expense[e].paid >= expense[e].amount
            /\ expense[e].paid <= expense[e].amount
            /\ \/ PaidFor(e) = expense[e].paid
               \/ PaidFor(e) = 0 /\ expense[e].status = "PAID"

\* A technician who is marked paid has been paid, one who was paid is marked, and
\* none gets more than the cost without confirmation.  What may break it is a cost or
\* a flag that was typed over what was paid (jobs/[id]/actions.ts:488, 567, 578), until
\* a payout is next recorded, and a payout by what was read before another payout or
\* another cost (payout-followups/actions.ts:40-45).
TechniciansPaidOnce ==
    \A j \in Jobs :
        /\ cost[j] > 0 /\ j \notin atOdds => (settled[j] <=> PaidFor(j) >= cost[j])
        /\ PaidFor(j) > cost[j] => j \in agreed

\* What a payment takes out of the books: its amount in base currency, except that
\* one of a bill out of a bucket is posted as it is (payout-followups/actions.ts:403).
Booking(p) == IF p \in bulked THEN payment[p].amount ELSE payment[p].amount * payment[p].rate

\* The books hold each payment once with what it is worth and nothing of a deleted
\* one, but for expenses: their postings may be pending, lost, never asked for, or
\* arrive after the deletion that should have reversed them.
BooksFollowPayments ==
    /\ \A p \in Payments :
        /\ payment[p].state = "live" => Balance(books, p) = -Booking(p) \/ p \in posting \cup unbooked
        /\ payment[p].state # "live" => Balance(books, p) = 0 \/ p \in late
    /\ \A e \in Expenses :
         ~Exists(e) => Balance(books, e) = 0 \/ e \in late

(* What a comment of the code says, and the code does not keep. *)

\* inventory/supplier-bills/actions.ts:299: the ledger is kept in base currency.  A
\* bill in another currency that is paid out of a bucket is posted unconverted.
BillsArePostedInBase ==
    \A p \in Payments :
        payment[p].state = "live" /\ payment[p].doc \in Bills =>
            Balance(books, p) = -(payment[p].amount * payment[p].rate)

\* payout-followups/actions.ts:245: an expense paid from Payables has an idempotent
\* ledger post.  Nothing there posts.
ExpensePaymentsArePosted ==
    [][\A p \in Payments :
         payment[p].state = "none" /\ payment'[p].state = "live" =>
             p \in posting' \/ Posted(books', p)]_vars
=============================================================================
