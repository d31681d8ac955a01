------------------------------- MODULE Invoicing -------------------------------
(***************************************************************************)
(* Invoices: the stock their lines took, the money received and handed     *)
(* back, the status that follows from it, and the books every movement is  *)
(* posted to.  An invoice is a sale of goods, whose lines take stock when  *)
(* it is issued, or bills a job, whose parts were consumed at completion.  *)
(*                                                                         *)
(* A handler that reads first and writes in a later statement is a call    *)
(* with a program counter; its prisma.$transaction is one action.  The     *)
(* dedupe window of ten seconds may have passed between any two requests,  *)
(* so no two are taken for one.                                            *)
(*                                                                         *)
(* Quantities are Floats.  A line's quantity is counted in the finest one  *)
(* ever sold, say half a sale unit, which costs 1, and a total is what the *)
(* lines come to, in base currency; stock is counted in grains, of which   *)
(* Unit make a base unit.  A product is on one line at most.               *)
(*                                                                         *)
(* A definition that stands just before one it resembles is its mutated    *)
(* form: what a plausible bug would make of it.                            *)
(***************************************************************************)
EXTENDS Integers, FiniteSets, UnitTotals, Ledger

CONSTANTS
    Invoices,         \* ids of Invoice rows
    Parts,            \* the products
    Opening,          \* per part, the stock at the start
    Unit,             \* grains in a base unit of stock
    Plain,            \* grains in the finest quantity of a line without a saleUomFactor
    Grains,           \* per part, grains in it with the product's saleUomFactor
    Money,            \* ids of Payment and Refund rows
    Calls,            \* concurrent requests
    MaxQty,           \* bound: units of a part on a line
    MaxEdits,         \* bound: changes of one receipt's amount
    MaxRewrites,      \* bound: edits of one invoice's lines
    Editable,         \* bound: edits of invoices for "goods", of a "job", or both
    Kinds             \* bound: the handlers that are used

\* A payment posts under pay:<id>, the n-th change of its amount under
\* pay:<id>:adj:n, a refund under refund:<id>.
Adjustments == Money \X (1..MaxEdits)
Refs == Money \cup Adjustments

ASSUME IdsAssumption ==
    /\ Parts # {} /\ Invoices # {} /\ Money # {} /\ Money \cap Adjustments = {}
    /\ IsFiniteSet(Parts) /\ IsFiniteSet(Invoices) /\ IsFiniteSet(Money)
ASSUME BoundsAssumption ==
    /\ Opening \in [Parts -> Nat] /\ MaxQty \in Nat /\ MaxEdits \in Nat
ASSUME UnitsAssumption ==
    Unit \in Nat \ {0} /\ Plain \in Nat \ {0} /\ Grains \in [Parts -> Nat \ {0}]

VARIABLES
    invoice,          \* Invoice: status, what it bills, paidAmount, quantities of its lines
                      \* and how often they were rewritten on its page
    money,            \* Payment rows of each kind, and Refund rows
    onHand,           \* Part.qtyOnHand
    moved,            \* per invoice, what its PartStockTransaction rows took out
    books,            \* the journal
    call,             \* requests in flight, with what they read
    stale             \* history: edits, voids and changes of an amount that wrote on an
                      \* invoice that had changed since they read it

stockVars == <<onHand, moved>>
vars == <<invoice, money, onHand, moved, books, call, stale>>

Quantities == [Parts -> Nat]
Nothing == [p \in Parts |-> 0]
Value(qty) == Total(Parts, qty)
Plus(a, b) == [p \in Parts |-> a[p] + b[p]]
Minus(a, b) == [p \in Parts |-> a[p] - b[p]]

\* The changes of its amount that are posted.
Adjusted(m) == {n \in 1..MaxEdits : Posted(books, <<m, n>>)}

SomeInvoice == CHOOSE i \in Invoices : TRUE
SomeMoney == CHOOSE m \in Money : TRUE
SomePart == CHOOSE p \in Parts : TRUE
NewInvoice == [status |-> "NONE", bills |-> "goods", paid |-> 0, qty |-> Nothing, edits |-> 0]
NoMoney == [kind |-> "none", invoice |-> SomeInvoice, amount |-> 0]
Idle == [pc |-> "idle", todo |-> {}, changed |-> {}, money |-> SomeMoney, qty |-> Nothing,
         old |-> Nothing, amount |-> 0]

Live(i) == invoice[i].status \in {"ISSUED", "PAID"}
InvoiceTotal(i) == Value(invoice[i].qty)

\* What lines hold in stock: they snapshot their product's saleUomFactor, but rows
\* rewritten on the invoice's page are created without, which reads as 1.
Stock(qty) == [p \in Parts |-> qty[p] * Grains[p]]
PlainStock(qty) == [p \in Parts |-> qty[p] * Plain]
StockOf(row) == IF row.edits = 0 THEN Stock(row.qty) ELSE PlainStock(row.qty)

\* Math.round, to whole base units.
Rounded(amount) == Unit * ((2 * amount + Unit) \div (2 * Unit))

\* sumInvoicePaidAmount.
TakesIn == {"payment", "adjustment"}
PaysOut == {"jobrefund", "refund"}
Signed(row) == IF row.kind \in PaysOut THEN -row.amount ELSE row.amount
MoneyOf(rows, i) ==
    {m \in Money : rows[m].kind \in TakesIn \cup PaysOut /\ rows[m].invoice = i}
Paid(rows, i) == SignedTotal(MoneyOf(rows, i), [m \in Money |-> Signed(rows[m])])

\* syncInvoicePaymentState, over the rows as just written: a void invoice is left.
SyncPaidOnly(row, paid) == IF row.status = "VOID" THEN row ELSE [row EXCEPT !.paid = paid]
Sync(row, paid) ==
    IF row.status = "VOID" THEN row
    ELSE [row EXCEPT !.paid = paid, !.status = IF paid >= Value(row.qty) THEN "PAID" ELSE "ISSUED"]

SyncInvoice(i) == invoice' = [invoice EXCEPT ![i] = Sync(invoice[i], Paid(money', i))]

-----------------------------------------------------------------------------
(* Requests *)

\* Whoever else has read invoice i does not see what is written on it now.
Touched(i, others) ==
    [c \in Calls |-> IF c \in others /\ i \in call[c].todo
                     THEN [call[c] EXCEPT !.changed = @ \cup {i}] ELSE call[c]]

\* A handler that reads and writes invoice i in one transaction.
AtOnce(kind, i) ==
    /\ kind \in Kinds
    /\ call' = Touched(i, Calls)
    /\ stale' = stale

\* A handler takes note of what it read and goes on to its transaction.
Read(c, row) ==
    /\ row.pc \in Kinds /\ call[c].pc = "idle"
    /\ call' = [call EXCEPT ![c] = row]
    /\ UNCHANGED <<invoice, money, stockVars, books, stale>>

\* Its transaction on invoice i commits.
Write(c, i) ==
    LET left == call[c].todo \ {i}
        rest == [call[c] EXCEPT !.todo = left, !.changed = @ \ {i}]
    IN
    /\ call' = [Touched(i, Calls \ {c}) EXCEPT ![c] = IF left = {} THEN Idle ELSE rest]
    /\ stale' = IF i \in call[c].changed /\ call[c].pc \in {"edit", "void", "amend"}
                THEN stale \cup {<<i, call[c].pc>>} ELSE stale

\* A check refuses the request, its row is gone, or the server dies.
EndCallFailed(c) ==
    /\ call[c].pc # "idle"
    /\ call' = [call EXCEPT ![c].pc = "failed"]
    /\ UNCHANGED <<invoice, money, stockVars, books, stale>>
EndCall(c) ==
    /\ call[c].pc # "idle"
    /\ call' = [call EXCEPT ![c] = Idle]
    /\ UNCHANGED <<invoice, money, stockVars, books, stale>>

-----------------------------------------------------------------------------
Init ==
    /\ invoice = [i \in Invoices |-> NewInvoice]
    /\ money = [m \in Money |-> NoMoney]
    /\ onHand = Opening
    /\ moved = [i \in Invoices |-> Nothing]
    /\ books = NewBooks(Refs)
    /\ call = [c \in Calls |-> Idle]
    /\ stale = {}

\* Units leave with invoice i (when taken is positive) or come back from it.
MoveOnPaper(i, taken) ==
    /\ onHand' = onHand
    /\ moved' = [moved EXCEPT ![i] = Plus(@, taken)]
Move(i, taken) ==
    /\ onHand' = Minus(onHand, taken)
    /\ moved' = [moved EXCEPT ![i] = Plus(@, taken)]

(* Lines *)

\* createInvoiceAction: the decrement is not conditional on the stock, which the
\* action only asks about before its transaction.
CreateInvoice(i, qty) ==
    /\ invoice[i].status = "NONE" /\ Value(qty) > 0
    /\ invoice' = [invoice EXCEPT ![i] = [NewInvoice EXCEPT !.status = "ISSUED", !.qty = qty]]
    /\ Move(i, Stock(qty))
    /\ AtOnce("create", i)
    /\ UNCHANGED <<money, books>>

\* ensureInvoiceFromQuotation: the lines of a job's quotation, no stock.
ConvertQuotation(i, qty) ==
    /\ invoice[i].status = "NONE" /\ Value(qty) > 0
    /\ invoice' = [invoice EXCEPT ![i] = [NewInvoice EXCEPT !.status = "ISSUED", !.qty = qty,
                                                            !.bills = "job"]]
    /\ AtOnce("convert", i)
    /\ UNCHANGED <<money, stockVars, books>>

\* Bounds: which invoices are edited, how often, and that two edits of an invoice
\* overlap once; every further time would drift the stock by the same again.
MayEdit(i) ==
    /\ invoice[i].bills \in Editable
    /\ invoice[i].edits < MaxRewrites /\ <<i, "edit">> \notin stale

\* The edit on the invoice's page reads status and lines, and asks for stock.
ReadForEdit(c, i, qty) ==
    /\ MayEdit(i)
    /\ invoice[i].status = "ISSUED" /\ Value(qty) > 0
    /\ LET old == StockOf(invoice[i]) IN
       /\ \A p \in Parts : onHand[p] + old[p] >= Stock(qty)[p]
       /\ Read(c, [Idle EXCEPT !.pc = "edit", !.todo = {i}, !.qty = qty, !.old = old])

\* The lines as read go back, by the factor they carry if they do; the new ones leave
\* by their product's, if there is enough by then, and are written without it.
Rewrite(row, qty) == [row EXCEPT !.qty = qty, !.edits = @ + 1]

WriteEdit(c, i) ==
    LET new == call[c].qty
        more == Minus(Stock(new), call[c].old)
    IN
    /\ call[c].pc = "edit" /\ i \in call[c].todo
    /\ \A p \in Parts : new[p] > 0 => onHand[p] >= more[p]
    /\ Move(i, more)
    /\ invoice' = [invoice EXCEPT ![i] = Sync(Rewrite(invoice[i], new), Paid(money, i))]
    /\ Write(c, i)
    /\ UNCHANGED <<money, books>>

\* Voiding one invoice or several: the candidates are read once.
Voidable(i) == Live(i) /\ invoice[i].paid <= 0
ReadForVoid(c, chosen) ==
    /\ chosen # {} /\ \A i \in chosen : Voidable(i)
    /\ Read(c, [Idle EXCEPT !.pc = "void", !.todo = chosen])

\* Each is voided in a transaction of its own, whatever it is by then, and all its
\* part lines come back, each rounded to base units and not at all where that is none.
RestoredPlain(row) == [p \in Parts |-> Rounded(PlainStock(row.qty)[p])]
Restored(row) == [p \in Parts |-> Rounded(StockOf(row)[p])]
Restore(i) == Move(i, Minus(Nothing, Restored(invoice[i])))

VoidInvoice(c, i) ==
    /\ call[c].pc = "void" /\ i \in call[c].todo
    /\ Restore(i)
    /\ invoice' = [invoice EXCEPT ![i].status = "VOID"]
    /\ Write(c, i)
    /\ UNCHANGED <<money, books>>

-----------------------------------------------------------------------------
(* Money *)

NewMoney(m, kind, i, amount) ==
    /\ money[m].kind = "none"
    /\ money' = [money EXCEPT ![m] = [kind |-> kind, invoice |-> i, amount |-> amount]]

\* The add-payment route, createReceiptAction and receiveInvoicePaymentAction.
WithinBalance(i, amount) == Live(i) /\ amount <= InvoiceTotal(i) - invoice[i].paid
ReadForPayment(c, i, amount) ==
    /\ WithinBalance(i, amount)
    /\ Read(c, [Idle EXCEPT !.pc = "pay", !.todo = {i}, !.amount = amount])

\* Payment, receipt, posting and sync; nothing is asked again.
WritePayment(c, i, m) ==
    /\ call[c].pc = "pay" /\ i \in call[c].todo
    /\ NewMoney(m, "payment", i, call[c].amount)
    /\ books' = Post(books, m, call[c].amount)
    /\ SyncInvoice(i)
    /\ Write(c, i)
    /\ UNCHANGED stockVars

\* recordClientPaymentAction, all in one transaction: the job's invoice is made or
\* found, whatever its status, its lines composed again, and the money recorded.  An
\* adjustment is not posted.
Covered(i, qty, kind, amount, confirmed) ==
    LET next == Paid(money, i) + (IF kind = "jobrefund" THEN -amount ELSE amount) IN
    /\ next > Value(qty) => confirmed
    /\ next >= 0

RecordClientPayment(i, qty, m, kind, amount, confirmed) ==
    LET composed == [invoice[i] EXCEPT !.bills = "job", !.qty = qty, !.edits = 0]
        row == IF composed.status = "NONE" THEN [composed EXCEPT !.status = "ISSUED"] ELSE composed
    IN
    /\ invoice[i].bills = "job" \/ invoice[i].status = "NONE"
    /\ Value(qty) > 0
    /\ Covered(i, qty, kind, amount, confirmed)
    /\ NewMoney(m, kind, i, amount)
    /\ books' = IF kind = "adjustment" THEN books ELSE Post(books, m, Signed(money'[m]))
    /\ invoice' = [invoice EXCEPT ![i] = Sync(row, Paid(money', i))]
    /\ AtOnce("job", i)
    /\ UNCHANGED stockVars

\* updateReceiptAction works out the difference before its transaction, and lists
\* every kind of Payment row.
OtherPayments(m) ==
    Total({o \in Money \ {m} : money[o].kind \in TakesIn \cup {"jobrefund"}
                              /\ money[o].invoice = money[m].invoice},
          [o \in Money |-> money[o].amount])

ReadForAmend(c, m, amount) ==
    LET i == money[m].invoice IN
    /\ money[m].kind \in TakesIn \cup {"jobrefund"} /\ amount # money[m].amount
    /\ OtherPayments(m) + amount <= InvoiceTotal(i)
    /\ Read(c, [Idle EXCEPT !.pc = "amend", !.todo = {i}, !.money = m,
                            !.amount = amount, !.old = [p \in Parts |-> money[m].amount]])

\* The adjustment is posted even if the row is gone by now.
AdjustmentNone(m, delta) == books
Adjustment(m, delta) ==
    Post(books, <<m, Cardinality(Adjusted(m)) + 1>>, delta)

WriteAmend(c, i) ==
    LET m == call[c].money  before == call[c].old[SomePart] IN
    /\ call[c].pc = "amend" /\ i \in call[c].todo
    /\ Cardinality(Adjusted(m)) < MaxEdits
    /\ money' = IF money[m].kind = "gone" THEN money
                ELSE [money EXCEPT ![m].amount = call[c].amount]
    /\ books' = Adjustment(m, call[c].amount - before)
    /\ SyncInvoice(i)
    /\ Write(c, i)
    /\ UNCHANGED stockVars

\* deleteReceiptAction and deleteRefundAction: one posting is reversed.
DeleteMoney(m) ==
    LET i == money[m].invoice IN
    /\ money[m].kind \in TakesIn \cup PaysOut
    /\ money' = [money EXCEPT ![m] = [NoMoney EXCEPT !.kind = "gone"]]
    /\ books' = Reverse(books, m)
    /\ SyncInvoice(i)
    /\ AtOnce("erase", i)
    /\ UNCHANGED stockVars

\* createRefundAction against the invoice; what is left is asked before, and again
\* of the invoice as synced.
ReadForRefund(c, i, amount) ==
    /\ Live(i) /\ amount <= invoice[i].paid
    /\ Read(c, [Idle EXCEPT !.pc = "refund", !.todo = {i}, !.amount = amount])

LeftAsRead(i) == TRUE
Left(i) == invoice'[i].paid >= 0

WriteRefund(c, i, m) ==
    /\ call[c].pc = "refund" /\ i \in call[c].todo
    /\ NewMoney(m, "refund", i, call[c].amount)
    /\ SyncInvoice(i)
    /\ Left(i)
    /\ books' = Post(books, m, -call[c].amount)
    /\ Write(c, i)
    /\ UNCHANGED stockVars

-----------------------------------------------------------------------------
Bags == [Parts -> 0..MaxQty]
Amounts == 1..(MaxQty * Cardinality(Parts))

LineSteps ==
    \/ \E i \in Invoices, qty \in Bags : CreateInvoice(i, qty)
    \/ \E i \in Invoices, qty \in Bags : ConvertQuotation(i, qty)
    \/ \E c \in Calls, i \in Invoices, qty \in Bags : ReadForEdit(c, i, qty)
    \/ \E c \in Calls, i \in Invoices : WriteEdit(c, i)
    \/ \E c \in Calls, chosen \in SUBSET Invoices : ReadForVoid(c, chosen)
    \/ \E c \in Calls, i \in Invoices : VoidInvoice(c, i)
    \/ \E c \in Calls : EndCall(c)

MoneySteps ==
    \/ \E c \in Calls, i \in Invoices, amount \in Amounts : ReadForPayment(c, i, amount)
    \/ \E c \in Calls, i \in Invoices, m \in Money : WritePayment(c, i, m)
    \/ \E i \in Invoices, qty \in Bags, m \in Money, amount \in Amounts,
          kind \in {"payment", "jobrefund", "adjustment"}, confirmed \in BOOLEAN :
          RecordClientPayment(i, qty, m, kind, amount, confirmed)
    \/ \E c \in Calls, m \in Money, amount \in Amounts : ReadForAmend(c, m, amount)
    \/ \E c \in Calls, i \in Invoices : WriteAmend(c, i)
    \/ \E m \in Money : DeleteMoney(m)
    \/ \E c \in Calls, i \in Invoices, amount \in Amounts : ReadForRefund(c, i, amount)
    \/ \E c \in Calls, i \in Invoices, m \in Money : WriteRefund(c, i, m)

Next == LineSteps \/ MoneySteps

Spec == Init /\ [][Next]_vars

-----------------------------------------------------------------------------
(* Properties *)

InvoiceRows == [status : {"NONE", "ISSUED", "PAID", "VOID"}, bills : {"goods", "job"},
                paid : Int, qty : Quantities, edits : Nat]
MoneyRows == [kind : {"none", "gone"} \cup TakesIn \cup PaysOut, invoice : Invoices, amount : Nat]
CallStates == [pc : Kinds \cup {"idle"}, todo : SUBSET Invoices, changed : SUBSET Invoices,
               money : Money, qty : Quantities, old : Quantities, amount : Nat]

\* Every variable holds what the schema and the handlers' locals can hold.
TypeOK ==
    /\ invoice \in [Invoices -> InvoiceRows]
    /\ money \in [Money -> MoneyRows]
    /\ onHand \in [Parts -> Int] /\ moved \in [Invoices -> [Parts -> Int]]
    /\ books \in BooksOver(Refs)
    /\ call \in [Calls -> CallStates]
    /\ stale \subseteq Invoices \X Kinds

\* The stock book of invoicing: what every invoice took out is off the opening.
Taken(p) == SignedTotal(Invoices, [i \in Invoices |-> moved[i][p]])
Book == INSTANCE StockBook WITH
    transit <- [p \in Parts |-> 0],
    booked <- [p \in Parts |-> Opening[p] - Taken(p)],
    slipped <- [p \in Parts |-> 0]

\* Issuing, editing and voiding implement the stock book.
ImplementsStockBook == Book!Spec

\* What an invoice for goods took off the shelf is what its lines sell, by the
\* product's factor, and within half a unit of nothing once it is void, however it is
\* edited and voided at once.  Two things disturb it: an edit or a void that wrote over
\* a change it had not seen (invoices/[id]/page.tsx:684 and bulk-void/route.ts:31 read
\* outside the transaction), and, for a product not sold by the base unit, a void or
\* a second edit of lines that the first had left without their factor (page.tsx:752).
Unseen(i, kinds) == \E kind \in kinds : <<i, kind>> \in stale
FactorKnown(i, p) == Grains[p] = Plain \/ invoice[i].edits <= (IF Live(i) THEN 1 ELSE 0)
HalfAUnit(n) == -Unit <= 2 * n /\ 2 * n <= Unit
GoodsFollowInvoice ==
    \A i \in Invoices, p \in Parts :
        invoice[i].bills = "goods" /\ ~Unseen(i, {"edit", "void"}) /\ FactorKnown(i, p) =>
            /\ invoice[i].status = "NONE" => moved[i][p] = 0
            /\ Live(i) => moved[i][p] = Stock(invoice[i].qty)[p]
            /\ invoice[i].status = "VOID" => HalfAUnit(moved[i][p])

\* An invoice that is not void reads as paid exactly when its payments, less what
\* was handed back, cover it, through overlapping receipts, edits and deletions.
StatusFollowsMoney ==
    \A i \in Invoices : Live(i) =>
        /\ invoice[i].paid = Paid(money, i)
        /\ invoice[i].status = "PAID" <=> Paid(money, i) >= InvoiceTotal(i)

\* What the journal says of a payment or refund, with its adjustments.
Journal(m) ==
    Balance(books, m) + SignedTotal(1..MaxEdits, [n \in 1..MaxEdits |-> Balance(books, <<m, n>>)])

\* The journal holds a payment's amount as it stands now, a refund's negated, and
\* nothing of a row that is gone: unless its amount was changed twice at once, or
\* changed at all and then deleted, or it is no plain payment (receipts/page.tsx:178).
BooksFollowMoney ==
    \A m \in Money :
        LET row == money[m] IN
        /\ row.kind = "payment" =>
             Journal(m) = row.amount \/ Unseen(row.invoice, {"amend"})
        /\ row.kind = "refund" => Journal(m) = -row.amount
        /\ Adjusted(m) = {} =>
             Journal(m) = IF row.kind \in {"none", "gone", "adjustment"} THEN 0 ELSE Signed(row)

\* No more is handed back on an invoice in force than was received on it: however
\* refunds, voids and deletions overlap, a new refund leaves what is paid at or
\* above nothing (refunds/page.tsx:245).
NewRefund(m) == money[m].kind = "none" /\ money'[m].kind \in PaysOut
RefundsHaveMoney ==
    [][\A m \in Money : LET i == money'[m].invoice IN
          NewRefund(m) /\ Live(i) => Paid(money', i) >= 0]_vars

(* What comments of the code say, and the code does not keep. *)

\* prisma/schema.prisma:2479: the factor is a snapshot so that voids restore the same
\* base amount.  Rounding loses up to half a unit and an edit loses the snapshot.
VoidsRestoreTheSame ==
    \A i \in Invoices : invoice[i].bills = "goods" /\ ~Unseen(i, {"edit", "void"})
                        /\ invoice[i].status = "VOID" => moved[i] = Nothing

\* actions/route.ts:113: repair invoices were consumed at job completion, not here,
\* so they aren't restored.  Their part lines read "Part" like any other.
RepairPartsStayConsumed ==
    \A i \in Invoices : invoice[i].bills = "job" /\ ~Unseen(i, {"edit", "void"})
                        /\ invoice[i].status = "VOID" => moved[i] = Nothing
=============================================================================
