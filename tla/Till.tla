--------------------------------- MODULE Till ---------------------------------
(***************************************************************************)
(* Sales at the till: the goods that go out with a sale and come back with *)
(* a credit note, the money taken and handed back, and the state of the    *)
(* sale that follows from both.                                            *)
(*                                                                         *)
(* A handler that reads first and writes in a later statement is a call    *)
(* with a program counter; its prisma.$transaction is one action.  Every   *)
(* unit costs 1, without tax and discount; lines of one part are counted   *)
(* together; there is one way to pay.  The dedupe window of ten seconds may *)
(* have passed between any two requests, so no two are taken for one.  The *)
(* journal is left out: a sale's payments are posted by the code that      *)
(* Invoicing models.                                                       *)
(*                                                                         *)
(* A definition that stands just before one it resembles is its mutated    *)
(* form: what a plausible bug would make of it.                            *)
(***************************************************************************)
EXTENDS Integers, FiniteSets, UnitTotals

CONSTANTS
    Sales,            \* ids of Sale rows
    Parts,            \* the products
    Opening,          \* per part, the stock at the start
    Notes,            \* ids of CreditNote rows
    NoNote,           \* a refund against the sale itself
    Money,            \* ids of Payment and Refund rows
    Calls,            \* concurrent requests
    Kinds             \* bound: the handlers that are used

ASSUME IdsAssumption ==
    /\ Parts # {} /\ Sales # {} /\ NoNote \notin Notes
    /\ IsFiniteSet(Parts) /\ IsFiniteSet(Sales) /\ IsFiniteSet(Notes) /\ IsFiniteSet(Money)
ASSUME OpeningAssumption == Opening \in [Parts -> Nat]

VARIABLES
    sale,             \* Sale.status and paidAmount, and the quantities of its lines
    note,             \* CreditNote rows with the quantities of their items
    money,            \* Payment and Refund rows
    onHand,           \* Part.qtyOnHand
    moved,            \* per sale, what its PartStockTransaction rows took out
    call,             \* requests in flight, with what they read
    restocked,        \* history: notes whose goods came back
    stale,            \* history: which handlers wrote on a sale that had changed since
                      \* they read it
    undone            \* history: sales a payment of which was deleted, lowered or handed
                      \* back without a note, or with one that was deleted

stockVars == <<onHand, moved>>
historyVars == <<restocked, undone>>
vars == <<sale, note, money, onHand, moved, call, restocked, stale, undone>>

Quantities == [Parts -> Nat]
Nothing == [p \in Parts |-> 0]
Value(qty) == Total(Parts, qty)
Plus(a, b) == [p \in Parts |-> a[p] + b[p]]
Minus(a, b) == [p \in Parts |-> a[p] - b[p]]

SomeSale == CHOOSE s \in Sales : TRUE
NewSale == [status |-> "NONE", paid |-> 0, qty |-> Nothing]
NoMoney == [kind |-> "none", sale |-> SomeSale, note |-> NoNote, amount |-> 0]
Unused == [state |-> "NONE", sale |-> SomeSale, qty |-> Nothing]
Idle == [pc |-> "idle", sale |-> SomeSale, note |-> NoNote, qty |-> Nothing, amount |-> 0,
         stale |-> FALSE]

Exists(s) == sale[s].status \notin {"NONE", "DELETED"}
TotalAmount(s) == Value(sale[s].qty)

\* What syncSalePaymentState sums up.
AmountsOf(rows) == [m \in Money |-> rows[m].amount]
RowsOf(rows, kind, s) == {m \in Money : rows[m].kind = kind /\ rows[m].sale = s}
Paid(rows, s) == Total(RowsOf(rows, "payment", s), AmountsOf(rows))
                 - Total(RowsOf(rows, "refund", s), AmountsOf(rows))
NotesOf(rows, s) == {n \in Notes : rows[n].state \in {"ISSUED", "RECEIVED"} /\ rows[n].sale = s}
Credited(rows, s) == Total(NotesOf(rows, s), [n \in Notes |-> Value(rows[n].qty)])
RefundsOf(rows, n) == {m \in Money : rows[m].kind = "refund" /\ rows[m].note = n}
Refunded(n) == Total(RefundsOf(money, n), AmountsOf(money))

\* A deleted row; the goods that came back with a note are not forgotten.
Erased(m) == [NoMoney EXCEPT !.kind = "gone"]
Withdrawn(n) == IF n \in restocked THEN [note[n] EXCEPT !.state = "GONE"]
                ELSE [Unused EXCEPT !.state = "GONE"]

StatusOf(sold, paid, returned) ==
    IF returned > 0 /\ sold > 0 /\ returned >= sold THEN "RETURNED"
    ELSE IF returned > 0 THEN "PARTIALLY_RETURNED"
    ELSE IF sold > 0 /\ paid >= sold THEN "PAID" ELSE "OPEN"

\* syncSalePaymentState, after the rows were written; before it recalcSaleTotals has
\* written the total of the lines, where those changed.
SyncStatusOnly(s, qty) ==
    sale' = [sale EXCEPT ![s].qty = qty,
                         ![s].status = StatusOf(Value(qty), Paid(money', s), Credited(note', s))]
SyncWith(s, qty) ==
    LET paid == Paid(money', s) IN
    sale' = [sale EXCEPT ![s].qty = qty,
                         ![s].paid = paid,
                         ![s].status = StatusOf(Value(qty), paid, Credited(note', s))]
Sync(s) == SyncWith(s, sale[s].qty)

-----------------------------------------------------------------------------
(* Requests *)

Touched(s, others) ==
    [c \in Calls |-> IF c \in others /\ call[c].pc # "idle" /\ call[c].sale = s
                     THEN [call[c] EXCEPT !.stale = TRUE] ELSE call[c]]

\* A handler that reads and writes sale s in one transaction.
AtOnce(kind, s) ==
    /\ kind \in Kinds
    /\ call' = Touched(s, Calls)
    /\ stale' = stale

\* A handler takes note of what it read and goes on to its transaction.
Read(c, kind, s, n, qty, amount) ==
    /\ kind \in Kinds /\ call[c].pc = "idle"
    /\ call' = [call EXCEPT ![c] = [pc |-> kind, sale |-> s, note |-> n, qty |-> qty,
                                    amount |-> amount, stale |-> FALSE]]
    /\ UNCHANGED <<sale, note, money, stockVars, historyVars, stale>>

\* Its transaction commits.
Write(c) ==
    LET s == call[c].sale IN
    /\ call' = [Touched(s, Calls \ {c}) EXCEPT ![c] = Idle]
    /\ stale' = IF call[c].stale THEN stale \cup {<<s, call[c].pc>>} ELSE stale

\* A check refuses the request, its row is gone, or the server dies.
EndCall(c) ==
    /\ call[c].pc # "idle"
    /\ call' = [call EXCEPT ![c] = Idle]
    /\ UNCHANGED <<sale, note, money, stockVars, historyVars, stale>>

-----------------------------------------------------------------------------
Init ==
    /\ sale = [s \in Sales |-> NewSale]
    /\ note = [n \in Notes |-> Unused]
    /\ money = [m \in Money |-> NoMoney]
    /\ onHand = Opening
    /\ moved = [s \in Sales |-> Nothing]
    /\ call = [c \in Calls |-> Idle]
    /\ restocked = {} /\ stale = {} /\ undone = {}

(* Lines *)

\* Units leave with sale s (when taken is positive) or come back from it.
MoveOnPaper(s, taken) ==
    /\ onHand' = onHand
    /\ moved' = [moved EXCEPT ![s] = Plus(@, taken)]
Move(s, taken) ==
    /\ onHand' = Minus(onHand, taken)
    /\ moved' = [moved EXCEPT ![s] = Plus(@, taken)]

Only(p, n) == [Nothing EXCEPT ![p] = n]

CreateSale(s) ==
    /\ sale[s].status = "NONE"
    /\ sale' = [sale EXCEPT ![s].status = "OPEN"]
    /\ UNCHANGED <<note, money, stockVars, call, historyVars, stale>>

\* addItemAction asks whether the sale is open before its transaction only.
ReadForAdd(c, s, p, n) ==
    /\ sale[s].status = "OPEN"
    /\ Read(c, "add", s, NoNote, Only(p, n), 0)

\* The decrement is conditional on the stock.
EnoughAsRead(p, n) == TRUE
Enough(p, n) == onHand[p] >= n

AddItem(c) ==
    LET s == call[c].sale  qty == call[c].qty IN
    /\ call[c].pc = "add" /\ Exists(s)
    /\ \A p \in Parts : Enough(p, qty[p])
    /\ Move(s, qty)
    /\ UNCHANGED <<note, money, historyVars>>
    /\ SyncWith(s, Plus(sale[s].qty, qty))
    /\ Write(c)

\* updateItemAction, all in one transaction: the difference moves.
UpdateItem(s, p, n) ==
    LET more == n - sale[s].qty[p] IN
    /\ sale[s].status = "OPEN" /\ sale[s].qty[p] > 0
    /\ Enough(p, more)
    /\ Move(s, Only(p, more))
    /\ UNCHANGED <<note, money, historyVars>>
    /\ SyncWith(s, [sale[s].qty EXCEPT ![p] = n])
    /\ AtOnce("update", s)

\* deleteItemAction.
ReturnLineNone(s, p) == UNCHANGED stockVars
ReturnLine(s, p) == Move(s, Only(p, -sale[s].qty[p]))

DeleteItem(s, p) ==
    /\ sale[s].status = "OPEN" /\ sale[s].qty[p] > 0
    /\ ReturnLine(s, p)
    /\ UNCHANGED <<note, money, historyVars>>
    /\ SyncWith(s, [sale[s].qty EXCEPT ![p] = 0])
    /\ AtOnce("remove", s)

\* toggleSaleVatAction and the discount form: whether the sale is open is asked before
\* the transaction, which recalculates and syncs.
ReadForRecalc(c, s) ==
    /\ sale[s].status = "OPEN"
    /\ Read(c, "recalc", s, NoNote, Nothing, 0)

Recalc(c) ==
    LET s == call[c].sale IN
    /\ call[c].pc = "recalc" /\ Exists(s)
    /\ UNCHANGED <<note, money, stockVars, historyVars>>
    /\ Sync(s)
    /\ Write(c)

\* deleteSaleAction, here and in the list of sales.
Deletable(s) ==
    /\ sale[s].status = "OPEN"
    /\ NotesOf(note, s) = {}
    /\ \A m \in Money : money[m].kind \in {"payment", "refund"} => money[m].sale # s

ReadForDelete(c, s) ==
    /\ Deletable(s)
    /\ Read(c, "delete", s, NoNote, sale[s].qty, 0)

\* The lines as read go back; payments and notes go with the row.
DeleteSale(c) ==
    LET s == call[c].sale IN
    /\ call[c].pc = "delete"
    /\ Move(s, Minus(Nothing, call[c].qty))
    /\ sale' = [sale EXCEPT ![s].status = "DELETED"]
    /\ money' = [m \in Money |-> IF money[m].sale = s THEN Erased(m) ELSE money[m]]
    /\ note' = [n \in Notes |-> IF n \in NotesOf(note, s) THEN Withdrawn(n) ELSE note[n]]
    /\ Write(c)
    /\ UNCHANGED historyVars

-----------------------------------------------------------------------------
(* Payments and receipts *)

NewMoney(m, kind, s, n, amount) ==
    /\ money[m].kind = "none"
    /\ money' = [money EXCEPT ![m] = [kind |-> kind, sale |-> s, note |-> n, amount |-> amount]]
    /\ note' = note

WithinBalance(s, amount) == amount <= TotalAmount(s) - sale[s].paid

\* addPaymentAction of the till: everything is asked inside the transaction.
TakePayment(s, m, amount) ==
    /\ Exists(s) /\ TotalAmount(s) > 0
    /\ WithinBalance(s, amount)
    /\ NewMoney(m, "payment", s, NoNote, amount)
    /\ Sync(s)
    /\ AtOnce("pay", s)
    /\ UNCHANGED <<stockVars, historyVars>>

\* createReceiptAction of the receipts page asks for the balance before.
ReadForReceipt(c, s, amount) ==
    /\ Exists(s) /\ WithinBalance(s, amount)
    /\ Read(c, "receipt", s, NoNote, Nothing, amount)

WriteReceipt(c, m) ==
    LET s == call[c].sale  amount == call[c].amount IN
    /\ call[c].pc = "receipt" /\ Exists(s)
    /\ NewMoney(m, "payment", s, NoNote, amount)
    /\ Sync(s)
    /\ Write(c)
    /\ UNCHANGED <<stockVars, historyVars>>

\* updateReceiptAction: no bound on what a sale's receipt is changed to.
UpdateReceipt(m, amount) ==
    LET s == money[m].sale IN
    /\ money[m].kind = "payment" /\ amount # money[m].amount
    /\ money' = [money EXCEPT ![m].amount = amount]
    /\ note' = note
    /\ Sync(s)
    /\ AtOnce("edit", s)
    /\ undone' = undone \cup {s}
    /\ UNCHANGED <<stockVars, restocked>>

\* deleteReceiptAction and deleteRefundAction.
DeleteMoney(m) ==
    LET s == money[m].sale IN
    /\ money[m].kind \in {"payment", "refund"}
    /\ money' = [money EXCEPT ![m] = Erased(m)]
    /\ note' = note
    /\ Sync(s)
    /\ AtOnce("erase", s)
    /\ undone' = IF money[m].kind = "payment" THEN undone \cup {s} ELSE undone
    /\ UNCHANGED <<stockVars, restocked>>

-----------------------------------------------------------------------------
(* Returns *)

\* createCreditNoteAction of the till and of the credit-notes page, and
\* returnAndRefundAction: a note may return of a line what was sold of it, all
\* notes together what was billed.
ReadForNote(c, kind, s, qty) ==
    /\ sale[s].status \in {"PAID", "PARTIALLY_RETURNED"}
    /\ Value(qty) > 0
    /\ \A p \in Parts : qty[p] <= sale[s].qty[p]
    /\ Credited(note, s) + Value(qty) <= TotalAmount(s)
    /\ Read(c, kind, s, NoNote, qty, TotalAmount(s))

\* The sum is asked for again beside the write, against the total as read.
CapAsRead(c) == TRUE
Cap(c) == Credited(note, call[c].sale) + Value(call[c].qty) <= call[c].amount

NewNote(c, n, state) ==
    /\ note[n].state = "NONE" /\ Exists(call[c].sale)
    /\ Cap(c)
    /\ note' = [note EXCEPT ![n] = [state |-> state, sale |-> call[c].sale, qty |-> call[c].qty]]

CreateNote(c, n) ==
    LET s == call[c].sale IN
    /\ call[c].pc \in {"tillnote", "note"}
    /\ NewNote(c, n, "ISSUED")
    /\ money' = money
    /\ Sync(s)
    /\ Write(c)
    /\ UNCHANGED <<stockVars, historyVars>>

\* The goods of a note go back on the shelf.
PutBackNone(s, qty) == UNCHANGED stockVars
PutBack(s, qty) == Move(s, Minus(Nothing, qty))

\* returnAndRefundAction: note, goods and refund in one transaction.
ReturnAndRefund(c, n, m) ==
    LET s == call[c].sale  qty == call[c].qty IN
    /\ call[c].pc = "return"
    /\ NewNote(c, n, "RECEIVED")
    /\ PutBack(s, qty)
    /\ money[m].kind = "none"
    /\ money' = [money EXCEPT ![m] = [kind |-> "refund", sale |-> s, note |-> n, amount |-> Value(qty)]]
    /\ Sync(s)
    /\ Write(c)
    /\ restocked' = restocked \cup {n}
    /\ UNCHANGED undone

\* markItemsReceivedBackAction of the till and markItemsReceivedAction of the
\* documents: whether the goods are back is asked before.
ReadForReceive(c, n) ==
    /\ note[n].state = "ISSUED"
    /\ Read(c, "receive", note[n].sale, n, Nothing, 0)

WriteReceive(c) ==
    LET n == call[c].note IN
    /\ call[c].pc = "receive" /\ note[n].state \in {"ISSUED", "RECEIVED"}
    /\ PutBack(note[n].sale, note[n].qty)
    /\ note' = [note EXCEPT ![n].state = "RECEIVED"]
    /\ restocked' = restocked \cup {n}
    /\ Write(c)
    /\ UNCHANGED <<sale, money, undone>>

\* deleteCreditNoteAction: no refunds by then.  Goods that came back stay, and the
\* sale keeps its status.
ReadForNoteDelete(c, n) ==
    /\ note[n].state \in {"ISSUED", "RECEIVED"} /\ Refunded(n) = 0
    /\ Read(c, "unnote", note[n].sale, n, Nothing, 0)

WriteNoteDelete(c) ==
    LET n == call[c].note IN
    /\ call[c].pc = "unnote" /\ note[n].state \in {"ISSUED", "RECEIVED"}
    /\ note' = [note EXCEPT ![n] = Withdrawn(n)]
    /\ money' = [m \in Money |-> IF money[m].note = n THEN [money[m] EXCEPT !.note = NoNote]
                                 ELSE money[m]]
    /\ Write(c)
    /\ undone' = IF RefundsOf(money, n) = {} THEN undone ELSE undone \cup {call[c].sale}
    /\ UNCHANGED <<sale, stockVars, restocked>>

-----------------------------------------------------------------------------
(* Refunds *)

\* refundableCeiling: what the note leaves, and what the till took.
Least(a, b) == IF a <= b THEN a ELSE b
RefundableByMoney(s, n) == Paid(money, s)
Refundable(s, n) ==
    IF n = NoNote THEN sale[s].paid
    ELSE Least(Value(note[n].qty) - Refunded(n), Paid(money, s))

\* Against a note from the till, from the credit note, or from the refunds page,
\* which takes the sale itself too.
ReadForRefund(c, kind, s, n, amount) ==
    /\ Exists(s)
    /\ IF n = NoNote THEN kind = "refund" ELSE n \in NotesOf(note, s)
    /\ kind = "tillrefund" => sale[s].status # "OPEN"
    /\ amount <= Refundable(s, n)
    /\ Read(c, kind, s, n, Nothing, amount)

\* What each asks again beside the write: the till for the note, the refunds page
\* for the money of the sale, the credit note for neither.
StillAllowedToday(c) == TRUE
StillAllowed(c) ==
    LET s == call[c].sale  n == call[c].note  amount == call[c].amount IN
    /\ call[c].pc = "tillrefund" =>
              /\ amount <= Value(note[n].qty) - Refunded(n)
    /\ call[c].pc = "refund" => amount <= Paid(money, s)

WriteRefund(c, m) ==
    LET s == call[c].sale  n == call[c].note IN
    /\ call[c].pc \in {"tillrefund", "noterefund", "refund"} /\ Exists(s)
    /\ n # NoNote => note[n].state \in {"ISSUED", "RECEIVED"}
    /\ StillAllowed(c)
    /\ NewMoney(m, "refund", s, n, call[c].amount)
    /\ Sync(s)
    /\ Write(c)
    /\ undone' = IF n = NoNote THEN undone \cup {s} ELSE undone
    /\ UNCHANGED <<stockVars, restocked>>

-----------------------------------------------------------------------------
Amounts == 1..Value(Opening)
Bags == {qty \in [Parts -> 0..Value(Opening)] : \A p \in Parts : qty[p] <= Opening[p]}

Lines ==
    \/ \E s \in Sales : CreateSale(s)
    \/ \E c \in Calls, s \in Sales, p \in Parts, n \in Amounts : ReadForAdd(c, s, p, n)
    \/ \E c \in Calls : AddItem(c)
    \/ \E s \in Sales, p \in Parts, n \in Amounts : UpdateItem(s, p, n)
    \/ \E s \in Sales, p \in Parts : DeleteItem(s, p)
    \/ \E c \in Calls, s \in Sales : ReadForRecalc(c, s)
    \/ \E c \in Calls : Recalc(c)
    \/ \E c \in Calls, s \in Sales : ReadForDelete(c, s)
    \/ \E c \in Calls : DeleteSale(c)
    \/ \E c \in Calls : EndCall(c)

Paying ==
    \/ \E s \in Sales, m \in Money, amount \in Amounts : TakePayment(s, m, amount)
    \/ \E c \in Calls, s \in Sales, amount \in Amounts : ReadForReceipt(c, s, amount)
    \/ \E c \in Calls, m \in Money : WriteReceipt(c, m)
    \/ \E m \in Money, amount \in Amounts : UpdateReceipt(m, amount)
    \/ \E m \in Money : DeleteMoney(m)

Returning ==
    \/ \E c \in Calls, s \in Sales, qty \in Bags, kind \in {"tillnote", "note", "return"} :
           ReadForNote(c, kind, s, qty)
    \/ \E c \in Calls, n \in Notes : CreateNote(c, n)
    \/ \E c \in Calls, n \in Notes, m \in Money : ReturnAndRefund(c, n, m)
    \/ \E c \in Calls, n \in Notes : ReadForReceive(c, n)
    \/ \E c \in Calls : WriteReceive(c)
    \/ \E c \in Calls, n \in Notes : ReadForNoteDelete(c, n)
    \/ \E c \in Calls : WriteNoteDelete(c)

Refunding ==
    \/ \E c \in Calls, s \in Sales, n \in Notes \cup {NoNote}, amount \in Amounts,
          kind \in {"tillrefund", "noterefund", "refund"} : ReadForRefund(c, kind, s, n, amount)
    \/ \E c \in Calls, m \in Money : WriteRefund(c, m)

Next == Lines \/ Paying \/ Returning \/ Refunding

Spec == Init /\ [][Next]_vars

-----------------------------------------------------------------------------
(* Properties *)

SaleRows == [status : {"NONE", "OPEN", "PAID", "PARTIALLY_RETURNED", "RETURNED", "DELETED"},
             paid : Int, qty : Quantities]
NoteRows == [state : {"NONE", "ISSUED", "RECEIVED", "GONE"}, sale : Sales, qty : Quantities]
MoneyRows == [kind : {"none", "payment", "refund", "gone"}, sale : Sales,
              note : Notes \cup {NoNote}, amount : Nat]
CallRows == [pc : Kinds \cup {"idle"}, sale : Sales, note : Notes \cup {NoNote},
             qty : Quantities, amount : Nat, stale : BOOLEAN]
AboutNotes == {"receive", "unnote", "tillrefund", "noterefund"}

\* Every variable holds what the schema and the handlers' locals can hold.
TypeOK ==
    /\ sale \in [Sales -> SaleRows]
    /\ note \in [Notes -> NoteRows]
    /\ money \in [Money -> MoneyRows]
    /\ onHand \in [Parts -> Int] /\ moved \in [Sales -> [Parts -> Int]]
    /\ call \in [Calls -> CallRows]
    /\ \A c \in Calls : call[c].pc \in AboutNotes => call[c].note \in Notes
    /\ restocked \subseteq Notes /\ undone \subseteq Sales
    /\ stale \subseteq Sales \X Kinds

\* However many tills sell at once, none sells what is not there.
NeverOversold == \A p \in Parts : onHand[p] >= 0

\* What a sale took off the shelf, by its stock transactions, is what its lines
\* hold less what came back with its notes, through every edit, deletion and return.
\* Only a deletion or a receiving back that wrote over a change it had not seen
\* disturbs it (pos/[id]/page.tsx:388 and :923 read outside the transaction).
Unseen(s, kinds) == \E kind \in kinds : <<s, kind>> \in stale
GoodsAccountedFor ==
    \A s \in Sales : ~Unseen(s, {"delete", "receive"}) => \A p \in Parts :
        moved[s][p] = (IF Exists(s) THEN sale[s].qty[p] ELSE 0)
                      - Total({n \in restocked : note[n].sale = s},
                              [n \in Notes |-> note[n].qty[p]])

\* The stock book of the till: what was there less what the sales took.
Taken(p) == SignedTotal(Sales, [s \in Sales |-> moved[s][p]])
Book == INSTANCE StockBook WITH
    slipped <- [p \in Parts |-> 0],
    transit <- [p \in Parts |-> 0],
    booked <- [p \in Parts |-> Opening[p] - Taken(p)]

\* Selling, editing, deleting and taking back implement the stock book.
ImplementsStockBook == Book!Spec

\* A sale's paid amount is what its payments and refunds come to, however they are
\* made, changed and deleted at once; and a sale that reads PAID is paid in full,
\* whichever lines were added by a till that had seen it open, changed or taken off
\* (pos/[id]/page.tsx:128 syncs after each).
SaleFollowsMoney ==
    \A s \in Sales : Exists(s) =>
        /\ sale[s].paid = Paid(money, s)
        /\ sale[s].status = "PAID" => TotalAmount(s) > 0 /\ sale[s].paid >= TotalAmount(s)

\* All credit notes of a sale together never exceed it, however many returns are
\* taken at once (pos/[id]/page.tsx:848), unless money that was deleted or handed
\* back without a note, or a line added by a till that had seen the sale open, opened
\* it for editing again.
CreditsWithinSale ==
    \A s \in Sales \ undone :
        Exists(s) /\ ~Unseen(s, {"add"}) => Credited(note, s) <= TotalAmount(s)

\* No more is refunded on a note than it credits, unless two refunds from the
\* documents pages overlapped (credit-notes/page.tsx:150 reads outside).
RefundsWithinNotes ==
    \A n \in Notes : note[n].state \in {"ISSUED", "RECEIVED"} =>
        Refunded(n) <= Value(note[n].qty) \/ Unseen(note[n].sale, {"noterefund", "refund"})

\* A refund is paid out of money the sale still holds, unless two refunds of notes
\* overlapped.  Return-and-refund asks for none, see below.
NewRefund(m) == money[m].kind = "none" /\ money'[m].kind = "refund"
RefundsHaveMoney ==
    [][\A m \in Money : LET s == money'[m].sale IN
          NewRefund(m) => \/ money'[m].amount <= Paid(money, s)
                          \/ note' # note
                          \/ \E kind \in {"tillrefund", "noterefund"} : <<s, kind>> \in stale']_vars

(* What a comment of the code says, and the code does not keep. *)

\* credit-note-source.ts:37: money that was never taken is not given back, so a
\* refund does not drive what a sale has paid below nothing.  A partly returned sale
\* counts as settled there, whatever was refunded on it.
NoRefundWithoutPayment ==
    \A s \in Sales : stale = {} /\ undone = {} => sale[s].paid >= 0
=============================================================================
