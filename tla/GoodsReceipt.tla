----------------------------- MODULE GoodsReceipt -----------------------------
(***************************************************************************)
(* Buying stock: purchase orders, the goods-received notes that book what  *)
(* arrived, their reversal, and the bills for orders and notes.  What is   *)
(* paid on a bill is Payables.                                             *)
(*                                                                         *)
(* A handler that reads first and writes in a later statement is a call    *)
(* with a program counter; its prisma.$transaction is one action.  Costs   *)
(* are left out, but for what an order is worth in all, and there is one   *)
(* supplier and one currency.  No code of the repository sets a purchase   *)
(* factor, so a purchased unit is one unit of stock.                       *)
(*                                                                         *)
(* A definition that stands just before one it resembles is its mutated    *)
(* form: what a plausible bug would make of it.                            *)
(***************************************************************************)
EXTENDS Integers, FiniteSets, UnitTotals

CONSTANTS
    Orders,           \* ids of PurchaseOrder rows
    Parts,            \* the parts, one line of every order each
    Services,         \* lines of every order that name no part
    Ordered,          \* per line, the quantity ordered
    Worths,           \* what an order may be worth: 0 when none of its lines is priced
    Notes,            \* ids of GoodsReceived rows
    Bills,            \* ids of SupplierBill rows
    Forms,            \* forms of a bill: for which order and note, and the sum of its lines
    NoOrder, NoNote,  \* what a form names that is for no order, or for no note
    Calls,            \* concurrent requests
    MaxMoves          \* bound: bill forms, and sales and moves away, which count twice

Lines == Parts \cup Services

ASSUME LinesAssumption == Parts # {} /\ Parts \cap Services = {} /\ IsFiniteSet(Lines)
ASSUME OrderedAssumption == Ordered \in [Lines -> Nat \ {0}]
ASSUME IdsAssumption == Orders # {} /\ Notes # {} /\ IsFiniteSet(Notes)
ASSUME BillsAssumption ==
    /\ NoOrder \notin Orders /\ NoNote \notin Notes
    /\ Forms \subseteq [order : Orders \cup {NoOrder}, note : Notes \cup {NoNote}, amount : Nat]
    /\ IsFiniteSet(Bills) /\ Worths \subseteq Nat
ASSUME BoundsAssumption == MaxMoves \in Nat

VARIABLES
    status,           \* PurchaseOrder.status; NONE before, DELETED after
    received,         \* per order and line, PurchaseOrderItem.qtyReceived
    note,             \* GoodsReceived rows with the quantities of their items
    worth,            \* per order, what its lines come to
    bill,             \* SupplierBill rows: whether live, for what, and their subtotal
    onHand,           \* Part.qtyOnHand
    row,              \* PartLocationStock.qtyOnHand at the receiving location
    ledger,           \* per part, the signed sum of its PartStockTransaction rows
    call,             \* requests in flight, with what they read
    moves,            \* how much of MaxMoves is used up
    unbooked,         \* history: units a given-up reversal took without a ledger row
    torn,             \* history: notes such a reversal left half taken back
    takenBack,        \* history: per note and part, what reversals took back
    raced,            \* history: orders that goods came in for under a status write
    billedAtOnce      \* history: orders two of whose bills were being written at once

stockVars == <<onHand, row, ledger>>
orderVars == <<status, received, worth>>
historyVars == <<unbooked, torn, takenBack, raced, billedAtOnce>>
vars == <<status, received, worth, note, bill, onHand, row, ledger, call, moves,
          unbooked, torn, takenBack, raced, billedAtOnce>>

Nothing == [l \in Lines |-> 0]
SomeOrder == CHOOSE o \in Orders : TRUE
SomeNote == CHOOSE n \in Notes : TRUE
Unused == [status |-> "NONE", order |-> SomeOrder, qty |-> Nothing]
NoBill == [status |-> "NONE", order |-> NoOrder, note |-> NoNote, amount |-> 0]
Idle == [pc |-> "idle", order |-> SomeOrder, note |-> SomeNote, want |-> Nothing,
         status |-> "NONE", form |-> [order |-> NoOrder, note |-> NoNote, amount |-> 0]]

\* The row is there: the order was created and not deleted.
Exists(o) == status[o] \notin {"NONE", "DELETED"}
AnyReceived(o) == \E l \in Lines : received[o][l] > 0
StatusOf(got) ==
    IF \A l \in Lines : got[l] >= Ordered[l] THEN "RECEIVED"
    ELSE IF \E l \in Lines : got[l] > 0 THEN "PARTIAL" ELSE "ORDERED"

UseMoves(k) == moves + k <= MaxMoves /\ moves' = moves + k
Go(c, pc) == call' = [call EXCEPT ![c].pc = pc]
Return(c) == call' = [call EXCEPT ![c] = Idle]

-----------------------------------------------------------------------------
Init ==
    /\ status = [o \in Orders |-> "NONE"]
    /\ received = [o \in Orders |-> Nothing]
    /\ note = [n \in Notes |-> Unused]
    /\ worth \in [Orders -> Worths]
    /\ bill = [b \in Bills |-> NoBill]
    /\ onHand = [p \in Parts |-> 0]
    /\ row = [p \in Parts |-> 0]
    /\ ledger = [p \in Parts |-> 0]
    /\ call = [c \in Calls |-> Idle]
    /\ moves = 0
    /\ unbooked = [p \in Parts |-> 0]
    /\ torn = {}
    /\ takenBack = [n \in Notes |-> Nothing]
    /\ raced = {} /\ billedAtOnce = {}

(* Orders *)

\* createPurchaseOrderAction, and the conversion of a purchase request: issued at
\* once only when every line is priced.
CreateOrder(o, first) ==
    /\ status[o] = "NONE"
    /\ first = "ORDERED" => worth[o] > 0
    /\ status' = [status EXCEPT ![o] = first]
    /\ UNCHANGED <<received, worth, note, bill, stockVars, call, moves, historyVars>>

\* createAndReceivePurchaseOrderAction: the order, and in a later read all of it.
BuyOverCounter(c, o) ==
    /\ call[c].pc = "idle"
    /\ status[o] = "NONE" /\ worth[o] > 0
    /\ status' = [status EXCEPT ![o] = "ORDERED"]
    /\ call' = [call EXCEPT ![c] = [Idle EXCEPT !.pc = "bought", !.order = o]]
    /\ UNCHANGED <<received, worth, note, bill, stockVars, moves, historyVars>>

ReadOwnOrder(c) ==
    LET o == call[c].order IN
    /\ call[c].pc = "bought"
    /\ Exists(o) /\ \E l \in Lines : received[o][l] < Ordered[l]
    /\ call' = [call EXCEPT ![c].pc = "receive", ![c].want = Ordered]
    /\ UNCHANGED <<orderVars, note, bill, stockVars, moves, historyVars>>

\* setPurchaseOrderStatusAction and updatePurchaseOrderAction: look, then write.
MayBecomeUnasked(o, next) ==
    \/ /\ next \in {"DRAFT", "ORDERED", "CANCELLED"}
       /\ status[o] # "RECEIVED"
    \/ next \in {"DRAFT", "ORDERED", "PARTIAL", "CANCELLED"} \cup {status[o]}
MayBecome(o, next) ==
    \/ /\ next \in {"DRAFT", "ORDERED", "CANCELLED"}
       /\ status[o] # "RECEIVED"
       /\ AnyReceived(o) => next = "ORDERED"
       /\ next = "ORDERED" => worth[o] > 0
    \/ /\ next \in {"DRAFT", "ORDERED", "PARTIAL", "CANCELLED"} \cup {status[o]}
       /\ next = "CANCELLED" => ~AnyReceived(o)

ReadForStatus(c, o, next) ==
    /\ call[c].pc = "idle" /\ Exists(o)
    /\ MayBecome(o, next)
    /\ call' = [call EXCEPT ![c] = [Idle EXCEPT !.pc = "write", !.order = o, !.status = next]]
    /\ UNCHANGED <<orderVars, note, bill, stockVars, moves, historyVars>>

WriteStatus(c) ==
    LET o == call[c].order IN
    /\ call[c].pc = "write" /\ Exists(o)
    /\ status' = [status EXCEPT ![o] = call[c].status]
    /\ Return(c)
    /\ UNCHANGED <<received, worth, note, bill, stockVars, moves, historyVars>>

\* deletePurchaseOrderAction.  The lines go with the order; its notes and bills
\* stay and lose their reference to it.
ReadForDelete(c, o) ==
    /\ call[c].pc = "idle" /\ Exists(o)
    /\ ~AnyReceived(o)
    /\ ~ \E n \in Notes : note[n].status # "NONE" /\ note[n].order = o
    /\ ~ \E b \in Bills : bill[b].status # "NONE" /\ bill[b].order = o
    /\ call' = [call EXCEPT ![c] = [Idle EXCEPT !.pc = "delete", !.order = o]]
    /\ UNCHANGED <<orderVars, note, bill, stockVars, moves, historyVars>>

DeleteOrder(c) ==
    LET o == call[c].order IN
    /\ call[c].pc = "delete" /\ Exists(o)
    /\ status' = [status EXCEPT ![o] = "DELETED"]
    /\ received' = [received EXCEPT ![o] = Nothing]
    /\ Return(c)
    /\ UNCHANGED <<worth, note, bill, stockVars, moves, historyVars>>

-----------------------------------------------------------------------------
(* Receiving *)

\* receiveStockAction: the form holds absolute quantities; a line it leaves out
\* stands at 0 here.
ReadForReceipt(c, o, want) ==
    /\ call[c].pc = "idle"
    /\ status[o] \in {"ORDERED", "PARTIAL"}
    /\ \A l \in Lines : want[l] = 0 \/ want[l] >= received[o][l]
    /\ \E l \in Lines : want[l] > received[o][l]
    /\ call' = [call EXCEPT ![c] = [Idle EXCEPT !.pc = "receive", !.order = o, !.want = want]]
    /\ UNCHANGED <<orderVars, note, bill, stockVars, moves, historyVars>>

\* What is still open of a line by now.
DeltaAsAsked(c, l) == call[c].want[l]
Delta(c, l) ==
    LET got == received[call[c].order][l] IN
    IF call[c].want[l] > got THEN call[c].want[l] - got ELSE 0

\* performReceipt: the note, its lines, the stock and the order's status.
PerformReceipt(c, n) ==
    LET o == call[c].order
        delta == [l \in Lines |-> Delta(c, l)]
        got == [l \in Lines |-> received[o][l] + delta[l]]
    IN
    /\ call[c].pc = "receive" /\ Exists(o)
    /\ note[n].status = "NONE"
    /\ note' = [note EXCEPT ![n] = [status |-> "POSTED", order |-> o, qty |-> delta]]
    /\ received' = [received EXCEPT ![o] = got]
    /\ onHand' = [p \in Parts |-> onHand[p] + delta[p]]
    /\ row' = [p \in Parts |-> row[p] + delta[p]]
    /\ ledger' = [p \in Parts |-> ledger[p] + delta[p]]
    /\ status' = [status EXCEPT ![o] = StatusOf(got)]
    /\ raced' = IF \E d \in Calls : call[d].pc \in {"write", "delete"} /\ call[d].order = o
                THEN raced \cup {o} ELSE raced
    /\ Return(c)
    /\ UNCHANGED <<worth, bill, moves, unbooked, torn, takenBack, billedAtOnce>>

-----------------------------------------------------------------------------
(* Reversing a note: two reads, then the transaction. *)

Billed(n) == \E b \in Bills : bill[b].status = "POSTED" /\ bill[b].note = n

ReadNote(c, n) ==
    /\ call[c].pc = "idle"
    /\ note[n].status = "POSTED"
    /\ call' = [call EXCEPT ![c] = [Idle EXCEPT !.pc = "billed", !.note = n]]
    /\ UNCHANGED <<orderVars, note, bill, stockVars, moves, historyVars>>

CheckBilled(c) ==
    /\ call[c].pc = "billed"
    /\ ~Billed(call[c].note)
    /\ Go(c, "reverse")
    /\ UNCHANGED <<orderVars, note, bill, stockVars, moves, historyVars>>

\* The parts of the note that moved stock.
Stocked(n) == {p \in Parts : note[n].qty[p] > 0}
ShortPart(n, p) == onHand[p] < note[n].qty[p]
ShortRow(n, p) == row[p] < note[n].qty[p]

\* The note is re-read in the transaction; an order deleted since has no line to
\* update, which throws.
Reversible(n, parts) ==
    /\ note[n].status = "POSTED"
    /\ parts = {} \/ Exists(note[n].order)

\* What a line of a note leaves of the received quantity.
LessKept(got, n, l) == got
Less(got, n, l) == IF got < note[n].qty[l] THEN 0 ELSE got - note[n].qty[l]

\* The lines of a set of parts, taken back in full.
TakeBack(n, parts) ==
    /\ row' = [p \in Parts |-> IF p \in parts THEN row[p] - note[n].qty[p] ELSE row[p]]
    /\ ledger' = [p \in Parts |-> IF p \in parts THEN ledger[p] - note[n].qty[p] ELSE ledger[p]]
    /\ received' = [received EXCEPT ![note[n].order] = [l \in Lines |->
           IF l \in parts THEN Less(@[l], n, l) ELSE @[l]]]
    /\ takenBack' = [takenBack EXCEPT ![n] = [l \in Lines |->
           IF l \in parts THEN @[l] + note[n].qty[l] ELSE @[l]]]

DecrementFirst(n, parts) ==
    onHand' = [p \in Parts |-> IF p \in Stocked(n) THEN onHand[p] - note[n].qty[p] ELSE onHand[p]]
Decrement(n, parts) ==
    onHand' = [p \in Parts |-> IF p \in parts THEN onHand[p] - note[n].qty[p] ELSE onHand[p]]

\* reverseGoodsReceivedAction, every line in turn.  Lines without a part are
\* passed over: they stay received.
Reverse(c) ==
    LET n == call[c].note  o == note[n].order IN
    /\ call[c].pc = "reverse" /\ Reversible(n, Stocked(n))
    /\ \A p \in Stocked(n) : ~ShortPart(n, p) /\ ~ShortRow(n, p)
    /\ TakeBack(n, Stocked(n))
    /\ Decrement(n, Stocked(n))
    /\ note' = [note EXCEPT ![n].status = "CANCELLED"]
    /\ status' = IF Exists(o) THEN [status EXCEPT ![o] = StatusOf(received'[o])] ELSE status
    /\ Return(c)
    /\ UNCHANGED <<worth, bill, moves, unbooked, torn, raced, billedAtOnce>>

\* A line that is short ends the loop with an error.  The error is returned, not
\* thrown, so the lines before it are committed; and when the shortage is at the
\* location, the part's total is already down, without a ledger row.
ReverseGivesUp(c, before, short) ==
    LET n == call[c].note
        down == IF ShortPart(n, short) THEN {} ELSE {short}
    IN
    /\ call[c].pc = "reverse" /\ Reversible(n, before)
    /\ short \in Stocked(n) /\ (ShortPart(n, short) \/ ShortRow(n, short))
    /\ before \subseteq Stocked(n) \ {short}
    /\ \A p \in before : ~ShortPart(n, p) /\ ~ShortRow(n, p)
    /\ TakeBack(n, before)
    /\ Decrement(n, before \cup down)
    /\ unbooked' = [p \in Parts |-> IF p \in down THEN unbooked[p] + note[n].qty[p]
                                                  ELSE unbooked[p]]
    /\ torn' = IF before \cup down = {} THEN torn ELSE torn \cup {n}
    /\ Return(c)
    /\ UNCHANGED <<status, worth, note, bill, moves, raced, billedAtOnce>>

\* The request ends where it stands: a check refuses it, a write finds its row
\* gone, or the server dies.
EndCall(c) ==
    /\ call[c].pc # "idle"
    /\ Return(c)
    /\ UNCHANGED <<orderVars, note, bill, stockVars, moves, historyVars>>

-----------------------------------------------------------------------------
(* Bills: for an order, for a note, for both or for neither, at whatever the    *)
(* lines of the form come to.                                                  *)

\* What the live bills that name an order come to.
BillsFor(o) == {b \in Bills : bill[b].status = "POSTED" /\ bill[b].order = o}
BilledFor(o) == Total(BillsFor(o), [b \in Bills |-> bill[b].amount])

\* Not above the worth of the order, when it is worth anything.
FitsAlone(form) ==
    form.order # NoOrder /\ worth[form.order] > 0 => form.amount <= worth[form.order]
FitsOrder(form) ==
    form.order # NoOrder /\ worth[form.order] > 0 =>
        BilledFor(form.order) + form.amount <= worth[form.order]

\* A note whose order was deleted has lost its reference to it and goes with any.
\* Its status is not asked for: a reversed note can be billed.
NoteMatches(form) ==
    LET o == note[form.note].order IN
    form.order # NoOrder /\ Exists(o) => o = form.order

CheckBill(c, form) ==
    /\ call[c].pc = "idle"
    /\ form.order # NoOrder => Exists(form.order)
    /\ form.note # NoNote =>
           note[form.note].status # "NONE" /\ NoteMatches(form) /\ ~Billed(form.note)
    /\ FitsOrder(form)
    /\ UseMoves(1)
    /\ call' = [call EXCEPT ![c] = [Idle EXCEPT !.pc = "bill", !.form = form]]
    /\ UNCHANGED <<orderVars, note, bill, stockVars, historyVars>>

\* createSupplierBillAction asks again beside the write, about the note alone.
NoteFree(form) == TRUE
NoteUnbilled(form) == form.note # NoNote => ~Billed(form.note)

CreateBill(c, b) ==
    LET form == call[c].form  o == form.order IN
    /\ call[c].pc = "bill"
    /\ o # NoOrder => Exists(o)
    /\ NoteUnbilled(form)
    /\ bill[b].status = "NONE"
    /\ bill' = [bill EXCEPT ![b] = [status |-> "POSTED", order |-> o, note |-> form.note,
                                    amount |-> form.amount]]
    /\ billedAtOnce' = IF \E d \in Calls \ {c} : call[d].pc = "bill" /\ call[d].form.order = o
                       THEN billedAtOnce \cup ({o} \cap Orders) ELSE billedAtOnce
    /\ Return(c)
    /\ UNCHANGED <<orderVars, note, stockVars, moves, unbooked, torn, takenBack, raced>>

\* cancelSupplierBillAction, before anything was paid on it.  Of a cancelled bill
\* only the order it names is looked at again.
CancelBill(b) ==
    /\ bill[b].status = "POSTED"
    /\ bill' = [bill EXCEPT ![b] = [NoBill EXCEPT !.status = "CANCELLED", !.order = bill[b].order]]
    /\ UNCHANGED <<orderVars, note, stockVars, call, moves, historyVars>>

-----------------------------------------------------------------------------
(* Around procurement *)

\* A unit is sold at the till, which takes it off the part and off no location.
SellUnit(p) ==
    /\ UseMoves(2)
    /\ onHand[p] >= 1
    /\ onHand' = [onHand EXCEPT ![p] = @ - 1]
    /\ ledger' = [ledger EXCEPT ![p] = @ - 1]
    /\ UNCHANGED <<row, orderVars, note, bill, call, historyVars>>

\* A unit goes to another location and has arrived there: both ledger rows made.
MoveUnitAway(p) ==
    /\ UseMoves(2)
    /\ row[p] >= 1
    /\ row' = [row EXCEPT ![p] = @ - 1]
    /\ UNCHANGED <<onHand, ledger, orderVars, note, bill, call, historyVars>>

-----------------------------------------------------------------------------
\* What the form lets through (purchase-orders/actions.ts:461).
MaxOrdered == CHOOSE m \in {Ordered[l] : l \in Lines} : \A l \in Lines : Ordered[l] <= m
Wants == {want \in [Lines -> 0..MaxOrdered] : \A l \in Lines : want[l] <= Ordered[l]}
Statuses == {"DRAFT", "ORDERED", "PARTIAL", "RECEIVED", "CANCELLED"}

Ordering ==
    \/ \E o \in Orders, first \in {"DRAFT", "ORDERED"} : CreateOrder(o, first)
    \/ \E c \in Calls, o \in Orders : BuyOverCounter(c, o)
    \/ \E c \in Calls : ReadOwnOrder(c)
    \/ \E c \in Calls, o \in Orders, next \in Statuses : ReadForStatus(c, o, next)
    \/ \E c \in Calls : WriteStatus(c)
    \/ \E c \in Calls, o \in Orders : ReadForDelete(c, o)
    \/ \E c \in Calls : DeleteOrder(c)
    \/ \E c \in Calls : EndCall(c)

Receiving ==
    \/ \E c \in Calls, o \in Orders, want \in Wants : ReadForReceipt(c, o, want)
    \/ \E c \in Calls, n \in Notes : PerformReceipt(c, n)

Reversing ==
    \/ \E c \in Calls, n \in Notes : ReadNote(c, n)
    \/ \E c \in Calls : CheckBilled(c)
    \/ \E c \in Calls : Reverse(c)
    \/ \E c \in Calls, before \in SUBSET Parts, short \in Parts : ReverseGivesUp(c, before, short)

Billing ==
    \/ \E c \in Calls, form \in Forms : CheckBill(c, form)
    \/ \E c \in Calls, b \in Bills : CreateBill(c, b)
    \/ \E b \in Bills : CancelBill(b)

Moving ==
    \/ \E p \in Parts : SellUnit(p)
    \/ \E p \in Parts : MoveUnitAway(p)

Next == Ordering \/ Receiving \/ Reversing \/ Billing \/ Moving

Spec == Init /\ [][Next]_vars

-----------------------------------------------------------------------------
(* Properties *)

Quantities == [Lines -> Nat]
NoteRows == [status : {"NONE", "POSTED", "CANCELLED"}, order : Orders, qty : Quantities]
CallStates == [pc : {"idle", "bought", "write", "delete", "receive", "billed", "reverse", "bill"},
               order : Orders, note : Notes, want : Quantities, status : Statuses \cup {"NONE"},
               form : [order : Orders \cup {NoOrder}, note : Notes \cup {NoNote}, amount : Nat]]
BillRows == [status : {"NONE", "POSTED", "CANCELLED"}, order : Orders \cup {NoOrder},
             note : Notes \cup {NoNote}, amount : Nat]

\* Every variable holds what the schema and the handlers' locals can hold.
TypeOK ==
    /\ status \in [Orders -> Statuses \cup {"NONE", "DELETED"}]
    /\ received \in [Orders -> Quantities]
    /\ note \in [Notes -> NoteRows]
    /\ worth \in [Orders -> Nat]
    /\ bill \in [Bills -> BillRows]
    /\ onHand \in [Parts -> Int] /\ row \in [Parts -> Int] /\ ledger \in [Parts -> Int]
    /\ call \in [Calls -> CallStates]
    /\ moves \in Nat
    /\ unbooked \in [Parts -> Int]
    /\ torn \subseteq Notes
    /\ takenBack \in [Notes -> Quantities]
    /\ raced \subseteq Orders /\ billedAtOnce \subseteq Orders

\* Forms filled in side by side never receive more of a line than was ordered
\* (purchase-orders/actions.ts:73).
NeverOverReceived == \A o \in Orders, l \in Lines : received[o][l] <= Ordered[l]

\* What a line says it received is what the posted notes of its order brought in,
\* whatever was received and reversed at once.  Only a reversal that gave up half
\* way disturbs it.
PostedFor(o) == {n \in Notes : note[n].status = "POSTED" /\ note[n].order = o}
ReceivedMatchesNotes ==
    \A o \in Orders, p \in Parts :
        Exists(o) /\ (\A n \in torn : note[n].order # o) =>
            received[o][p] = Total(PostedFor(o), [n \in Notes |-> note[n].qty[p]])

\* The stock book of procurement: what a given-up reversal took is out of the
\* ledger for good.
Book == INSTANCE StockBook WITH
    onHand <- onHand, transit <- [p \in Parts |-> 0],
    booked <- [p \in Parts |-> ledger[p] - unbooked[p]], slipped <- [p \in Parts |-> 0]

\* Receiving, reversing and selling implement the stock book, but for the units a
\* given-up reversal takes.
ImplementsStockBook == Book!Spec

\* However many forms are posted at once, a note has one live bill
\* (supplier-bills/actions.ts:126).
NoteBilledOnce ==
    \A a, b \in Bills : bill[a].status = "POSTED" /\ bill[b].status = "POSTED"
                          /\ bill[a].note = bill[b].note /\ bill[a].note # NoNote => a = b

\* The bills that name a priced order come to more than it is worth only when two of
\* them were being written at once: the sum is not asked for again beside the write
\* (supplier-bills/actions.ts:119).
BilledWithinOrder ==
    \A o \in Orders \ billedAtOnce : worth[o] > 0 => BilledFor(o) <= worth[o]

\* An order is cancelled or deleted over goods that came in only when they came in
\* between that handler's check and its write.
ClosedOrdersAreEmpty ==
    \A o \in Orders \ raced :
        /\ status[o] = "CANCELLED" => ~AnyReceived(o)
        /\ status[o] = "DELETED" => PostedFor(o) = {}

(* What a comment of the code says, and the code does not keep. *)

\* purchase-orders/actions.ts:524: a reversal the location cannot cover says so
\* instead of taking the part's total down alone.
RefusedReversalTakesNothing ==
    [][\A n \in Notes : note[n].status = "POSTED" /\ note'[n].status = "POSTED"
                         => takenBack'[n] = takenBack[n] /\ unbooked' = unbooked]_vars
=============================================================================
