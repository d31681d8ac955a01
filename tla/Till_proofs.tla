------------------------------ MODULE Till_proofs ------------------------------
(***************************************************************************)
(* Types of Till, what holds of goods, notes and money, and that it        *)
(* implements the stock book, for any number of sales, products, notes,    *)
(* payments and concurrent requests.                                       *)
(***************************************************************************)
EXTENDS Till, UnitTotals_proofs

-----------------------------------------------------------------------------
(* Types *)

LEMMA ConstantTypes ==
  /\ SomeSale \in Sales /\ Nothing \in Quantities
  /\ NewSale \in SaleRows /\ Unused \in NoteRows /\ NoMoney \in MoneyRows /\ Idle \in CallRows
<1>1. SomeSale \in Sales
  BY IdsAssumption DEF SomeSale
<1>2. Nothing \in Quantities
  BY DEF Nothing, Quantities
<1> QED
  BY <1>1, <1>2 DEF NewSale, Unused, NoMoney, Idle, SaleRows, NoteRows, MoneyRows, CallRows

LEMMA ValueType == \A qty \in Quantities : Value(qty) \in Nat
<1> SUFFICES ASSUME NEW qty \in Quantities PROVE Value(qty) \in Nat
  OBVIOUS
<1>1. \A p \in Parts : qty[p] \in Nat
  BY DEF Quantities
<1> QED
  BY <1>1, IdsAssumption, NatUnits DEF Value

\* The sums over payments, refunds and notes are over finite sets of rows.
LEMMA MoneySums ==
  ASSUME NEW rows \in [Money -> MoneyRows], NEW some \in SUBSET Money
  PROVE  /\ IsFiniteSet(some) /\ IsFiniteSet(UnitsOf(some, AmountsOf(rows)))
         /\ \A m \in some : AmountsOf(rows)[m] = rows[m].amount /\ rows[m].amount \in Nat
         /\ Total(some, AmountsOf(rows)) \in Nat
<1>1. IsFiniteSet(some)
  BY IdsAssumption, FS_Subset
<1>2. \A m \in some : AmountsOf(rows)[m] = rows[m].amount /\ rows[m].amount \in Nat
  BY DEF AmountsOf, MoneyRows
<1> QED
  BY <1>1, <1>2, NatUnits

NoteValues(rows) == [n \in Notes |-> Value(rows[n].qty)]

LEMMA NoteSums ==
  ASSUME NEW rows \in [Notes -> NoteRows], NEW some \in SUBSET Notes
  PROVE  /\ IsFiniteSet(some) /\ IsFiniteSet(UnitsOf(some, NoteValues(rows)))
         /\ \A n \in some : /\ NoteValues(rows)[n] = Value(rows[n].qty)
                            /\ Value(rows[n].qty) \in Nat
         /\ Total(some, NoteValues(rows)) \in Nat
<1>1. IsFiniteSet(some)
  BY IdsAssumption, FS_Subset
<1>2. \A n \in some : NoteValues(rows)[n] = Value(rows[n].qty) /\ Value(rows[n].qty) \in Nat
  BY ValueType DEF NoteValues, NoteRows
<1> QED
  BY <1>1, <1>2, NatUnits

LEMMA SumTypes ==
  /\ \A rows \in [Money -> MoneyRows] : \A s : Paid(rows, s) \in Int
  /\ \A rows \in [Notes -> NoteRows] : \A s : Credited(rows, s) \in Nat
  /\ money \in [Money -> MoneyRows] => \A n : Refunded(n) \in Nat
<1>1. ASSUME NEW rows \in [Money -> MoneyRows], NEW s PROVE Paid(rows, s) \in Int
  <2>1. \A kind : RowsOf(rows, kind, s) \in SUBSET Money
    BY DEF RowsOf
  <2>2. \A kind : Total(RowsOf(rows, kind, s), AmountsOf(rows)) \in Nat
    BY <2>1, MoneySums
  <2> QED
    BY <2>2 DEF Paid
<1>2. ASSUME NEW rows \in [Notes -> NoteRows], NEW s PROVE Credited(rows, s) \in Nat
  BY NoteSums DEF Credited, NotesOf, NoteValues
<1>3. ASSUME money \in [Money -> MoneyRows], NEW n PROVE Refunded(n) \in Nat
  BY <1>3, MoneySums DEF Refunded, RefundsOf
<1> QED
  BY <1>1, <1>2, <1>3

LEMMA StatusTypes ==
  \A a, b, c : StatusOf(a, b, c) \in {"RETURNED", "PARTIALLY_RETURNED", "PAID", "OPEN"}
BY DEF StatusOf

LEMMA BoundTypes == Amounts \subseteq Nat /\ Bags \subseteq Quantities
BY ValueType, OpeningAssumption DEF Amounts, Bags, Quantities

\* What syncSalePaymentState leaves of a sale with new lines.
LEMMA SyncLines ==
  ASSUME TypeOK, money' \in [Money -> MoneyRows], note' \in [Notes -> NoteRows],
         NEW s \in Sales, NEW qty \in Quantities, SyncWith(s, qty)
  PROVE  /\ sale' \in [Sales -> SaleRows]
         /\ \A x \in Sales \ {s} : sale'[x] = sale[x]
         /\ sale'[s].qty = qty
         /\ sale'[s].paid = Paid(money', s)
         /\ sale'[s].status = StatusOf(Value(qty), Paid(money', s), Credited(note', s))
<1>1. Paid(money', s) \in Int
  BY SumTypes
<1>2. StatusOf(Value(qty), Paid(money', s), Credited(note', s))
        \in {"RETURNED", "PARTIALLY_RETURNED", "PAID", "OPEN"}
  BY StatusTypes
<1> QED
  BY <1>1, <1>2 DEF SyncWith, TypeOK, SaleRows

\* What Sync leaves of a sale.
LEMMA SyncSale ==
  ASSUME TypeOK, money' \in [Money -> MoneyRows], note' \in [Notes -> NoteRows],
         NEW s \in Sales, Sync(s)
  PROVE  /\ sale' \in [Sales -> SaleRows]
         /\ \A x \in Sales \ {s} : sale'[x] = sale[x]
         /\ sale'[s].qty = sale[s].qty
         /\ sale'[s].paid = Paid(money', s)
         /\ sale'[s].status = StatusOf(TotalAmount(s), Paid(money', s), Credited(note', s))
<1>1. sale[s].qty \in Quantities /\ SyncWith(s, sale[s].qty)
  BY DEF Sync, TypeOK, SaleRows
<1> QED
  BY <1>1, SyncLines DEF TotalAmount

LEMMA TouchedType ==
  ASSUME TypeOK, NEW s, NEW others
  PROVE  /\ Touched(s, others) \in [Calls -> CallRows]
         /\ \A c \in Calls : /\ Touched(s, others)[c].pc = call[c].pc
                             /\ Touched(s, others)[c].sale = call[c].sale
                             /\ Touched(s, others)[c].note = call[c].note
                             /\ Touched(s, others)[c].qty = call[c].qty
                             /\ Touched(s, others)[c].amount = call[c].amount
                             /\ ~Touched(s, others)[c].stale =>
                                  /\ ~call[c].stale
                                  /\ c \in others /\ call[c].pc # "idle" => call[c].sale # s
BY DEF Touched, TypeOK, CallRows

CallsTyped ==
  /\ call \in [Calls -> CallRows]
  /\ \A c \in Calls : call[c].pc \in AboutNotes => call[c].note \in Notes
  /\ stale \subseteq Sales \X Kinds

LEMMA WriteType ==
  ASSUME TypeOK, NEW c \in Calls, call[c].pc # "idle", Write(c)
  PROVE  CallsTyped'
<1>1. call[c].sale \in Sales /\ call[c].pc \in Kinds
  BY DEF TypeOK, CallRows
<1>2. call' \in [Calls -> CallRows]
  BY TouchedType, ConstantTypes DEF Write
<1>3. call'[c].pc = "idle"
  BY TouchedType DEF Write, Idle
<1>4. \A x \in Calls \ {c} : call'[x].pc = call[x].pc /\ call'[x].note = call[x].note
  BY TouchedType DEF Write
<1>5. \A x \in Calls : call'[x].pc \in AboutNotes => call'[x].note \in Notes
  BY <1>3, <1>4 DEF TypeOK, AboutNotes
<1>6. stale' \subseteq Sales \X Kinds
  BY <1>1 DEF Write, TypeOK
<1> QED
  BY <1>2, <1>5, <1>6 DEF CallsTyped

LEMMA ReadType ==
  ASSUME TypeOK, NEW c \in Calls, NEW kind, NEW s \in Sales, NEW n \in Notes \cup {NoNote},
         NEW qty \in Quantities, NEW amount \in Nat, Read(c, kind, s, n, qty, amount),
         kind \in AboutNotes => n \in Notes
  PROVE  TypeOK'
BY DEF Read, TypeOK, CallRows, stockVars, historyVars, AboutNotes

LEMMA AtOnceType ==
  ASSUME TypeOK, NEW kind, NEW s, AtOnce(kind, s)
  PROVE  CallsTyped'
BY TouchedType DEF CallsTyped, AtOnce, TypeOK

\* Units that move are integers per part; so are what is left and what has left.
Shifts == [Parts -> Int]

LEMMA MoveType ==
  ASSUME TypeOK, NEW s \in Sales, NEW taken \in Shifts, Move(s, taken)
  PROVE  /\ onHand' \in [Parts -> Int] /\ moved' \in [Sales -> [Parts -> Int]]
         /\ \A p \in Parts : /\ onHand'[p] = onHand[p] - taken[p]
                             /\ moved'[s][p] = moved[s][p] + taken[p]
         /\ \A x \in Sales \ {s} : moved'[x] = moved[x]
<1>1. Minus(onHand, taken) \in [Parts -> Int] /\ Plus(moved[s], taken) \in [Parts -> Int]
  BY DEF Minus, Plus, TypeOK, Shifts
<1>2. \A p \in Parts : /\ Minus(onHand, taken)[p] = onHand[p] - taken[p]
                       /\ Plus(moved[s], taken)[p] = moved[s][p] + taken[p]
  BY DEF Minus, Plus
<1> QED
  BY <1>1, <1>2 DEF Move, TypeOK

LEMMA ShiftTypes ==
  /\ Quantities \subseteq Shifts
  /\ \A p \in Parts, n \in Int : Only(p, n) \in Shifts
  /\ \A p \in Parts, n \in Nat : Only(p, n) \in Quantities
  /\ \A p, x \in Parts : \A n : Only(p, n)[x] = IF x = p THEN n ELSE 0
  /\ \A qty \in Quantities : /\ Minus(Nothing, qty) \in Shifts
                             /\ \A p \in Parts : Minus(Nothing, qty)[p] = -qty[p]
  /\ \A a, b \in Quantities : Plus(a, b) \in Quantities
BY DEF Quantities, Shifts, Only, Nothing, Minus, Plus

LEMMA ErasedTypes ==
  ASSUME TypeOK
  PROVE  /\ \A m : Erased(m) \in MoneyRows
         /\ \A n \in Notes : Withdrawn(n) \in NoteRows
BY ConstantTypes DEF Erased, Withdrawn, NoMoney, Unused, TypeOK, MoneyRows, NoteRows

LEMMA TypeInit == Init => TypeOK
BY ConstantTypes, OpeningAssumption DEF Init, TypeOK, Nothing, Idle, AboutNotes

LEMMA EndCallType == ASSUME TypeOK, NEW c \in Calls, EndCall(c) PROVE TypeOK'
BY ConstantTypes DEF EndCall, TypeOK, stockVars, historyVars, Idle, AboutNotes

LEMMA TypeLines == TypeOK /\ Lines => TypeOK'
<1> SUFFICES ASSUME TypeOK, Lines PROVE TypeOK'
  OBVIOUS
<1>1. ASSUME NEW s \in Sales, CreateSale(s) PROVE TypeOK'
  BY <1>1 DEF CreateSale, TypeOK, SaleRows, stockVars, historyVars
<1>2. ASSUME NEW c \in Calls, NEW s \in Sales, NEW p \in Parts, NEW n \in Amounts,
             ReadForAdd(c, s, p, n)
      PROVE  TypeOK'
  <2>1. Only(p, n) \in Quantities
    BY BoundTypes, ShiftTypes
  <2> QED
    BY <1>2, <2>1, ReadType DEF ReadForAdd, AboutNotes
<1>3. ASSUME NEW c \in Calls, AddItem(c) PROVE TypeOK'
  <2> DEFINE s == call[c].sale
             qty == call[c].qty
  <2>1. s \in Sales /\ qty \in Quantities /\ sale[s].qty \in Quantities
    BY DEF TypeOK, CallRows, SaleRows
  <2>2. onHand' \in [Parts -> Int] /\ moved' \in [Sales -> [Parts -> Int]]
    BY <1>3, <2>1, ShiftTypes, MoveType DEF AddItem
  <2>3. CallsTyped'
    BY <1>3, WriteType DEF AddItem
  <2>4. sale' \in [Sales -> SaleRows]
    <3>1. Plus(sale[s].qty, qty) \in Quantities
      BY <2>1, ShiftTypes
    <3>2. note' = note /\ money' = money /\ SyncWith(s, Plus(sale[s].qty, qty))
      BY <1>3 DEF AddItem
    <3> QED
      BY <2>1, <3>1, <3>2, SyncLines DEF TypeOK
  <2> QED
    BY <1>3, <2>2, <2>3, <2>4 DEF AddItem, TypeOK, CallsTyped, historyVars
<1>4. ASSUME NEW s \in Sales, NEW p \in Parts, NEW n \in Amounts, UpdateItem(s, p, n)
      PROVE  TypeOK'
  <2>1. n \in Nat /\ sale[s].qty \in Quantities /\ sale[s].qty[p] \in Nat
    BY BoundTypes DEF TypeOK, SaleRows, Quantities
  <2>2. onHand' \in [Parts -> Int] /\ moved' \in [Sales -> [Parts -> Int]]
    BY <1>4, <2>1, ShiftTypes, MoveType DEF UpdateItem
  <2>3. CallsTyped'
    BY <1>4, AtOnceType DEF UpdateItem
  <2>4. sale' \in [Sales -> SaleRows]
    <3>1. [sale[s].qty EXCEPT ![p] = n] \in Quantities
      BY <2>1 DEF Quantities
    <3>2. note' = note /\ money' = money /\ SyncWith(s, [sale[s].qty EXCEPT ![p] = n])
      BY <1>4 DEF UpdateItem
    <3> QED
      BY <3>1, <3>2, SyncLines DEF TypeOK
  <2> QED
    BY <1>4, <2>2, <2>3, <2>4 DEF UpdateItem, TypeOK, CallsTyped, historyVars
<1>5. ASSUME NEW s \in Sales, NEW p \in Parts, DeleteItem(s, p) PROVE TypeOK'
  <2>1. sale[s].qty \in Quantities /\ -sale[s].qty[p] \in Int
    BY DEF TypeOK, SaleRows, Quantities
  <2>2. onHand' \in [Parts -> Int] /\ moved' \in [Sales -> [Parts -> Int]]
    BY <1>5, <2>1, ShiftTypes, MoveType DEF DeleteItem, ReturnLine
  <2>3. CallsTyped'
    BY <1>5, AtOnceType DEF DeleteItem
  <2>4. sale' \in [Sales -> SaleRows]
    <3>1. [sale[s].qty EXCEPT ![p] = 0] \in Quantities
      BY <2>1 DEF Quantities
    <3>2. note' = note /\ money' = money /\ SyncWith(s, [sale[s].qty EXCEPT ![p] = 0])
      BY <1>5 DEF DeleteItem
    <3> QED
      BY <3>1, <3>2, SyncLines DEF TypeOK
  <2> QED
    BY <1>5, <2>2, <2>3, <2>4 DEF DeleteItem, TypeOK, CallsTyped, historyVars
<1>6. ASSUME NEW c \in Calls, NEW s \in Sales, ReadForDelete(c, s) PROVE TypeOK'
  <2>1. sale[s].qty \in Quantities
    BY DEF TypeOK, SaleRows
  <2> QED
    BY <1>6, <2>1, ReadType DEF ReadForDelete, AboutNotes
<1>7. ASSUME NEW c \in Calls, DeleteSale(c) PROVE TypeOK'
  <2> DEFINE s == call[c].sale
  <2>1. s \in Sales /\ call[c].qty \in Quantities
    BY DEF TypeOK, CallRows
  <2>2. onHand' \in [Parts -> Int] /\ moved' \in [Sales -> [Parts -> Int]]
    BY <1>7, <2>1, ShiftTypes, MoveType DEF DeleteSale
  <2>3. CallsTyped'
    BY <1>7, WriteType DEF DeleteSale
  <2>4. sale' \in [Sales -> SaleRows]
    BY <1>7, <2>1 DEF DeleteSale, TypeOK, SaleRows
  <2>5. money' \in [Money -> MoneyRows] /\ note' \in [Notes -> NoteRows]
    BY <1>7, ErasedTypes DEF DeleteSale, TypeOK
  <2> QED
    BY <1>7, <2>2, <2>3, <2>4, <2>5 DEF DeleteSale, TypeOK, CallsTyped, historyVars
<1>8. ASSUME NEW c \in Calls, EndCall(c) PROVE TypeOK'
  BY <1>8, EndCallType
<1>9. ASSUME NEW c \in Calls, NEW s \in Sales, ReadForRecalc(c, s) PROVE TypeOK'
  <2>1. Nothing \in Quantities
    BY DEF Nothing, Quantities
  <2> QED
    BY <1>9, <2>1, ReadType DEF ReadForRecalc, AboutNotes
<1>10. ASSUME NEW c \in Calls, Recalc(c) PROVE TypeOK'
  <2>1. call[c].sale \in Sales
    BY DEF TypeOK, CallRows
  <2>2. CallsTyped'
    BY <1>10, WriteType DEF Recalc
  <2>3. sale' \in [Sales -> SaleRows]
    <3>1. note' = note /\ money' = money /\ Sync(call[c].sale)
      BY <1>10 DEF Recalc
    <3> QED
      BY <2>1, <3>1, SyncSale DEF TypeOK
  <2> QED
    BY <1>10, <2>2, <2>3 DEF Recalc, TypeOK, CallsTyped, stockVars, historyVars
<1> QED
  BY <1>1, <1>2, <1>3, <1>4, <1>5, <1>6, <1>7, <1>8, <1>9, <1>10 DEF Lines

LEMMA TypePaying == TypeOK /\ Paying => TypeOK'
<1> SUFFICES ASSUME TypeOK, Paying PROVE TypeOK'
  OBVIOUS
<1>1. ASSUME NEW s \in Sales, NEW m \in Money, NEW amount \in Amounts,
             TakePayment(s, m, amount)
      PROVE  TypeOK'
  <2>1. money' \in [Money -> MoneyRows] /\ note' \in [Notes -> NoteRows]
    BY <1>1, BoundTypes DEF TakePayment, NewMoney, TypeOK, MoneyRows
  <2>2. sale' \in [Sales -> SaleRows]
    BY <1>1, <2>1, SyncSale DEF TakePayment
  <2>3. CallsTyped'
    BY <1>1, AtOnceType DEF TakePayment
  <2> QED
    BY <1>1, <2>1, <2>2, <2>3 DEF TakePayment, TypeOK, CallsTyped, stockVars, historyVars
<1>2. ASSUME NEW c \in Calls, NEW s \in Sales, NEW amount \in Amounts,
             ReadForReceipt(c, s, amount)
      PROVE  TypeOK'
  BY <1>2, BoundTypes, ConstantTypes, ReadType DEF ReadForReceipt, AboutNotes
<1>3. ASSUME NEW c \in Calls, NEW m \in Money, WriteReceipt(c, m) PROVE TypeOK'
  <2>1. call[c].sale \in Sales /\ call[c].amount \in Nat
    BY <1>3 DEF WriteReceipt, TypeOK, CallRows
  <2>2. money' \in [Money -> MoneyRows] /\ note' \in [Notes -> NoteRows]
    BY <1>3, <2>1 DEF WriteReceipt, NewMoney, TypeOK, MoneyRows
  <2>3. sale' \in [Sales -> SaleRows]
    BY <1>3, <2>1, <2>2, SyncSale DEF WriteReceipt
  <2>4. CallsTyped'
    BY <1>3, WriteType DEF WriteReceipt
  <2> QED
    BY <1>3, <2>2, <2>3, <2>4 DEF WriteReceipt, TypeOK, CallsTyped, stockVars, historyVars
<1>4. ASSUME NEW m \in Money, NEW amount \in Amounts, UpdateReceipt(m, amount) PROVE TypeOK'
  <2>1. money[m].sale \in Sales
    BY DEF TypeOK, MoneyRows
  <2>2. money' \in [Money -> MoneyRows] /\ note' \in [Notes -> NoteRows]
    BY <1>4, BoundTypes DEF UpdateReceipt, TypeOK, MoneyRows
  <2>3. sale' \in [Sales -> SaleRows]
    BY <1>4, <2>1, <2>2, SyncSale DEF UpdateReceipt
  <2>4. CallsTyped'
    BY <1>4, AtOnceType DEF UpdateReceipt
  <2> QED
    BY <1>4, <2>1, <2>2, <2>3, <2>4 DEF UpdateReceipt, TypeOK, CallsTyped, stockVars
<1>5. ASSUME NEW m \in Money, DeleteMoney(m) PROVE TypeOK'
  <2>1. money[m].sale \in Sales
    BY DEF TypeOK, MoneyRows
  <2>2. money' \in [Money -> MoneyRows] /\ note' \in [Notes -> NoteRows]
    BY <1>5, ErasedTypes DEF DeleteMoney, TypeOK
  <2>3. sale' \in [Sales -> SaleRows]
    BY <1>5, <2>1, <2>2, SyncSale DEF DeleteMoney
  <2>4. CallsTyped'
    BY <1>5, AtOnceType DEF DeleteMoney
  <2> QED
    BY <1>5, <2>1, <2>2, <2>3, <2>4 DEF DeleteMoney, TypeOK, CallsTyped, stockVars
<1> QED
  BY <1>1, <1>2, <1>3, <1>4, <1>5 DEF Paying

LEMMA NewNoteType ==
  ASSUME TypeOK, NEW c \in Calls, NEW n \in Notes, NEW state \in {"ISSUED", "RECEIVED"},
         NewNote(c, n, state)
  PROVE  note' \in [Notes -> NoteRows]
BY DEF NewNote, TypeOK, NoteRows, CallRows

LEMMA TypeReturning == TypeOK /\ Returning => TypeOK'
<1> SUFFICES ASSUME TypeOK, Returning PROVE TypeOK'
  OBVIOUS
<1>1. ASSUME NEW c \in Calls, NEW s \in Sales, NEW qty \in Bags,
             NEW kind \in {"tillnote", "note", "return"},
             ReadForNote(c, kind, s, qty)
      PROVE  TypeOK'
  <2>1. TotalAmount(s) \in Nat /\ qty \in Quantities
    BY BoundTypes, ValueType DEF TotalAmount, TypeOK, SaleRows
  <2> QED
    BY <1>1, <2>1, ReadType DEF ReadForNote, AboutNotes
<1>2. ASSUME NEW c \in Calls, NEW n \in Notes, CreateNote(c, n) PROVE TypeOK'
  <2>1. call[c].sale \in Sales
    BY DEF TypeOK, CallRows
  <2>2. note' \in [Notes -> NoteRows] /\ money' \in [Money -> MoneyRows]
    BY <1>2, NewNoteType DEF CreateNote, TypeOK
  <2>3. sale' \in [Sales -> SaleRows]
    BY <1>2, <2>1, <2>2, SyncSale DEF CreateNote
  <2>4. CallsTyped'
    BY <1>2, WriteType DEF CreateNote
  <2> QED
    BY <1>2, <2>2, <2>3, <2>4 DEF CreateNote, TypeOK, CallsTyped, stockVars, historyVars
<1>3. ASSUME NEW c \in Calls, NEW n \in Notes, NEW m \in Money, ReturnAndRefund(c, n, m)
      PROVE  TypeOK'
  <2>1. call[c].sale \in Sales /\ call[c].qty \in Quantities /\ Value(call[c].qty) \in Nat
    BY ValueType DEF TypeOK, CallRows
  <2>2. note' \in [Notes -> NoteRows]
    BY <1>3, NewNoteType DEF ReturnAndRefund
  <2>3. money' \in [Money -> MoneyRows]
    BY <1>3, <2>1 DEF ReturnAndRefund, TypeOK, MoneyRows
  <2>4. sale' \in [Sales -> SaleRows]
    BY <1>3, <2>1, <2>2, <2>3, SyncSale DEF ReturnAndRefund
  <2>5. CallsTyped'
    BY <1>3, WriteType DEF ReturnAndRefund
  <2>6. onHand' \in [Parts -> Int] /\ moved' \in [Sales -> [Parts -> Int]]
    BY <1>3, <2>1, ShiftTypes, MoveType DEF ReturnAndRefund, PutBack
  <2> QED
    BY <1>3, <2>2, <2>3, <2>4, <2>5, <2>6 DEF ReturnAndRefund, TypeOK, CallsTyped
<1>4. ASSUME NEW c \in Calls, NEW n \in Notes, ReadForReceive(c, n) \/ ReadForNoteDelete(c, n)
      PROVE  TypeOK'
  <2>1. note[n].sale \in Sales
    BY DEF TypeOK, NoteRows
  <2> QED
    BY <1>4, <2>1, ConstantTypes, ReadType DEF ReadForReceive, ReadForNoteDelete
<1>5. ASSUME NEW c \in Calls, WriteReceive(c) PROVE TypeOK'
  <2> DEFINE n == call[c].note
  <2>1. n \in Notes
    BY <1>5 DEF WriteReceive, TypeOK, AboutNotes
  <2>2. note[n].sale \in Sales /\ note[n].qty \in Quantities
    BY <2>1 DEF TypeOK, NoteRows
  <2>3. note' \in [Notes -> NoteRows]
    BY <1>5 DEF WriteReceive, TypeOK, NoteRows
  <2>4. onHand' \in [Parts -> Int] /\ moved' \in [Sales -> [Parts -> Int]]
    BY <1>5, <2>2, ShiftTypes, MoveType DEF WriteReceive, PutBack
  <2>5. CallsTyped'
    BY <1>5, WriteType DEF WriteReceive
  <2> QED
    BY <1>5, <2>1, <2>3, <2>4, <2>5 DEF WriteReceive, TypeOK, CallsTyped
<1>6. ASSUME NEW c \in Calls, WriteNoteDelete(c) PROVE TypeOK'
  <2>1. money' \in [Money -> MoneyRows] /\ note' \in [Notes -> NoteRows]
    BY <1>6, ErasedTypes DEF WriteNoteDelete, TypeOK, MoneyRows
  <2>2. CallsTyped'
    BY <1>6, WriteType DEF WriteNoteDelete
  <2>3. undone' \subseteq Sales
    BY <1>6 DEF WriteNoteDelete, TypeOK, CallRows
  <2> QED
    BY <1>6, <2>1, <2>2, <2>3 DEF WriteNoteDelete, TypeOK, CallsTyped, stockVars
<1> QED
  BY <1>1, <1>2, <1>3, <1>4, <1>5, <1>6 DEF Returning

LEMMA TypeRefunding == TypeOK /\ Refunding => TypeOK'
<1> SUFFICES ASSUME TypeOK, Refunding PROVE TypeOK'
  OBVIOUS
<1>1. ASSUME NEW c \in Calls, NEW s \in Sales, NEW n \in Notes \cup {NoNote},
             NEW amount \in Amounts, NEW kind, ReadForRefund(c, kind, s, n, amount)
      PROVE  TypeOK'
  BY <1>1, BoundTypes, ConstantTypes, ReadType
  DEF ReadForRefund, AboutNotes, NotesOf
<1>2. ASSUME NEW c \in Calls, NEW m \in Money, WriteRefund(c, m) PROVE TypeOK'
  <2>1. call[c].sale \in Sales /\ call[c].note \in Notes \cup {NoNote} /\ call[c].amount \in Nat
    BY <1>2 DEF WriteRefund, TypeOK, CallRows
  <2>2. money' \in [Money -> MoneyRows] /\ note' \in [Notes -> NoteRows]
    BY <1>2, <2>1 DEF WriteRefund, NewMoney, TypeOK, MoneyRows
  <2>3. sale' \in [Sales -> SaleRows]
    BY <1>2, <2>1, <2>2, SyncSale DEF WriteRefund
  <2>4. CallsTyped'
    BY <1>2, WriteType DEF WriteRefund
  <2> QED
    BY <1>2, <2>1, <2>2, <2>3, <2>4 DEF WriteRefund, TypeOK, CallsTyped, stockVars
<1> QED
  BY <1>1, <1>2 DEF Refunding

LEMMA TypeStep == TypeOK /\ [Next]_vars => TypeOK'
<1>1. TypeOK /\ UNCHANGED vars => TypeOK'
  BY DEF vars, TypeOK
<1> QED
  BY <1>1, TypeLines, TypePaying, TypeReturning, TypeRefunding DEF Next

\* Documents, money, stock and requests in flight keep their types.
THEOREM TypeCorrect == Spec => []TypeOK
BY TypeInit, TypeStep, PTL DEF Spec

-----------------------------------------------------------------------------
(* What a step touches *)

Live(n) == note[n].state \in {"ISSUED", "RECEIVED"}
Counts(m) == money[m].kind \in {"payment", "refund"}
LiveOn(n, s) == Live(n) /\ note[n].sale = s
CountsOn(m, s) == Counts(m) /\ money[m].sale = s

\* The rows belong together: goods that came back did so with a note that is there,
\* or was; payments, refunds and notes have a sale; and a refund of a note is on the
\* sale of the note.
RowsBelong ==
  /\ \A n \in restocked : note[n].state \in {"RECEIVED", "GONE"}
  /\ \A m \in Money : Counts(m) => Exists(money[m].sale)
  /\ \A n \in Notes : Live(n) => Exists(note[n].sale)
  /\ \A s \in Sales : sale[s].status = "NONE" => sale[s] = NewSale
  /\ \A m \in Money : money[m].note \in Notes =>
       /\ money[m].kind = "refund"
       /\ LiveOn(money[m].note, money[m].sale)

\* A call is about a sale that was made, and about a note of that sale.
CallsBelong ==
  \A c \in Calls : call[c].pc # "idle" =>
    /\ sale[call[c].sale].status # "NONE"
    /\ call[c].note \in Notes =>
         /\ note[call[c].note].state # "NONE"
         /\ Live(call[c].note) => note[call[c].note].sale = call[c].sale

\* The sale keeps its row, its notes and its money.
Untouched(s) ==
  /\ sale'[s] = sale[s]
  /\ \A n \in Notes : LiveOn(n, s)' = LiveOn(n, s) /\ (LiveOn(n, s) => note'[n] = note[n])
  /\ \A m \in Money : CountsOn(m, s)' = CountsOn(m, s) /\ (CountsOn(m, s) => money'[m] = money[m])

\* Who has read sale s learns that it does not see what is written.
Touching(s) ==
  \A c \in Calls :
    \/ call'[c].pc = "idle"
    \/ /\ call[c].pc # "idle"
       /\ call'[c] = [call[c] EXCEPT !.stale = call'[c].stale]
       /\ ~call'[c].stale => ~call[c].stale /\ call[c].sale # s

WritesOn(s) ==
  /\ Touching(s)
  /\ stale \subseteq stale'
  /\ \A x \in Sales \ {s} : Untouched(x)

LEMMA TouchingAtOnce ==
  ASSUME TypeOK, NEW kind, NEW s, AtOnce(kind, s)
  PROVE  Touching(s) /\ stale \subseteq stale'
BY DEF AtOnce, Touched, Touching, TypeOK, CallRows

LEMMA TouchingWrite ==
  ASSUME TypeOK, NEW c \in Calls, Write(c)
  PROVE  /\ Touching(call[c].sale) /\ stale \subseteq stale'
         /\ call[c].stale => <<call[c].sale, call[c].pc>> \in stale'
BY DEF Write, Touched, Touching, TypeOK, CallRows, Idle

\* Sync changes what is paid and the status of a sale that is there, and it stays.
LEMMA SyncKeeps ==
  ASSUME TypeOK, money' \in [Money -> MoneyRows], note' \in [Notes -> NoteRows],
         NEW s \in Sales, Exists(s), Sync(s)
  PROVE  /\ \A x \in Sales : Exists(x)' = Exists(x) /\ sale'[x].qty = sale[x].qty
         /\ \A x \in Sales \ {s} : sale'[x] = sale[x]
         /\ Exists(s)'
<1>1. sale'[s].status \in {"RETURNED", "PARTIALLY_RETURNED", "PAID", "OPEN"}
  BY SyncSale, StatusTypes
<1> QED
  BY <1>1, SyncSale DEF Exists

\* A row that is added, changed or erased is of the sale it is written on.
LEMMA OthersKeepMoney ==
  ASSUME TypeOK, NEW s \in Sales, NEW m \in Money,
         \A x \in Money \ {m} : money'[x] = money[x],
         Counts(m) => money[m].sale = s,
         Counts(m)' => money'[m].sale = s,
         note' = note, \A x \in Sales \ {s} : sale'[x] = sale[x]
  PROVE  \A x \in Sales \ {s} : Untouched(x)
BY DEF Untouched, CountsOn, LiveOn, Live, Counts

\* The till writes on the lines of a sale, or on what they come to.
LineStep(s) ==
  \/ \E c \in Calls : call[c].sale = s /\ (AddItem(c) \/ Recalc(c))
  \/ \E p \in Parts : DeleteItem(s, p) \/ \E n \in Amounts : UpdateItem(s, p, n)

\* Each ends with the sync of a sale that is there.
LEMMA LinesSync ==
  ASSUME TypeOK, NEW s \in Sales, LineStep(s)
  PROVE  /\ Exists(s) /\ UNCHANGED <<note, money, restocked, undone>>
         /\ \E qty \in Quantities : SyncWith(s, qty)
<1>1. sale[s].qty \in Quantities
  BY DEF TypeOK, SaleRows
<1>2. ASSUME NEW c \in Calls, call[c].sale = s, AddItem(c)
      PROVE  /\ Exists(s) /\ UNCHANGED <<note, money, restocked, undone>>
             /\ \E qty \in Quantities : SyncWith(s, qty)
  <2>1. Plus(sale[s].qty, call[c].qty) \in Quantities
    BY <1>1, ShiftTypes DEF TypeOK, CallRows
  <2> QED
    BY <1>2, <2>1 DEF AddItem, historyVars
<1>3. ASSUME NEW c \in Calls, call[c].sale = s, Recalc(c)
      PROVE  /\ Exists(s) /\ UNCHANGED <<note, money, restocked, undone>>
             /\ \E qty \in Quantities : SyncWith(s, qty)
  BY <1>1, <1>3 DEF Recalc, Sync, historyVars
<1>4. ASSUME NEW p \in Parts, DeleteItem(s, p)
      PROVE  /\ Exists(s) /\ UNCHANGED <<note, money, restocked, undone>>
             /\ \E qty \in Quantities : SyncWith(s, qty)
  <2>1. [sale[s].qty EXCEPT ![p] = 0] \in Quantities
    BY <1>1 DEF Quantities
  <2> QED
    BY <1>4, <2>1 DEF DeleteItem, historyVars, Exists
<1>5. ASSUME NEW p \in Parts, NEW n \in Amounts, UpdateItem(s, p, n)
      PROVE  /\ Exists(s) /\ UNCHANGED <<note, money, restocked, undone>>
             /\ \E qty \in Quantities : SyncWith(s, qty)
  <2>1. [sale[s].qty EXCEPT ![p] = n] \in Quantities
    BY <1>1, BoundTypes DEF Quantities
  <2> QED
    BY <1>5, <2>1 DEF UpdateItem, historyVars, Exists
<1> QED
  BY <1>2, <1>3, <1>4, <1>5 DEF LineStep

LEMMA LinesKeep ==
  ASSUME TypeOK, NEW s \in Sales, LineStep(s)
  PROVE  Exists(s)' /\ \A x \in Sales \ {s} : sale'[x] = sale[x]
<1>1. PICK qty \in Quantities : SyncWith(s, qty)
  BY LinesSync
<1>2. money' \in [Money -> MoneyRows] /\ note' \in [Notes -> NoteRows]
  BY LinesSync DEF TypeOK
<1>3. sale'[s].status \in {"RETURNED", "PARTIALLY_RETURNED", "PAID", "OPEN"}
  BY <1>1, <1>2, SyncLines, StatusTypes
<1> QED
  BY <1>1, <1>2, <1>3, SyncLines DEF Exists

\* Every action that writes does so on one sale.
Writing(s) ==
  \/ LineStep(s)
  \/ \E c \in Calls : /\ call[c].sale = s
                      /\ \/ DeleteSale(c) \/ WriteReceive(c) \/ WriteNoteDelete(c)
                         \/ \E m \in Money : WriteReceipt(c, m) \/ WriteRefund(c, m)
                         \/ \E n \in Notes : CreateNote(c, n)
                         \/ \E n \in Notes, m \in Money : ReturnAndRefund(c, n, m)
  \/ \E m \in Money, amount \in Amounts : TakePayment(s, m, amount)
  \/ \E m \in Money : /\ money[m].sale = s
                      /\ DeleteMoney(m) \/ \E amount \in Amounts : UpdateReceipt(m, amount)

Reading(c) ==
  \/ \E s \in Sales, p \in Parts, n \in Amounts : ReadForAdd(c, s, p, n)
  \/ \E s \in Sales : ReadForRecalc(c, s) \/ ReadForDelete(c, s)
  \/ \E s \in Sales, amount \in Amounts : ReadForReceipt(c, s, amount)
  \/ \E s \in Sales, qty \in Bags, kind \in {"tillnote", "note", "return"} :
        ReadForNote(c, kind, s, qty)
  \/ \E n \in Notes : ReadForReceive(c, n) \/ ReadForNoteDelete(c, n)
  \/ \E s \in Sales, n \in Notes \cup {NoNote}, amount \in Amounts,
        kind \in {"tillrefund", "noterefund", "refund"} : ReadForRefund(c, kind, s, n, amount)

LEMMA Steps ==
  ASSUME TypeOK, Next
  PROVE  \/ \E s \in Sales : Writing(s)
         \/ \E s \in Sales : CreateSale(s)
         \/ \E c \in Calls : Reading(c)
         \/ \E c \in Calls : EndCall(c)
<1>1. \A c \in Calls : call[c].sale \in Sales
  BY DEF TypeOK, CallRows
<1>2. \A m \in Money : money[m].sale \in Sales
  BY DEF TypeOK, MoneyRows
<1> QED
  BY <1>1, <1>2 DEF Next, Lines, Paying, Returning, Refunding, Writing, LineStep, Reading

LEMMA LinesWriteOn ==
  ASSUME TypeOK, RowsBelong, NEW s \in Sales,
         LineStep(s) \/ \E c \in Calls : call[c].sale = s /\ DeleteSale(c)
  PROVE  WritesOn(s)
<1>1. ASSUME LineStep(s) PROVE WritesOn(s)
  <2>1. /\ note' = note /\ money' = money
        /\ \A x \in Sales \ {s} : sale'[x] = sale[x]
    BY <1>1, LinesSync, LinesKeep
  <2>2. \A x \in Sales \ {s} : Untouched(x)
    BY <2>1 DEF Untouched, LiveOn, CountsOn, Live, Counts
  <2>3. \/ \E c \in Calls : call[c].sale = s /\ Write(c)
        \/ \E kind : AtOnce(kind, s)
    BY <1>1 DEF LineStep, AddItem, Recalc, DeleteItem, UpdateItem
  <2> QED
    BY <2>2, <2>3, TouchingWrite, TouchingAtOnce DEF WritesOn
<1>3. ASSUME NEW c \in Calls, call[c].sale = s, DeleteSale(c) PROVE WritesOn(s)
  <2>1. Write(c) /\ \A x \in Sales \ {s} : sale'[x] = sale[x]
    BY <1>3 DEF DeleteSale, TypeOK, SaleRows
  <2>2. \A n \in Notes : IF LiveOn(n, s) THEN ~Live(n)' ELSE note'[n] = note[n]
    BY <1>3 DEF DeleteSale, NotesOf, LiveOn, Live, Withdrawn, Unused, TypeOK, NoteRows
  <2>3. \A m \in Money : IF money[m].sale = s THEN ~Counts(m)' ELSE money'[m] = money[m]
    BY <1>3 DEF DeleteSale, Counts, Erased, NoMoney
  <2>4. \A x \in Sales \ {s} : Untouched(x)
    BY <2>1, <2>2, <2>3 DEF Untouched, LiveOn, CountsOn, Live, Counts
  <2> QED
    BY <1>3, <2>1, <2>4, TouchingWrite DEF WritesOn
<1> QED
  BY <1>1, <1>3

LEMMA MoneyWriteOn ==
  ASSUME TypeOK, TypeOK', RowsBelong, NEW s \in Sales, NEW m \in Money,
         \/ \E amount \in Amounts : TakePayment(s, m, amount)
         \/ \E c \in Calls : call[c].sale = s /\ (WriteReceipt(c, m) \/ WriteRefund(c, m))
         \/ /\ money[m].sale = s
            /\ DeleteMoney(m) \/ \E amount \in Amounts : UpdateReceipt(m, amount)
  PROVE  /\ WritesOn(s) /\ Exists(s) /\ Sync(s) /\ note' = note
         /\ \A x \in Money \ {m} : money'[x] = money[x]
         /\ Counts(m)' => money'[m].sale = s
         /\ Counts(m) => money[m].sale = s
<1>1. /\ \A x \in Money \ {m} : money'[x] = money[x]
      /\ Counts(m) => money[m].sale = s
      /\ Counts(m)' => money'[m].sale = s
      /\ Exists(s) /\ Sync(s) /\ note' = note
  <2>1. CASE \E amount \in Amounts : TakePayment(s, m, amount)
    BY <2>1 DEF TakePayment, NewMoney, TypeOK, Counts
  <2>2. CASE \E c \in Calls : call[c].sale = s /\ (WriteReceipt(c, m) \/ WriteRefund(c, m))
    BY <2>2 DEF WriteReceipt, WriteRefund, NewMoney, TypeOK, Counts
  <2>3. CASE /\ money[m].sale = s
             /\ DeleteMoney(m) \/ \E amount \in Amounts : UpdateReceipt(m, amount)
    <3>1. Exists(s)
      BY <2>3 DEF RowsBelong, Counts, DeleteMoney, UpdateReceipt
    <3> QED
      BY <2>3, <3>1 DEF DeleteMoney, UpdateReceipt, Erased, NoMoney, TypeOK, MoneyRows, Counts
  <2> QED
    BY <2>1, <2>2, <2>3
<1>2. \A x \in Sales \ {s} : sale'[x] = sale[x]
  BY <1>1, SyncSale DEF TypeOK
<1>3. \A x \in Sales \ {s} : Untouched(x)
  BY <1>1, <1>2, OthersKeepMoney
<1>4. Touching(s) /\ stale \subseteq stale'
  BY TouchingWrite, TouchingAtOnce
  DEF TakePayment, WriteReceipt, WriteRefund, DeleteMoney, UpdateReceipt
<1> QED
  BY <1>1, <1>3, <1>4 DEF WritesOn

LEMMA NotesWriteOn ==
  ASSUME TypeOK, TypeOK', RowsBelong, CallsBelong, NEW s \in Sales, NEW c \in Calls,
         call[c].sale = s,
         \/ WriteReceive(c) \/ WriteNoteDelete(c)
         \/ \E n \in Notes : CreateNote(c, n) \/ \E m \in Money : ReturnAndRefund(c, n, m)
  PROVE  WritesOn(s)
<1>1. Touching(s) /\ stale \subseteq stale'
  BY TouchingWrite DEF WriteReceive, WriteNoteDelete, CreateNote, ReturnAndRefund
<1>2. ASSUME NEW n \in Notes, CreateNote(c, n) \/ \E m \in Money : ReturnAndRefund(c, n, m)
      PROVE  \A x \in Sales \ {s} : Untouched(x)
  <2>1. /\ \A y \in Notes \ {n} : note'[y] = note[y]
        /\ ~Live(n) /\ note'[n].sale = s
    BY <1>2 DEF CreateNote, ReturnAndRefund, NewNote, Live, TypeOK
  <2>2. \A x \in Sales \ {s} : sale'[x] = sale[x]
    BY <1>2, SyncSale DEF CreateNote, ReturnAndRefund, TypeOK
  <2>3. \A y \in Money : money'[y] = money[y] \/ (~Counts(y) /\ money'[y].sale = s)
    <3>1. ASSUME CreateNote(c, n) PROVE money' = money
      BY <3>1, Zenon DEF CreateNote
    <3>2. ASSUME NEW m \in Money, ReturnAndRefund(c, n, m)
          PROVE  /\ \A y \in Money \ {m} : money'[y] = money[y]
                 /\ ~Counts(m) /\ money'[m].sale = s
      BY <3>2 DEF ReturnAndRefund, Counts, TypeOK
    <3> SUFFICES ASSUME NEW y \in Money, money'[y] # money[y]
                 PROVE  ~Counts(y) /\ money'[y].sale = s
      OBVIOUS
    <3>3. PICK m \in Money : ReturnAndRefund(c, n, m)
      BY <1>2, <3>1
    <3> QED
      BY <3>2, <3>3
  <2> QED
    BY <2>1, <2>2, <2>3 DEF Untouched, LiveOn, CountsOn, Live, Counts
<1>3. ASSUME WriteReceive(c) PROVE \A x \in Sales \ {s} : Untouched(x)
  <2>1. PICK n \in Notes : n = call[c].note
    BY <1>3 DEF WriteReceive, TypeOK, AboutNotes
  <2>2. note[n].sale = s
    BY <1>3, <2>1 DEF WriteReceive, CallsBelong, Live
  <2>3. /\ \A y \in Notes \ {n} : note'[y] = note[y]
        /\ note'[n].sale = s
    BY <1>3, <2>1, <2>2 DEF WriteReceive, TypeOK, NoteRows
  <2>4. sale' = sale /\ money' = money
    BY <1>3 DEF WriteReceive
  <2> QED
    BY <2>2, <2>3, <2>4 DEF Untouched, LiveOn, CountsOn, Live, Counts
<1>4. ASSUME WriteNoteDelete(c) PROVE \A x \in Sales \ {s} : Untouched(x)
  <2>1. PICK n \in Notes : n = call[c].note
    BY <1>4 DEF WriteNoteDelete, TypeOK, AboutNotes
  <2>2. Live(n) /\ note[n].sale = s
    BY <1>4, <2>1 DEF WriteNoteDelete, CallsBelong, Live
  <2>3. /\ \A y \in Notes \ {n} : note'[y] = note[y]
        /\ ~Live(n)'
    BY <1>4, <2>1 DEF WriteNoteDelete, Withdrawn, Unused, Live, TypeOK, NoteRows
  <2>4. sale' = sale
    BY <1>4 DEF WriteNoteDelete
  <2>5. \A m \in Money : IF money[m].note = n
                         THEN /\ money[m].sale = s /\ money'[m].sale = s
                              /\ money'[m].kind = money[m].kind
                         ELSE money'[m] = money[m]
    BY <1>4, <2>1, <2>2 DEF WriteNoteDelete, RowsBelong, LiveOn, TypeOK, MoneyRows
  <2> SUFFICES ASSUME NEW x \in Sales \ {s} PROVE Untouched(x)
    OBVIOUS
  <2>6. \A y \in Notes : LiveOn(y, x)' = LiveOn(y, x) /\ (LiveOn(y, x) => note'[y] = note[y])
    BY <2>2, <2>3 DEF LiveOn, Live
  <2>7. \A m \in Money : /\ CountsOn(m, x)' = CountsOn(m, x)
                         /\ CountsOn(m, x) => money'[m] = money[m]
    BY <2>5 DEF CountsOn, Counts
  <2> QED
    BY <2>4, <2>6, <2>7 DEF Untouched
<1> QED
  BY <1>1, <1>2, <1>3, <1>4 DEF WritesOn

LEMMA WritingWritesOn ==
  ASSUME TypeOK, TypeOK', RowsBelong, CallsBelong, NEW s \in Sales, Writing(s)
  PROVE  WritesOn(s)
BY LinesWriteOn, MoneyWriteOn, NotesWriteOn DEF Writing

-----------------------------------------------------------------------------
(* The rows belong together *)

\* Sales and notes that were made stay so, and a note does not change hands.
Grows ==
  /\ \A s \in Sales : sale[s].status # "NONE" => sale'[s].status # "NONE"
  /\ \A n \in Notes : note[n].state # "NONE" =>
       /\ note'[n].state # "NONE"
       /\ Live(n)' => Live(n) /\ note'[n].sale = note[n].sale

LEMMA LinesKeepRows ==
  ASSUME TypeOK, RowsBelong, NEW s \in Sales, LineStep(s)
  PROVE  RowsBelong' /\ Grows
<1>1. /\ Exists(s) /\ Exists(s)' /\ \A x \in Sales \ {s} : sale'[x] = sale[x]
      /\ UNCHANGED <<note, money, restocked>>
  BY LinesSync, LinesKeep
<1> QED
  BY <1>1 DEF RowsBelong, Grows, Exists, Counts, Live, LiveOn, TypeOK, MoneyRows, NoteRows

LEMMA DeletingKeepsRows ==
  ASSUME TypeOK, RowsBelong, NEW c \in Calls, DeleteSale(c)
  PROVE  RowsBelong' /\ Grows
<1> DEFINE s == call[c].sale
<1>1. s \in Sales
  BY DEF TypeOK, CallRows
<1>2. PICK d \in Sales : d = s
  BY <1>1
<1>3. /\ \A x \in Sales : sale'[x].status = IF x = d THEN "DELETED" ELSE sale[x].status
      /\ \A x \in Sales \ {d} : sale'[x] = sale[x]
  BY <1>2 DEF DeleteSale, TypeOK, SaleRows
<1>4. \A n \in Notes : IF LiveOn(n, d)
                       THEN /\ note'[n].state = "GONE"
                            /\ n \in restocked => note'[n].sale = note[n].sale
                       ELSE note'[n] = note[n]
  BY <1>2 DEF DeleteSale, NotesOf, LiveOn, Live, Withdrawn, Unused, TypeOK, NoteRows
<1>5. \A m \in Money : IF money[m].sale = d THEN money'[m] = Erased(m) ELSE money'[m] = money[m]
  BY <1>2 DEF DeleteSale
<1>6. restocked' = restocked
  BY DEF DeleteSale, historyVars
<1>7. \A m \in Money : Erased(m).kind = "gone" /\ Erased(m).note \notin Notes
  BY IdsAssumption DEF Erased, NoMoney
<1> HIDE DEF s
<1>8. \A m \in Money : Counts(m)' => Counts(m) /\ money'[m] = money[m] /\ money[m].sale # d
  BY <1>5, <1>7 DEF Counts
<1>9. \A n \in Notes : Live(n)' => Live(n) /\ note'[n] = note[n] /\ note[n].sale # d
  BY <1>4 DEF Live, LiveOn
<1>10. \A m \in Money : money'[m].note \in Notes =>
          /\ money'[m] = money[m] /\ money[m].sale # d
  BY <1>5, <1>7
<1>11. /\ \A n \in restocked' : note'[n].state \in {"RECEIVED", "GONE"}
       /\ \A n \in Notes : Live(n)' => sale'[note'[n].sale].status \notin {"NONE", "DELETED"}
       /\ \A m \in Money : Counts(m)' => sale'[money'[m].sale].status \notin {"NONE", "DELETED"}
  <2>1. \A n \in restocked' : note'[n].state \in {"RECEIVED", "GONE"}
    BY <1>4, <1>6 DEF RowsBelong, TypeOK
  <2>2. \A n \in Notes : Live(n)' => sale'[note'[n].sale].status \notin {"NONE", "DELETED"}
    BY <1>3, <1>9 DEF RowsBelong, Exists, TypeOK, NoteRows
  <2>3. \A m \in Money : Counts(m)' => sale'[money'[m].sale].status \notin {"NONE", "DELETED"}
    BY <1>3, <1>8 DEF RowsBelong, Exists, TypeOK, MoneyRows
  <2> QED
    BY <2>1, <2>2, <2>3
<1>12. RowsBelong'
  BY <1>3, <1>4, <1>8, <1>9, <1>10, <1>11 DEF RowsBelong, Exists, LiveOn, Live
<1>13. Grows
  BY <1>3, <1>4, <1>9 DEF Grows, Live
<1> QED
  BY <1>12, <1>13

LEMMA MoneyKeepsRows ==
  ASSUME TypeOK, TypeOK', RowsBelong, CallsBelong, NEW s \in Sales, NEW m \in Money,
         \/ \E amount \in Amounts : TakePayment(s, m, amount)
         \/ \E c \in Calls : call[c].sale = s /\ (WriteReceipt(c, m) \/ WriteRefund(c, m))
         \/ /\ money[m].sale = s
            /\ DeleteMoney(m) \/ \E amount \in Amounts : UpdateReceipt(m, amount)
  PROVE  RowsBelong' /\ Grows
<1>1. /\ Exists(s) /\ Sync(s) /\ note' = note
      /\ \A x \in Money \ {m} : money'[x] = money[x]
      /\ Counts(m)' => money'[m].sale = s
  BY MoneyWriteOn
<1>2. restocked' = restocked
  BY DEF TakePayment, WriteReceipt, WriteRefund, DeleteMoney, UpdateReceipt, historyVars
<1>3. /\ \A x \in Sales : Exists(x)' = Exists(x)
      /\ \A x \in Sales \ {s} : sale'[x] = sale[x]
      /\ Exists(s)'
  BY <1>1, SyncKeeps DEF TypeOK
<1>4. money'[m].note \in Notes => money'[m].kind = "refund" /\ LiveOn(money'[m].note, money'[m].sale)
  <2>1. CASE \E amount \in Amounts : TakePayment(s, m, amount)
    BY <2>1, IdsAssumption DEF TakePayment, NewMoney, TypeOK
  <2>2. CASE \E c \in Calls : call[c].sale = s /\ WriteReceipt(c, m)
    BY <2>2, IdsAssumption DEF WriteReceipt, NewMoney, TypeOK
  <2>3. ASSUME NEW c \in Calls, call[c].sale = s, WriteRefund(c, m)
        PROVE  money'[m].note \in Notes => /\ money'[m].kind = "refund"
                                           /\ LiveOn(money'[m].note, money'[m].sale)
    <3>1. /\ money'[m] = [kind |-> "refund", sale |-> s, note |-> call[c].note,
                          amount |-> call[c].amount]
          /\ call[c].note # NoNote => Live(call[c].note)
          /\ call[c].pc # "idle"
      BY <2>3 DEF WriteRefund, NewMoney, TypeOK, Live
    <3> QED
      BY <2>3, <3>1, IdsAssumption DEF CallsBelong, LiveOn
  <2>4. CASE money[m].sale = s /\ DeleteMoney(m)
    BY <2>4, IdsAssumption DEF DeleteMoney, Erased, NoMoney, TypeOK
  <2>5. CASE money[m].sale = s /\ \E amount \in Amounts : UpdateReceipt(m, amount)
    BY <2>5 DEF UpdateReceipt, RowsBelong, TypeOK, MoneyRows
  <2> QED
    BY <2>1, <2>2, <2>3, <2>4, <2>5
<1>5. \A n : Live(n)' = Live(n)
  BY <1>1 DEF Live
<1>6. RowsBelong'
  <2>1. \A n \in restocked' : note'[n].state \in {"RECEIVED", "GONE"}
    BY <1>1, <1>2 DEF RowsBelong
  <2>2. \A x \in Money : Counts(x)' => sale'[money'[x].sale].status \notin {"NONE", "DELETED"}
    BY <1>1, <1>3 DEF RowsBelong, Exists, Counts, TypeOK, MoneyRows
  <2>3. \A n \in Notes : Live(n)' => sale'[note'[n].sale].status \notin {"NONE", "DELETED"}
    BY <1>1, <1>3, <1>5 DEF RowsBelong, Exists, TypeOK, NoteRows
  <2>4. \A x \in Sales : sale'[x].status = "NONE" => sale'[x] = NewSale
    BY <1>3 DEF RowsBelong, Exists
  <2>5. \A x \in Money : money'[x].note \in Notes =>
          /\ money'[x].kind = "refund"
          /\ note'[money'[x].note].state \in {"ISSUED", "RECEIVED"}
          /\ note'[money'[x].note].sale = money'[x].sale
    BY <1>1, <1>4 DEF RowsBelong, LiveOn, Live
  <2> QED
    BY <2>1, <2>2, <2>3, <2>4, <2>5 DEF RowsBelong, Exists, LiveOn, Live
<1>7. Grows
  BY <1>1, <1>3, <1>5 DEF Grows, Exists
<1> QED
  BY <1>6, <1>7

LEMMA NotesKeepRows ==
  ASSUME TypeOK, TypeOK', RowsBelong, CallsBelong, NEW c \in Calls,
         \/ WriteReceive(c) \/ WriteNoteDelete(c)
         \/ \E n \in Notes : CreateNote(c, n) \/ \E m \in Money : ReturnAndRefund(c, n, m)
  PROVE  RowsBelong' /\ Grows
<1>1. ASSUME NEW n \in Notes, CreateNote(c, n) \/ \E m \in Money : ReturnAndRefund(c, n, m)
      PROVE  RowsBelong' /\ Grows
  <2>1. PICK s \in Sales : s = call[c].sale
    BY DEF TypeOK, CallRows
  <2>2. /\ Exists(s) /\ Sync(s)
        /\ \A y \in Notes \ {n} : note'[y] = note[y]
        /\ note[n].state = "NONE" /\ note'[n].sale = s
        /\ note'[n].state \in {"ISSUED", "RECEIVED"}
        /\ n \in restocked' \ restocked => note'[n].state = "RECEIVED"
        /\ restocked' \subseteq restocked \cup {n}
    BY <1>1, <2>1 DEF CreateNote, ReturnAndRefund, NewNote, TypeOK, historyVars
  <2>3. \A y \in Money :
          \/ money'[y] = money[y]
          \/ /\ money'[y].kind = "refund" /\ money'[y].sale = s /\ money'[y].note = n
    BY <1>1, <2>1 DEF CreateNote, ReturnAndRefund, TypeOK
  <2>4. /\ \A x \in Sales : Exists(x)' = Exists(x)
        /\ \A x \in Sales \ {s} : sale'[x] = sale[x]
        /\ Exists(s)'
    BY <2>2, SyncKeeps DEF TypeOK
  <2>5. \A y \in restocked' : note'[y].state \in {"RECEIVED", "GONE"}
    BY <2>2 DEF RowsBelong, TypeOK
  <2>6. \A x \in Money : Counts(x)' => sale'[money'[x].sale].status \notin {"NONE", "DELETED"}
    BY <2>3, <2>4 DEF RowsBelong, Exists, Counts, TypeOK, MoneyRows
  <2>7. \A y \in Notes : Live(y)' => sale'[note'[y].sale].status \notin {"NONE", "DELETED"}
    BY <2>2, <2>4 DEF RowsBelong, Exists, Live, TypeOK, NoteRows
  <2>8. \A x \in Sales : sale'[x].status = "NONE" => sale'[x] = NewSale
    BY <2>4 DEF RowsBelong, Exists
  <2>9. \A x \in Money : money'[x].note \in Notes =>
          /\ money'[x].kind = "refund"
          /\ note'[money'[x].note].state \in {"ISSUED", "RECEIVED"}
          /\ note'[money'[x].note].sale = money'[x].sale
    BY <2>2, <2>3 DEF RowsBelong, LiveOn, Live
  <2>10. RowsBelong'
    BY <2>5, <2>6, <2>7, <2>8, <2>9 DEF RowsBelong, Exists, LiveOn, Live
  <2>11. Grows
    BY <2>2, <2>4 DEF Grows, Exists, Live
  <2> QED
    BY <2>10, <2>11
<1>2. ASSUME WriteReceive(c) PROVE RowsBelong' /\ Grows
  <2>1. PICK n \in Notes : n = call[c].note
    BY <1>2 DEF WriteReceive, TypeOK, AboutNotes
  <2>2. /\ \A y \in Notes \ {n} : note'[y] = note[y]
        /\ Live(n) /\ note'[n].state = "RECEIVED" /\ note'[n].sale = note[n].sale
        /\ sale' = sale /\ money' = money /\ restocked' = restocked \cup {n}
    BY <1>2, <2>1 DEF WriteReceive, Live, TypeOK, NoteRows
  <2>3. \A y \in Notes : note'[y].sale = note[y].sale /\ Live(y)' = Live(y)
    BY <2>2 DEF Live
  <2>4. \A y \in restocked' : note'[y].state \in {"RECEIVED", "GONE"}
    BY <2>2 DEF RowsBelong, TypeOK
  <2>5. \A m \in Money : money'[m].note \in Notes =>
          /\ money'[m].kind = "refund"
          /\ note'[money'[m].note].state \in {"ISSUED", "RECEIVED"}
          /\ note'[money'[m].note].sale = money'[m].sale
    BY <2>2, <2>3 DEF RowsBelong, LiveOn, Live
  <2>6. \A y \in Notes : Live(y)' => sale'[note'[y].sale].status \notin {"NONE", "DELETED"}
    BY <2>2, <2>3 DEF RowsBelong, Exists
  <2>7. RowsBelong'
    BY <2>2, <2>4, <2>5, <2>6 DEF RowsBelong, Exists, Counts, LiveOn, Live
  <2> QED
    BY <2>2, <2>3, <2>7 DEF Grows, Live
<1>3. ASSUME WriteNoteDelete(c) PROVE RowsBelong' /\ Grows
  <2>1. PICK n \in Notes : n = call[c].note
    BY <1>3 DEF WriteNoteDelete, TypeOK, AboutNotes
  <2>2. /\ \A y \in Notes \ {n} : note'[y] = note[y]
        /\ Live(n) /\ note'[n].state = "GONE"
        /\ sale' = sale /\ restocked' = restocked
    BY <1>3, <2>1 DEF WriteNoteDelete, Withdrawn, Unused, Live, TypeOK, NoteRows
  <2>3. \A m \in Money : IF money[m].note = n
                         THEN /\ money'[m].sale = money[m].sale /\ money'[m].note \notin Notes
                              /\ money'[m].kind = money[m].kind
                         ELSE money'[m] = money[m]
    BY <1>3, <2>1, IdsAssumption DEF WriteNoteDelete, TypeOK, MoneyRows
  <2>4. \A m \in Money : Counts(m)' => sale'[money'[m].sale].status \notin {"NONE", "DELETED"}
    BY <2>2, <2>3 DEF RowsBelong, Exists, Counts
  <2>5. \A m \in Money : money'[m].note \in Notes =>
          /\ money'[m].kind = "refund"
          /\ note'[money'[m].note].state \in {"ISSUED", "RECEIVED"}
          /\ note'[money'[m].note].sale = money'[m].sale
    BY <2>2, <2>3 DEF RowsBelong, LiveOn, Live
  <2>6. \A y \in Notes : Live(y)' => Live(y) /\ note'[y] = note[y]
    BY <2>2 DEF Live
  <2>7. RowsBelong'
    BY <2>2, <2>4, <2>5, <2>6 DEF RowsBelong, Exists, LiveOn, Live, TypeOK
  <2> QED
    BY <2>2, <2>6, <2>7 DEF Grows
<1> QED
  BY <1>1, <1>2, <1>3

LEMMA WritingKeepsRows ==
  ASSUME TypeOK, TypeOK', RowsBelong, CallsBelong, NEW s \in Sales, Writing(s)
  PROVE  RowsBelong' /\ Grows
BY LinesKeepRows, DeletingKeepsRows, MoneyKeepsRows, NotesKeepRows DEF Writing

LEMMA ReadingReads ==
  ASSUME TypeOK, NEW c \in Calls, Reading(c)
  PROVE  /\ UNCHANGED <<sale, note, money, onHand, moved, restocked, stale, undone>>
         /\ call[c].pc = "idle" /\ call'[c].stale = FALSE
         /\ \A x \in Calls \ {c} : call'[x] = call[x]
BY DEF Reading, ReadForAdd, ReadForRecalc, ReadForDelete, ReadForReceipt, ReadForNote, ReadForReceive,
       ReadForNoteDelete, ReadForRefund, Read, stockVars, historyVars, TypeOK

\* What a step that writes on no sale does: one is made, somebody reads, or somebody
\* gives up.
LEMMA OthersKeepRows ==
  ASSUME TypeOK, RowsBelong,
         \/ \E s \in Sales : CreateSale(s)
         \/ \E c \in Calls : Reading(c) \/ EndCall(c)
         \/ UNCHANGED vars
  PROVE  RowsBelong' /\ Grows
<1>1. CASE UNCHANGED <<sale, note, money, restocked>>
  BY <1>1 DEF RowsBelong, Grows, Exists, Counts, LiveOn, Live
<1>2. ASSUME NEW s \in Sales, CreateSale(s) PROVE RowsBelong' /\ Grows
  <2>1. /\ \A x \in Sales \ {s} : sale'[x] = sale[x]
        /\ sale[s].status = "NONE" /\ sale'[s].status = "OPEN"
    BY <1>2 DEF CreateSale, TypeOK, SaleRows
  <2>2. UNCHANGED <<note, money, restocked>>
    BY <1>2 DEF CreateSale, historyVars
  <2>3. \A m \in Money : Counts(m)' => sale'[money'[m].sale].status \notin {"NONE", "DELETED"}
    BY <2>1, <2>2 DEF RowsBelong, Exists, Counts, TypeOK, MoneyRows
  <2>4. \A n \in Notes : Live(n)' => sale'[note'[n].sale].status \notin {"NONE", "DELETED"}
    BY <2>1, <2>2 DEF RowsBelong, Exists, Live, TypeOK, NoteRows
  <2>5. RowsBelong'
    BY <2>1, <2>2, <2>3, <2>4 DEF RowsBelong, Exists, LiveOn, Live
  <2> QED
    BY <2>1, <2>2, <2>5 DEF Grows, Live
<1> QED
  BY <1>1, <1>2, ReadingReads DEF EndCall, vars, historyVars

LEMMA RowsStep ==
  ASSUME TypeOK, TypeOK', RowsBelong, CallsBelong, [Next]_vars
  PROVE  RowsBelong' /\ Grows
BY Steps, WritingKeepsRows, OthersKeepRows

\* What a call read is about a sale that was made, and a note of that sale.
LEMMA ReadingBelongs ==
  ASSUME TypeOK, RowsBelong, NEW c \in Calls, Reading(c)
  PROVE  /\ Exists(call'[c].sale)
         /\ call'[c].note \in Notes => LiveOn(call'[c].note, call'[c].sale)
<1>1. ASSUME NEW s \in Sales,
             \/ \E p \in Parts, n \in Amounts : ReadForAdd(c, s, p, n)
             \/ ReadForRecalc(c, s) \/ ReadForDelete(c, s)
             \/ \E amount \in Amounts : ReadForReceipt(c, s, amount)
             \/ \E qty \in Bags, kind \in {"tillnote", "note", "return"} :
                   ReadForNote(c, kind, s, qty)
      PROVE  Exists(s) /\ call'[c].sale = s /\ call'[c].note \notin Notes
  BY <1>1, IdsAssumption
  DEF ReadForAdd, ReadForRecalc, ReadForDelete, Deletable, ReadForReceipt, ReadForNote, Read,
      Exists, TypeOK
<1>2. ASSUME NEW n \in Notes, ReadForReceive(c, n) \/ ReadForNoteDelete(c, n)
      PROVE  /\ Live(n) /\ call'[c].sale = note[n].sale /\ call'[c].note = n
  BY <1>2 DEF ReadForReceive, ReadForNoteDelete, Live, Read, TypeOK
<1>3. ASSUME NEW s \in Sales, NEW n \in Notes \cup {NoNote}, NEW amount \in Amounts,
             NEW kind \in {"tillrefund", "noterefund", "refund"},
             ReadForRefund(c, kind, s, n, amount)
      PROVE  /\ Exists(s) /\ call'[c].sale = s /\ call'[c].note = n
             /\ n \in Notes => LiveOn(n, s)
  BY <1>3, IdsAssumption DEF ReadForRefund, NotesOf, LiveOn, Live, Read, TypeOK
<1> QED
  BY <1>1, <1>2, <1>3 DEF Reading, RowsBelong, LiveOn

LEMMA CallsStep ==
  ASSUME TypeOK, TypeOK', RowsBelong, CallsBelong, [Next]_vars
  PROVE  CallsBelong'
<1> SUFFICES ASSUME NEW c \in Calls, call'[c].pc # "idle"
             PROVE  /\ sale'[call'[c].sale].status # "NONE"
                    /\ call'[c].note \in Notes =>
                         /\ note'[call'[c].note].state # "NONE"
                         /\ note'[call'[c].note].state \in {"ISSUED", "RECEIVED"} =>
                              note'[call'[c].note].sale = call'[c].sale
  BY DEF CallsBelong, Live
<1>1. ASSUME call[c].pc # "idle", call'[c].sale = call[c].sale, call'[c].note = call[c].note
      PROVE  /\ sale'[call'[c].sale].status # "NONE"
             /\ call'[c].note \in Notes =>
                  /\ note'[call'[c].note].state # "NONE"
                  /\ note'[call'[c].note].state \in {"ISSUED", "RECEIVED"} =>
                       note'[call'[c].note].sale = call'[c].sale
  BY <1>1, RowsStep DEF Grows, CallsBelong, Live, TypeOK, CallRows
<1>2. ASSUME Reading(c)
      PROVE  /\ sale'[call'[c].sale].status # "NONE"
             /\ call'[c].note \in Notes =>
                  /\ note'[call'[c].note].state # "NONE"
                  /\ note'[call'[c].note].state \in {"ISSUED", "RECEIVED"} =>
                       note'[call'[c].note].sale = call'[c].sale
  BY <1>2, ReadingBelongs, ReadingReads DEF Exists, LiveOn, Live
<1>3. \/ Reading(c)
      \/ call[c].pc # "idle" /\ call'[c].sale = call[c].sale /\ call'[c].note = call[c].note
  <2>1. CASE \E s \in Sales : Writing(s)
    BY <2>1, WritingWritesOn DEF WritesOn, Touching, TypeOK, CallRows
  <2>2. ASSUME NEW x \in Calls, Reading(x), x # c PROVE call'[c] = call[c]
    BY <2>2, ReadingReads
  <2>3. ASSUME NEW x \in Calls, EndCall(x) PROVE call'[c] = call[c]
    BY <2>3 DEF EndCall, Idle, TypeOK
  <2>4. CASE UNCHANGED vars \/ \E s \in Sales : CreateSale(s)
    BY <2>4 DEF vars, CreateSale
  <2> QED
    BY <2>1, <2>2, <2>3, <2>4, Steps
<1> QED
  BY <1>1, <1>2, <1>3

Belong == TypeOK /\ RowsBelong /\ CallsBelong

LEMMA BelongInit == Init => Belong
<1> SUFFICES ASSUME Init PROVE RowsBelong /\ CallsBelong
  BY TypeInit DEF Belong
<1> QED
  BY IdsAssumption DEF Init, RowsBelong, CallsBelong, Counts, Live, LiveOn, NoMoney, Unused, Idle

LEMMA BelongStep == Belong /\ [Next]_vars => Belong'
BY TypeStep, RowsStep, CallsStep DEF Belong

-----------------------------------------------------------------------------
(* What a call that is not stale knows *)

Knows(c) ==
  LET s == call[c].sale  n == call[c].note  amount == call[c].amount IN
  /\ call[c].pc = "add" => sale[s].status = "OPEN"
  /\ call[c].pc = "delete" => Exists(s) /\ call[c].qty = sale[s].qty
  /\ call[c].pc = "receive" => note[n].state = "ISSUED"
  /\ call[c].pc \in {"tillrefund", "noterefund"} => amount <= Paid(money, s)
  /\ call[c].pc \in {"noterefund", "refund"} /\ n \in Notes =>
       LiveOn(n, s) /\ Refunded(n) + amount <= Value(note[n].qty)

CallsKnow == \A c \in Calls : call[c].pc # "idle" /\ ~call[c].stale => Knows(c)

\* What is not touched adds up to the same.
LEMMA UntouchedSums ==
  ASSUME Belong, Belong', NEW s \in Sales, Untouched(s)
  PROVE  /\ Paid(money', s) = Paid(money, s)
         /\ NotesOf(note', s) = NotesOf(note, s)
         /\ Credited(note', s) = Credited(note, s)
         /\ TotalAmount(s)' = TotalAmount(s)
         /\ \A n \in Notes : LiveOn(n, s) =>
              RefundsOf(money', n) = RefundsOf(money, n) /\ Refunded(n)' = Refunded(n)
<1> USE DEF Belong
<1>1. \A kind \in {"payment", "refund"} :
        /\ RowsOf(money', kind, s) = RowsOf(money, kind, s)
        /\ Total(RowsOf(money, kind, s), AmountsOf(money'))
             = Total(RowsOf(money, kind, s), AmountsOf(money))
  <2> SUFFICES ASSUME NEW kind \in {"payment", "refund"}
               PROVE  /\ RowsOf(money', kind, s) = RowsOf(money, kind, s)
                      /\ Total(RowsOf(money, kind, s), AmountsOf(money'))
                           = Total(RowsOf(money, kind, s), AmountsOf(money))
    OBVIOUS
  <2>1. RowsOf(money', kind, s) = RowsOf(money, kind, s)
    BY DEF RowsOf, Untouched, CountsOn, Counts
  <2>2. \A m \in RowsOf(money, kind, s) : AmountsOf(money')[m] = AmountsOf(money)[m]
    BY DEF RowsOf, AmountsOf, Untouched, CountsOn, Counts
  <2> QED
    BY <2>1, <2>2, SameUnits
<1>2. Paid(money', s) = Paid(money, s)
  BY <1>1 DEF Paid
<1>3. NotesOf(note', s) = NotesOf(note, s)
  BY DEF NotesOf, Untouched, LiveOn, Live
<1>4. Credited(note', s) = Credited(note, s)
  <2>1. \A n \in NotesOf(note, s) : NoteValues(note')[n] = NoteValues(note)[n]
    BY DEF NotesOf, NoteValues, Untouched, LiveOn, Live
  <2>2. Total(NotesOf(note, s), NoteValues(note')) = Total(NotesOf(note, s), NoteValues(note))
    BY <2>1, SameUnits
  <2> QED
    BY <1>3, <2>2 DEF Credited, NoteValues
<1>5. TotalAmount(s)' = TotalAmount(s)
  BY DEF TotalAmount, Untouched
<1>6. ASSUME NEW n \in Notes, LiveOn(n, s)
      PROVE  RefundsOf(money', n) = RefundsOf(money, n) /\ Refunded(n)' = Refunded(n)
  <2>1. LiveOn(n, s)'
    BY <1>6 DEF Untouched
  <2>2. \A m \in RefundsOf(money, n) : CountsOn(m, s)
    BY <1>6 DEF RefundsOf, RowsBelong, LiveOn, CountsOn, Counts
  <2>3. \A m \in RefundsOf(money', n) : CountsOn(m, s)'
    BY <2>1 DEF RefundsOf, RowsBelong, LiveOn, CountsOn, Counts
  <2>4. \A m \in Money : CountsOn(m, s) \/ CountsOn(m, s)' => money'[m] = money[m]
    BY DEF Untouched
  <2>5. RefundsOf(money', n) = RefundsOf(money, n)
    BY <2>2, <2>3, <2>4 DEF RefundsOf
  <2>6. \A m \in RefundsOf(money, n) : AmountsOf(money')[m] = AmountsOf(money)[m]
    BY <2>2, <2>4 DEF RefundsOf, AmountsOf
  <2>7. Total(RefundsOf(money, n), AmountsOf(money')) = Total(RefundsOf(money, n), AmountsOf(money))
    BY <2>6, SameUnits
  <2> QED
    BY <2>5, <2>7 DEF Refunded
<1> QED
  BY <1>2, <1>3, <1>4, <1>5, <1>6

\* What a reader sees is what it goes on with.
LEMMA ReadingKnows ==
  ASSUME Belong, NEW c \in Calls, Reading(c)
  PROVE  Knows(c)'
<1> USE DEF Belong
<1>1. UNCHANGED <<sale, note, money>>
  BY ReadingReads
<1>2. ASSUME NEW s \in Sales,
             \/ \E p \in Parts, n \in Amounts : ReadForAdd(c, s, p, n)
             \/ ReadForRecalc(c, s) \/ ReadForDelete(c, s)
             \/ \E amount \in Amounts : ReadForReceipt(c, s, amount)
             \/ \E qty \in Bags, kind \in {"tillnote", "note", "return"} :
                   ReadForNote(c, kind, s, qty)
      PROVE  Knows(c)'
  <2>1. /\ call'[c].sale = s
        /\ call'[c].pc \in {"add", "recalc", "delete", "receipt", "tillnote", "note", "return"}
        /\ call'[c].pc = "add" => sale[s].status = "OPEN"
        /\ call'[c].pc = "delete" => sale[s].status = "OPEN" /\ call'[c].qty = sale[s].qty
    BY <1>2 DEF ReadForAdd, ReadForRecalc, ReadForDelete, Deletable, ReadForReceipt, ReadForNote,
                Read, TypeOK
  <2> QED
    BY <1>1, <2>1 DEF Knows, Exists
<1>3. ASSUME NEW n \in Notes, ReadForReceive(c, n) \/ ReadForNoteDelete(c, n)
      PROVE  Knows(c)'
  <2>1. /\ call'[c].note = n /\ call'[c].pc \in {"receive", "unnote"}
        /\ call'[c].pc = "receive" => note[n].state = "ISSUED"
    BY <1>3 DEF ReadForReceive, ReadForNoteDelete, Read, TypeOK
  <2> QED
    BY <1>1, <2>1 DEF Knows
<1>4. ASSUME NEW s \in Sales, NEW n \in Notes \cup {NoNote}, NEW amount \in Amounts,
             NEW kind \in {"tillrefund", "noterefund", "refund"},
             ReadForRefund(c, kind, s, n, amount)
      PROVE  Knows(c)'
  <2>1. /\ call'[c].sale = s /\ call'[c].note = n /\ call'[c].pc = kind
        /\ call'[c].amount = amount
    BY <1>4 DEF ReadForRefund, Read, TypeOK
  <2>2. n \notin Notes => kind = "refund"
    BY <1>4 DEF ReadForRefund
  <2>3. n \in Notes => /\ LiveOn(n, s) /\ amount <= Paid(money, s)
                       /\ Refunded(n) + amount <= Value(note[n].qty)
    <3> SUFFICES ASSUME n \in Notes
                 PROVE  /\ LiveOn(n, s) /\ amount <= Paid(money, s)
                        /\ Refunded(n) + amount <= Value(note[n].qty)
      OBVIOUS
    <3>1. n # NoNote /\ Refunded(n) \in Nat /\ Paid(money, s) \in Int /\ amount \in Nat
          /\ Value(note[n].qty) \in Nat
      BY IdsAssumption, SumTypes, ValueType, BoundTypes DEF TypeOK, NoteRows
    <3>2. amount <= Least(Value(note[n].qty) - Refunded(n), Paid(money, s)) /\ LiveOn(n, s)
      BY <1>4, <3>1 DEF ReadForRefund, Refundable, NotesOf, LiveOn, Live
    <3> QED
      BY <3>1, <3>2 DEF Least
  <2>4. Refunded(n)' = Refunded(n) /\ LiveOn(n, s)' = LiveOn(n, s)
    BY <1>1 DEF Refunded, LiveOn, Live
  <2> QED
    BY <1>1, <2>1, <2>2, <2>3, <2>4 DEF Knows, Refunded, LiveOn, Live
<1> QED
  BY <1>2, <1>3, <1>4 DEF Reading

LEMMA StillKnows ==
  ASSUME Belong, Belong', NEW c \in Calls, Knows(c), NEW s \in Sales, s = call[c].sale,
         call'[c].pc = call[c].pc, call'[c].sale = s, call'[c].note = call[c].note,
         call'[c].qty = call[c].qty, call'[c].amount = call[c].amount,
         call[c].note \in Notes /\ Live(call[c].note) => note[call[c].note].sale = s,
         call[c].pc \in AboutNotes => call[c].note \in Notes,
         Untouched(s)
  PROVE  Knows(c)'
<1>1. /\ Paid(money', s) = Paid(money, s)
      /\ sale'[s] = sale[s]
  BY UntouchedSums DEF Untouched
<1>2. ASSUME NEW n \in Notes, n = call[c].note, LiveOn(n, s)
      PROVE  /\ note'[n] = note[n] /\ LiveOn(n, s)' /\ Refunded(n)' = Refunded(n)
  BY <1>2, UntouchedSums DEF Untouched
<1>3. call[c].pc \in {"add", "delete"} => Knows(c)'
  BY <1>1 DEF Knows, Exists
<1>4. call[c].pc = "receive" => Knows(c)'
  BY <1>2 DEF Knows, AboutNotes, LiveOn, Live
<1>5. ASSUME call[c].pc \in {"tillrefund", "noterefund", "refund"}
      PROVE  /\ call'[c].pc \in {"tillrefund", "noterefund"} => call'[c].amount <= Paid(money', call'[c].sale)
             /\ call'[c].pc \in {"noterefund", "refund"} /\ call'[c].note \in Notes =>
                  /\ LiveOn(call[c].note, call[c].sale)'
                  /\ Refunded(call[c].note)' + call'[c].amount <= Value(note'[call'[c].note].qty)
  <2>1. ASSUME NEW n \in Notes, n = call[c].note, call[c].pc \in {"noterefund", "refund"}
        PROVE  LiveOn(n, s)' /\ Refunded(n)' + call[c].amount <= Value(note'[n].qty)
    <3>1. LiveOn(n, s) /\ Refunded(n) + call[c].amount <= Value(note[n].qty)
      BY <2>1 DEF Knows
    <3> QED
      BY <2>1, <3>1, <1>2
  <2>2. call'[c].pc \in {"tillrefund", "noterefund"} => call'[c].amount <= Paid(money', call'[c].sale)
    BY <1>1 DEF Knows
  <2>3. ASSUME call'[c].pc \in {"noterefund", "refund"}, call'[c].note \in Notes
        PROVE  /\ LiveOn(call[c].note, call[c].sale)'
               /\ Refunded(call[c].note)' + call'[c].amount <= Value(note'[call'[c].note].qty)
    <3>1. PICK n \in Notes : n = call[c].note
      BY <2>3
    <3>2. LiveOn(n, s)' /\ Refunded(n)' + call[c].amount <= Value(note'[n].qty)
      BY <2>1, <2>3, <3>1
    <3> QED
      BY <3>1, <3>2 DEF LiveOn, Live, Refunded
  <2> QED
    BY <2>2, <2>3
<1>6. call[c].pc \in {"tillrefund", "noterefund", "refund"} => Knows(c)'
  BY <1>5 DEF Knows
<1>7. call[c].pc \notin {"add", "delete", "receive", "tillrefund", "noterefund", "refund"}
        => Knows(c)'
  BY DEF Knows
<1> QED
  BY <1>3, <1>4, <1>6, <1>7

LEMMA KnowsStep == Belong /\ CallsKnow /\ [Next]_vars => CallsKnow'
<1> SUFFICES ASSUME Belong, CallsKnow, [Next]_vars,
                    NEW c \in Calls, call'[c].pc # "idle", ~call'[c].stale
             PROVE  Knows(c)'
  BY DEF CallsKnow
<1>1. Belong'
  BY BelongStep
<1>2. PICK s \in Sales : s = call[c].sale
  BY DEF Belong, TypeOK, CallRows
<1>3. \/ Reading(c)
      \/ /\ call[c].pc # "idle" /\ ~call[c].stale
         /\ call'[c].pc = call[c].pc /\ call'[c].sale = s /\ call'[c].note = call[c].note
         /\ call'[c].qty = call[c].qty /\ call'[c].amount = call[c].amount
         /\ Untouched(s)
  <2>1. ASSUME NEW x \in Sales, Writing(x)
        PROVE  /\ call[c].pc # "idle" /\ ~call[c].stale
               /\ call'[c].pc = call[c].pc /\ call'[c].sale = s /\ call'[c].note = call[c].note
               /\ call'[c].qty = call[c].qty /\ call'[c].amount = call[c].amount
               /\ Untouched(s)
    <3>1. WritesOn(x)
      BY <1>1, <2>1, WritingWritesOn DEF Belong
    <3>2. /\ call[c].pc # "idle"
          /\ call'[c] = [call[c] EXCEPT !.stale = call'[c].stale]
          /\ ~call[c].stale /\ call[c].sale # x
      BY <3>1 DEF WritesOn, Touching
    <3>3. Untouched(s)
      BY <1>2, <3>1, <3>2 DEF WritesOn
    <3> QED
      BY <1>2, <3>2, <3>3 DEF Belong, TypeOK, CallRows
  <2>2. ASSUME call'[c] = call[c], sale'[s] = sale[s], UNCHANGED <<note, money>>
        PROVE  /\ call[c].pc # "idle" /\ ~call[c].stale
               /\ call'[c].pc = call[c].pc /\ call'[c].sale = s /\ call'[c].note = call[c].note
               /\ call'[c].qty = call[c].qty /\ call'[c].amount = call[c].amount
               /\ Untouched(s)
    BY <1>2, <2>2 DEF Untouched, LiveOn, Live, CountsOn, Counts
  <2>3. ASSUME NEW x \in Sales, CreateSale(x)
        PROVE  call'[c] = call[c] /\ sale'[s] = sale[s] /\ UNCHANGED <<note, money>>
    <3>1. call' = call /\ sale[s].status # "NONE"
      BY <1>2, <2>3 DEF CreateSale, Belong, CallsBelong
    <3> QED
      BY <2>3, <3>1 DEF CreateSale, Belong, TypeOK
  <2>4. ASSUME NEW x \in Calls, Reading(x), x # c
        PROVE  call'[c] = call[c] /\ sale'[s] = sale[s] /\ UNCHANGED <<note, money>>
    BY <2>4, ReadingReads DEF Belong
  <2>5. ASSUME NEW x \in Calls, EndCall(x)
        PROVE  call'[c] = call[c] /\ sale'[s] = sale[s] /\ UNCHANGED <<note, money>>
    BY <2>5 DEF EndCall, Idle, Belong, TypeOK
  <2>6. CASE UNCHANGED vars
    BY <2>2, <2>6 DEF vars
  <2> QED
    BY <2>1, <2>2, <2>3, <2>4, <2>5, <2>6, Steps DEF Belong
<1>4. /\ call[c].note \in Notes /\ Live(call[c].note) /\ call[c].pc # "idle"
           => note[call[c].note].sale = s
      /\ call[c].pc \in AboutNotes => call[c].note \in Notes
  BY <1>2 DEF Belong, CallsBelong, TypeOK
<1>5. call[c].pc # "idle" /\ ~call[c].stale => Knows(c)
  BY DEF CallsKnow
<1> QED
  BY <1>1, <1>2, <1>3, <1>4, <1>5, ReadingKnows, StillKnows

-----------------------------------------------------------------------------
(* Goods *)

\* What a step takes off the shelf it found there; the other steps put back or
\* leave.
LEMMA Takings ==
  ASSUME TypeOK, NEW s \in Sales, Writing(s), NEW p \in Parts
  PROVE  onHand'[p] >= onHand[p] \/ onHand'[p] >= 0
<1>1. ASSUME NEW taken \in Shifts, Move(s, taken), taken[p] <= 0 \/ taken[p] <= onHand[p]
      PROVE  onHand'[p] >= onHand[p] \/ onHand'[p] >= 0
  <2>1. onHand'[p] = onHand[p] - taken[p] /\ onHand[p] \in Int /\ taken[p] \in Int
    BY <1>1, MoveType DEF TypeOK, Shifts
  <2> QED
    BY <1>1, <2>1
<1>2. ASSUME NEW qty \in Quantities
      PROVE  Minus(Nothing, qty) \in Shifts /\ Minus(Nothing, qty)[p] <= 0
  BY ShiftTypes DEF Quantities
<1>3. ASSUME NEW c \in Calls, call[c].sale = s, AddItem(c)
      PROVE  onHand'[p] >= onHand[p] \/ onHand'[p] >= 0
  <2>1. call[c].qty \in Quantities /\ onHand[p] >= call[c].qty[p]
    BY <1>3 DEF AddItem, Enough, TypeOK, CallRows
  <2> QED
    BY <1>1, <1>3, <2>1, ShiftTypes DEF AddItem, Quantities, TypeOK
<1>4. ASSUME NEW x \in Parts, NEW n \in Amounts, UpdateItem(s, x, n)
      PROVE  onHand'[p] >= onHand[p] \/ onHand'[p] >= 0
  <2> DEFINE more == n - sale[s].qty[x]
  <2>1. more \in Int /\ onHand[x] >= more /\ Move(s, Only(x, more)) /\ onHand[x] \in Int
    BY <1>4, BoundTypes DEF UpdateItem, Enough, TypeOK, SaleRows, Quantities
  <2> HIDE DEF more
  <2>2. Only(x, more) \in Shifts /\ Only(x, more)[p] = IF p = x THEN more ELSE 0
    BY <2>1, ShiftTypes
  <2> QED
    BY <1>1, <2>1, <2>2
<1>5. ASSUME NEW x \in Parts, DeleteItem(s, x)
      PROVE  onHand'[p] >= onHand[p] \/ onHand'[p] >= 0
  <2> DEFINE less == -sale[s].qty[x]
  <2>1. less \in Int /\ less <= 0 /\ Move(s, Only(x, less))
    BY <1>5 DEF DeleteItem, ReturnLine, TypeOK, SaleRows, Quantities
  <2> HIDE DEF less
  <2>2. Only(x, less) \in Shifts /\ Only(x, less)[p] = IF p = x THEN less ELSE 0
    BY <2>1, ShiftTypes
  <2> QED
    BY <1>1, <2>1, <2>2
<1>6. ASSUME NEW c \in Calls, call[c].sale = s,
             DeleteSale(c) \/ \E n \in Notes, m \in Money : ReturnAndRefund(c, n, m)
      PROVE  onHand'[p] >= onHand[p] \/ onHand'[p] >= 0
  <2>1. call[c].qty \in Quantities /\ Move(s, Minus(Nothing, call[c].qty))
    BY <1>6 DEF DeleteSale, ReturnAndRefund, PutBack, TypeOK, CallRows
  <2> QED
    BY <1>1, <1>2, <2>1
<1>7. ASSUME NEW c \in Calls, WriteReceive(c)
      PROVE  onHand'[p] >= onHand[p] \/ onHand'[p] >= 0
  <2>1. PICK n \in Notes : n = call[c].note
    BY <1>7 DEF WriteReceive, TypeOK, AboutNotes
  <2>2. /\ note[n].qty \in Quantities /\ note[n].sale \in Sales
        /\ Move(note[n].sale, Minus(Nothing, note[n].qty))
    BY <1>7, <2>1 DEF WriteReceive, PutBack, TypeOK, NoteRows
  <2>3. onHand'[p] = onHand[p] - Minus(Nothing, note[n].qty)[p]
    BY <1>2, <2>2, MoveType
  <2> QED
    BY <1>2, <2>2, <2>3 DEF TypeOK, Shifts
<1>8. ASSUME onHand' = onHand PROVE onHand'[p] >= onHand[p]
  BY <1>8 DEF TypeOK
<1>9. ASSUME NEW c \in Calls,
             \/ Recalc(c) \/ WriteNoteDelete(c) \/ \E n \in Notes : CreateNote(c, n)
             \/ \E m \in Money : WriteReceipt(c, m) \/ WriteRefund(c, m)
      PROVE  onHand' = onHand
  BY <1>9 DEF Recalc, WriteNoteDelete, CreateNote, WriteReceipt, WriteRefund, stockVars
<1>10. ASSUME NEW m \in Money, NEW amount \in Amounts,
              TakePayment(s, m, amount) \/ UpdateReceipt(m, amount)
       PROVE  onHand' = onHand
  BY <1>10 DEF TakePayment, UpdateReceipt, stockVars
<1>11. ASSUME NEW m \in Money, DeleteMoney(m) PROVE onHand' = onHand
  BY <1>11 DEF DeleteMoney, stockVars
<1> QED
  BY <1>3, <1>4, <1>5, <1>6, <1>7, <1>8, <1>9, <1>10, <1>11 DEF Writing, LineStep

\* However many tills sell at once, none sells what is not there: the decrement is
\* conditional on the stock, in the transaction that writes the line.
THEOREM NothingOversold == Spec => []NeverOversold
<1>1. Init => NeverOversold
  BY OpeningAssumption DEF Init, NeverOversold
<1>2. TypeOK /\ NeverOversold /\ [Next]_vars => NeverOversold'
  <2> SUFFICES ASSUME TypeOK, NeverOversold, [Next]_vars, NEW p \in Parts
               PROVE  onHand'[p] >= 0
    BY DEF NeverOversold
  <2>1. onHand[p] \in Int /\ onHand[p] >= 0 /\ onHand'[p] \in Int
    BY TypeStep DEF NeverOversold, TypeOK
  <2>2. ASSUME NEW s \in Sales, Writing(s) PROVE onHand'[p] >= 0
    BY <2>1, <2>2, Takings
  <2>3. ASSUME onHand' = onHand PROVE onHand'[p] >= 0
    BY <2>1, <2>3
  <2>4. ASSUME NEW c \in Calls, Reading(c) \/ EndCall(c) PROVE onHand'[p] >= 0
    BY <2>3, <2>4, ReadingReads DEF EndCall, stockVars
  <2>5. ASSUME NEW s \in Sales, CreateSale(s) PROVE onHand'[p] >= 0
    BY <2>3, <2>5 DEF CreateSale, stockVars
  <2>6. CASE UNCHANGED vars
    BY <2>3, <2>6 DEF vars
  <2> QED
    BY <2>2, <2>4, <2>5, <2>6, Steps
<1> QED
  BY <1>1, <1>2, TypeCorrect, PTL DEF Spec

SoldOf(s, p) == IF Exists(s) THEN sale[s].qty[p] ELSE 0
BackOf(s) == {n \in restocked : note[n].sale = s}
UnitsBack(s, p) == Total(BackOf(s), [n \in Notes |-> note[n].qty[p]])
Accounted(s, p) == moved[s][p] = SoldOf(s, p) - UnitsBack(s, p)

LEMMA BackSums ==
  ASSUME TypeOK, NEW s \in Sales, NEW p \in Parts
  PROVE  /\ IsFiniteSet(UnitsOf(BackOf(s), [n \in Notes |-> note[n].qty[p]]))
         /\ UnitsBack(s, p) \in Nat /\ SoldOf(s, p) \in Nat
<1>1. IsFiniteSet(BackOf(s)) /\ BackOf(s) \subseteq Notes
  BY IdsAssumption, FS_Subset DEF BackOf, TypeOK
<1> DEFINE units == [n \in Notes |-> note[n].qty[p]]
<1>2. \A n \in BackOf(s) : units[n] \in Nat
  BY <1>1 DEF TypeOK, NoteRows, Quantities
<1>3. UnitsBack(s, p) = Total(BackOf(s), units)
  BY DEF UnitsBack
<1>4. SoldOf(s, p) \in Nat
  BY DEF SoldOf, TypeOK, SaleRows, Quantities
<1> HIDE DEF units
<1>5. IsFiniteSet(UnitsOf(BackOf(s), units)) /\ Total(BackOf(s), units) \in Nat
  BY <1>1, <1>2, NatUnits
<1> QED
  BY <1>3, <1>4, <1>5 DEF units

\* The goods of a note that came back are not forgotten, whatever becomes of the
\* note.
LEMMA GoodsStay ==
  ASSUME Belong, NEW s \in Sales, Writing(s), NEW n \in restocked
  PROVE  n \in restocked' /\ note'[n].sale = note[n].sale /\ note'[n].qty = note[n].qty
<1> USE DEF Belong
<1>1. n \in Notes /\ note[n].state \in {"RECEIVED", "GONE"}
  BY DEF TypeOK, RowsBelong
<1>2. CASE \E c \in Calls : DeleteSale(c) \/ WriteNoteDelete(c)
  <2>1. note'[n] \in {note[n], [note[n] EXCEPT !.state = "GONE"]} /\ restocked' = restocked
    BY <1>1, <1>2 DEF DeleteSale, WriteNoteDelete, Withdrawn, historyVars, TypeOK
  <2> QED
    BY <1>1, <2>1 DEF TypeOK, NoteRows
<1>3. CASE \E c \in Calls : WriteReceive(c)
  BY <1>1, <1>3 DEF WriteReceive, TypeOK, NoteRows
<1>4. CASE \E c \in Calls, x \in Notes : CreateNote(c, x) \/ \E m \in Money : ReturnAndRefund(c, x, m)
  BY <1>1, <1>4 DEF CreateNote, ReturnAndRefund, NewNote, historyVars, TypeOK
<1>5. CASE UNCHANGED <<note, restocked>>
  BY <1>5
<1>6. CASE \/ LineStep(s)
           \/ \E c \in Calls : \E m \in Money : WriteReceipt(c, m) \/ WriteRefund(c, m)
           \/ \E m \in Money, amount \in Amounts : TakePayment(s, m, amount) \/ UpdateReceipt(m, amount)
           \/ \E m \in Money : DeleteMoney(m)
  BY <1>5, <1>6, LinesSync
     DEF WriteReceipt, WriteRefund, TakePayment, UpdateReceipt, DeleteMoney, NewMoney, historyVars
<1> QED
  BY <1>2, <1>3, <1>4, <1>6 DEF Writing

\* With no new note among them, what came back of a sale is what it was.
LEMMA SameGoods ==
  ASSUME TypeOK, NEW s \in Sales, NEW p \in Parts, restocked \subseteq restocked',
         \A n \in restocked : note'[n].sale = note[n].sale /\ note'[n].qty = note[n].qty,
         \A n \in restocked' \ restocked : note'[n].sale # s
  PROVE  UnitsBack(s, p)' = UnitsBack(s, p)
<1> DEFINE before == [n \in Notes |-> note[n].qty[p]]
           after == [n \in Notes |-> note'[n].qty[p]]
<1>1. BackOf(s)' = BackOf(s)
  BY DEF BackOf
<1>2. \A n \in BackOf(s) : before[n] = after[n]
  BY DEF BackOf, TypeOK
<1> HIDE DEF before, after
<1>3. Total(BackOf(s), before) = Total(BackOf(s), after)
  BY <1>2, SameUnits
<1> QED
  BY <1>1, <1>3 DEF UnitsBack, before, after

\* A note whose goods come back now adds its quantities.
LEMMA MoreGoods ==
  ASSUME TypeOK, TypeOK', NEW n \in Notes, n \notin restocked, restocked' = restocked \cup {n},
         \A x \in restocked : note'[x].sale = note[x].sale /\ note'[x].qty = note[x].qty,
         NEW s \in Sales, note'[n].sale = s, NEW p \in Parts
  PROVE  UnitsBack(s, p)' = UnitsBack(s, p) + note'[n].qty[p]
<1> DEFINE before == [x \in Notes |-> note[x].qty[p]]
           after == [x \in Notes |-> note'[x].qty[p]]
<1>1. BackOf(s)' = BackOf(s) \cup {n} /\ n \notin BackOf(s)
  BY DEF BackOf
<1>2. \A x \in BackOf(s) : before[x] = after[x]
  BY DEF BackOf, TypeOK
<1>3. after[n] = note'[n].qty[p] /\ after[n] \in Nat
  BY DEF TypeOK, NoteRows, Quantities
<1>4. UnitsBack(s, p) = Total(BackOf(s), before)
  BY DEF UnitsBack
<1>5. IsFiniteSet(UnitsOf(BackOf(s), before))
  BY BackSums
<1>6. UnitsBack(s, p)' = Total(BackOf(s) \cup {n}, after)
  BY <1>1 DEF UnitsBack
<1> HIDE DEF before, after
<1>7. /\ UnitsOf(BackOf(s), before) = UnitsOf(BackOf(s), after)
      /\ Total(BackOf(s), before) = Total(BackOf(s), after)
  BY <1>2, SameUnits
<1>8. Total(BackOf(s) \cup {n}, after) = Total(BackOf(s), after) + after[n]
  BY <1>1, <1>3, <1>5, <1>7, AddUnits
<1> QED
  BY <1>3, <1>4, <1>6, <1>7, <1>8

\* Lines change together with the goods.
LEMMA LinesAccounted ==
  ASSUME TypeOK, TypeOK', NEW s \in Sales, NEW p \in Parts, Accounted(s, p), LineStep(s)
  PROVE  Accounted(s, p)'
<1>1. UnitsBack(s, p)' = UnitsBack(s, p)
  BY LinesSync DEF UnitsBack, BackOf
<1>2. UnitsBack(s, p) \in Nat /\ SoldOf(s, p) \in Nat /\ moved[s][p] \in Int /\ Exists(s) /\ Exists(s)'
  <2>1. moved[s][p] \in Int
    BY DEF TypeOK
  <2> QED
    BY <2>1, BackSums, LinesSync, LinesKeep
<1>3. CASE \E c \in Calls : call[c].sale = s /\ Recalc(c)
  <2>1. moved' = moved /\ Sync(s)
    BY <1>3 DEF Recalc, stockVars
  <2>2. money' \in [Money -> MoneyRows] /\ note' \in [Notes -> NoteRows]
    BY DEF TypeOK
  <2>3. sale'[s].qty = sale[s].qty
    BY <2>1, <2>2, SyncSale
  <2> QED
    BY <1>1, <1>2, <2>1, <2>3 DEF Accounted, SoldOf
<1>4. ASSUME NEW taken \in Shifts, Move(s, taken), NEW qty \in Quantities, SyncWith(s, qty),
             taken[p] \in Int, qty[p] = sale[s].qty[p] + taken[p]
      PROVE  Accounted(s, p)'
  <2>1. moved'[s][p] = moved[s][p] + taken[p]
    BY <1>4, MoveType
  <2>2. sale'[s].qty = qty
    BY <1>4, SyncLines DEF TypeOK
  <2>3. SoldOf(s, p) = sale[s].qty[p] /\ SoldOf(s, p)' = sale'[s].qty[p]
    BY <1>2 DEF SoldOf
  <2>4. SoldOf(s, p)' = SoldOf(s, p) + taken[p]
    BY <1>4, <2>2, <2>3
  <2> QED
    BY <1>1, <1>2, <1>4, <2>1, <2>4 DEF Accounted
<1>5. /\ sale[s].qty \in Quantities /\ \A x \in Parts : sale[s].qty[x] \in Int
      /\ \A qty \in Quantities : qty[p] \in Int
  BY DEF TypeOK, SaleRows, Quantities
<1>6. ASSUME NEW c \in Calls, call[c].sale = s, AddItem(c) PROVE Accounted(s, p)'
  <2>1. /\ call[c].qty \in Quantities /\ call[c].qty \in Shifts
        /\ Plus(sale[s].qty, call[c].qty) \in Quantities
        /\ Plus(sale[s].qty, call[c].qty)[p] = sale[s].qty[p] + call[c].qty[p]
    BY <1>5, ShiftTypes DEF TypeOK, CallRows, Plus
  <2>2. Move(s, call[c].qty) /\ SyncWith(s, Plus(sale[s].qty, call[c].qty))
    BY <1>6 DEF AddItem
  <2> QED
    BY <1>4, <1>5, <2>1, <2>2
<1>7. ASSUME NEW x \in Parts, NEW n \in Nat,
             Move(s, Only(x, n - sale[s].qty[x])), SyncWith(s, [sale[s].qty EXCEPT ![x] = n])
      PROVE  Accounted(s, p)'
  <2> DEFINE more == n - sale[s].qty[x]
             qty == [sale[s].qty EXCEPT ![x] = n]
  <2>1. more \in Int
    BY <1>5
  <2>2. qty \in Quantities /\ qty[p] = IF p = x THEN n ELSE sale[s].qty[p]
    BY <1>5 DEF Quantities
  <2>3. Only(x, more) \in Shifts /\ Only(x, more)[p] = IF p = x THEN more ELSE 0
    BY <2>1, ShiftTypes
  <2>4. Only(x, more)[p] \in Int /\ qty[p] = sale[s].qty[p] + Only(x, more)[p]
    BY <1>5, <2>1, <2>2, <2>3
  <2>5. Move(s, Only(x, more)) /\ SyncWith(s, qty)
    BY <1>7
  <2> HIDE DEF more, qty
  <2> QED
    BY <1>4, <2>2, <2>3, <2>4, <2>5
<1>8. ASSUME NEW x \in Parts, NEW n \in Amounts, UpdateItem(s, x, n) PROVE Accounted(s, p)'
  BY <1>7, <1>8, BoundTypes DEF UpdateItem
<1>9. ASSUME NEW x \in Parts, DeleteItem(s, x) PROVE Accounted(s, p)'
  <2>1. 0 - sale[s].qty[x] = -sale[s].qty[x]
    BY <1>5
  <2>2. Move(s, Only(x, 0 - sale[s].qty[x])) /\ SyncWith(s, [sale[s].qty EXCEPT ![x] = 0])
    BY <1>9, <2>1 DEF DeleteItem, ReturnLine
  <2> QED
    BY <1>7, <2>2
<1> QED
  BY <1>3, <1>6, <1>8, <1>9 DEF LineStep

\* A sale whose lines are as they were read gives back just what it took.
LEMMA DeletionAccounted ==
  ASSUME TypeOK, TypeOK', NEW c \in Calls, DeleteSale(c), NEW s \in Sales, s = call[c].sale,
         call[c].qty = sale[s].qty, Exists(s), NEW p \in Parts, Accounted(s, p)
  PROVE  Accounted(s, p)'
<1> DEFINE taken == Minus(Nothing, sale[s].qty)
<1>1. sale[s].qty \in Quantities /\ sale[s].qty[p] \in Nat
  BY DEF TypeOK, SaleRows, Quantities
<1>2. taken \in Shifts /\ taken[p] = -sale[s].qty[p]
  BY <1>1, ShiftTypes
<1>3. Move(s, taken)
  BY DEF DeleteSale
<1> HIDE DEF taken
<1>4. moved'[s][p] = moved[s][p] + taken[p] /\ moved[s][p] \in Int
  BY <1>2, <1>3, MoveType DEF TypeOK
<1>5. SoldOf(s, p)' = 0 /\ SoldOf(s, p) = sale[s].qty[p]
  BY DEF SoldOf, Exists, DeleteSale, TypeOK, SaleRows
<1>6. UnitsBack(s, p)' = UnitsBack(s, p)
  <2>1. restocked' = restocked
    BY DEF DeleteSale, historyVars
  <2>2. \A n \in restocked : note'[n].sale = note[n].sale /\ note'[n].qty = note[n].qty
    BY DEF DeleteSale, Withdrawn, TypeOK, NoteRows
  <2> QED
    BY <2>1, <2>2, SameGoods
<1>7. UnitsBack(s, p) \in Nat
  BY BackSums
<1> QED
  BY <1>1, <1>2, <1>4, <1>5, <1>6, <1>7 DEF Accounted

\* The goods of a note come back once, and are counted once.
LEMMA PutBackAccounted ==
  ASSUME TypeOK, TypeOK', NEW n \in Notes, n \notin restocked, restocked' = restocked \cup {n},
         \A x \in restocked : note'[x].sale = note[x].sale /\ note'[x].qty = note[x].qty,
         NEW s \in Sales, note'[n].sale = s, PutBack(s, note'[n].qty),
         \A p \in Parts : SoldOf(s, p)' = SoldOf(s, p),
         NEW p \in Parts, Accounted(s, p)
  PROVE  Accounted(s, p)'
<1>1. note'[n].qty \in Quantities /\ note'[n].qty[p] \in Nat
  BY DEF TypeOK, NoteRows, Quantities
<1>2. moved'[s][p] = moved[s][p] - note'[n].qty[p] /\ moved[s][p] \in Int
  <2>1. /\ Minus(Nothing, note'[n].qty) \in Shifts
        /\ Minus(Nothing, note'[n].qty)[p] = -note'[n].qty[p]
    BY <1>1, ShiftTypes
  <2>2. moved'[s][p] = moved[s][p] + Minus(Nothing, note'[n].qty)[p] /\ moved[s][p] \in Int
    BY <2>1, MoveType DEF PutBack, TypeOK
  <2> QED
    BY <1>1, <2>1, <2>2
<1>3. UnitsBack(s, p)' = UnitsBack(s, p) + note'[n].qty[p]
  BY MoreGoods
<1>4. UnitsBack(s, p) \in Nat /\ SoldOf(s, p) \in Nat
  BY BackSums
<1> QED
  BY <1>1, <1>2, <1>3, <1>4 DEF Accounted

\* What a handler writes on a sale leaves its goods accounted for, unless it is a
\* deletion or a receiving back of somebody who had not seen what is there.
LEMMA WritingAccounts ==
  ASSUME Belong, Belong', CallsKnow, NEW s \in Sales, Writing(s), ~Unseen(s, {"delete", "receive"})',
         NEW p \in Parts, Accounted(s, p)
  PROVE  Accounted(s, p)'
<1> USE DEF Belong
<1>1. \A n \in restocked : n \in restocked' /\ note'[n].sale = note[n].sale /\ note'[n].qty = note[n].qty
  BY GoodsStay
<1>2. ASSUME moved' = moved, restocked' = restocked, SoldOf(s, p)' = SoldOf(s, p)
      PROVE  Accounted(s, p)'
  BY <1>1, <1>2, SameGoods DEF Accounted
<1>3. ASSUME NEW c \in Calls, call[c].sale = s, DeleteSale(c)
      PROVE  Accounted(s, p)'
  <2>1. ~call[c].stale /\ call[c].pc = "delete"
    BY <1>3, TouchingWrite DEF DeleteSale, Unseen
  <2>2. Exists(s) /\ call[c].qty = sale[s].qty
    BY <1>3, <2>1 DEF CallsKnow, Knows
  <2> QED
    BY <1>3, <2>2, DeletionAccounted
<1>4. ASSUME NEW c \in Calls, call[c].sale = s, NEW n \in Notes, NEW m \in Money,
             ReturnAndRefund(c, n, m)
      PROVE  Accounted(s, p)'
  <2>1. /\ note[n].state = "NONE" /\ Exists(s) /\ Sync(s) /\ restocked' = restocked \cup {n}
        /\ note'[n].sale = s /\ note'[n].qty = call[c].qty /\ PutBack(s, note'[n].qty)
    BY <1>4 DEF ReturnAndRefund, NewNote, TypeOK
  <2>2. n \notin restocked
    BY <2>1 DEF RowsBelong
  <2>3. \A x \in Parts : SoldOf(s, x)' = SoldOf(s, x)
    BY <2>1, SyncKeeps DEF SoldOf, TypeOK
  <2> QED
    BY <1>1, <2>1, <2>2, <2>3, PutBackAccounted
<1>5. ASSUME NEW c \in Calls, call[c].sale = s, WriteReceive(c)
      PROVE  Accounted(s, p)'
  <2>1. PICK n \in Notes : n = call[c].note
    BY <1>5 DEF WriteReceive, AboutNotes, TypeOK
  <2>2. ~call[c].stale /\ call[c].pc = "receive"
    BY <1>5, TouchingWrite DEF WriteReceive, Unseen
  <2>3. note[n].state = "ISSUED" /\ n \notin restocked
    BY <2>1, <2>2 DEF CallsKnow, Knows, RowsBelong
  <2>4. note[n].sale = s
    BY <2>1, <2>2, <2>3, <1>5 DEF CallsBelong, Live
  <2>5. /\ restocked' = restocked \cup {n} /\ sale' = sale
        /\ note'[n].sale = s /\ note'[n].qty = note[n].qty /\ PutBack(s, note'[n].qty)
    BY <1>5, <2>1, <2>4 DEF WriteReceive, TypeOK, NoteRows
  <2>6. \A x \in Parts : SoldOf(s, x)' = SoldOf(s, x)
    BY <2>5 DEF SoldOf, Exists
  <2> QED
    BY <1>1, <2>3, <2>5, <2>6, PutBackAccounted
<1>6. ASSUME NEW c \in Calls, call[c].sale = s, WriteNoteDelete(c) \/ \E n \in Notes : CreateNote(c, n)
      PROVE  Accounted(s, p)'
  <2>1. moved' = moved /\ restocked' = restocked
    BY <1>6 DEF WriteNoteDelete, CreateNote, stockVars, historyVars
  <2>2. sale' = sale \/ (Exists(s) /\ Sync(s))
    BY <1>6 DEF WriteNoteDelete, CreateNote, NewNote
  <2>3. SoldOf(s, p)' = SoldOf(s, p)
    BY <2>2, SyncKeeps DEF SoldOf, Exists, TypeOK
  <2> QED
    BY <1>2, <2>1, <2>3
<1>7. ASSUME NEW m \in Money,
             \/ \E amount \in Amounts : TakePayment(s, m, amount)
             \/ \E c \in Calls : call[c].sale = s /\ (WriteReceipt(c, m) \/ WriteRefund(c, m))
             \/ /\ money[m].sale = s
                /\ DeleteMoney(m) \/ \E amount \in Amounts : UpdateReceipt(m, amount)
      PROVE  Accounted(s, p)'
  <2>1. moved' = moved /\ restocked' = restocked
    BY <1>7 DEF TakePayment, WriteReceipt, WriteRefund, DeleteMoney, UpdateReceipt, stockVars, historyVars
  <2>2. Exists(s) /\ Sync(s)
    BY <1>7, MoneyWriteOn
  <2>3. SoldOf(s, p)' = SoldOf(s, p)
    BY <2>2, SyncKeeps DEF SoldOf, TypeOK
  <2> QED
    BY <1>2, <2>1, <2>3
<1> QED
  BY <1>3, <1>4, <1>5, <1>6, <1>7, LinesAccounted DEF Writing

\* A sale that is not written on keeps its goods, in and out.
LEMMA OthersAccounted ==
  ASSUME Belong, Belong', NEW s \in Sales, Writing(s), NEW x \in Sales \ {s}, NEW p \in Parts,
         Accounted(x, p)
  PROVE  Accounted(x, p)'
<1> USE DEF Belong
<1>1. \A n \in restocked : n \in restocked' /\ note'[n].sale = note[n].sale /\ note'[n].qty = note[n].qty
  BY GoodsStay
<1>2. Untouched(x)
  BY WritingWritesOn DEF WritesOn
<1>3. SoldOf(x, p)' = SoldOf(x, p)
  BY <1>2 DEF Untouched, SoldOf, Exists
<1>4. \A n \in restocked' \ restocked : note'[n].sale # x
  <2>1. ASSUME NEW c \in Calls, call[c].sale = s, NEW n \in Notes, NEW m \in Money,
               ReturnAndRefund(c, n, m)
        PROVE  restocked' = restocked \cup {n} /\ note'[n].sale = s
    BY <2>1 DEF ReturnAndRefund, NewNote, TypeOK
  <2>2. ASSUME NEW c \in Calls, call[c].sale = s, WriteReceive(c)
        PROVE  \A n \in restocked' \ restocked : note'[n].sale # x
    <3>1. PICK n \in Notes : n = call[c].note
      BY <2>2 DEF WriteReceive, AboutNotes, TypeOK
    <3>2. note[n].sale = s
      BY <2>2, <3>1 DEF WriteReceive, CallsBelong, Live
    <3>3. restocked' = restocked \cup {n} /\ note'[n].sale = s
      BY <2>2, <3>1, <3>2 DEF WriteReceive, TypeOK, NoteRows
    <3> QED
      BY <3>3
  <2>3. CASE restocked' = restocked
    BY <2>3
  <2>4. CASE \/ LineStep(s)
             \/ \E c \in Calls : \/ DeleteSale(c) \/ WriteNoteDelete(c)
                                 \/ \E m \in Money : WriteReceipt(c, m) \/ WriteRefund(c, m)
                                 \/ \E n \in Notes : CreateNote(c, n)
             \/ \E m \in Money, amount \in Amounts : TakePayment(s, m, amount) \/ UpdateReceipt(m, amount)
             \/ \E m \in Money : DeleteMoney(m)
    BY <2>3, <2>4, LinesSync
       DEF DeleteSale, WriteNoteDelete, WriteReceipt, WriteRefund, CreateNote, TakePayment,
           UpdateReceipt, DeleteMoney, historyVars
  <2> QED
    BY <2>1, <2>2, <2>4 DEF Writing
<1>5. moved'[x] = moved[x]
  <2>1. ASSUME NEW taken \in Shifts, Move(s, taken) PROVE moved'[x] = moved[x]
    BY <2>1, MoveType
  <2>2. CASE \/ \E c \in Calls : \/ Recalc(c) \/ WriteNoteDelete(c)
                                 \/ \E m \in Money : WriteReceipt(c, m) \/ WriteRefund(c, m)
                                 \/ \E n \in Notes : CreateNote(c, n)
             \/ \E m \in Money, amount \in Amounts : TakePayment(s, m, amount) \/ UpdateReceipt(m, amount)
             \/ \E m \in Money : DeleteMoney(m)
    BY <2>2 DEF Recalc, WriteNoteDelete, WriteReceipt, WriteRefund, CreateNote,
                TakePayment, UpdateReceipt, DeleteMoney, stockVars
  <2>3. CASE \/ \E c \in Calls : call[c].sale = s /\ (AddItem(c) \/ DeleteSale(c))
             \/ \E c \in Calls, n \in Notes, m \in Money : call[c].sale = s /\ ReturnAndRefund(c, n, m)
    <3>1. \A c \in Calls : call[c].qty \in Shifts /\ Minus(Nothing, call[c].qty) \in Shifts
      BY ShiftTypes DEF TypeOK, CallRows
    <3> QED
      BY <2>1, <2>3, <3>1 DEF AddItem, DeleteSale, ReturnAndRefund, PutBack
  <2>4. ASSUME NEW c \in Calls, call[c].sale = s, WriteReceive(c) PROVE moved'[x] = moved[x]
    <3>1. PICK n \in Notes : n = call[c].note
      BY <2>4 DEF WriteReceive, AboutNotes, TypeOK
    <3>2. note[n].sale = s /\ Minus(Nothing, note[n].qty) \in Shifts
      BY <2>4, <3>1, ShiftTypes DEF WriteReceive, CallsBelong, Live, TypeOK, NoteRows
    <3> QED
      BY <2>1, <2>4, <3>1, <3>2 DEF WriteReceive, PutBack
  <2>5. CASE \E y \in Parts : DeleteItem(s, y) \/ \E n \in Amounts : UpdateItem(s, y, n)
    <3>1. \A y \in Parts : /\ -sale[s].qty[y] \in Int
                           /\ \A n \in Amounts : n - sale[s].qty[y] \in Int
      BY BoundTypes DEF TypeOK, SaleRows, Quantities
    <3> QED
      BY <2>1, <2>5, <3>1, ShiftTypes DEF DeleteItem, ReturnLine, UpdateItem
  <2> QED
    BY <2>2, <2>3, <2>4, <2>5 DEF Writing, LineStep
<1>6. restocked \subseteq restocked' /\ UnitsBack(x, p)' = UnitsBack(x, p)
  BY <1>1, <1>4, SameGoods
<1> QED
  BY <1>3, <1>5, <1>6 DEF Accounted

LEMMA GoodsStep ==
  Belong /\ CallsKnow /\ GoodsAccountedFor /\ [Next]_vars => GoodsAccountedFor'
<1> SUFFICES ASSUME Belong, CallsKnow, GoodsAccountedFor, [Next]_vars,
                    NEW x \in Sales, ~Unseen(x, {"delete", "receive"})', NEW p \in Parts
             PROVE  Accounted(x, p)'
  BY DEF GoodsAccountedFor, Accounted, SoldOf, UnitsBack, BackOf, Exists
<1> USE DEF Belong
<1>1. Belong'
  BY BelongStep
<1>2. ASSUME ~Unseen(x, {"delete", "receive"}) PROVE Accounted(x, p)
  BY <1>2 DEF GoodsAccountedFor, Accounted, SoldOf, UnitsBack, BackOf, Exists
<1>3. ASSUME NEW s \in Sales, Writing(s) PROVE Accounted(x, p)'
  <2>1. ~Unseen(x, {"delete", "receive"})
    BY <1>1, <1>3, WritingWritesOn DEF WritesOn, Unseen
  <2> QED
    BY <1>1, <1>2, <1>3, <2>1, WritingAccounts, OthersAccounted
<1>4. ASSUME UNCHANGED <<moved, note, restocked, stale>>, SoldOf(x, p)' = SoldOf(x, p)
      PROVE  Accounted(x, p)'
  <2>1. ~Unseen(x, {"delete", "receive"}) /\ UnitsBack(x, p)' = UnitsBack(x, p)
    BY <1>4 DEF Unseen, UnitsBack, BackOf
  <2> QED
    BY <1>2, <1>4, <2>1 DEF Accounted
<1>5. ASSUME NEW s \in Sales, CreateSale(s) PROVE Accounted(x, p)'
  <2>1. sale[s] = NewSale /\ sale'[s].qty = sale[s].qty /\ \A y \in Sales \ {s} : sale'[y] = sale[y]
    BY <1>5 DEF CreateSale, RowsBelong, TypeOK, SaleRows
  <2>2. SoldOf(x, p)' = SoldOf(x, p)
    BY <2>1 DEF SoldOf, Exists, NewSale, Nothing
  <2> QED
    BY <1>4, <1>5, <2>2 DEF CreateSale, stockVars, historyVars
<1>6. CASE (\E c \in Calls : Reading(c) \/ EndCall(c)) \/ UNCHANGED vars
  <2>1. UNCHANGED <<sale, moved, note, restocked, stale>>
    BY <1>6, ReadingReads DEF EndCall, vars, stockVars, historyVars
  <2> QED
    BY <1>4, <2>1 DEF SoldOf, Exists
<1> QED
  BY <1>3, <1>5, <1>6, Steps

\* What a sale took off the shelf by its stock transactions is what its lines hold
\* less what came back with its notes, unless a deletion or a receiving back wrote
\* over a change it had not seen.
THEOREM GoodsAccounted == Spec => []GoodsAccountedFor
<1>1. Init => Belong /\ CallsKnow /\ GoodsAccountedFor
  <2>1. Init => Belong
    BY BelongInit
  <2>2. Init => CallsKnow
    BY DEF Init, CallsKnow, Idle
  <2>3. Init => GoodsAccountedFor
    <3> SUFFICES ASSUME Init, NEW s \in Sales, NEW p \in Parts PROVE Accounted(s, p)
      BY DEF GoodsAccountedFor, Accounted, SoldOf, UnitsBack, BackOf
    <3>1. UnitsBack(s, p) = 0 /\ SoldOf(s, p) = 0
      BY NoUnits DEF Init, UnitsBack, BackOf, SoldOf, Exists, NewSale
    <3> QED
      BY <3>1 DEF Init, Accounted, Nothing
  <2> QED
    BY <2>1, <2>2, <2>3
<1>2. Belong /\ CallsKnow /\ GoodsAccountedFor /\ [Next]_vars
        => (Belong /\ CallsKnow /\ GoodsAccountedFor)'
  BY BelongStep, KnowsStep, GoodsStep
<1> QED
  BY <1>1, <1>2, PTL DEF Spec

-----------------------------------------------------------------------------
(* Money *)

\* The payment half of SaleFollowsMoney, and the status half, sale by sale.
PaidRight(s) == Exists(s) => sale[s].paid = Paid(money, s)
StatusRight(s) ==
  Exists(s) /\ sale[s].status = "PAID" =>
    TotalAmount(s) > 0 /\ sale[s].paid >= TotalAmount(s)

LEMMA PaidStatus ==
  \A sold, paid, returned : StatusOf(sold, paid, returned) = "PAID" => sold > 0 /\ paid >= sold
BY DEF StatusOf

\* After a handler that ends with syncSalePaymentState both halves hold.
LEMMA SyncRight ==
  ASSUME TypeOK, TypeOK', NEW s \in Sales, NEW qty \in Quantities, SyncWith(s, qty)
  PROVE  PaidRight(s)' /\ StatusRight(s)'
<1>1. /\ sale'[s].paid = Paid(money', s) /\ sale'[s].qty = qty
      /\ sale'[s].status = StatusOf(Value(qty), Paid(money', s), Credited(note', s))
  BY SyncLines DEF TypeOK
<1>2. TotalAmount(s)' = Value(qty)
  BY <1>1 DEF TotalAmount
<1>3. StatusRight(s)'
  BY <1>1, <1>2, PaidStatus DEF StatusRight
<1> QED
  BY <1>1, <1>3 DEF PaidRight

\* The handlers that write without syncing leave the money of the sale as it is.
LEMMA UnsyncedRight ==
  ASSUME Belong, Belong', NEW s \in Sales, PaidRight(s), StatusRight(s),
         \E c \in Calls : call[c].sale = s /\ (DeleteSale(c) \/ WriteReceive(c) \/ WriteNoteDelete(c))
  PROVE  PaidRight(s)' /\ StatusRight(s)'
<1> USE DEF Belong
<1>1. ASSUME NEW c \in Calls, call[c].sale = s, DeleteSale(c)
      PROVE  PaidRight(s)' /\ StatusRight(s)'
  <2>1. sale'[s].status = "DELETED"
    BY <1>1 DEF DeleteSale, TypeOK, SaleRows
  <2> QED
    BY <2>1 DEF PaidRight, StatusRight, Exists
<1>2. ASSUME NEW c \in Calls, call[c].sale = s, WriteReceive(c)
      PROVE  PaidRight(s)' /\ StatusRight(s)'
  <2>1. money' = money /\ sale' = sale
    BY <1>2 DEF WriteReceive
  <2> QED
    BY <2>1 DEF PaidRight, StatusRight, Exists, TotalAmount
<1>3. ASSUME NEW c \in Calls, call[c].sale = s, WriteNoteDelete(c)
      PROVE  PaidRight(s)' /\ StatusRight(s)'
  <2>1. sale' = sale
    BY <1>3 DEF WriteNoteDelete
  <2>2. \A m \in Money : /\ money'[m].kind = money[m].kind /\ money'[m].sale = money[m].sale
                         /\ money'[m].amount = money[m].amount
    BY <1>3 DEF WriteNoteDelete, TypeOK, MoneyRows
  <2>3. \A kind : RowsOf(money', kind, s) = RowsOf(money, kind, s)
    BY <2>2 DEF RowsOf
  <2>4. AmountsOf(money') = AmountsOf(money)
    BY <2>2 DEF AmountsOf
  <2>5. Paid(money', s) = Paid(money, s)
    BY <2>3, <2>4 DEF Paid
  <2> QED
    BY <2>1, <2>5 DEF PaidRight, StatusRight, Exists, TotalAmount
<1> QED
  BY <1>1, <1>2, <1>3

\* What a handler writes on a sale leaves its money right.
LEMMA WritingRight ==
  ASSUME Belong, Belong', NEW s \in Sales, Writing(s), PaidRight(s), StatusRight(s)
  PROVE  PaidRight(s)' /\ StatusRight(s)'
<1> USE DEF Belong
<1>1. ASSUME Sync(s) PROVE PaidRight(s)' /\ StatusRight(s)'
  BY <1>1, SyncRight DEF Sync, TypeOK, SaleRows
<1>2. ASSUME LineStep(s) PROVE PaidRight(s)' /\ StatusRight(s)'
  BY <1>2, LinesSync, SyncRight
<1>3. ASSUME NEW c \in Calls, call[c].sale = s, NEW n \in Notes,
             CreateNote(c, n) \/ \E m \in Money : ReturnAndRefund(c, n, m)
      PROVE  PaidRight(s)' /\ StatusRight(s)'
  <2>1. Sync(s)
    BY <1>3 DEF CreateNote, ReturnAndRefund
  <2> QED
    BY <1>1, <2>1
<1>4. ASSUME NEW m \in Money,
             \/ \E amount \in Amounts : TakePayment(s, m, amount)
             \/ \E c \in Calls : call[c].sale = s /\ (WriteReceipt(c, m) \/ WriteRefund(c, m))
             \/ /\ money[m].sale = s
                /\ DeleteMoney(m) \/ \E amount \in Amounts : UpdateReceipt(m, amount)
      PROVE  PaidRight(s)' /\ StatusRight(s)'
  BY <1>4, <1>1, MoneyWriteOn
<1> QED
  BY <1>3, <1>4, <1>2, UnsyncedRight DEF Writing

LEMMA MoneyStep ==
  Belong /\ SaleFollowsMoney /\ [Next]_vars => SaleFollowsMoney'
<1> SUFFICES ASSUME Belong, SaleFollowsMoney, [Next]_vars, NEW x \in Sales
             PROVE  PaidRight(x)' /\ StatusRight(x)'
  BY DEF SaleFollowsMoney, PaidRight, StatusRight
<1> USE DEF Belong
<1>1. Belong'
  BY BelongStep
<1>2. PaidRight(x) /\ StatusRight(x)
  BY DEF SaleFollowsMoney, PaidRight, StatusRight
<1>3. ASSUME NEW s \in Sales, Writing(s) PROVE PaidRight(x)' /\ StatusRight(x)'
  <2>1. CASE x = s
    BY <1>1, <1>2, <1>3, <2>1, WritingRight
  <2>2. ASSUME x # s PROVE PaidRight(x)' /\ StatusRight(x)'
    <3>1. Untouched(x)
      BY <1>1, <1>3, <2>2, WritingWritesOn DEF WritesOn
    <3>2. sale'[x] = sale[x] /\ Paid(money', x) = Paid(money, x)
      BY <1>1, <3>1, UntouchedSums DEF Untouched
    <3> QED
      BY <1>2, <3>1, <3>2 DEF PaidRight, StatusRight, Exists, TotalAmount
  <2> QED
    BY <2>1, <2>2
<1>4. ASSUME UNCHANGED <<sale, money>> PROVE PaidRight(x)' /\ StatusRight(x)'
  BY <1>2, <1>4 DEF PaidRight, StatusRight, Exists, TotalAmount
<1>5. ASSUME NEW s \in Sales, CreateSale(s) PROVE PaidRight(x)' /\ StatusRight(x)'
  <2>1. CASE x # s
    <3>1. sale'[x] = sale[x] /\ UNCHANGED <<money>>
      BY <1>5, <2>1 DEF CreateSale, TypeOK
    <3> QED
      BY <1>2, <3>1 DEF PaidRight, StatusRight, Exists, TotalAmount
  <2>2. ASSUME x = s PROVE PaidRight(x)' /\ StatusRight(x)'
    <3>1. sale'[x].status = "OPEN" /\ sale'[x].paid = 0 /\ money' = money /\ ~Exists(x)
      BY <1>5, <2>2 DEF CreateSale, RowsBelong, NewSale, Exists, TypeOK
    <3>2. \A kind \in {"payment", "refund"} : RowsOf(money, kind, x) = {}
      BY <3>1 DEF RowsOf, RowsBelong, Counts
    <3>3. Paid(money, x) = 0
      BY <3>2, NoUnits DEF Paid
    <3> QED
      BY <3>1, <3>3 DEF PaidRight, StatusRight
  <2> QED
    BY <2>1, <2>2
<1>6. CASE (\E c \in Calls : Reading(c) \/ EndCall(c)) \/ UNCHANGED vars
  BY <1>4, <1>6, ReadingReads DEF EndCall, vars
<1> QED
  BY <1>3, <1>5, <1>6, Steps

\* A sale's paid amount is what its payments and refunds come to, and a sale that
\* reads PAID is paid in full, whatever is done to its lines: each change of them syncs.
THEOREM MoneyFollowed == Spec => []SaleFollowsMoney
<1>1. Init => Belong /\ SaleFollowsMoney
  BY BelongInit DEF Init, SaleFollowsMoney, Exists, NewSale
<1>2. Belong /\ SaleFollowsMoney /\ [Next]_vars => (Belong /\ SaleFollowsMoney)'
  BY BelongStep, MoneyStep
<1> QED
  BY <1>1, <1>2, PTL DEF Spec

-----------------------------------------------------------------------------
(* Refunds *)

\* Refunds of note n that stay as they are add up to the same.
LEMMA SameRefunds ==
  ASSUME NEW n, \A m \in Money : (m \in RefundsOf(money', n)) = (m \in RefundsOf(money, n)),
         \A m \in RefundsOf(money, n) : money'[m].amount = money[m].amount
  PROVE  Refunded(n)' = Refunded(n)
<1>1. RefundsOf(money', n) = RefundsOf(money, n)
  BY DEF RefundsOf
<1>2. \A m \in RefundsOf(money, n) : AmountsOf(money')[m] = AmountsOf(money)[m]
  BY DEF RefundsOf, AmountsOf
<1>3. Total(RefundsOf(money, n), AmountsOf(money')) = Total(RefundsOf(money, n), AmountsOf(money))
  BY <1>2, SameUnits
<1> QED
  BY <1>1, <1>3 DEF Refunded

\* One row more, its amount more.
LEMMA OneMore ==
  ASSUME NEW before \in [Money -> MoneyRows], NEW after \in [Money -> MoneyRows],
         NEW m \in Money, \A x \in Money \ {m} : after[x] = before[x],
         NEW some \in SUBSET Money, m \notin some
  PROVE  Total(some \cup {m}, AmountsOf(after)) = Total(some, AmountsOf(before)) + after[m].amount
<1>1. \A x \in some : AmountsOf(before)[x] = AmountsOf(after)[x]
  BY DEF AmountsOf
<1>2. AmountsOf(after)[m] = after[m].amount /\ after[m].amount \in Nat
  BY DEF AmountsOf, MoneyRows
<1>3. IsFiniteSet(UnitsOf(some, AmountsOf(after)))
  BY MoneySums
<1>4. Total(some, AmountsOf(before)) = Total(some, AmountsOf(after))
  BY <1>1, SameUnits
<1> DEFINE amounts == AmountsOf(after)
<1>5. amounts[m] \in Nat /\ IsFiniteSet(UnitsOf(some, amounts))
  BY <1>2, <1>3
<1> HIDE DEF amounts
<1>6. Total(some \cup {m}, amounts) = Total(some, amounts) + amounts[m]
  BY <1>5, AddUnits
<1> QED
  BY <1>2, <1>4, <1>6 DEF amounts

LEMMA RefundMore ==
  ASSUME NEW before \in [Money -> MoneyRows], NEW after \in [Money -> MoneyRows],
         NEW n, NEW m \in Money, \A x \in Money \ {m} : after[x] = before[x],
         m \notin RefundsOf(before, n), m \in RefundsOf(after, n)
  PROVE  Total(RefundsOf(after, n), AmountsOf(after))
           = Total(RefundsOf(before, n), AmountsOf(before)) + after[m].amount
<1>1. RefundsOf(before, n) \in SUBSET Money /\ RefundsOf(after, n) = RefundsOf(before, n) \cup {m}
  BY DEF RefundsOf
<1> QED
  BY <1>1, OneMore

LEMMA RefundedTypes ==
  /\ TypeOK => \A n : Refunded(n) \in Nat
  /\ TypeOK' => \A n : Refunded(n)' \in Nat
<1>1. \A n : RefundsOf(money, n) \in SUBSET Money /\ RefundsOf(money', n) \in SUBSET Money
  BY DEF RefundsOf
<1>2. ASSUME TypeOK, NEW n PROVE Refunded(n) \in Nat
  BY <1>1, <1>2, MoneySums DEF Refunded, TypeOK
<1>3. ASSUME TypeOK', NEW n PROVE Refunded(n)' \in Nat
  <2>1. Total(RefundsOf(money', n), AmountsOf(money')) \in Nat
    BY <1>1, <1>3, MoneySums DEF TypeOK
  <2> QED
    BY <2>1 DEF Refunded
<1> QED
  BY <1>2, <1>3

WithinNote(n) ==
  Live(n) => Refunded(n) <= Value(note[n].qty) \/ Unseen(note[n].sale, {"noterefund", "refund"})

\* A note whose refunds add up to no more than before stays within what it credits.
LEMMA KeptWithin ==
  ASSUME TypeOK, TypeOK', NEW n \in Notes, WithinNote(n), Live(n), stale \subseteq stale',
         note'[n].sale = note[n].sale, note'[n].qty = note[n].qty, Refunded(n)' <= Refunded(n)
  PROVE  WithinNote(n)'
<1>1. Refunded(n) \in Nat /\ Refunded(n)' \in Nat /\ Value(note[n].qty) \in Nat
  BY RefundedTypes, ValueType DEF TypeOK, NoteRows
<1> QED
  BY <1>1 DEF WithinNote, Unseen

\* The refund that is written: the till asks for the note again, the others know it
\* if they are not stale.
LEMMA RefundWithin ==
  ASSUME Belong, Belong', CallsKnow, NEW c \in Calls, NEW m \in Money, WriteRefund(c, m),
         NEW n \in Notes, Live(n), WithinNote(n)
  PROVE  WithinNote(n)'
<1> USE DEF Belong
<1>1. PICK s \in Sales : s = call[c].sale
  BY DEF TypeOK, CallRows
<1>2. /\ call[c].pc \in {"tillrefund", "noterefund", "refund"} /\ StillAllowed(c)
      /\ money[m].kind = "none"
      /\ money' = [money EXCEPT ![m] = [kind |-> "refund", sale |-> s, note |-> call[c].note,
                                        amount |-> call[c].amount]]
      /\ note' = note /\ Write(c)
  BY <1>1 DEF WriteRefund, NewMoney
<1>3. /\ \A x \in Money \ {m} : money'[x] = money[x]
      /\ money'[m].kind = "refund" /\ money'[m].note = call[c].note
      /\ money'[m].amount = call[c].amount
      /\ m \notin RefundsOf(money, n)
  BY <1>2 DEF TypeOK, RefundsOf
<1>4. /\ stale \subseteq stale'
      /\ call[c].stale => <<s, call[c].pc>> \in stale'
  BY <1>1, <1>2, TouchingWrite
<1>5. CASE call[c].note # n
  <2>1. \A x \in Money : (x \in RefundsOf(money', n)) = (x \in RefundsOf(money, n))
    BY <1>3, <1>5 DEF RefundsOf
  <2>2. \A x \in RefundsOf(money, n) : money'[x].amount = money[x].amount
    BY <1>3 DEF RefundsOf
  <2>3. Refunded(n)' = Refunded(n) /\ Refunded(n) \in Nat
    BY <2>1, <2>2, SameRefunds, SumTypes DEF TypeOK
  <2> QED
    BY <1>2, <1>4, <2>3, KeptWithin
<1>6. ASSUME call[c].note = n PROVE WithinNote(n)'
  <2>1. Refunded(n)' = Refunded(n) + call[c].amount
    <3>1. m \in RefundsOf(money', n)
      BY <1>3, <1>6 DEF RefundsOf
    <3>2. money \in [Money -> MoneyRows] /\ money' \in [Money -> MoneyRows]
      BY DEF TypeOK
    <3>3. Total(RefundsOf(money', n), AmountsOf(money'))
            = Total(RefundsOf(money, n), AmountsOf(money)) + money'[m].amount
      BY <1>3, <3>1, <3>2, RefundMore
    <3> QED
      BY <1>3, <3>3 DEF Refunded
  <2>2. Refunded(n) \in Nat /\ call[c].amount \in Nat /\ Value(note[n].qty) \in Nat
    BY SumTypes, ValueType DEF TypeOK, NoteRows, CallRows
  <2>3. note[n].sale = s
    BY <1>1, <1>2, <1>6 DEF CallsBelong
  <2>4. CASE call[c].pc = "tillrefund"
    <3>1. call[c].amount <= Value(note[n].qty) - Refunded(n)
      BY <1>2, <1>6, <2>4 DEF StillAllowed
    <3> QED
      BY <1>2, <2>1, <2>2, <3>1 DEF WithinNote
  <2>5. CASE call[c].pc \in {"noterefund", "refund"}
    <3>1. ~call[c].stale => Refunded(n) + call[c].amount <= Value(note[n].qty)
      BY <1>6, <2>5 DEF CallsKnow, Knows
    <3>2. call[c].stale => Unseen(s, {"noterefund", "refund"})'
      BY <1>4, <2>5 DEF Unseen
    <3> QED
      BY <1>2, <2>1, <2>3, <3>1, <3>2 DEF WithinNote
  <2> QED
    BY <1>2, <2>4, <2>5
<1> QED
  BY <1>5, <1>6

\* A note that is written has no refunds yet, or the one it is written with.
LEMMA NewNoteWithin ==
  ASSUME Belong, Belong', NEW c \in Calls, NEW n \in Notes,
         CreateNote(c, n) \/ \E m \in Money : ReturnAndRefund(c, n, m)
  PROVE  /\ WithinNote(n)'
         /\ \A x \in Notes \ {n} : note'[x] = note[x] /\ Refunded(x)' = Refunded(x)
<1> USE DEF Belong
<1>1. /\ note[n].state = "NONE" /\ note'[n].qty = call[c].qty
      /\ \A x \in Notes \ {n} : note'[x] = note[x]
  BY DEF CreateNote, ReturnAndRefund, NewNote, TypeOK
<1>2. RefundsOf(money, n) = {}
  BY <1>1 DEF RefundsOf, RowsBelong, LiveOn, Live
<1>3. Refunded(n) = 0
  BY <1>2, NoUnits DEF Refunded
<1>4. Value(call[c].qty) \in Nat
  BY ValueType DEF TypeOK, CallRows
<1>5. ASSUME CreateNote(c, n)
      PROVE  WithinNote(n)' /\ \A x \in Notes \ {n} : Refunded(x)' = Refunded(x)
  <2>1. money' = money
    BY <1>5, Zenon DEF CreateNote
  <2>2. \A x : Refunded(x)' = Refunded(x)
    BY <2>1 DEF Refunded
  <2> QED
    BY <1>1, <1>3, <1>4, <2>2 DEF WithinNote
<1>6. ASSUME NEW m \in Money, ReturnAndRefund(c, n, m)
      PROVE  WithinNote(n)' /\ \A x \in Notes \ {n} : Refunded(x)' = Refunded(x)
  <2>1. /\ \A x \in Money \ {m} : money'[x] = money[x]
        /\ money[m].kind = "none" /\ money'[m].kind = "refund" /\ money'[m].note = n
        /\ money'[m].amount = Value(call[c].qty)
    BY <1>6 DEF ReturnAndRefund, TypeOK
  <2>2. Refunded(n)' = Refunded(n) + Value(call[c].qty)
    <3>1. m \notin RefundsOf(money, n) /\ m \in RefundsOf(money', n)
      BY <2>1 DEF RefundsOf
    <3>2. money \in [Money -> MoneyRows] /\ money' \in [Money -> MoneyRows]
      BY DEF TypeOK
    <3>3. Total(RefundsOf(money', n), AmountsOf(money'))
            = Total(RefundsOf(money, n), AmountsOf(money)) + money'[m].amount
      BY <2>1, <3>1, <3>2, RefundMore
    <3> QED
      BY <2>1, <3>3 DEF Refunded
  <2>3. ASSUME NEW x \in Notes \ {n} PROVE Refunded(x)' = Refunded(x)
    <3>1. /\ \A y \in Money : (y \in RefundsOf(money', x)) = (y \in RefundsOf(money, x))
          /\ \A y \in RefundsOf(money, x) : money'[y].amount = money[y].amount
      BY <2>1 DEF RefundsOf
    <3> QED
      BY <3>1, SameRefunds
  <2> QED
    BY <1>1, <1>3, <1>4, <2>2, <2>3 DEF WithinNote
<1> QED
  BY <1>1, <1>5, <1>6

\* A payment is no refund of a note, and a refund that is deleted counts no more.
LEMMA MoneyWithin ==
  ASSUME Belong, Belong', NEW s \in Sales, NEW m \in Money, NEW n \in Notes,
         \/ \E amount \in Amounts : TakePayment(s, m, amount)
         \/ \E c \in Calls : WriteReceipt(c, m)
         \/ DeleteMoney(m) \/ \E amount \in Amounts : UpdateReceipt(m, amount)
  PROVE  note' = note /\ Refunded(n)' <= Refunded(n)
<1> USE DEF Belong
<1>1. note' = note /\ Refunded(n) \in Nat /\ money \in [Money -> MoneyRows]
      /\ money' \in [Money -> MoneyRows] /\ \A x \in Money \ {m} : money'[x] = money[x]
  BY SumTypes DEF TakePayment, WriteReceipt, NewMoney, DeleteMoney, UpdateReceipt, TypeOK
<1>2. m \notin RefundsOf(money', n)
  <2>1. CASE (\E amount \in Amounts : TakePayment(s, m, amount)) \/ \E c \in Calls : WriteReceipt(c, m)
    BY <1>1, <2>1 DEF TakePayment, WriteReceipt, NewMoney, RefundsOf
  <2>2. CASE DeleteMoney(m)
    BY <1>1, <2>2 DEF DeleteMoney, Erased, NoMoney, RefundsOf
  <2>3. CASE \E amount \in Amounts : UpdateReceipt(m, amount)
    <3>1. money'[m].kind = "payment"
      BY <1>1, <2>3 DEF UpdateReceipt, MoneyRows
    <3> QED
      BY <3>1 DEF RefundsOf
  <2> QED
    BY <2>1, <2>2, <2>3
<1>3. CASE m \notin RefundsOf(money, n)
  <2>1. /\ \A y \in Money : (y \in RefundsOf(money', n)) = (y \in RefundsOf(money, n))
        /\ \A y \in RefundsOf(money, n) : money'[y].amount = money[y].amount
    BY <1>1, <1>2, <1>3 DEF RefundsOf
  <2>2. Refunded(n)' = Refunded(n)
    BY <2>1, SameRefunds
  <2> QED
    BY <1>1, <2>2
<1>4. CASE m \in RefundsOf(money, n)
  <2>1. Refunded(n) = Refunded(n)' + money[m].amount
    BY <1>1, <1>2, <1>4, RefundMore DEF Refunded
  <2>2. Refunded(n)' \in Nat /\ money[m].amount \in Nat
    BY <1>1, RefundedTypes DEF MoneyRows
  <2> QED
    BY <1>1, <2>1, <2>2
<1> QED
  BY <1>3, <1>4

LEMMA WritingWithin ==
  ASSUME Belong, Belong', CallsKnow, NEW s \in Sales, Writing(s), NEW n \in Notes,
         Live(n)', Live(n) => WithinNote(n)
  PROVE  WithinNote(n)'
<1> USE DEF Belong
<1>1. stale \subseteq stale' /\ Grows
  BY WritingWritesOn, WritingKeepsRows DEF WritesOn
<1>2. Refunded(n) \in Nat
  BY SumTypes DEF TypeOK
<1>3. note[n].state # "NONE" => Live(n)
  BY <1>1 DEF Grows
<1>4. ASSUME Live(n), note'[n].sale = note[n].sale, note'[n].qty = note[n].qty,
             Refunded(n)' <= Refunded(n)
      PROVE  WithinNote(n)'
  BY <1>1, <1>4, KeptWithin
<1>5. ASSUME note' = note PROVE Live(n) /\ note'[n].sale = note[n].sale /\ note'[n].qty = note[n].qty
  BY <1>5 DEF Live
<1>6. CASE UNCHANGED <<note, money>>
  <2>1. Refunded(n)' = Refunded(n)
    BY <1>6 DEF Refunded
  <2> QED
    BY <1>2, <1>4, <1>5, <1>6, <2>1
<1>7. CASE LineStep(s)
  BY <1>6, <1>7, LinesSync
<1>8. ASSUME NEW c \in Calls, WriteReceive(c) PROVE WithinNote(n)'
  <2>1. /\ money' = money /\ note'[n].qty = note[n].qty
        /\ note[n].state # "NONE" /\ note'[n].sale = note[n].sale
    BY <1>8 DEF WriteReceive, TypeOK, NoteRows, Live
  <2>2. Refunded(n)' = Refunded(n)
    BY <2>1 DEF Refunded
  <2> QED
    BY <1>2, <1>3, <1>4, <2>1, <2>2
<1>9. ASSUME NEW c \in Calls, DeleteSale(c) PROVE WithinNote(n)'
  <2>1. Live(n) /\ note'[n] = note[n] /\ note[n].sale # call[c].sale
    BY <1>9 DEF DeleteSale, NotesOf, Live, Withdrawn, Unused, TypeOK, NoteRows
  <2>2. \A m \in RefundsOf(money, n) : money[m].sale # call[c].sale
    BY <2>1 DEF RefundsOf, RowsBelong, LiveOn
  <2>3. \A m \in Money : IF money[m].sale = call[c].sale THEN money'[m].kind = "gone"
                         ELSE money'[m] = money[m]
    BY <1>9 DEF DeleteSale, Erased, NoMoney
  <2>4. /\ \A y \in Money : (y \in RefundsOf(money', n)) = (y \in RefundsOf(money, n))
        /\ \A y \in RefundsOf(money, n) : money'[y].amount = money[y].amount
    BY <2>2, <2>3 DEF RefundsOf
  <2>5. Refunded(n)' = Refunded(n)
    BY <2>4, SameRefunds
  <2> QED
    BY <1>2, <1>4, <2>1, <2>5
<1>10. ASSUME NEW c \in Calls, WriteNoteDelete(c) PROVE WithinNote(n)'
  <2>1. PICK x \in Notes : x = call[c].note
    BY <1>10 DEF WriteNoteDelete, AboutNotes, TypeOK
  <2>2. n # x /\ note'[n] = note[n]
    BY <1>10, <2>1 DEF WriteNoteDelete, Live, Withdrawn, Unused, TypeOK, NoteRows
  <2>3. \A m \in Money : IF money[m].note = x THEN money'[m].note = NoNote ELSE money'[m] = money[m]
    BY <1>10, <2>1 DEF WriteNoteDelete, TypeOK, MoneyRows
  <2>4. /\ \A y \in Money : (y \in RefundsOf(money', n)) = (y \in RefundsOf(money, n))
        /\ \A y \in RefundsOf(money, n) : money'[y].amount = money[y].amount
    BY <2>2, <2>3, IdsAssumption DEF RefundsOf
  <2>5. Refunded(n)' = Refunded(n) /\ Live(n)
    BY <2>2, <2>4, SameRefunds DEF Live
  <2> QED
    BY <1>2, <1>4, <2>2, <2>5
<1>11. ASSUME NEW c \in Calls, NEW x \in Notes,
              CreateNote(c, x) \/ \E m \in Money : ReturnAndRefund(c, x, m)
       PROVE  WithinNote(n)'
  <2>1. /\ WithinNote(x)'
        /\ n # x => note'[n] = note[n] /\ Refunded(n)' = Refunded(n)
    BY <1>11, NewNoteWithin
  <2>2. CASE n = x
    BY <2>1, <2>2
  <2>3. CASE n # x
    BY <1>2, <1>4, <2>1, <2>3 DEF Live
  <2> QED
    BY <2>2, <2>3
<1>12. ASSUME NEW m \in Money,
              \/ \E amount \in Amounts : TakePayment(s, m, amount)
              \/ \E c \in Calls : WriteReceipt(c, m)
              \/ DeleteMoney(m) \/ \E amount \in Amounts : UpdateReceipt(m, amount)
       PROVE  WithinNote(n)'
  BY <1>4, <1>5, <1>12, MoneyWithin
<1>13. ASSUME NEW c \in Calls, NEW m \in Money, WriteRefund(c, m) PROVE WithinNote(n)'
  <2>1. Live(n)
    BY <1>13 DEF WriteRefund, NewMoney, Live
  <2> QED
    BY <1>13, <2>1, RefundWithin
<1> QED
  BY <1>7, <1>8, <1>9, <1>10, <1>11, <1>12, <1>13 DEF Writing

LEMMA RefundsStep ==
  Belong /\ CallsKnow /\ RefundsWithinNotes /\ [Next]_vars => RefundsWithinNotes'
<1> SUFFICES ASSUME Belong, CallsKnow, RefundsWithinNotes, [Next]_vars, NEW n \in Notes, Live(n)'
             PROVE  WithinNote(n)'
  BY DEF RefundsWithinNotes, WithinNote, Live
<1>1. WithinNote(n)
  BY DEF RefundsWithinNotes, WithinNote, Live
<1>2. Belong'
  BY BelongStep
<1>3. ASSUME NEW s \in Sales, Writing(s) PROVE WithinNote(n)'
  BY <1>1, <1>2, <1>3, WritingWithin
<1>4. CASE UNCHANGED <<note, money, stale>>
  BY <1>1, <1>4 DEF WithinNote, Live, Refunded, Unseen
<1>5. CASE (\E s \in Sales : CreateSale(s)) \/ (\E c \in Calls : Reading(c) \/ EndCall(c)) \/ UNCHANGED vars
  BY <1>4, <1>5, ReadingReads DEF CreateSale, EndCall, vars, Belong
<1> QED
  BY <1>3, <1>5, Steps DEF Belong

\* No more is refunded on a note than it credits, unless a refund from the documents
\* pages was written by somebody who had not seen what the sale had become.
THEOREM RefundsWithin == Spec => []RefundsWithinNotes
<1>1. Init => Belong /\ CallsKnow /\ RefundsWithinNotes
  BY BelongInit DEF Init, CallsKnow, Idle, RefundsWithinNotes, Unused
<1>2. Belong /\ CallsKnow /\ RefundsWithinNotes /\ [Next]_vars
        => (Belong /\ CallsKnow /\ RefundsWithinNotes)'
  BY BelongStep, KnowsStep, RefundsStep
<1> QED
  BY <1>1, <1>2, PTL DEF Spec

HasMoney(m) ==
  LET s == money'[m].sale IN
  NewRefund(m) => \/ money'[m].amount <= Paid(money, s)
                  \/ note' # note
                  \/ \E kind \in {"tillrefund", "noterefund"} : <<s, kind>> \in stale'

LEMMA RefundHasMoney ==
  ASSUME Belong, Belong', CallsKnow, NEW s \in Sales, Writing(s), NEW m \in Money
  PROVE  HasMoney(m)
<1> USE DEF Belong
<1> SUFFICES ASSUME money[m].kind = "none", money'[m].kind = "refund", note' = note
             PROVE  \/ money'[m].amount <= Paid(money, money'[m].sale)
                    \/ \E kind \in {"tillrefund", "noterefund"} : <<money'[m].sale, kind>> \in stale'
  BY DEF HasMoney, NewRefund
<1>1. \E c \in Calls : call[c].sale = s /\ WriteRefund(c, m)
  <2>1. ASSUME NEW x \in Money,
               \/ \E amount \in Amounts : TakePayment(s, x, amount)
               \/ \E c \in Calls : WriteReceipt(c, x)
               \/ DeleteMoney(x) \/ \E amount \in Amounts : UpdateReceipt(x, amount)
        PROVE  FALSE
    <3>1. \A y \in Money \ {x} : money'[y] = money[y]
      BY <2>1 DEF TakePayment, WriteReceipt, NewMoney, DeleteMoney, UpdateReceipt, TypeOK
    <3>2. x = m
      BY <3>1
    <3>3. CASE (\E amount \in Amounts : TakePayment(s, m, amount)) \/ \E c \in Calls : WriteReceipt(c, m)
      BY <3>3 DEF TakePayment, WriteReceipt, NewMoney, TypeOK
    <3>4. CASE DeleteMoney(m) \/ \E amount \in Amounts : UpdateReceipt(m, amount)
      BY <3>4 DEF DeleteMoney, UpdateReceipt
    <3> QED
      BY <2>1, <3>2, <3>3, <3>4
  <2>2. ASSUME NEW c \in Calls, NEW x \in Money, WriteRefund(c, x), x # m PROVE FALSE
    BY <2>2 DEF WriteRefund, NewMoney, TypeOK
  <2>3. ASSUME NEW c \in Calls, NEW n \in Notes,
               CreateNote(c, n) \/ \E x \in Money : ReturnAndRefund(c, n, x)
        PROVE  FALSE
    BY <2>3 DEF CreateNote, ReturnAndRefund, NewNote, TypeOK
  <2>4. ASSUME NEW c \in Calls, DeleteSale(c) \/ WriteNoteDelete(c) PROVE FALSE
    <3>1. money'[m] \in {Erased(m), [money[m] EXCEPT !.note = NoNote], money[m]}
      BY <2>4 DEF DeleteSale, WriteNoteDelete
    <3>2. money[m] \in MoneyRows
      BY DEF TypeOK
    <3> QED
      BY <3>1, <3>2 DEF Erased, NoMoney, MoneyRows
  <2>5. money' # money
    OBVIOUS
  <2>6. ASSUME LineStep(s) \/ \E c \in Calls : WriteReceive(c) PROVE FALSE
    BY <2>5, <2>6, LinesSync DEF WriteReceive
  <2> QED
    BY <2>1, <2>2, <2>3, <2>4, <2>6 DEF Writing
<1>2. PICK c \in Calls : call[c].sale = s /\ WriteRefund(c, m)
  BY <1>1
<1>3. /\ money'[m].sale = s /\ money'[m].amount = call[c].amount
      /\ call[c].pc \in {"tillrefund", "noterefund", "refund"} /\ StillAllowed(c) /\ Write(c)
  BY <1>2 DEF WriteRefund, NewMoney, TypeOK
<1>4. CASE call[c].pc = "refund"
  BY <1>2, <1>3, <1>4 DEF StillAllowed
<1>5. ASSUME call[c].pc \in {"tillrefund", "noterefund"}
      PROVE  \/ call[c].amount <= Paid(money, s)
             \/ \E kind \in {"tillrefund", "noterefund"} : <<s, kind>> \in stale'
  <2>1. ~call[c].stale => call[c].amount <= Paid(money, s)
    BY <1>2, <1>5 DEF CallsKnow, Knows
  <2>2. call[c].stale => <<s, call[c].pc>> \in stale'
    BY <1>2, <1>3, TouchingWrite
  <2> QED
    BY <1>5, <2>1, <2>2
<1> QED
  BY <1>3, <1>4, <1>5

\* A refund is paid out of money the sale still holds, unless two refunds of notes
\* overlapped or it is part of a return-and-refund.
THEOREM RefundsPaidFor == Spec => RefundsHaveMoney
<1>1. Init => Belong /\ CallsKnow
  BY BelongInit DEF Init, CallsKnow, Idle
<1>2. Belong /\ CallsKnow /\ [Next]_vars => (Belong /\ CallsKnow)'
  BY BelongStep, KnowsStep
<1>3. Belong /\ CallsKnow /\ [Next]_vars => [\A m \in Money : HasMoney(m)]_vars
  <2> SUFFICES ASSUME Belong, CallsKnow, Next, NEW m \in Money PROVE HasMoney(m)
    OBVIOUS
  <2>1. Belong'
    BY BelongStep
  <2>2. ASSUME NEW s \in Sales, Writing(s) PROVE HasMoney(m)
    BY <2>1, <2>2, RefundHasMoney
  <2>3. CASE money' = money
    BY <2>3 DEF HasMoney, NewRefund
  <2>4. CASE (\E s \in Sales : CreateSale(s)) \/ \E c \in Calls : Reading(c) \/ EndCall(c)
    BY <2>3, <2>4, ReadingReads DEF CreateSale, EndCall, Belong
  <2> QED
    BY <2>2, <2>4, Steps DEF Belong
<1> QED
  BY <1>1, <1>2, <1>3, PTL DEF Spec, RefundsHaveMoney, HasMoney

-----------------------------------------------------------------------------
(* Credit notes within the sale *)

Payments(s) == Total(RowsOf(money, "payment", s), AmountsOf(money))
NoteKinds == {"tillnote", "note", "return"}

\* A sale nothing of what CreditsWithinSale excuses has happened to.
Trusted(s) == Exists(s) /\ s \notin undone /\ ~Unseen(s, {"add"})

\* Notes credit something, and so do the ones that are about to be written.
SomethingCredited ==
  /\ \A n \in Notes : Live(n) => Value(note[n].qty) > 0
  /\ \A c \in Calls : call[c].pc \in NoteKinds => Value(call[c].qty) > 0

\* Its refunds are of notes; it is open only without notes, and settled only when it
\* was paid for; and who is about to write a note saw it settled, with the total it has.
RefundsNamed(s) == \A m \in RowsOf(money, "refund", s) : money[m].note \in Notes
OpenUncredited(s) == sale[s].status = "OPEN" => NotesOf(note, s) = {}
SettledPaid(s) ==
  sale[s].status # "OPEN" => TotalAmount(s) > 0 /\ Payments(s) >= TotalAmount(s)
NotesKnow(s) ==
  \A c \in Calls : call[c].pc \in NoteKinds /\ call[c].sale = s =>
    sale[s].status # "OPEN" /\ call[c].amount = TotalAmount(s)
Orderly(s) ==
  /\ RefundsNamed(s) /\ OpenUncredited(s) /\ SettledPaid(s) /\ NotesKnow(s)
  /\ Credited(note, s) <= TotalAmount(s)

TrustedOrderly == \A s \in Sales : Trusted(s) => Orderly(s)

LEMMA CreditSums ==
  ASSUME NEW rows \in [Notes -> NoteRows], NEW s,
         \A n \in NotesOf(rows, s) : Value(rows[n].qty) > 0
  PROVE  /\ NotesOf(rows, s) = {} => Credited(rows, s) = 0
         /\ NotesOf(rows, s) # {} => Credited(rows, s) > 0
<1>1. Credited(rows, s) = Total(NotesOf(rows, s), NoteValues(rows))
  BY DEF Credited, NoteValues
<1>2. NotesOf(rows, s) \in SUBSET Notes
  BY DEF NotesOf
<1>3. ASSUME NEW n \in NotesOf(rows, s) PROVE Credited(rows, s) > 0
  <2>1. /\ IsFiniteSet(NotesOf(rows, s))
        /\ \A x \in NotesOf(rows, s) : NoteValues(rows)[x] \in Nat
        /\ NoteValues(rows)[n] > 0
        /\ Total(NotesOf(rows, s), NoteValues(rows)) \in Nat
    BY <1>2, NoteSums
  <2>2. NoteValues(rows)[n] <= Total(NotesOf(rows, s), NoteValues(rows))
    BY <2>1, RowWithin
  <2> QED
    BY <1>1, <2>1, <2>2
<1> QED
  BY <1>1, <1>3, NoUnits

\* Without refunds, what is paid is what was paid in.
LEMMA PaidIn ==
  ASSUME NEW rows \in [Money -> MoneyRows], NEW s, RowsOf(rows, "refund", s) = {}
  PROVE  Paid(rows, s) = Total(RowsOf(rows, "payment", s), AmountsOf(rows))
<1>1. Total(RowsOf(rows, "payment", s), AmountsOf(rows)) \in Nat
  BY MoneySums DEF RowsOf
<1>2. Paid(rows, s) = Total(RowsOf(rows, "payment", s), AmountsOf(rows)) - Total({}, AmountsOf(rows))
  BY DEF Paid
<1> QED
  BY <1>1, <1>2, NoUnits

\* A handler that ends with syncSalePaymentState, that lowers no payment and names
\* what it refunds: what was settled stays settled.
LEMMA SyncOrderly ==
  ASSUME Belong, Belong', SomethingCredited', NEW s \in Sales, Exists(s), Sync(s),
         Orderly(s), RefundsNamed(s)', Payments(s)' >= Payments(s),
         NotesOf(note', s) = NotesOf(note, s) \/ sale[s].status # "OPEN"
  PROVE  /\ OpenUncredited(s)' /\ SettledPaid(s)' /\ TotalAmount(s)' = TotalAmount(s)
         /\ sale[s].status # "OPEN" => sale'[s].status # "OPEN"
<1> USE DEF Belong
<1>1. /\ sale'[s].qty = sale[s].qty
      /\ sale'[s].status = StatusOf(TotalAmount(s), Paid(money', s), Credited(note', s))
  BY SyncSale DEF TypeOK
<1>2. TotalAmount(s)' = TotalAmount(s)
  BY <1>1 DEF TotalAmount
<1>3. /\ NotesOf(note', s) = {} => Credited(note', s) = 0
      /\ NotesOf(note', s) # {} => Credited(note', s) > 0
  <2>1. \A n \in NotesOf(note', s) : Value(note'[n].qty) > 0
    BY DEF SomethingCredited, NotesOf, Live
  <2> QED
    BY <2>1, CreditSums DEF TypeOK
<1>4. TotalAmount(s) \in Nat /\ Payments(s) \in Nat /\ Payments(s)' \in Nat
  <2>1. \A rows : RowsOf(rows, "payment", s) \in SUBSET Money
    BY DEF RowsOf
  <2>2. Total(RowsOf(money', "payment", s), AmountsOf(money')) \in Nat
    BY <2>1, MoneySums DEF TypeOK
  <2> QED
    BY <2>1, <2>2, ValueType, MoneySums DEF TotalAmount, Payments, TypeOK, SaleRows
<1>5. CASE NotesOf(note', s) # {}
  <2>1. sale'[s].status # "OPEN"
    BY <1>1, <1>3, <1>5 DEF StatusOf
  <2>2. sale[s].status # "OPEN"
    BY <1>5 DEF Orderly, OpenUncredited
  <2>3. TotalAmount(s) > 0 /\ Payments(s) >= TotalAmount(s)
    BY <2>2 DEF Orderly, SettledPaid
  <2> QED
    BY <1>2, <1>4, <2>1, <2>2, <2>3 DEF OpenUncredited, SettledPaid
<1>6. CASE NotesOf(note', s) = {}
  <2>1. Paid(money', s) = Payments(s)'
    <3>1. RowsOf(money', "refund", s) = {}
      BY <1>6 DEF RefundsNamed, RowsOf, RowsBelong, NotesOf, LiveOn, Live
    <3> QED
      BY <3>1, PaidIn DEF Payments, TypeOK
  <2>2. sale'[s].status = IF TotalAmount(s) > 0 /\ Payments(s)' >= TotalAmount(s)
                          THEN "PAID" ELSE "OPEN"
    BY <1>1, <1>3, <1>6, <2>1 DEF StatusOf
  <2>3. sale[s].status # "OPEN" => TotalAmount(s) > 0 /\ Payments(s) >= TotalAmount(s)
    BY DEF Orderly, SettledPaid
  <2> QED
    BY <1>2, <1>4, <1>6, <2>2, <2>3 DEF OpenUncredited, SettledPaid
<1> QED
  BY <1>2, <1>5, <1>6

\* Who is about to write a note on the sale still knows it.
LEMMA StillNotesKnow ==
  ASSUME NEW s \in Sales, NotesKnow(s), TypeOK,
         \A c \in Calls : \/ call'[c].pc \notin NoteKinds
                          \/ /\ call'[c].pc = call[c].pc /\ call'[c].sale = call[c].sale
                             /\ call'[c].amount = call[c].amount,
         TotalAmount(s)' = TotalAmount(s), sale[s].status # "OPEN" => sale'[s].status # "OPEN"
  PROVE  NotesKnow(s)'
BY DEF NotesKnow

LEMMA WritingCalls ==
  ASSUME Belong, Belong', NEW s \in Sales, Writing(s)
  PROVE  \A c \in Calls : \/ call'[c].pc \notin NoteKinds
                          \/ /\ call'[c].pc = call[c].pc /\ call'[c].sale = call[c].sale
                             /\ call'[c].amount = call[c].amount /\ call'[c].qty = call[c].qty
<1>1. Touching(s)
  BY WritingWritesOn DEF WritesOn, Belong
<1>2. call \in [Calls -> CallRows]
  BY DEF Belong, TypeOK
<1>3. ASSUME NEW c \in Calls, call'[c].pc # "idle"
      PROVE  /\ call'[c].pc = call[c].pc /\ call'[c].sale = call[c].sale
             /\ call'[c].amount = call[c].amount /\ call'[c].qty = call[c].qty
  <2>1. call'[c] = [call[c] EXCEPT !.stale = call'[c].stale] /\ call[c] \in CallRows
    BY <1>1, <1>2, <1>3 DEF Touching
  <2> QED
    BY <2>1 DEF CallRows
<1> QED
  BY <1>3 DEF NoteKinds

\* What is undone stays undone.
LEMMA TrustedBefore ==
  ASSUME Belong, Belong', NEW x \in Sales, Writing(x), NEW s \in Sales, Trusted(s)'
  PROVE  Trusted(s) /\ s \notin undone' /\ ~Unseen(s, {"add"})'
<1> USE DEF Belong
<1>1. undone \subseteq undone'
  BY LinesSync
  DEF Writing, DeleteSale, WriteReceive, WriteNoteDelete, WriteReceipt, WriteRefund, CreateNote,
      ReturnAndRefund, TakePayment, DeleteMoney, UpdateReceipt, historyVars
<1>2. WritesOn(x) /\ Grows
  BY WritingWritesOn, WritingKeepsRows
<1>3. stale \subseteq stale'
  BY <1>2 DEF WritesOn
<1>4. Exists(s)
  <2>1. CASE s # x
    BY <1>2, <2>1 DEF WritesOn, Untouched, Trusted, Exists
  <2>2. ASSUME s = x PROVE Exists(s)
    <3>1. CASE \/ LineStep(x)
               \/ \E c \in Calls : call[c].sale = x /\ (WriteReceive(c) \/ WriteNoteDelete(c))
      BY <2>2, <3>1, LinesSync DEF WriteReceive, WriteNoteDelete, Exists, Trusted
    <3>2. CASE \E c \in Calls, n \in Notes :
                  /\ call[c].sale = x
                  /\ CreateNote(c, n) \/ \E m \in Money : ReturnAndRefund(c, n, m)
      BY <2>2, <3>2 DEF CreateNote, ReturnAndRefund, NewNote
    <3>3. ASSUME NEW c \in Calls, call[c].sale = x, DeleteSale(c) PROVE FALSE
      BY <2>2, <3>3 DEF DeleteSale, Trusted, Exists, TypeOK, SaleRows
    <3>4. CASE \E m \in Money :
                 \/ \E amount \in Amounts : TakePayment(x, m, amount)
                 \/ \E c \in Calls : call[c].sale = x /\ (WriteReceipt(c, m) \/ WriteRefund(c, m))
                 \/ /\ money[m].sale = x
                    /\ DeleteMoney(m) \/ \E amount \in Amounts : UpdateReceipt(m, amount)
      BY <2>2, <3>4, MoneyWriteOn
    <3> QED
      BY <3>1, <3>2, <3>3, <3>4 DEF Writing
  <2> QED
    BY <2>1, <2>2
<1> QED
  BY <1>1, <1>3, <1>4 DEF Trusted, Unseen

\* The notes that are written credit something.
LEMMA SomethingStep ==
  ASSUME Belong, Belong', SomethingCredited, [Next]_vars
  PROVE  SomethingCredited'
<1> USE DEF Belong
<1>1. ASSUME NEW s \in Sales, Writing(s), NEW n \in Notes, Live(n)' PROVE Value(note'[n].qty) > 0
  <2>1. Grows
    BY <1>1, WritingKeepsRows
  <2>2. CASE Live(n) /\ note'[n].qty = note[n].qty
    BY <2>2 DEF SomethingCredited
  <2>3. ASSUME NEW c \in Calls, CreateNote(c, n) \/ \E m \in Money : ReturnAndRefund(c, n, m)
        PROVE  Value(note'[n].qty) > 0
    <3>1. call[c].pc \in NoteKinds /\ note'[n].qty = call[c].qty
      BY <2>3 DEF CreateNote, ReturnAndRefund, NewNote, NoteKinds, TypeOK
    <3> QED
      BY <3>1 DEF SomethingCredited
  <2>4. ASSUME NEW c \in Calls, NEW x \in Notes, x # n,
               CreateNote(c, x) \/ \E m \in Money : ReturnAndRefund(c, x, m)
        PROVE  note'[n] = note[n]
    BY <2>4 DEF CreateNote, ReturnAndRefund, NewNote, TypeOK
  <2>5. ASSUME \E c \in Calls : DeleteSale(c) \/ WriteNoteDelete(c)
        PROVE  note'[n] = note[n]
    <3>1. note'[n] \in {note[n], Withdrawn(n)}
      BY <2>5 DEF DeleteSale, WriteNoteDelete, TypeOK
    <3>2. Withdrawn(n).state = "GONE"
      BY DEF Withdrawn, Unused, TypeOK, NoteRows
    <3> QED
      BY <1>1, <3>1, <3>2 DEF Live
  <2>6. ASSUME NEW c \in Calls, WriteReceive(c)
        PROVE  note'[n].qty = note[n].qty /\ (note'[n] = note[n] \/ note[n].state # "NONE")
    BY <2>6 DEF WriteReceive, TypeOK, NoteRows
  <2>7. ASSUME \/ LineStep(s)
               \/ \E c \in Calls : \E m \in Money : WriteReceipt(c, m) \/ WriteRefund(c, m)
               \/ \E m \in Money, amount \in Amounts : TakePayment(s, m, amount) \/ UpdateReceipt(m, amount)
               \/ \E m \in Money : DeleteMoney(m)
        PROVE  note' = note
    BY <2>7, LinesSync DEF WriteReceipt, WriteRefund, TakePayment, UpdateReceipt, DeleteMoney, NewMoney
  <2>8. CASE note'[n] = note[n]
    BY <1>1, <2>2, <2>8 DEF Live
  <2>9. CASE \E c \in Calls : WriteReceive(c)
    BY <2>1, <2>2, <2>6, <2>8, <2>9, <1>1 DEF Grows
  <2> QED
    BY <1>1, <2>3, <2>4, <2>5, <2>7, <2>8, <2>9 DEF Writing
<1>2. ASSUME NEW s \in Sales, Writing(s), NEW c \in Calls, call'[c].pc \in NoteKinds
      PROVE  Value(call'[c].qty) > 0
  BY <1>2, WritingCalls DEF SomethingCredited
<1>3. ASSUME NEW c \in Calls, Reading(c), NEW x \in Calls, call'[x].pc \in NoteKinds
      PROVE  Value(call'[x].qty) > 0
  <2>1. CASE x # c
    BY <1>3, <2>1, ReadingReads DEF SomethingCredited
  <2>2. ASSUME x = c PROVE Value(call'[x].qty) > 0
    <3>1. \E s \in Sales, qty \in Bags, kind \in NoteKinds : ReadForNote(c, kind, s, qty)
      BY <1>3, <2>2
      DEF Reading, ReadForAdd, ReadForRecalc, ReadForDelete, ReadForReceipt, ReadForReceive,
          ReadForNoteDelete, ReadForRefund, Read, NoteKinds, TypeOK
    <3> QED
      BY <2>2, <3>1 DEF ReadForNote, Read, TypeOK
  <2> QED
    BY <2>1, <2>2
<1>4. CASE \E s \in Sales : Writing(s)
  BY <1>1, <1>2, <1>4 DEF SomethingCredited
<1>5. CASE \E c \in Calls : Reading(c)
  BY <1>3, <1>5, ReadingReads DEF SomethingCredited, Live
<1>6. CASE (\E s \in Sales : CreateSale(s)) \/ (\E c \in Calls : EndCall(c)) \/ UNCHANGED vars
  BY <1>6 DEF SomethingCredited, Live, CreateSale, EndCall, vars, Idle, NoteKinds, TypeOK
<1> QED
  BY <1>4, <1>5, <1>6, Steps

\* Lines change only on a sale that is open, and then there are no notes to outgrow and
\* nobody is about to write one; a recalculation leaves what was settled settled.
LEMMA LinesOrderly ==
  ASSUME Belong, Belong', CallsKnow, SomethingCredited', NEW s \in Sales, Orderly(s), Trusted(s)',
         LineStep(s)
  PROVE  Orderly(s)'
<1> USE DEF Belong
<1>1. Exists(s) /\ UNCHANGED <<note, money>> /\ Writing(s)
  BY LinesSync DEF Writing
<1>2. RefundsNamed(s)' /\ Payments(s)' = Payments(s) /\ NotesOf(note', s) = NotesOf(note, s)
  BY <1>1 DEF Orderly, RefundsNamed, Payments
<1>3. ASSUME NEW c \in Calls, call[c].sale = s, Recalc(c) PROVE Orderly(s)'
  <2>1. Sync(s)
    BY <1>3 DEF Recalc
  <2>2. Payments(s) \in Nat
    BY MoneySums DEF Payments, RowsOf, TypeOK
  <2>3. /\ OpenUncredited(s)' /\ SettledPaid(s)' /\ TotalAmount(s)' = TotalAmount(s)
        /\ sale[s].status # "OPEN" => sale'[s].status # "OPEN"
    BY <1>1, <1>2, <2>1, <2>2, SyncOrderly
  <2>4. NotesKnow(s)'
    BY <1>1, <2>3, StillNotesKnow, WritingCalls DEF Orderly
  <2> QED
    BY <1>1, <1>2, <2>3, <2>4 DEF Orderly
<1>4. ASSUME sale[s].status = "OPEN" PROVE Orderly(s)'
  <2>1. PICK qty \in Quantities : SyncWith(s, qty)
    BY LinesSync
  <2>2. NotesOf(note, s) = {} /\ \A c \in Calls : call[c].pc \in NoteKinds => call[c].sale # s
    BY <1>4 DEF Orderly, OpenUncredited, NotesKnow
  <2>3. NotesKnow(s)'
    BY <1>1, <2>2, WritingCalls DEF NotesKnow
  <2>4. Credited(note', s) = 0
    BY <1>1, <2>2, CreditSums DEF TypeOK
  <2>5. Paid(money', s) = Payments(s)'
    <3>1. RowsOf(money', "refund", s) = {}
      BY <1>2, <2>2 DEF RefundsNamed, RowsOf, RowsBelong, NotesOf, LiveOn, Live
    <3> QED
      BY <3>1, PaidIn DEF Payments, TypeOK
  <2>6. /\ TotalAmount(s)' = Value(qty) /\ Value(qty) \in Nat
        /\ sale'[s].status = StatusOf(Value(qty), Paid(money', s), Credited(note', s))
    BY <2>1, SyncLines, ValueType DEF TotalAmount, TypeOK
  <2>7. sale'[s].status = IF Value(qty) > 0 /\ Payments(s)' >= Value(qty) THEN "PAID" ELSE "OPEN"
    BY <2>4, <2>5, <2>6 DEF StatusOf
  <2>8. OpenUncredited(s)' /\ SettledPaid(s)'
    BY <1>2, <2>2, <2>6, <2>7 DEF OpenUncredited, SettledPaid
  <2> QED
    BY <1>2, <2>3, <2>4, <2>6, <2>8 DEF Orderly
<1>5. ASSUME NEW c \in Calls, call[c].sale = s, AddItem(c) PROVE sale[s].status = "OPEN"
  <2>1. ~call[c].stale /\ call[c].pc = "add"
    BY <1>5, TouchingWrite DEF AddItem, Trusted, Unseen
  <2> QED
    BY <1>5, <2>1 DEF CallsKnow, Knows
<1> QED
  BY <1>3, <1>4, <1>5 DEF LineStep, DeleteItem, UpdateItem

\* Payments and refunds that leave the sale trusted lower no payment.
LEMMA MoneyOrderly ==
  ASSUME Belong, Belong', SomethingCredited, SomethingCredited', NEW s \in Sales, Orderly(s),
         Trusted(s)', Writing(s), NEW m \in Money,
         \/ \E amount \in Amounts : TakePayment(s, m, amount)
         \/ \E c \in Calls : call[c].sale = s /\ (WriteReceipt(c, m) \/ WriteRefund(c, m))
         \/ /\ money[m].sale = s
            /\ DeleteMoney(m) \/ \E amount \in Amounts : UpdateReceipt(m, amount)
  PROVE  Orderly(s)'
<1> USE DEF Belong
<1>1. /\ Exists(s) /\ Sync(s) /\ note' = note
      /\ \A x \in Money \ {m} : money'[x] = money[x]
  BY MoneyWriteOn
<1>2. s \notin undone'
  BY TrustedBefore
<1>3. /\ money[m].kind = "payment" => money'[m] = money[m]
      /\ money'[m].kind = "refund" => money'[m].note \in Notes
  <2>1. CASE \/ \E amount \in Amounts : TakePayment(s, m, amount)
             \/ \E c \in Calls : WriteReceipt(c, m)
    BY <2>1 DEF TakePayment, WriteReceipt, NewMoney, TypeOK
  <2>2. ASSUME NEW c \in Calls, call[c].sale = s, WriteRefund(c, m)
        PROVE  money[m].kind = "none" /\ money'[m].note \in Notes
    <3>1. money[m].kind = "none" /\ money'[m].note = call[c].note
      BY <2>2 DEF WriteRefund, NewMoney, TypeOK
    <3>2. call[c].note # NoNote /\ call[c].note \in Notes \cup {NoNote}
      BY <1>2, <2>2 DEF WriteRefund, TypeOK, CallRows
    <3> QED
      BY <3>1, <3>2
  <2>3. CASE money[m].sale = s /\ DeleteMoney(m)
    BY <1>2, <2>3 DEF DeleteMoney, Erased, NoMoney, TypeOK
  <2>4. CASE money[m].sale = s /\ \E amount \in Amounts : UpdateReceipt(m, amount)
    BY <1>2, <2>4 DEF UpdateReceipt
  <2> QED
    BY <2>1, <2>2, <2>3, <2>4
<1>4. RefundsNamed(s)'
  BY <1>1, <1>3 DEF Orderly, RefundsNamed, RowsOf
<1>5. Payments(s)' >= Payments(s)
  <2> DEFINE before == RowsOf(money, "payment", s)
             after == RowsOf(money', "payment", s)
  <2>1. /\ before \in SUBSET Money /\ (after = before \/ (m \notin before /\ after = before \cup {m}))
        /\ \A x \in before : money'[x] = money[x]
    BY <1>1, <1>3 DEF RowsOf
  <2>2. money \in [Money -> MoneyRows] /\ money' \in [Money -> MoneyRows]
    BY DEF TypeOK
  <2>3. Payments(s) = Total(before, AmountsOf(money)) /\ Payments(s)' = Total(after, AmountsOf(money'))
    BY DEF Payments
  <2> HIDE DEF before, after
  <2>4. Total(before, AmountsOf(money)) \in Nat /\ money'[m].amount \in Nat
    BY <2>1, <2>2, MoneySums DEF MoneyRows
  <2>5. CASE after = before
    <3>1. \A x \in before : AmountsOf(money)[x] = AmountsOf(money')[x]
      BY <2>1 DEF AmountsOf
    <3>2. Total(before, AmountsOf(money)) = Total(before, AmountsOf(money'))
      BY <3>1, SameUnits
    <3> QED
      BY <2>3, <2>4, <2>5, <3>2
  <2>6. CASE m \notin before /\ after = before \cup {m}
    <3>1. Total(before \cup {m}, AmountsOf(money')) = Total(before, AmountsOf(money)) + money'[m].amount
      BY <1>1, <2>1, <2>2, <2>6, OneMore
    <3> QED
      BY <2>3, <2>4, <2>6, <3>1
  <2> QED
    BY <2>1, <2>5, <2>6
<1>6. /\ OpenUncredited(s)' /\ SettledPaid(s)' /\ TotalAmount(s)' = TotalAmount(s)
      /\ sale[s].status # "OPEN" => sale'[s].status # "OPEN"
  BY <1>1, <1>4, <1>5, SyncOrderly
<1>7. NotesKnow(s)'
  BY <1>6, StillNotesKnow, WritingCalls DEF Orderly
<1> QED
  BY <1>1, <1>4, <1>6, <1>7 DEF Orderly

\* A note is written within what the sale comes to, as it was read and as it is.
LEMMA NotesOrderly ==
  ASSUME Belong, Belong', SomethingCredited, SomethingCredited', NEW s \in Sales, Orderly(s),
         Writing(s), NEW c \in Calls, call[c].sale = s, NEW n \in Notes,
         CreateNote(c, n) \/ \E m \in Money : ReturnAndRefund(c, n, m)
  PROVE  Orderly(s)'
<1> USE DEF Belong
<1>1. /\ note[n].state = "NONE" /\ Exists(s) /\ Cap(c) /\ Sync(s) /\ call[c].pc \in NoteKinds
      /\ note'[n].state \in {"ISSUED", "RECEIVED"} /\ note'[n].sale = s /\ note'[n].qty = call[c].qty
      /\ \A x \in Notes \ {n} : note'[x] = note[x]
  BY DEF CreateNote, ReturnAndRefund, NewNote, NoteKinds, TypeOK
<1>2. sale[s].status # "OPEN" /\ call[c].amount = TotalAmount(s)
  BY <1>1 DEF Orderly, NotesKnow
<1>3. \A m \in Money : \/ money'[m] = money[m]
                       \/ money[m].kind = "none" /\ money'[m].kind = "refund" /\ money'[m].note = n
  <2>1. CASE CreateNote(c, n)
    BY <2>1 DEF CreateNote
  <2>2. CASE \E m \in Money : ReturnAndRefund(c, n, m)
    BY <2>2 DEF ReturnAndRefund, TypeOK
  <2> QED
    BY <2>1, <2>2
<1>4. RefundsNamed(s)'
  BY <1>3 DEF Orderly, RefundsNamed, RowsOf
<1>5. Payments(s)' >= Payments(s)
  <2>1. RowsOf(money', "payment", s) = RowsOf(money, "payment", s)
    BY <1>3 DEF RowsOf
  <2>2. \A m \in RowsOf(money, "payment", s) : AmountsOf(money')[m] = AmountsOf(money)[m]
    BY <1>3 DEF RowsOf, AmountsOf
  <2>3. Total(RowsOf(money, "payment", s), AmountsOf(money'))
          = Total(RowsOf(money, "payment", s), AmountsOf(money))
    BY <2>2, SameUnits
  <2>4. Payments(s) \in Nat
    BY MoneySums DEF Payments, RowsOf, TypeOK
  <2> QED
    BY <2>1, <2>3, <2>4 DEF Payments
<1>6. /\ OpenUncredited(s)' /\ SettledPaid(s)' /\ TotalAmount(s)' = TotalAmount(s)
      /\ sale'[s].status # "OPEN"
  BY <1>1, <1>2, <1>4, <1>5, SyncOrderly
<1>7. NotesKnow(s)'
  BY <1>6, StillNotesKnow, WritingCalls DEF Orderly
<1>8. Credited(note', s) = Credited(note, s) + Value(call[c].qty)
  <2> DEFINE before == NotesOf(note, s)
  <2>1. /\ before \in SUBSET Notes /\ n \notin before /\ NotesOf(note', s) = before \cup {n}
        /\ \A x \in before : note'[x] = note[x]
    BY <1>1 DEF NotesOf
  <2>2. Credited(note, s) = Total(before, NoteValues(note))
        /\ Credited(note', s) = Total(before \cup {n}, NoteValues(note'))
    BY <2>1 DEF Credited, NoteValues
  <2> HIDE DEF before
  <2>3. \A x \in before : NoteValues(note)[x] = NoteValues(note')[x]
    BY <2>1 DEF NoteValues
  <2>4. Total(before, NoteValues(note)) = Total(before, NoteValues(note'))
    BY <2>3, SameUnits
  <2> DEFINE values == NoteValues(note')
  <2>5. IsFiniteSet(UnitsOf(before, values)) /\ values[n] = Value(call[c].qty) /\ values[n] \in Nat
    <3>1. IsFiniteSet(UnitsOf(before, NoteValues(note')))
      BY <2>1, NoteSums DEF TypeOK
    <3> QED
      BY <1>1, <3>1, ValueType DEF NoteValues, TypeOK, CallRows
  <2> HIDE DEF values
  <2>6. Total(before \cup {n}, values) = Total(before, values) + values[n]
    BY <2>1, <2>5, AddUnits
  <2> QED
    BY <2>2, <2>4, <2>5, <2>6 DEF values
<1> QED
  BY <1>1, <1>2, <1>4, <1>6, <1>7, <1>8 DEF Orderly, Cap

\* Receiving the goods back changes no sum; deleting a note without refunds lowers one.
LEMMA PaperOrderly ==
  ASSUME Belong, Belong', NEW s \in Sales, Orderly(s), Trusted(s)', Writing(s),
         NEW c \in Calls, call[c].sale = s, WriteReceive(c) \/ WriteNoteDelete(c)
  PROVE  Orderly(s)'
<1> USE DEF Belong
<1>1. PICK n \in Notes : n = call[c].note
  BY DEF WriteReceive, WriteNoteDelete, AboutNotes, TypeOK
<1>2. sale' = sale /\ TotalAmount(s)' = TotalAmount(s)
  BY DEF WriteReceive, WriteNoteDelete, TotalAmount
<1>3. money' = money
  <2>1. CASE WriteReceive(c)
    BY <2>1 DEF WriteReceive
  <2>2. ASSUME WriteNoteDelete(c) PROVE money' = money
    <3>1. s \notin undone'
      BY TrustedBefore
    <3>2. RefundsOf(money, n) = {}
      BY <1>1, <2>2, <3>1 DEF WriteNoteDelete
    <3>3. \A m \in Money : money[m].note # n
      BY <3>2 DEF RefundsOf, RowsBelong
    <3>4. money' = [m \in Money |-> money[m]]
      BY <1>1, <2>2, <3>3 DEF WriteNoteDelete
    <3> QED
      BY <3>4 DEF TypeOK
  <2> QED
    BY <2>1, <2>2
<1>4. /\ NotesOf(note', s) \subseteq NotesOf(note, s)
      /\ \A x \in NotesOf(note', s) : note'[x].qty = note[x].qty
  <2>1. \A x \in Notes \ {n} : note'[x] = note[x]
    BY <1>1 DEF WriteReceive, WriteNoteDelete, TypeOK
  <2>2. note[n].sale = s /\ Live(n)
    BY <1>1 DEF WriteReceive, WriteNoteDelete, CallsBelong, Live
  <2>3. Live(n)' => note'[n].qty = note[n].qty
    <3>1. CASE WriteReceive(c)
      BY <1>1, <3>1 DEF WriteReceive, TypeOK, NoteRows
    <3>2. CASE WriteNoteDelete(c)
      BY <1>1, <3>2 DEF WriteNoteDelete, Withdrawn, Unused, Live, TypeOK, NoteRows
    <3> QED
      BY <3>1, <3>2
  <2> QED
    BY <2>1, <2>2, <2>3 DEF NotesOf, Live
<1>5. Credited(note', s) <= Credited(note, s)
  <2> DEFINE fewer == NotesOf(note', s)
             all == NotesOf(note, s)
             units == UnitsOf(all, NoteValues(note))
  <2>1. fewer \in SUBSET all /\ all \in SUBSET Notes
    BY <1>4 DEF NotesOf
  <2>2. \A x \in fewer : NoteValues(note')[x] = NoteValues(note)[x]
    BY <1>4, <2>1 DEF NoteValues
  <2>3. Total(fewer, NoteValues(note')) = Total(fewer, NoteValues(note))
    BY <2>2, SameUnits
  <2>4. UnitsOf(fewer, NoteValues(note)) \subseteq units /\ IsFiniteSet(units)
    <3>1. IsFiniteSet(UnitsOf(all, NoteValues(note)))
      BY <2>1, NoteSums DEF TypeOK
    <3> QED
      BY <2>1, <3>1 DEF UnitsOf
  <2>5. Cardinality(UnitsOf(fewer, NoteValues(note))) <= Cardinality(units)
    BY <2>4, FS_Subset
  <2> QED
    BY <2>3, <2>5 DEF Credited, NoteValues, Total
<1>6. /\ RefundsNamed(s)' /\ SettledPaid(s)' /\ OpenUncredited(s)'
  BY <1>2, <1>3, <1>4 DEF Orderly, RefundsNamed, SettledPaid, OpenUncredited, Payments
<1>7. NotesKnow(s)'
  BY <1>2, StillNotesKnow, WritingCalls DEF Orderly
<1>8. Credited(note', s) \in Nat /\ Credited(note, s) \in Nat /\ TotalAmount(s) \in Nat
  BY SumTypes, ValueType DEF TotalAmount, TypeOK, SaleRows
<1> QED
  BY <1>2, <1>5, <1>6, <1>7, <1>8 DEF Orderly

LEMMA WritingOrderly ==
  ASSUME Belong, Belong', CallsKnow, SomethingCredited, SomethingCredited', NEW s \in Sales,
         Writing(s), Orderly(s), Trusted(s)'
  PROVE  Orderly(s)'
<1>1. ASSUME NEW c \in Calls, call[c].sale = s, DeleteSale(c) PROVE FALSE
  <2>1. sale'[s].status = "DELETED"
    BY <1>1 DEF DeleteSale, Belong, TypeOK, SaleRows
  <2> QED
    BY <2>1 DEF Trusted, Exists
<1> QED
  BY <1>1, LinesOrderly, MoneyOrderly, NotesOrderly, PaperOrderly DEF Writing

\* A sale that is not written on is as orderly as it was.
LEMMA OthersOrderly ==
  ASSUME Belong, Belong', NEW s \in Sales, Orderly(s), Untouched(s),
         \A c \in Calls : \/ call'[c].pc \notin NoteKinds
                          \/ /\ call'[c].pc = call[c].pc /\ call'[c].sale = call[c].sale
                             /\ call'[c].amount = call[c].amount
  PROVE  Orderly(s)'
<1> USE DEF Belong
<1>1. /\ NotesOf(note', s) = NotesOf(note, s) /\ Credited(note', s) = Credited(note, s)
      /\ TotalAmount(s)' = TotalAmount(s) /\ sale'[s] = sale[s]
  BY UntouchedSums DEF Untouched
<1>2. \A kind \in {"payment", "refund"} :
        /\ RowsOf(money', kind, s) = RowsOf(money, kind, s)
        /\ \A m \in RowsOf(money, kind, s) : money'[m] = money[m]
  BY DEF RowsOf, Untouched, CountsOn, Counts
<1>3. Payments(s)' = Payments(s)
  <2>1. \A m \in RowsOf(money, "payment", s) : AmountsOf(money')[m] = AmountsOf(money)[m]
    BY <1>2 DEF AmountsOf, RowsOf
  <2>2. Total(RowsOf(money, "payment", s), AmountsOf(money'))
          = Total(RowsOf(money, "payment", s), AmountsOf(money))
    BY <2>1, SameUnits
  <2> QED
    BY <1>2, <2>2 DEF Payments
<1>4. RefundsNamed(s)'
  BY <1>2 DEF Orderly, RefundsNamed
<1>5. OpenUncredited(s)' /\ SettledPaid(s)'
  BY <1>1, <1>3 DEF Orderly, OpenUncredited, SettledPaid
<1>6. NotesKnow(s)'
  BY <1>1, StillNotesKnow DEF Orderly
<1> QED
  BY <1>1, <1>4, <1>5, <1>6 DEF Orderly

\* A sale that is made has no notes, no money and no readers.
LEMMA NewOrderly ==
  ASSUME Belong, Belong', NEW s \in Sales, CreateSale(s)
  PROVE  Orderly(s)'
<1> USE DEF Belong
<1>1. /\ UNCHANGED <<note, money, call>> /\ sale'[s].status = "OPEN" /\ sale[s].status = "NONE"
  BY DEF CreateSale, TypeOK, SaleRows
<1>2. NotesOf(note', s) = {} /\ RowsOf(money', "refund", s) = {}
  BY <1>1 DEF NotesOf, RowsOf, RowsBelong, Live, Counts, Exists
<1>3. \A c \in Calls : call[c].pc \in NoteKinds => call[c].sale # s
  BY <1>1 DEF CallsBelong, NoteKinds
<1>4. Credited(note', s) = 0
  BY <1>2, CreditSums DEF TypeOK
<1>5. TotalAmount(s)' \in Nat
  BY ValueType DEF TotalAmount, TypeOK, SaleRows
<1>6. RefundsNamed(s)' /\ OpenUncredited(s)' /\ SettledPaid(s)'
  BY <1>1, <1>2 DEF RefundsNamed, OpenUncredited, SettledPaid
<1>7. NotesKnow(s)'
  BY <1>1, <1>3 DEF NotesKnow
<1> QED
  BY <1>4, <1>5, <1>6, <1>7 DEF Orderly

\* Who reads for a note sees a settled sale and its total.
LEMMA ReadingOrderly ==
  ASSUME Belong, Belong', NEW x \in Calls, Reading(x), NEW s \in Sales, Orderly(s)
  PROVE  Orderly(s)'
<1> USE DEF Belong
<1>1. UNCHANGED <<sale, note, money>> /\ \A c \in Calls \ {x} : call'[c] = call[c]
  BY ReadingReads
<1>2. RefundsNamed(s)' /\ OpenUncredited(s)' /\ SettledPaid(s)' /\ TotalAmount(s)' = TotalAmount(s)
      /\ Credited(note', s) <= TotalAmount(s)
  BY <1>1 DEF Orderly, RefundsNamed, OpenUncredited, SettledPaid, Payments, TotalAmount
<1>3. call'[x].pc \in NoteKinds /\ call'[x].sale = s =>
        sale[s].status # "OPEN" /\ call'[x].amount = TotalAmount(s)
  <2>1. ASSUME call'[x].pc \in NoteKinds
        PROVE  \E y \in Sales, qty \in Bags, kind \in NoteKinds : ReadForNote(x, kind, y, qty)
    BY <2>1
    DEF Reading, ReadForAdd, ReadForRecalc, ReadForDelete, ReadForReceipt, ReadForReceive,
        ReadForNoteDelete, ReadForRefund, Read, NoteKinds, TypeOK
  <2>2. ASSUME NEW y \in Sales, NEW qty \in Bags, NEW kind \in NoteKinds, ReadForNote(x, kind, y, qty)
        PROVE  call'[x].sale = y /\ sale[y].status # "OPEN" /\ call'[x].amount = TotalAmount(y)
    BY <2>2 DEF ReadForNote, Read, TypeOK
  <2> QED
    BY <2>1, <2>2
<1>4. NotesKnow(s)'
  BY <1>1, <1>2, <1>3 DEF Orderly, NotesKnow
<1> QED
  BY <1>2, <1>4 DEF Orderly

LEMMA OrderlyStep ==
  ASSUME Belong, CallsKnow, SomethingCredited, TrustedOrderly, [Next]_vars
  PROVE  TrustedOrderly'
<1> SUFFICES ASSUME NEW s \in Sales, Trusted(s)' PROVE Orderly(s)'
  BY DEF TrustedOrderly
<1>1. Belong' /\ SomethingCredited'
  BY BelongStep, SomethingStep
<1>2. Trusted(s) => Orderly(s)
  BY DEF TrustedOrderly
<1>3. ASSUME NEW x \in Sales, Writing(x) PROVE Orderly(s)'
  <2>1. Orderly(s)
    BY <1>1, <1>2, <1>3, TrustedBefore
  <2>2. CASE x = s
    BY <1>1, <1>3, <2>1, <2>2, WritingOrderly
  <2>3. ASSUME x # s PROVE Orderly(s)'
    <3>1. Untouched(s)
      BY <1>1, <1>3, <2>3, WritingWritesOn DEF WritesOn, Belong
    <3> QED
      BY <1>1, <1>3, <2>1, <3>1, OthersOrderly, WritingCalls
  <2> QED
    BY <2>2, <2>3
<1>4. ASSUME NEW x \in Sales, CreateSale(x) PROVE Orderly(s)'
  <2>1. CASE x = s
    BY <1>1, <1>4, <2>1, NewOrderly
  <2>2. ASSUME x # s PROVE Orderly(s)'
    <3>1. sale'[s] = sale[s] /\ UNCHANGED <<note, money, call, undone, stale>>
      BY <1>4, <2>2 DEF CreateSale, historyVars, Belong, TypeOK
    <3>2. Trusted(s) /\ Untouched(s)
      BY <3>1 DEF Trusted, Exists, Unseen, Untouched, LiveOn, Live, CountsOn, Counts
    <3> QED
      BY <1>1, <1>2, <3>1, <3>2, OthersOrderly
  <2> QED
    BY <2>1, <2>2
<1>5. ASSUME NEW x \in Calls, Reading(x) PROVE Orderly(s)'
  <2>1. UNCHANGED <<sale, undone, stale>>
    BY <1>5, ReadingReads DEF Belong
  <2>2. Trusted(s)
    BY <2>1 DEF Trusted, Exists, Unseen
  <2> QED
    BY <1>1, <1>2, <1>5, <2>2, ReadingOrderly
<1>6. ASSUME (\E c \in Calls : EndCall(c)) \/ UNCHANGED vars PROVE Orderly(s)'
  <2>1. UNCHANGED <<sale, note, money, undone, stale>>
    BY <1>6 DEF EndCall, vars, historyVars
  <2>2. Trusted(s) /\ Untouched(s)
    BY <2>1 DEF Trusted, Exists, Unseen, Untouched, LiveOn, Live, CountsOn, Counts
  <2>3. \A c \in Calls : call'[c] = call[c] \/ call'[c].pc \notin NoteKinds
    BY <1>6 DEF EndCall, vars, Idle, NoteKinds, Belong, TypeOK
  <2> QED
    BY <1>1, <1>2, <2>2, <2>3, OthersOrderly
<1> QED
  BY <1>3, <1>4, <1>5, <1>6, Steps DEF Belong

\* All credit notes of a sale together never exceed it, however many returns are taken
\* at once, as long as no payment of it was lowered and no line added unseen.
THEOREM CreditsWithin == Spec => []CreditsWithinSale
<1> DEFINE Inv == Belong /\ CallsKnow /\ SomethingCredited /\ TrustedOrderly
<1>1. Init => Inv
  BY BelongInit
  DEF Init, CallsKnow, Idle, SomethingCredited, NoteKinds, Live, Unused, TrustedOrderly, Trusted,
      Exists, NewSale
<1>2. Inv /\ [Next]_vars => Inv'
  BY BelongStep, KnowsStep, SomethingStep, OrderlyStep
<1>3. Inv => CreditsWithinSale
  BY DEF TrustedOrderly, Trusted, Orderly, CreditsWithinSale
<1> QED
  BY <1>1, <1>2, <1>3, PTL DEF Spec

-----------------------------------------------------------------------------
(* The stock book *)

\* What the sales took is a number.
TakenTyped == \A p \in Parts : Taken(p) \in Int

LEMMA TakenType == TypeOK => TakenTyped
<1> SUFFICES ASSUME TypeOK, NEW p \in Parts PROVE Taken(p) \in Int
  BY DEF TakenTyped
<1>1. IsFiniteSet(Sales)
  BY IdsAssumption
<1>2. \A s \in Sales : [x \in Sales |-> moved[x][p]][s] \in Int
  BY DEF TypeOK
<1> QED
  BY <1>1, <1>2, SignedType DEF Taken

\* A sum over the sales changes by what one of them does.
LEMMA SalesSum ==
  ASSUME NEW f, NEW g, NEW s \in Sales, NEW n \in Int,
         \A x \in Sales : f[x] \in Int,
         \A x \in Sales : g[x] = IF x = s THEN f[x] + n ELSE f[x]
  PROVE  SignedTotal(Sales, g) = SignedTotal(Sales, f) + n
<1>1. IsFiniteSet(Sales)
  BY IdsAssumption
<1> QED
  BY <1>1, ChangeSigned

\* An entry in the book for every unit that leaves the shelf or comes back to it.
Entered(p) == onHand'[p] - onHand[p] = Taken(p) - Taken(p)'

LEMMA MoveEntered ==
  ASSUME TypeOK, NEW s \in Sales, NEW taken \in Shifts, Move(s, taken), NEW p \in Parts
  PROVE  Entered(p)
<1> DEFINE f == [x \in Sales |-> moved[x][p]]
           g == [x \in Sales |-> moved'[x][p]]
           n == taken[p]
<1>1. /\ onHand'[p] = onHand[p] - n /\ moved'[s][p] = moved[s][p] + n
      /\ \A x \in Sales \ {s} : moved'[x] = moved[x]
  BY MoveType
<1>2. onHand[p] \in Int /\ n \in Int /\ Taken(p) \in Int
  BY TakenType DEF TakenTyped, TypeOK, Shifts
<1>3. \A x \in Sales : f[x] \in Int
  BY DEF TypeOK
<1>4. \A x \in Sales : g[x] = IF x = s THEN f[x] + n ELSE f[x]
  BY <1>1
<1>5. Taken(p) = SignedTotal(Sales, f) /\ Taken(p)' = SignedTotal(Sales, g)
  BY DEF Taken
<1> HIDE DEF f, g, n
<1>6. SignedTotal(Sales, g) = SignedTotal(Sales, f) + n
  BY <1>2, <1>3, <1>4, SalesSum
<1> QED
  BY <1>1, <1>2, <1>5, <1>6 DEF Entered

\* No stock moves: nothing to enter.
LEMMA QuietEntered ==
  ASSUME TypeOK, UNCHANGED stockVars, NEW p \in Parts
  PROVE  Entered(p)
<1>1. Taken(p)' = Taken(p) /\ onHand' = onHand
  BY DEF Taken, stockVars
<1>2. Taken(p) \in Int /\ onHand[p] \in Int
  BY TakenType DEF TakenTyped, TypeOK
<1> QED
  BY <1>1, <1>2 DEF Entered

\* Selling, editing and taking back move the units they write down.
LEMMA WritingEntered ==
  ASSUME TypeOK, NEW s \in Sales, Writing(s), NEW p \in Parts
  PROVE  Entered(p)
<1>1. ASSUME NEW c \in Calls, call[c].sale = s, AddItem(c) PROVE Entered(p)
  <2>1. call[c].qty \in Shifts /\ Move(s, call[c].qty)
    BY <1>1, ShiftTypes DEF AddItem, TypeOK, CallRows
  <2> QED
    BY <2>1, MoveEntered
<1>2. ASSUME NEW x \in Parts, NEW n \in Amounts, UpdateItem(s, x, n) PROVE Entered(p)
  <2> DEFINE more == n - sale[s].qty[x]
  <2>1. more \in Int /\ Move(s, Only(x, more))
    BY <1>2, BoundTypes DEF UpdateItem, TypeOK, SaleRows, Quantities
  <2> HIDE DEF more
  <2> QED
    BY <2>1, ShiftTypes, MoveEntered
<1>3. ASSUME NEW x \in Parts, DeleteItem(s, x) PROVE Entered(p)
  <2> DEFINE less == -sale[s].qty[x]
  <2>1. less \in Int /\ Move(s, Only(x, less))
    BY <1>3 DEF DeleteItem, ReturnLine, TypeOK, SaleRows, Quantities
  <2> HIDE DEF less
  <2> QED
    BY <2>1, ShiftTypes, MoveEntered
<1>4. ASSUME NEW c \in Calls, call[c].sale = s,
             DeleteSale(c) \/ \E n \in Notes, m \in Money : ReturnAndRefund(c, n, m)
      PROVE  Entered(p)
  <2>1. call[c].qty \in Quantities /\ Move(s, Minus(Nothing, call[c].qty))
    BY <1>4 DEF DeleteSale, ReturnAndRefund, PutBack, TypeOK, CallRows
  <2> QED
    BY <2>1, ShiftTypes, MoveEntered
<1>5. ASSUME NEW c \in Calls, WriteReceive(c) PROVE Entered(p)
  <2>1. PICK n \in Notes : n = call[c].note
    BY <1>5 DEF WriteReceive, TypeOK, AboutNotes
  <2>2. /\ note[n].qty \in Quantities /\ note[n].sale \in Sales
        /\ Move(note[n].sale, Minus(Nothing, note[n].qty))
    BY <1>5, <2>1 DEF WriteReceive, PutBack, TypeOK, NoteRows
  <2> QED
    BY <2>2, ShiftTypes, MoveEntered
<1>6. ASSUME NEW c \in Calls,
             \/ Recalc(c) \/ WriteNoteDelete(c) \/ \E n \in Notes : CreateNote(c, n)
             \/ \E m \in Money : WriteReceipt(c, m) \/ WriteRefund(c, m)
      PROVE  UNCHANGED stockVars
  BY <1>6 DEF Recalc, WriteNoteDelete, CreateNote, WriteReceipt, WriteRefund, stockVars
<1>7. ASSUME NEW m \in Money, NEW amount \in Amounts,
             TakePayment(s, m, amount) \/ UpdateReceipt(m, amount)
       PROVE  UNCHANGED stockVars
  BY <1>7 DEF TakePayment, UpdateReceipt, stockVars
<1>8. ASSUME NEW m \in Money, DeleteMoney(m) PROVE UNCHANGED stockVars
  BY <1>8 DEF DeleteMoney, stockVars
<1> QED
  BY <1>1, <1>2, <1>3, <1>4, <1>5, <1>6, <1>7, <1>8, QuietEntered DEF Writing, LineStep

\* Every step enters what it moves.
LEMMA EveryEntered == TypeOK /\ [Next]_vars => \A p \in Parts : Entered(p)
<1> SUFFICES ASSUME TypeOK, [Next]_vars, NEW p \in Parts PROVE Entered(p)
  OBVIOUS
<1>1. ASSUME NEW s \in Sales, Writing(s) PROVE Entered(p)
  BY <1>1, WritingEntered
<1>2. ASSUME NEW c \in Calls, Reading(c) \/ EndCall(c) PROVE Entered(p)
  BY <1>2, ReadingReads, QuietEntered DEF EndCall, stockVars
<1>3. ASSUME NEW s \in Sales, CreateSale(s) PROVE Entered(p)
  BY <1>3, QuietEntered DEF CreateSale
<1>4. CASE UNCHANGED vars
  BY <1>4, QuietEntered DEF vars, stockVars
<1> QED
  BY <1>1, <1>2, <1>3, <1>4, Steps

\* The till implements the stock book: the shelf moves only with an entry, and by as
\* much, for every line sold, changed, deleted or taken back.
THEOREM BookImplemented == Spec => ImplementsStockBook
<1>1. Init => Book!Init
  <2> SUFFICES ASSUME Init PROVE Book!Init
    OBVIOUS
  <2>1. ASSUME NEW p \in Parts PROVE Taken(p) = 0
    <3>1. \A s \in Sales : [x \in Sales |-> moved[x][p]][s] = 0
      BY DEF Init, Nothing
    <3> QED
      BY <3>1, ZeroSigned DEF Taken
  <2>2. onHand \in [Parts -> Int] /\ \A p \in Parts : onHand[p] = Opening[p] /\ Opening[p] \in Int
    BY OpeningAssumption DEF Init
  <2>3. [p \in Parts |-> Opening[p] - Taken(p)] = onHand
    BY <2>1, <2>2
  <2> QED
    BY <2>2, <2>3 DEF Book!Init
<1>2. TypeOK /\ [Next]_vars => [Book!Next]_(Book!vars)
  <2> SUFFICES ASSUME TypeOK, [Next]_vars PROVE Book!Book
    BY DEF Book!Next
  <2>1. ASSUME NEW p \in Parts
        PROVE  (Opening[p] - Taken(p)') - (Opening[p] - Taken(p)) = onHand'[p] - onHand[p]
    <3>1. Entered(p)
      BY EveryEntered
    <3>2. /\ onHand[p] \in Int /\ onHand'[p] \in Int /\ Opening[p] \in Int
          /\ Taken(p) \in Int /\ Taken(p)' \in Int
      <4>1. TypeOK'
        BY TypeStep
      <4>2. TakenTyped
        BY TakenType
      <4>3. TakenTyped'
        BY <4>1, TakenType, PTL
      <4> QED
        BY <4>1, <4>2, <4>3, OpeningAssumption DEF TakenTyped, TypeOK
    <3> QED
      BY <3>1, <3>2 DEF Entered
  <2> QED
    BY <2>1 DEF Book!Book
<1> QED
  BY <1>1, <1>2, TypeCorrect, PTL DEF Spec, ImplementsStockBook, Book!Spec
=============================================================================
