---------------------------- MODULE Invoicing_proofs ----------------------------
(***************************************************************************)
(* What Invoicing keeps for every number of invoices, parts, payments and  *)
(* concurrent requests: its types; that goods follow the lines, the status *)
(* the money and the journal both; that a refund is paid out of money; and *)
(* that it implements the stock book.  The inductive invariants are Known, *)
(* what a request in flight still knows of the rows it read, and Booked,   *)
(* what the books hold of each row of money.                               *)
(***************************************************************************)
EXTENDS Invoicing, UnitTotals_proofs

-----------------------------------------------------------------------------
(* Types *)

LEMMA ConstantTypes ==
  /\ SomeInvoice \in Invoices /\ SomeMoney \in Money /\ SomePart \in Parts
  /\ Nothing \in Quantities
  /\ Idle \in CallStates /\ NewInvoice \in InvoiceRows /\ NoMoney \in MoneyRows
BY IdsAssumption
DEF SomeInvoice, SomeMoney, SomePart, Nothing, Quantities, Idle, CallStates, NewInvoice, InvoiceRows,
    NoMoney, MoneyRows

\* Form values are quantities and amounts.
LEMMA FormTypes == Bags \subseteq Quantities /\ Amounts \subseteq Nat \ {0}
BY BoundsAssumption, IdsAssumption, FS_CardinalityType DEF Bags, Quantities, Amounts

\* What lines hold in stock is a quantity, by their product's factor or without it.
LEMMA StockType ==
  ASSUME NEW qty \in Quantities
  PROVE  Stock(qty) \in Quantities /\ PlainStock(qty) \in Quantities
<1>1. \A a, b \in Nat : a * b \in Nat
  OBVIOUS
<1>2. \A p \in Parts : qty[p] \in Nat /\ Grains[p] \in Nat /\ Plain \in Nat
  BY UnitsAssumption DEF Quantities
<1> QED
  BY <1>1, <1>2 DEF Stock, PlainStock, Quantities

\* Rounding to base units loses or adds half a unit at most.
LEMMA RoundedOff ==
  ASSUME NEW amount \in Nat
  PROVE  Rounded(amount) \in Nat /\ HalfAUnit(amount - Rounded(amount))
<1> DEFINE units == (2 * amount + Unit) \div (2 * Unit)
<1>1. Unit \in Nat /\ Unit > 0
  BY UnitsAssumption
<1>2. \A a, b \in Nat : b > 0 => /\ a \div b \in Nat
                                /\ b * (a \div b) <= a /\ a < b * (a \div b) + b
  OBVIOUS
<1>3. units \in Nat /\ 2 * Unit * units <= 2 * amount + Unit /\ 2 * amount + Unit < 2 * Unit * units + 2 * Unit
  BY <1>1, <1>2
<1> HIDE DEF units
<1>4. Unit * units \in Nat /\ 2 * Unit * units = 2 * (Unit * units)
  BY <1>1, <1>3
<1>5. Rounded(amount) = Unit * units
  BY DEF Rounded, units
<1> QED
  BY <1>1, <1>3, <1>4, <1>5 DEF HalfAUnit

\* What a row's lines give back when they are edited, and when the invoice is voided.
LEMMA StockOfRow ==
  ASSUME NEW row \in InvoiceRows
  PROVE  /\ StockOf(row) \in Quantities /\ Restored(row) \in Quantities
         /\ \A p \in Parts : /\ row.edits = 0 \/ Grains[p] = Plain =>
                                  StockOf(row)[p] = Stock(row.qty)[p]
                             /\ HalfAUnit(StockOf(row)[p] - Restored(row)[p])
<1>1. row.qty \in Quantities /\ StockOf(row) \in Quantities
  BY StockType DEF InvoiceRows, StockOf
<1>2. \A p \in Parts : StockOf(row)[p] \in Nat
  BY <1>1 DEF Quantities
<1>3. \A p \in Parts : Rounded(StockOf(row)[p]) \in Nat
                      /\ HalfAUnit(StockOf(row)[p] - Rounded(StockOf(row)[p]))
  BY <1>2, RoundedOff
<1>4. \A p \in Parts : row.edits = 0 \/ Grains[p] = Plain => StockOf(row)[p] = Stock(row.qty)[p]
  BY DEF StockOf, Stock, PlainStock
<1> HIDE DEF StockOf
<1> QED
  BY <1>1, <1>3, <1>4 DEF Restored, Quantities

LEMMA RewriteType ==
  ASSUME NEW row \in InvoiceRows, NEW qty \in Quantities
  PROVE  /\ Rewrite(row, qty) \in InvoiceRows /\ Rewrite(row, qty).qty = qty
         /\ Rewrite(row, qty).bills = row.bills /\ Rewrite(row, qty).status = row.status
         /\ Rewrite(row, qty).edits = row.edits + 1
<1> DEFINE n == row.edits + 1
<1>1. row.edits \in Nat /\ n \in Nat
  BY DEF InvoiceRows
<1>2. Rewrite(row, qty) = [row EXCEPT !.qty = qty, !.edits = n]
  BY DEF Rewrite, InvoiceRows
<1> HIDE DEF n
<1>3. /\ Rewrite(row, qty) \in InvoiceRows /\ Rewrite(row, qty).qty = qty
      /\ Rewrite(row, qty).bills = row.bills /\ Rewrite(row, qty).status = row.status
      /\ Rewrite(row, qty).edits = n
  BY <1>1, <1>2 DEF InvoiceRows
<1> QED
  BY <1>3 DEF n

LEMMA ValueType == \A qty \in Quantities : Value(qty) \in Nat
BY IdsAssumption, NatUnits DEF Quantities, Value

\* What an invoice was paid is a number, whatever rows it is the sum of.
LEMMA PaidType ==
  ASSUME NEW rows \in [Money -> MoneyRows], NEW i
  PROVE  /\ IsFiniteSet(MoneyOf(rows, i))
         /\ \A m \in Money : Signed(rows[m]) \in Int
         /\ Paid(rows, i) \in Int
<1>1. IsFiniteSet(MoneyOf(rows, i))
  BY IdsAssumption, FS_Subset DEF MoneyOf
<1>2. \A m \in Money : Signed(rows[m]) \in Int
  BY DEF Signed, MoneyRows
<1>3. \A m \in MoneyOf(rows, i) : [k \in Money |-> Signed(rows[k])][m] \in Int
  BY <1>2 DEF MoneyOf
<1> QED
  BY <1>1, <1>2, <1>3, SignedType DEF Paid

\* Syncing keeps what the invoice bills and leaves a void one void.
LEMMA SyncType ==
  ASSUME NEW row \in InvoiceRows, NEW paid \in Int
  PROVE  /\ Sync(row, paid) \in InvoiceRows
         /\ Sync(row, paid).bills = row.bills /\ Sync(row, paid).qty = row.qty
         /\ Sync(row, paid).edits = row.edits
         /\ IF row.status = "VOID" THEN Sync(row, paid) = row
            ELSE /\ Sync(row, paid).status \in {"ISSUED", "PAID"}
                 /\ Sync(row, paid).paid = paid
                 /\ Sync(row, paid).status = "PAID" <=> paid >= Value(row.qty)
BY DEF InvoiceRows, Sync

LEMMA MoveType ==
  ASSUME TypeOK, NEW i \in Invoices, NEW taken \in [Parts -> Int], Move(i, taken)
  PROVE  onHand' \in [Parts -> Int] /\ moved' \in [Invoices -> [Parts -> Int]]
BY DEF Move, Plus, Minus, TypeOK

LEMMA PostType ==
  ASSUME books \in BooksOver(Refs), NEW r \in Refs, NEW amount \in Int
  PROVE  Post(books, r, amount) \in BooksOver(Refs) /\ Reverse(books, r) \in BooksOver(Refs)
<1>1. [books EXCEPT !.entry[r] = amount, !.account = @ + amount] \in BooksOver(Refs)
  <2>1. books.entry \in [Refs -> Int] /\ books.account \in Int /\ books.account + amount \in Int
    BY DEF BooksOver
  <2>2. [books.entry EXCEPT ![r] = amount] \in [Refs -> Int]
    BY <2>1
  <2> QED
    BY <2>1, <2>2 DEF BooksOver
<1>2. [books EXCEPT !.reversed = @ \cup {r}] \in BooksOver(Refs)
  BY DEF BooksOver
<1> QED
  BY <1>1, <1>2 DEF Post, Reverse

-----------------------------------------------------------------------------
(* How a step works on requests *)

\* Request d goes on as it was; what it has read of the others than i still stands
\* if it did before.
GoesOn(d, i) ==
    /\ call'[d].pc = call[d].pc /\ call'[d].money = call[d].money
    /\ call'[d].qty = call[d].qty /\ call'[d].old = call[d].old
    /\ call'[d].amount = call[d].amount
    /\ call'[d].todo \subseteq call[d].todo
    /\ call'[d].todo \ call'[d].changed \subseteq (call[d].todo \ call[d].changed) \ {i}

Proceeds(i) == \A d \in Calls : call'[d] = Idle \/ GoesOn(d, i)

LEMMA TouchedCalls ==
  ASSUME TypeOK, NEW i \in Invoices, NEW others \in SUBSET Calls
  PROVE  /\ Touched(i, others) \in [Calls -> CallStates]
         /\ \A d \in Calls \ others : Touched(i, others)[d] = call[d]
         /\ \A d \in others : LET t == Touched(i, others)[d] IN
              /\ t.pc = call[d].pc /\ t.money = call[d].money /\ t.qty = call[d].qty
              /\ t.old = call[d].old /\ t.amount = call[d].amount /\ t.todo = call[d].todo
              /\ t.todo \ t.changed \subseteq (call[d].todo \ call[d].changed) \ {i}
BY DEF Touched, TypeOK, CallStates

LEMMA AtOnceCalls ==
  ASSUME TypeOK, NEW kind, NEW i \in Invoices, AtOnce(kind, i)
  PROVE  call' \in [Calls -> CallStates] /\ Proceeds(i) /\ stale' = stale
<1>1. call' = Touched(i, Calls) /\ stale' = stale
  BY DEF AtOnce
<1> QED
  BY <1>1, TouchedCalls DEF Proceeds, GoesOn

LEMMA WriteCalls ==
  ASSUME TypeOK, NEW c \in Calls, NEW i \in Invoices, i \in call[c].todo, Write(c, i)
  PROVE  call' \in [Calls -> CallStates] /\ Proceeds(i)
<1> DEFINE left == call[c].todo \ {i}
           rest == [call[c] EXCEPT !.todo = left, !.changed = @ \ {i}]
           mine == IF left = {} THEN Idle ELSE rest
           others == Calls \ {c}
<1>1. call' = [Touched(i, others) EXCEPT ![c] = mine]
  BY DEF Write
<1>2. rest \in CallStates
  BY DEF TypeOK, CallStates
<1>3. mine \in CallStates
  BY <1>2, ConstantTypes
<1>4. mine # Idle => /\ mine.pc = call[c].pc /\ mine.money = call[c].money /\ mine.qty = call[c].qty
                     /\ mine.old = call[c].old /\ mine.amount = call[c].amount
                     /\ mine.todo \subseteq call[c].todo
                     /\ mine.todo \ mine.changed \subseteq (call[c].todo \ call[c].changed) \ {i}
  BY DEF TypeOK, CallStates
<1> HIDE DEF mine
<1>5. Touched(i, others) \in [Calls -> CallStates]
  BY TouchedCalls
<1>6. call' \in [Calls -> CallStates]
  BY <1>1, <1>3, <1>5
<1>7. call'[c] = mine
  BY <1>1, <1>5
<1>8. ASSUME NEW d \in others PROVE GoesOn(d, i)
  <2>1. call'[d] = Touched(i, others)[d]
    BY <1>1, <1>5
  <2> QED
    BY <2>1, TouchedCalls DEF GoesOn
<1>9. Proceeds(i)
  BY <1>4, <1>7, <1>8 DEF Proceeds, GoesOn
<1> QED
  BY <1>6, <1>9

\* An invoice written over a change it had not seen is remembered as such.
LEMMA WriteStale ==
  ASSUME TypeOK, NEW c \in Calls, NEW i \in Invoices, i \in call[c].todo, Write(c, i)
  PROVE  /\ stale \subseteq stale'
         /\ stale' \subseteq Invoices \X Kinds
         /\ i \in call[c].changed /\ call[c].pc \in {"edit", "void", "amend"}
              => <<i, call[c].pc>> \in stale'
BY DEF Write, TypeOK, CallStates

\* Reading and ending leave every row alone.
Rows == <<invoice, money, stockVars, books, stale>>

LEMMA ReadCalls ==
  ASSUME TypeOK, NEW c \in Calls, NEW row \in CallStates, Read(c, row)
  PROVE  /\ call' \in [Calls -> CallStates] /\ UNCHANGED Rows
         /\ \A d \in Calls : call'[d] = IF d = c THEN row ELSE call[d]
BY DEF Read, TypeOK, Rows

-----------------------------------------------------------------------------
(* Every step keeps the types *)

LEMMA TypeInit == Init => TypeOK
<1>1. NewBooks(Refs) \in BooksOver(Refs)
  BY DEF NewBooks, BooksOver
<1> QED
  BY <1>1, ConstantTypes, BoundsAssumption DEF Init, TypeOK, Nothing

\* Requests that look or end change no row.
LEMMA TypeLooking ==
  ASSUME TypeOK, UNCHANGED Rows, call' \in [Calls -> CallStates]
  PROVE  TypeOK'
BY DEF Rows, stockVars, TypeOK

Looks == UNCHANGED Rows /\ call' \in [Calls -> CallStates]

\* What a request notes of the rows it read, handler by handler.
EditRow(i, qty) == [Idle EXCEPT !.pc = "edit", !.todo = {i}, !.qty = qty,
                                !.old = StockOf(invoice[i])]
VoidRow(chosen) == [Idle EXCEPT !.pc = "void", !.todo = chosen]
PayRow(i, amount) == [Idle EXCEPT !.pc = "pay", !.todo = {i}, !.amount = amount]
AmendRow(m, amount) ==
    [Idle EXCEPT !.pc = "amend", !.todo = {money[m].invoice}, !.money = m, !.amount = amount,
                 !.old = [p \in Parts |-> money[m].amount]]
RefundRow(i, amount) == [Idle EXCEPT !.pc = "refund", !.todo = {i}, !.amount = amount]

LEMMA RowTypes ==
  ASSUME TypeOK
  PROVE  /\ \A i \in Invoices, qty \in Quantities :
              "edit" \in Kinds => EditRow(i, qty) \in CallStates
         /\ \A chosen \in SUBSET Invoices : "void" \in Kinds => VoidRow(chosen) \in CallStates
         /\ \A i \in Invoices, n \in Nat : "pay" \in Kinds => PayRow(i, n) \in CallStates
         /\ \A m \in Money, n \in Nat : "amend" \in Kinds => AmendRow(m, n) \in CallStates
         /\ \A i \in Invoices, n \in Nat : "refund" \in Kinds => RefundRow(i, n) \in CallStates
<1>1. \A i \in Invoices : StockOf(invoice[i]) \in Quantities
  BY StockOfRow DEF TypeOK
<1>2. \A m \in Money : money[m].invoice \in Invoices /\ [p \in Parts |-> money[m].amount] \in Quantities
  BY DEF TypeOK, MoneyRows, Quantities
<1> QED
  BY <1>1, <1>2, ConstantTypes
  DEF EditRow, VoidRow, PayRow, AmendRow, RefundRow, CallStates

\* A read is one of the five, and it found what its handler asks for.
Reads(c, row) ==
    \/ \E i \in Invoices, qty \in Quantities :
         row = EditRow(i, qty) /\ invoice[i].status = "ISSUED"
    \/ \E chosen \in SUBSET Invoices : row = VoidRow(chosen) /\ \A i \in chosen : Live(i)
    \/ \E i \in Invoices, n \in Nat \ {0} : row = PayRow(i, n) /\ Live(i)
    \/ \E m \in Money, n \in Nat : /\ row = AmendRow(m, n) /\ n # money[m].amount
                                   /\ money[m].kind \in TakesIn \cup {"jobrefund"}
    \/ \E i \in Invoices, n \in Nat \ {0} : row = RefundRow(i, n) /\ Live(i)

ReadsFor(c) ==
    \E row \in CallStates :
        /\ Reads(c, row) /\ Looks
        /\ \A d \in Calls : call'[d] = IF d = c THEN row ELSE call[d]

LEMMA LookSteps ==
  ASSUME TypeOK, NEW c \in Calls
  PROVE  /\ \A i \in Invoices, qty \in Bags : ReadForEdit(c, i, qty) => ReadsFor(c)
         /\ \A chosen \in SUBSET Invoices : ReadForVoid(c, chosen) => ReadsFor(c)
         /\ \A i \in Invoices, amount \in Amounts : ReadForPayment(c, i, amount) => ReadsFor(c)
         /\ \A m \in Money, amount \in Amounts : ReadForAmend(c, m, amount) => ReadsFor(c)
         /\ \A i \in Invoices, amount \in Amounts : ReadForRefund(c, i, amount) => ReadsFor(c)
<1> USE FormTypes
<1>1. ASSUME NEW row \in CallStates, Reads(c, row), Read(c, row) PROVE ReadsFor(c)
  BY <1>1, ReadCalls DEF ReadsFor, Looks
<1>2. ASSUME NEW i \in Invoices, NEW qty \in Bags, ReadForEdit(c, i, qty) PROVE ReadsFor(c)
  <2>1. Read(c, EditRow(i, qty)) /\ invoice[i].status = "ISSUED"
    BY <1>2 DEF ReadForEdit, EditRow
  <2>2. EditRow(i, qty) \in CallStates
    BY <2>1, RowTypes DEF Read, EditRow, Idle
  <2> QED
    BY <1>1, <2>1, <2>2 DEF Reads
<1>3. ASSUME NEW chosen \in SUBSET Invoices, ReadForVoid(c, chosen) PROVE ReadsFor(c)
  <2>1. Read(c, VoidRow(chosen)) /\ \A i \in chosen : Live(i)
    BY <1>3 DEF ReadForVoid, VoidRow, Voidable
  <2>2. VoidRow(chosen) \in CallStates
    BY <2>1, RowTypes DEF Read, VoidRow, Idle
  <2> QED
    BY <1>1, <2>1, <2>2 DEF Reads
<1>4. ASSUME NEW i \in Invoices, NEW n \in Amounts, ReadForPayment(c, i, n) PROVE ReadsFor(c)
  <2>1. Read(c, PayRow(i, n)) /\ Live(i)
    BY <1>4 DEF ReadForPayment, PayRow, WithinBalance
  <2>2. PayRow(i, n) \in CallStates
    BY <2>1, RowTypes DEF Read, PayRow, Idle
  <2> QED
    BY <1>1, <2>1, <2>2 DEF Reads
<1>5. ASSUME NEW m \in Money, NEW n \in Amounts, ReadForAmend(c, m, n) PROVE ReadsFor(c)
  <2>1. /\ Read(c, AmendRow(m, n)) /\ n # money[m].amount
        /\ money[m].kind \in TakesIn \cup {"jobrefund"}
    BY <1>5 DEF ReadForAmend, AmendRow
  <2>2. AmendRow(m, n) \in CallStates
    BY <2>1, RowTypes DEF Read, AmendRow, Idle
  <2> QED
    BY <1>1, <2>1, <2>2 DEF Reads
<1>6. ASSUME NEW i \in Invoices, NEW n \in Amounts, ReadForRefund(c, i, n) PROVE ReadsFor(c)
  <2>1. Read(c, RefundRow(i, n)) /\ Live(i)
    BY <1>6 DEF ReadForRefund, RefundRow
  <2>2. RefundRow(i, n) \in CallStates
    BY <2>1, RowTypes DEF Read, RefundRow, Idle
  <2> QED
    BY <1>1, <2>1, <2>2 DEF Reads
<1> QED
  BY <1>2, <1>3, <1>4, <1>5, <1>6

EndsFor(c) ==
    Looks /\ \A d \in Calls : call'[d] = IF d = c THEN Idle ELSE call[d]

LEMMA EndStep ==
  ASSUME TypeOK, NEW c \in Calls, EndCall(c)
  PROVE  EndsFor(c)
BY ConstantTypes DEF EndCall, EndsFor, Looks, Rows, TypeOK

-----------------------------------------------------------------------------
(* Steps that write on an invoice *)

\* Invoice i is written, and what others had read of it no longer stands.
Works(i) ==
    /\ TypeOK' /\ Proceeds(i) /\ stale \subseteq stale'
    /\ \A j \in Invoices \ {i} : invoice'[j] = invoice[j]

\* Types of a bag of units that leaves or comes back.
LEMMA DifferenceType ==
  ASSUME NEW a \in Quantities, NEW b \in Quantities
  PROVE  Minus(a, b) \in [Parts -> Int] /\ a \in [Parts -> Int]
BY DEF Minus, Quantities

LEMMA IssueWorks ==
  ASSUME TypeOK, NEW i \in Invoices, NEW qty \in Bags, CreateInvoice(i, qty)
  PROVE  /\ Works(i) /\ stale' = stale /\ UNCHANGED <<money, books>> /\ Move(i, Stock(qty))
         /\ invoice[i].status = "NONE" /\ Value(qty) > 0
         /\ invoice'[i].status = "ISSUED" /\ invoice'[i].bills = "goods"
         /\ invoice'[i].paid = 0 /\ invoice'[i].qty = qty /\ Stock(qty) \in [Parts -> Int]
<1> DEFINE new == [NewInvoice EXCEPT !.status = "ISSUED", !.qty = qty]
<1>1. qty \in Quantities /\ Stock(qty) \in [Parts -> Int]
  BY FormTypes, StockType, DifferenceType, ConstantTypes
<1>2. /\ new \in InvoiceRows /\ new.status = "ISSUED" /\ new.bills = "goods"
      /\ new.paid = 0 /\ new.qty = qty
  BY <1>1, ConstantTypes DEF InvoiceRows, NewInvoice
<1>3. /\ invoice' = [invoice EXCEPT ![i] = new] /\ Move(i, Stock(qty))
      /\ invoice[i].status = "NONE" /\ Value(qty) > 0
      /\ UNCHANGED <<money, books>> /\ AtOnce("create", i)
  BY DEF CreateInvoice
<1>4. call' \in [Calls -> CallStates] /\ Proceeds(i) /\ stale' = stale
  BY <1>3, AtOnceCalls
<1>5. onHand' \in [Parts -> Int] /\ moved' \in [Invoices -> [Parts -> Int]]
  BY <1>1, <1>3, MoveType
<1> HIDE DEF new
<1>6. TypeOK'
  BY <1>2, <1>3, <1>4, <1>5 DEF TypeOK
<1> QED
  BY <1>1, <1>2, <1>3, <1>4, <1>6 DEF Works, TypeOK

LEMMA ConvertWorks ==
  ASSUME TypeOK, NEW i \in Invoices, NEW qty \in Bags, ConvertQuotation(i, qty)
  PROVE  /\ Works(i) /\ stale' = stale /\ UNCHANGED <<money, books, onHand, moved>>
         /\ invoice[i].status = "NONE" /\ Value(qty) > 0
         /\ invoice'[i].status = "ISSUED" /\ invoice'[i].bills = "job"
         /\ invoice'[i].paid = 0 /\ invoice'[i].qty = qty
<1> DEFINE new == [NewInvoice EXCEPT !.status = "ISSUED", !.qty = qty, !.bills = "job"]
<1>1. qty \in Quantities
  BY FormTypes
<1>2. /\ new \in InvoiceRows /\ new.status = "ISSUED" /\ new.bills = "job"
      /\ new.paid = 0 /\ new.qty = qty
  BY <1>1, ConstantTypes DEF InvoiceRows, NewInvoice
<1>3. /\ invoice' = [invoice EXCEPT ![i] = new]
      /\ invoice[i].status = "NONE" /\ Value(qty) > 0
      /\ UNCHANGED <<money, books, onHand, moved>> /\ AtOnce("convert", i)
  BY DEF ConvertQuotation, stockVars
<1>4. call' \in [Calls -> CallStates] /\ Proceeds(i) /\ stale' = stale
  BY <1>3, AtOnceCalls
<1> HIDE DEF new
<1>5. TypeOK'
  BY <1>2, <1>3, <1>4 DEF TypeOK
<1> QED
  BY <1>2, <1>3, <1>4, <1>5 DEF Works, TypeOK

LEMMA EditWorks ==
  ASSUME TypeOK, NEW c \in Calls, NEW i \in Invoices, WriteEdit(c, i)
  PROVE  /\ Works(i) /\ UNCHANGED <<money, books>>
         /\ Move(i, Minus(Stock(call[c].qty), call[c].old))
         /\ Minus(Stock(call[c].qty), call[c].old) \in [Parts -> Int]
         /\ call[c].pc = "edit" /\ i \in call[c].todo
         /\ i \in call[c].changed => <<i, "edit">> \in stale'
         /\ invoice'[i] = Sync(Rewrite(invoice[i], call[c].qty), Paid(money, i))
<1> DEFINE row == Rewrite(invoice[i], call[c].qty)
           new == Sync(row, Paid(money, i))
           more == Minus(Stock(call[c].qty), call[c].old)
<1>1. call[c].qty \in Quantities /\ call[c].old \in Quantities
  BY DEF TypeOK, CallStates
<1>2. row \in InvoiceRows
  BY <1>1, RewriteType DEF TypeOK
<1>3. new \in InvoiceRows
  BY <1>2, SyncType, PaidType DEF TypeOK
<1>4. /\ invoice' = [invoice EXCEPT ![i] = new] /\ Move(i, more)
      /\ call[c].pc = "edit" /\ i \in call[c].todo
      /\ UNCHANGED <<money, books>> /\ Write(c, i)
  BY DEF WriteEdit
<1>5. call' \in [Calls -> CallStates] /\ Proceeds(i)
  BY <1>4, WriteCalls
<1>6. /\ stale \subseteq stale' /\ stale' \subseteq Invoices \X Kinds
      /\ i \in call[c].changed => <<i, "edit">> \in stale'
  BY <1>4, WriteStale
<1>7. more \in [Parts -> Int]
  BY <1>1, StockType, DifferenceType
<1> HIDE DEF new, more
<1>8. onHand' \in [Parts -> Int] /\ moved' \in [Invoices -> [Parts -> Int]]
  BY <1>4, <1>7, MoveType
<1>9. TypeOK'
  BY <1>3, <1>4, <1>5, <1>6, <1>8 DEF TypeOK
<1> QED
  BY <1>4, <1>5, <1>6, <1>7, <1>9 DEF Works, TypeOK, new, more

LEMMA VoidWorks ==
  ASSUME TypeOK, NEW c \in Calls, NEW i \in Invoices, VoidInvoice(c, i)
  PROVE  /\ Works(i) /\ UNCHANGED <<money, books>>
         /\ Move(i, Minus(Nothing, Restored(invoice[i])))
         /\ Minus(Nothing, Restored(invoice[i])) \in [Parts -> Int]
         /\ call[c].pc = "void" /\ i \in call[c].todo
         /\ i \in call[c].changed => <<i, "void">> \in stale'
         /\ invoice'[i].status = "VOID" /\ invoice'[i].bills = invoice[i].bills
         /\ invoice'[i].edits = invoice[i].edits
<1> DEFINE back == Minus(Nothing, Restored(invoice[i]))
<1>1. invoice[i] \in InvoiceRows /\ Restored(invoice[i]) \in Quantities
  BY StockOfRow DEF TypeOK
<1>2. /\ invoice' = [invoice EXCEPT ![i].status = "VOID"] /\ Move(i, back)
      /\ call[c].pc = "void" /\ i \in call[c].todo
      /\ UNCHANGED <<money, books>> /\ Write(c, i)
  BY DEF VoidInvoice, Restore
<1>3. call' \in [Calls -> CallStates] /\ Proceeds(i)
  BY <1>2, WriteCalls
<1>4. /\ stale \subseteq stale' /\ stale' \subseteq Invoices \X Kinds
      /\ i \in call[c].changed => <<i, "void">> \in stale'
  BY <1>2, WriteStale
<1>5. back \in [Parts -> Int]
  BY <1>1, DifferenceType, ConstantTypes
<1> HIDE DEF back
<1>6. onHand' \in [Parts -> Int] /\ moved' \in [Invoices -> [Parts -> Int]]
  BY <1>2, <1>5, MoveType
<1>7. invoice' \in [Invoices -> InvoiceRows]
  BY <1>1, <1>2 DEF InvoiceRows, TypeOK
<1>8. TypeOK'
  BY <1>2, <1>3, <1>4, <1>6, <1>7 DEF TypeOK
<1> QED
  BY <1>1, <1>2, <1>3, <1>4, <1>5, <1>8 DEF Works, TypeOK, back, InvoiceRows

\* Money rows change and the invoice is synced with what they come to.
Synced(i, row) == invoice' = [invoice EXCEPT ![i] = Sync(row, Paid(money', i))]

LEMMA SyncWorks ==
  ASSUME TypeOK, NEW i \in Invoices, NEW row \in InvoiceRows, Synced(i, row),
         money' \in [Money -> MoneyRows], books' \in BooksOver(Refs), UNCHANGED stockVars,
         call' \in [Calls -> CallStates], Proceeds(i),
         stale \subseteq stale', stale' \subseteq Invoices \X Kinds
  PROVE  Works(i) /\ invoice'[i] = Sync(row, Paid(money', i))
<1>1. Sync(row, Paid(money', i)) \in InvoiceRows
  BY SyncType, PaidType
<1>2. TypeOK'
  BY <1>1 DEF Synced, TypeOK, stockVars
<1> QED
  BY <1>2 DEF Works, Synced, TypeOK

\* A row of money is written once.
LEMMA NewMoneyType ==
  ASSUME TypeOK, NEW m \in Money, NEW kind \in TakesIn \cup PaysOut, NEW i \in Invoices,
         NEW amount \in Nat, NewMoney(m, kind, i, amount)
  PROVE  /\ money' \in [Money -> MoneyRows] /\ money[m].kind = "none"
         /\ money'[m] = [kind |-> kind, invoice |-> i, amount |-> amount]
         /\ \A o \in Money \ {m} : money'[o] = money[o]
         /\ m \in Refs
BY DEF NewMoney, TypeOK, MoneyRows, Refs

LEMMA PayWorks ==
  ASSUME TypeOK, NEW c \in Calls, NEW i \in Invoices, NEW m \in Money, WritePayment(c, i, m)
  PROVE  /\ Works(i) /\ UNCHANGED stockVars
         /\ NewMoney(m, "payment", i, call[c].amount) /\ call[c].amount \in Nat
         /\ books' = Post(books, m, call[c].amount)
         /\ call[c].pc = "pay" /\ i \in call[c].todo
         /\ invoice'[i] = Sync(invoice[i], Paid(money', i))
<1>1. /\ NewMoney(m, "payment", i, call[c].amount) /\ books' = Post(books, m, call[c].amount)
      /\ call[c].pc = "pay" /\ i \in call[c].todo /\ Write(c, i)
      /\ Synced(i, invoice[i]) /\ UNCHANGED stockVars
  BY DEF WritePayment, SyncInvoice, Synced
<1>2. call[c].amount \in Nat /\ invoice[i] \in InvoiceRows
  BY DEF TypeOK, CallStates
<1>3. money' \in [Money -> MoneyRows] /\ m \in Refs
  BY <1>1, <1>2, NewMoneyType DEF TakesIn
<1>4. books' \in BooksOver(Refs)
  BY <1>1, <1>2, <1>3, PostType DEF TypeOK
<1>5. /\ call' \in [Calls -> CallStates] /\ Proceeds(i)
      /\ stale \subseteq stale' /\ stale' \subseteq Invoices \X Kinds
  BY <1>1, WriteCalls, WriteStale
<1> QED
  BY <1>1, <1>2, <1>3, <1>4, <1>5, SyncWorks

LEMMA RefundWorks ==
  ASSUME TypeOK, NEW c \in Calls, NEW i \in Invoices, NEW m \in Money, WriteRefund(c, i, m)
  PROVE  /\ Works(i) /\ UNCHANGED stockVars
         /\ NewMoney(m, "refund", i, call[c].amount) /\ call[c].amount \in Nat
         /\ books' = Post(books, m, -call[c].amount)
         /\ call[c].pc = "refund" /\ i \in call[c].todo
         /\ invoice'[i] = Sync(invoice[i], Paid(money', i))
         /\ invoice'[i].paid >= 0
<1>1. /\ NewMoney(m, "refund", i, call[c].amount) /\ books' = Post(books, m, -call[c].amount)
      /\ call[c].pc = "refund" /\ i \in call[c].todo /\ Write(c, i)
      /\ Synced(i, invoice[i]) /\ UNCHANGED stockVars /\ invoice'[i].paid >= 0
  BY DEF WriteRefund, SyncInvoice, Synced, Left
<1>2. call[c].amount \in Nat /\ -call[c].amount \in Int /\ invoice[i] \in InvoiceRows
  BY DEF TypeOK, CallStates
<1>3. money' \in [Money -> MoneyRows] /\ m \in Refs
  BY <1>1, <1>2, NewMoneyType DEF PaysOut
<1>4. books' \in BooksOver(Refs)
  BY <1>1, <1>2, <1>3, PostType DEF TypeOK
<1>5. /\ call' \in [Calls -> CallStates] /\ Proceeds(i)
      /\ stale \subseteq stale' /\ stale' \subseteq Invoices \X Kinds
  BY <1>1, WriteCalls, WriteStale
<1> QED
  BY <1>1, <1>2, <1>3, <1>4, <1>5, SyncWorks

\* The invoice of a job as its handler composes it again.
Composed(i, qty) ==
    [invoice[i] EXCEPT !.bills = "job", !.qty = qty, !.edits = 0,
                       !.status = IF invoice[i].status = "NONE" THEN "ISSUED" ELSE invoice[i].status]

LEMMA JobWorks ==
  ASSUME TypeOK, NEW i \in Invoices, NEW qty \in Bags, NEW m \in Money, NEW amount \in Amounts,
         NEW kind \in {"payment", "jobrefund", "adjustment"}, NEW confirmed \in BOOLEAN,
         RecordClientPayment(i, qty, m, kind, amount, confirmed)
  PROVE  /\ Works(i) /\ stale' = stale /\ UNCHANGED stockVars
         /\ NewMoney(m, kind, i, amount)
         /\ books' = IF kind = "adjustment" THEN books ELSE Post(books, m, Signed(money'[m]))
         /\ invoice[i].bills = "job" \/ invoice[i].status = "NONE"
         /\ kind = "jobrefund" => Paid(money, i) - amount >= 0
         /\ qty \in Quantities /\ Composed(i, qty) \in InvoiceRows
         /\ invoice'[i] = Sync(Composed(i, qty), Paid(money', i))
<1>1. /\ NewMoney(m, kind, i, amount)
      /\ books' = IF kind = "adjustment" THEN books ELSE Post(books, m, Signed(money'[m]))
      /\ invoice[i].bills = "job" \/ invoice[i].status = "NONE"
      /\ UNCHANGED stockVars /\ AtOnce("job", i)
  BY DEF RecordClientPayment
<1>2. kind = "jobrefund" => Paid(money, i) - amount >= 0
  <2>1. amount \in Nat /\ Paid(money, i) \in Int
    BY FormTypes, PaidType DEF TypeOK
  <2>2. Covered(i, qty, kind, amount, confirmed)
    BY DEF RecordClientPayment
  <2> QED
    BY <2>1, <2>2 DEF Covered
<1>3. Synced(i, Composed(i, qty))
  <2> DEFINE composed == [invoice[i] EXCEPT !.bills = "job", !.qty = qty, !.edits = 0]
             row == IF composed.status = "NONE" THEN [composed EXCEPT !.status = "ISSUED"] ELSE composed
  <2>1. row = Composed(i, qty)
    BY DEF TypeOK, InvoiceRows, Composed
  <2>2. invoice' = [invoice EXCEPT ![i] = Sync(row, Paid(money', i))]
    BY DEF RecordClientPayment
  <2> HIDE DEF row
  <2> QED
    BY <2>1, <2>2 DEF Synced
<1>4. qty \in Quantities /\ amount \in Nat /\ kind \in TakesIn \cup PaysOut
  BY FormTypes DEF TakesIn, PaysOut
<1>5. Composed(i, qty) \in InvoiceRows
  BY <1>4 DEF TypeOK, InvoiceRows, Composed
<1>6. money' \in [Money -> MoneyRows] /\ m \in Refs
  BY <1>1, <1>4, NewMoneyType
<1>7. books' \in BooksOver(Refs)
  <2>1. Signed(money'[m]) \in Int
    BY <1>6, PaidType
  <2> QED
    BY <1>1, <1>6, <2>1, PostType DEF TypeOK
<1>8. call' \in [Calls -> CallStates] /\ Proceeds(i) /\ stale' = stale /\ stale \subseteq Invoices \X Kinds
  BY <1>1, AtOnceCalls DEF TypeOK
<1> QED
  BY <1>1, <1>2, <1>3, <1>4, <1>5, <1>6, <1>7, <1>8, SyncWorks

LEMMA AmendWorks ==
  ASSUME TypeOK, NEW c \in Calls, NEW i \in Invoices, WriteAmend(c, i)
  PROVE  LET m == call[c].money
             k == Cardinality(Adjusted(m)) + 1 IN
         /\ Works(i) /\ UNCHANGED stockVars
         /\ m \in Money /\ k \in 1..MaxEdits /\ Cardinality(Adjusted(m)) = k - 1
         /\ call[c].amount \in Nat /\ call[c].old[SomePart] \in Nat
         /\ \A o \in Money \ {m} : money'[o] = money[o]
         /\ IF money[m].kind = "gone" THEN money'[m] = money[m]
            ELSE /\ money'[m].kind = money[m].kind /\ money'[m].invoice = money[m].invoice
                 /\ money'[m].amount = call[c].amount
         /\ books' = Post(books, <<m, k>>, call[c].amount - call[c].old[SomePart])
         /\ call[c].pc = "amend" /\ i \in call[c].todo
         /\ i \in call[c].changed => <<i, "amend">> \in stale'
         /\ invoice'[i] = Sync(invoice[i], Paid(money', i))
<1> DEFINE m == call[c].money
           k == Cardinality(Adjusted(m)) + 1
           delta == call[c].amount - call[c].old[SomePart]
<1>1. /\ m \in Money /\ call[c].amount \in Nat /\ call[c].old[SomePart] \in Nat
      /\ invoice[i] \in InvoiceRows
  BY ConstantTypes DEF TypeOK, CallStates, Quantities
<1>2. /\ Cardinality(Adjusted(m)) < MaxEdits
      /\ money' = IF money[m].kind = "gone" THEN money
                  ELSE [money EXCEPT ![m].amount = call[c].amount]
      /\ books' = Post(books, <<m, k>>, delta)
      /\ call[c].pc = "amend" /\ i \in call[c].todo /\ Write(c, i)
      /\ Synced(i, invoice[i]) /\ UNCHANGED stockVars
  BY DEF WriteAmend, Adjustment, SyncInvoice, Synced
<1>3. k \in 1..MaxEdits /\ Cardinality(Adjusted(m)) = k - 1
  <2>1. IsFiniteSet(Adjusted(m))
    <3>1. IsFiniteSet(1..MaxEdits) /\ Adjusted(m) \subseteq 1..MaxEdits
      BY BoundsAssumption, FS_Interval DEF Adjusted
    <3> QED
      BY <3>1, FS_Subset
  <2> QED
    BY <1>2, <2>1, BoundsAssumption, FS_CardinalityType
<1>4. money' \in [Money -> MoneyRows]
  BY <1>1, <1>2 DEF TypeOK, MoneyRows
<1>5. /\ \A o \in Money \ {m} : money'[o] = money[o]
      /\ IF money[m].kind = "gone" THEN money'[m] = money[m]
         ELSE /\ money'[m].kind = money[m].kind /\ money'[m].invoice = money[m].invoice
              /\ money'[m].amount = call[c].amount
  BY <1>1, <1>2 DEF TypeOK, MoneyRows
<1> HIDE DEF k, m
<1>6. books' \in BooksOver(Refs)
  <2>1. <<m, k>> \in Refs /\ delta \in Int
    BY <1>1, <1>3 DEF Refs, Adjustments
  <2> QED
    BY <1>2, <2>1, PostType DEF TypeOK
<1>7. /\ call' \in [Calls -> CallStates] /\ Proceeds(i)
      /\ stale \subseteq stale' /\ stale' \subseteq Invoices \X Kinds
      /\ i \in call[c].changed => <<i, "amend">> \in stale'
  BY <1>2, WriteCalls, WriteStale
<1>8. Works(i) /\ invoice'[i] = Sync(invoice[i], Paid(money', i))
  BY <1>1, <1>2, <1>4, <1>6, <1>7, SyncWorks
<1> QED
  BY <1>1, <1>2, <1>3, <1>5, <1>7, <1>8 DEF k, m

LEMMA DeleteWorks ==
  ASSUME TypeOK, NEW m \in Money, DeleteMoney(m)
  PROVE  LET i == money[m].invoice IN
         /\ i \in Invoices /\ Works(i) /\ stale' = stale /\ UNCHANGED stockVars
         /\ money[m].kind \in TakesIn \cup PaysOut
         /\ money'[m].kind = "gone" /\ \A o \in Money \ {m} : money'[o] = money[o]
         /\ books' = Reverse(books, m)
         /\ invoice'[i] = Sync(invoice[i], Paid(money', i))
<1> DEFINE i == money[m].invoice
           gone == [NoMoney EXCEPT !.kind = "gone"]
<1>1. i \in Invoices /\ invoice[i] \in InvoiceRows /\ m \in Refs
  BY DEF TypeOK, MoneyRows, Refs
<1>2. gone \in MoneyRows /\ gone.kind = "gone"
  BY ConstantTypes DEF NoMoney, MoneyRows
<1>3. /\ money[m].kind \in TakesIn \cup PaysOut
      /\ money' = [money EXCEPT ![m] = gone] /\ books' = Reverse(books, m)
      /\ Synced(i, invoice[i]) /\ UNCHANGED stockVars /\ AtOnce("erase", i)
  BY DEF DeleteMoney, SyncInvoice, Synced
<1> HIDE DEF gone
<1>4. /\ money' \in [Money -> MoneyRows] /\ money'[m].kind = "gone"
      /\ \A o \in Money \ {m} : money'[o] = money[o]
  BY <1>2, <1>3 DEF TypeOK
<1>5. books' \in BooksOver(Refs)
  BY <1>1, <1>3, PostType DEF TypeOK
<1>6. call' \in [Calls -> CallStates] /\ Proceeds(i) /\ stale' = stale /\ stale \subseteq Invoices \X Kinds
  BY <1>1, <1>3, AtOnceCalls DEF TypeOK
<1>7. Works(i) /\ invoice'[i] = Sync(invoice[i], Paid(money', i))
  BY <1>1, <1>3, <1>4, <1>5, <1>6, SyncWorks
<1> QED
  BY <1>1, <1>3, <1>4, <1>6, <1>7

\* Which step it is: one that looks, or one of the nine that write on an invoice.
Writes ==
    \/ \E i \in Invoices, qty \in Bags : CreateInvoice(i, qty) \/ ConvertQuotation(i, qty)
    \/ \E c \in Calls, i \in Invoices : WriteEdit(c, i) \/ VoidInvoice(c, i) \/ WriteAmend(c, i)
    \/ \E c \in Calls, i \in Invoices, m \in Money : WritePayment(c, i, m) \/ WriteRefund(c, i, m)
    \/ \E i \in Invoices, qty \in Bags, m \in Money, amount \in Amounts,
          kind \in {"payment", "jobrefund", "adjustment"}, confirmed \in BOOLEAN :
          RecordClientPayment(i, qty, m, kind, amount, confirmed)
    \/ \E m \in Money : DeleteMoney(m)

LEMMA Steps ==
  ASSUME TypeOK, [Next]_vars
  PROVE  UNCHANGED vars \/ (\E c \in Calls : ReadsFor(c) \/ EndsFor(c)) \/ Writes
<1>1. ASSUME LineSteps PROVE (\E c \in Calls : ReadsFor(c) \/ EndsFor(c)) \/ Writes
  BY <1>1, LookSteps, EndStep DEF LineSteps, Writes
<1>2. ASSUME MoneySteps PROVE (\E c \in Calls : ReadsFor(c)) \/ Writes
  BY <1>2, LookSteps DEF MoneySteps, Writes
<1> QED
  BY <1>1, <1>2 DEF Next

LEMMA RowsStand == ASSUME TypeOK, [Next]_vars PROVE UNCHANGED Rows \/ Writes
BY Steps DEF vars, stockVars, Rows, ReadsFor, EndsFor, Looks

LEMMA TypeStep == TypeOK /\ [Next]_vars => TypeOK'
<1> SUFFICES ASSUME TypeOK, [Next]_vars PROVE TypeOK'
  OBVIOUS
<1>1. CASE UNCHANGED vars
  BY <1>1 DEF vars, stockVars, TypeOK
<1>2. CASE \E c \in Calls : ReadsFor(c) \/ EndsFor(c)
  BY <1>2, TypeLooking DEF ReadsFor, EndsFor, Looks
<1>3. CASE Writes
  <2>1. \A i : Works(i) => TypeOK'
    BY DEF Works
  <2> QED
    BY <1>3, <2>1, IssueWorks, ConvertWorks, EditWorks, VoidWorks, PayWorks, RefundWorks, JobWorks,
       AmendWorks, DeleteWorks
    DEF Writes
<1> QED
  BY <1>1, <1>2, <1>3, Steps

\* Invoices, payments, the journal and the requests' locals keep their types, for
\* every instance.
THEOREM TypeCorrect == Spec => []TypeOK
BY TypeInit, TypeStep, PTL DEF Spec

-----------------------------------------------------------------------------
(* What requests know of the rows they read *)

PaymentKinds == TakesIn \cup PaysOut

\* A request works on invoices that were there; what it has read of them is so
\* until another writes them, and the receipt it amends is one of its invoice.
ReadsTrue(c) ==
    /\ \A i \in call[c].todo : invoice[i].status # "NONE"
    /\ \A i \in call[c].todo \ call[c].changed :
         /\ call[c].pc = "edit" => /\ invoice[i].status = "ISSUED"
                                     /\ call[c].old = StockOf(invoice[i])
         /\ call[c].pc = "void" => Live(i)
    /\ call[c].pc \in {"pay", "refund"} => call[c].amount > 0
Amends(c) ==
    LET row == money[call[c].money] IN
    call[c].pc = "amend" =>
      /\ call[c].amount # call[c].old[SomePart]
      /\ row.kind \in {"gone", "jobrefund"} \cup TakesIn
      /\ \A i \in call[c].todo : row.kind = "gone" \/ row.invoice = i
      /\ call[c].todo \ call[c].changed # {} =>
           row.kind # "gone" /\ row.amount = call[c].old[SomePart]

RowsKnown == \A m \in Money : money[m].kind \in PaymentKinds => invoice[money[m].invoice].status # "NONE"
Blank ==
    \A i \in Invoices : invoice[i].status = "NONE" =>
        /\ invoice[i].qty = Nothing /\ invoice[i].bills = "goods"
        /\ invoice[i].edits = 0

Known == /\ \A c \in Calls : ReadsTrue(c) /\ Amends(c)
         /\ RowsKnown /\ Blank

LEMMA KnownInit == Init => Known
BY DEF Init, Known, ReadsTrue, Amends, RowsKnown, Blank, Idle, NewInvoice, NoMoney, PaymentKinds,
       TakesIn, PaysOut

\* Only rows of the invoice change, and a row that was written stays what it is
\* until it is gone.
MoneyMoves(i) ==
    \A m \in Money :
        \/ money'[m] = money[m]
        \/ money[m].kind = "none" /\ money'[m].invoice = i
        \/ /\ money[m].kind \in PaymentKinds /\ money[m].invoice = i
           /\ \/ money'[m].kind = "gone"
              \/ money'[m].kind = money[m].kind /\ money'[m].invoice = i

\* The invoice comes out new, synced with its money, or void.
Outcome(i) ==
    \/ /\ invoice[i].status = "NONE" /\ money' = money
       /\ invoice'[i].status = "ISSUED" /\ invoice'[i].paid = 0
       /\ invoice'[i].qty \in Quantities /\ Value(invoice'[i].qty) > 0
    \/ \E row \in InvoiceRows : invoice'[i] = Sync(row, Paid(money', i))
    \/ invoice'[i].status = "VOID"

LEMMA WritesMove ==
  ASSUME TypeOK, Known, Writes
  PROVE  \E i \in Invoices : /\ Works(i) /\ MoneyMoves(i) /\ Outcome(i)
                              /\ invoice'[i].status # "NONE"
<1> DEFINE Moved == \E i \in Invoices : /\ Works(i) /\ MoneyMoves(i) /\ Outcome(i)
                                         /\ invoice'[i].status # "NONE"
<1>1. \A row \in InvoiceRows, paid \in Int : Sync(row, paid).status # "NONE"
  BY SyncType
<1>2. \A i \in Invoices : Works(i) => Paid(money', i) \in Int
  BY PaidType DEF Works, TypeOK
<1>3. \A i \in Invoices : invoice[i] \in InvoiceRows
  BY DEF TypeOK
<1>4. \A i \in Invoices : money' = money => MoneyMoves(i)
  BY DEF MoneyMoves
<1>5. ASSUME NEW i \in Invoices, NEW qty \in Bags, CreateInvoice(i, qty) PROVE Moved
  BY <1>4, <1>5, IssueWorks, FormTypes DEF Outcome
<1>6. ASSUME NEW i \in Invoices, NEW qty \in Bags, ConvertQuotation(i, qty) PROVE Moved
  BY <1>4, <1>6, ConvertWorks, FormTypes DEF Outcome
<1>7. ASSUME NEW c \in Calls, NEW i \in Invoices, WriteEdit(c, i) PROVE Moved
  <2>1. /\ Works(i) /\ money' = money
        /\ invoice'[i] = Sync(Rewrite(invoice[i], call[c].qty), Paid(money, i))
    BY <1>7, EditWorks
  <2>2. Rewrite(invoice[i], call[c].qty) \in InvoiceRows
    <3>1. call[c].qty \in Quantities
      BY DEF TypeOK, CallStates
    <3> QED
      BY <3>1, RewriteType DEF TypeOK
  <2> QED
    BY <1>1, <1>2, <1>4, <2>1, <2>2 DEF Outcome
<1>8. ASSUME NEW c \in Calls, NEW i \in Invoices, VoidInvoice(c, i) PROVE Moved
  BY <1>4, <1>8, VoidWorks DEF Outcome
<1>9. ASSUME NEW m \in Money, NEW i \in Invoices, NEW kind \in PaymentKinds, NEW n \in Nat,
             NewMoney(m, kind, i, n)
      PROVE  MoneyMoves(i)
  <2>1. kind \in TakesIn \cup PaysOut
    BY DEF PaymentKinds
  <2>2. /\ money[m].kind = "none" /\ money'[m] = [kind |-> kind, invoice |-> i, amount |-> n]
        /\ \A o \in Money \ {m} : money'[o] = money[o]
    BY <1>9, <2>1, NewMoneyType
  <2> QED
    BY <2>2 DEF MoneyMoves
<1>10. ASSUME NEW c \in Calls, NEW i \in Invoices, NEW m \in Money, WritePayment(c, i, m) PROVE Moved
  <2>1. Works(i) /\ MoneyMoves(i) /\ invoice'[i] = Sync(invoice[i], Paid(money', i))
    BY <1>9, <1>10, PayWorks DEF PaymentKinds, TakesIn
  <2> QED
    BY <1>1, <1>2, <1>3, <2>1 DEF Outcome
<1>11. ASSUME NEW c \in Calls, NEW i \in Invoices, NEW m \in Money, WriteRefund(c, i, m) PROVE Moved
  <2>1. Works(i) /\ MoneyMoves(i) /\ invoice'[i] = Sync(invoice[i], Paid(money', i))
    BY <1>9, <1>11, RefundWorks DEF PaymentKinds, PaysOut
  <2> QED
    BY <1>1, <1>2, <1>3, <2>1 DEF Outcome
<1>12. ASSUME NEW i \in Invoices, NEW qty \in Bags, NEW m \in Money, NEW amount \in Amounts,
              NEW kind \in {"payment", "jobrefund", "adjustment"}, NEW confirmed \in BOOLEAN,
              RecordClientPayment(i, qty, m, kind, amount, confirmed)
       PROVE  Moved
  <2>1. /\ Works(i) /\ NewMoney(m, kind, i, amount) /\ Composed(i, qty) \in InvoiceRows
        /\ invoice'[i] = Sync(Composed(i, qty), Paid(money', i))
    BY <1>12, JobWorks
  <2>2. kind \in PaymentKinds /\ amount \in Nat
    BY FormTypes DEF PaymentKinds, TakesIn, PaysOut
  <2>3. MoneyMoves(i)
    BY <1>9, <2>1, <2>2
  <2> QED
    BY <1>1, <1>2, <2>1, <2>3 DEF Outcome
<1>13. ASSUME NEW c \in Calls, NEW i \in Invoices, WriteAmend(c, i) PROVE Moved
  <2> DEFINE m == call[c].money
  <2>1. /\ Works(i) /\ invoice'[i] = Sync(invoice[i], Paid(money', i))
        /\ m \in Money /\ \A o \in Money \ {m} : money'[o] = money[o]
        /\ IF money[m].kind = "gone" THEN money'[m] = money[m]
           ELSE money'[m].kind = money[m].kind /\ money'[m].invoice = money[m].invoice
        /\ call[c].pc = "amend" /\ i \in call[c].todo
    BY <1>13, AmendWorks
  <2>2. /\ money[m].kind \in {"gone"} \cup PaymentKinds
        /\ money[m].kind = "gone" \/ money[m].invoice = i
    BY <2>1 DEF Known, Amends, PaymentKinds, PaysOut
  <2> HIDE DEF m
  <2>3. MoneyMoves(i)
    BY <2>1, <2>2 DEF MoneyMoves
  <2> QED
    BY <1>1, <1>2, <1>3, <2>1, <2>3 DEF Outcome
<1>14. ASSUME NEW m \in Money, DeleteMoney(m) PROVE Moved
  <2> DEFINE i == money[m].invoice
  <2>1. /\ i \in Invoices /\ Works(i) /\ invoice'[i] = Sync(invoice[i], Paid(money', i))
        /\ money[m].kind \in PaymentKinds /\ money'[m].kind = "gone"
        /\ \A o \in Money \ {m} : money'[o] = money[o]
    BY <1>14, DeleteWorks DEF PaymentKinds
  <2>2. MoneyMoves(i)
    BY <2>1 DEF MoneyMoves
  <2> QED
    BY <1>1, <1>2, <1>3, <2>1, <2>2 DEF Outcome
<1> QED
  BY <1>5, <1>6, <1>7, <1>8, <1>10, <1>11, <1>12, <1>13, <1>14 DEF Writes

\* A request that has just read knows what it read.
LEMMA ReadsKnow ==
  ASSUME TypeOK, Known, NEW c \in Calls, ReadsFor(c)
  PROVE  ReadsTrue(c)' /\ Amends(c)'
<1>1. PICK row \in CallStates : Reads(c, row) /\ Looks /\ call'[c] = row
  BY DEF ReadsFor
<1>2. invoice' = invoice /\ money' = money
  BY <1>1 DEF Looks, Rows
<1> USE DEF ReadsTrue, Amends
<1>3. ASSUME NEW i \in Invoices, NEW qty \in Quantities, row = EditRow(i, qty),
             invoice[i].status = "ISSUED"
      PROVE  ReadsTrue(c)' /\ Amends(c)'
  BY <1>1, <1>2, <1>3 DEF EditRow, Idle
<1>4. ASSUME NEW chosen \in SUBSET Invoices, row = VoidRow(chosen), \A i \in chosen : Live(i)
      PROVE  ReadsTrue(c)' /\ Amends(c)'
  BY <1>1, <1>2, <1>4 DEF VoidRow, Idle, Live
<1>5. ASSUME NEW i \in Invoices, NEW n \in Nat \ {0}, row = PayRow(i, n), Live(i)
      PROVE  ReadsTrue(c)' /\ Amends(c)'
  BY <1>1, <1>2, <1>5 DEF PayRow, Idle, Live
<1>6. ASSUME NEW m \in Money, NEW n \in Nat, row = AmendRow(m, n), n # money[m].amount,
             money[m].kind \in TakesIn \cup {"jobrefund"}
      PROVE  ReadsTrue(c)' /\ Amends(c)'
  <2>1. /\ row.pc = "amend" /\ row.todo = {money[m].invoice} /\ row.money = m /\ row.amount = n
        /\ row.old[SomePart] = money[m].amount
    BY <1>6, ConstantTypes DEF AmendRow, Idle
  <2>2. invoice[money[m].invoice].status # "NONE" /\ money[m].kind # "gone"
    BY <1>6 DEF Known, RowsKnown, PaymentKinds, TakesIn, PaysOut
  <2> QED
    BY <1>1, <1>2, <1>6, <2>1, <2>2
<1>7. ASSUME NEW i \in Invoices, NEW n \in Nat \ {0}, row = RefundRow(i, n), Live(i)
      PROVE  ReadsTrue(c)' /\ Amends(c)'
  BY <1>1, <1>2, <1>7 DEF RefundRow, Idle, Live
<1> QED
  BY <1>1, <1>3, <1>4, <1>5, <1>6, <1>7 DEF Reads

\* What requests know survives what others do.
LEMMA KnownStep == TypeOK /\ Known /\ [Next]_vars => Known'
<1> SUFFICES ASSUME TypeOK, Known, [Next]_vars PROVE Known'
  OBVIOUS
<1>1. ASSUME NEW d \in Calls, UNCHANGED <<invoice, money>>, call'[d] = call[d]
      PROVE  ReadsTrue(d)' /\ Amends(d)'
  BY <1>1 DEF Known, ReadsTrue, Amends, Live
<1>2. ASSUME NEW d \in Calls, call'[d] = Idle PROVE ReadsTrue(d)' /\ Amends(d)'
  BY <1>2 DEF ReadsTrue, Amends, Idle
<1>3. UNCHANGED <<invoice, money>> => RowsKnown' /\ Blank'
  BY DEF Known, RowsKnown, Blank
<1>4. CASE UNCHANGED vars
  BY <1>1, <1>3, <1>4 DEF vars, Known
<1>5. ASSUME NEW c \in Calls, ReadsFor(c) PROVE Known'
  <2>1. UNCHANGED <<invoice, money>> /\ \A d \in Calls \ {c} : call'[d] = call[d]
    BY <1>5 DEF ReadsFor, Looks, Rows
  <2> QED
    BY <1>1, <1>3, <1>5, <2>1, ReadsKnow DEF Known
<1>6. ASSUME NEW c \in Calls, EndsFor(c) PROVE Known'
  <2>1. UNCHANGED <<invoice, money>> /\ \A d \in Calls : call'[d] \in {Idle, call[d]}
    BY <1>6 DEF EndsFor, Looks, Rows
  <2> QED
    BY <1>1, <1>2, <1>3, <2>1 DEF Known
<1>7. CASE Writes
  <2>1. PICK i \in Invoices : Works(i) /\ MoneyMoves(i) /\ invoice'[i].status # "NONE"
    BY <1>7, WritesMove
  <2>2. \A j \in Invoices : j # i => invoice'[j] = invoice[j]
    BY <2>1 DEF Works
  <2>3. \A d \in Calls : call'[d] = Idle \/ GoesOn(d, i)
    BY <2>1 DEF Works, Proceeds
  <2>4. \A d \in Calls : call[d].todo \subseteq Invoices /\ call[d].money \in Money
    BY DEF TypeOK, CallStates
  <2>5. ASSUME NEW d \in Calls, GoesOn(d, i) PROVE ReadsTrue(d)'
    BY <2>1, <2>2, <2>4, <2>5 DEF GoesOn, Known, ReadsTrue, Live
  <2>6. ASSUME NEW d \in Calls, GoesOn(d, i) PROVE Amends(d)'
    <3> DEFINE row == money[call[d].money]
               row2 == money'[call[d].money]
    <3>1. SUFFICES ASSUME call[d].pc = "amend"
                   PROVE  /\ row2.kind \in {"gone", "jobrefund"} \cup TakesIn
                          /\ \A j \in call'[d].todo : row2.kind = "gone" \/ row2.invoice = j
                          /\ call'[d].todo \ call'[d].changed # {} =>
                               row2.kind # "gone" /\ row2.amount = call[d].old[SomePart]
      BY <2>6 DEF GoesOn, Amends, Known
    <3>2. /\ row.kind \in {"gone", "jobrefund"} \cup TakesIn
          /\ \A j \in call[d].todo : row.kind = "gone" \/ row.invoice = j
          /\ call[d].todo \ call[d].changed # {} => row.kind # "gone" /\ row.amount = call[d].old[SomePart]
      BY <3>1 DEF Known, Amends
    <3>3. \/ row2 = row
          \/ /\ row.kind \in PaymentKinds /\ row.invoice = i
             /\ row2.kind = "gone" \/ (row2.kind = row.kind /\ row2.invoice = i)
      <4>1. row.kind # "none" /\ call[d].money \in Money
        BY <2>4, <3>2 DEF TakesIn
      <4> QED
        <5>1. \/ row2 = row
              \/ row.kind = "none" /\ row2.invoice = i
              \/ /\ row.kind \in PaymentKinds /\ row.invoice = i
                 /\ \/ row2.kind = "gone"
                    \/ row2.kind = row.kind /\ row2.invoice = i
          BY <2>1, <4>1, Zenon DEF MoneyMoves
        <5> HIDE DEF row, row2
        <5> QED
          BY <4>1, <5>1
    <3>4. ASSUME call'[d].todo \ call'[d].changed # {}
          PROVE  row2.kind # "gone" /\ row2.amount = call[d].old[SomePart]
      <4>1. PICK j \in call[d].todo \ call[d].changed : j # i
        BY <2>6, <3>4 DEF GoesOn
      <4> QED
        BY <3>2, <3>3, <4>1
    <3>5. call'[d].todo \subseteq call[d].todo
      BY <2>6 DEF GoesOn
    <3> HIDE DEF row, row2
    <3> QED
      BY <3>2, <3>3, <3>4, <3>5
  <2>7. RowsKnown'
    <3> SUFFICES ASSUME NEW m \in Money, money'[m].kind \in PaymentKinds
                 PROVE  invoice'[money'[m].invoice].status # "NONE"
      BY DEF RowsKnown
    <3>1. money'[m].invoice = i \/ money'[m] = money[m]
      BY <2>1 DEF MoneyMoves, PaymentKinds, TakesIn, PaysOut
    <3>2. money[m].invoice \in Invoices
      BY DEF TypeOK, MoneyRows
    <3> QED
      BY <2>1, <2>2, <3>1, <3>2 DEF Known, RowsKnown
  <2>8. Blank'
    BY <2>1, <2>2 DEF Blank, Known
  <2> QED
    BY <1>2, <2>3, <2>5, <2>6, <2>7, <2>8 DEF Known
<1> QED
  BY <1>4, <1>5, <1>6, <1>7, Steps

LEMMA AlwaysKnown == Spec => [](TypeOK /\ Known)
BY TypeInit, TypeStep, KnownInit, KnownStep, PTL DEF Spec

-----------------------------------------------------------------------------
(* What an invoice for goods took follows its lines *)

GoodsOK(j, p) ==
    invoice[j].bills = "goods" /\ ~Unseen(j, {"edit", "void"}) /\ FactorKnown(j, p) =>
        /\ invoice[j].status = "NONE" => moved[j][p] = 0
        /\ Live(j) => moved[j][p] = Stock(invoice[j].qty)[p]
        /\ invoice[j].status = "VOID" => HalfAUnit(moved[j][p])

LEMMA UnseenStays ==
  ASSUME stale \subseteq stale', NEW j, NEW kinds, ~Unseen(j, kinds)'
  PROVE  ~Unseen(j, kinds)
BY DEF Unseen

LEMMA MoveOne ==
  ASSUME TypeOK, NEW i \in Invoices, NEW taken, Move(i, taken)
  PROVE  /\ moved'[i] = Plus(moved[i], taken) /\ \A j \in Invoices \ {i} : moved'[j] = moved[j]
         /\ \A p \in Parts : moved'[i][p] = moved[i][p] + taken[p] /\ moved[i][p] \in Int
BY DEF Move, Plus, TypeOK

\* Syncing neither revives nor voids.
LEMMA SyncGoods ==
  ASSUME TypeOK, Known, NEW i \in Invoices, NEW p \in Parts, GoodsOK(i, p), stale \subseteq stale',
         moved'[i] = moved[i], NEW paid \in Int, invoice'[i] = Sync(invoice[i], paid),
         invoice[i].status # "NONE"
  PROVE  GoodsOK(i, p)'
<1>1. invoice[i] \in InvoiceRows
  BY DEF TypeOK
<1>2. /\ invoice'[i].bills = invoice[i].bills /\ invoice'[i].qty = invoice[i].qty
      /\ invoice'[i].edits = invoice[i].edits /\ invoice'[i].status # "NONE"
      /\ invoice'[i].status = "VOID" <=> invoice[i].status = "VOID"
      /\ Live(i)' <=> invoice[i].status # "VOID"
  BY <1>1, SyncType DEF Live
<1>3. ~Unseen(i, {"edit", "void"})' => ~Unseen(i, {"edit", "void"})
  BY UnseenStays
<1>4. Live(i) <=> invoice[i].status # "VOID"
  BY <1>1 DEF Live, InvoiceRows
<1>5. FactorKnown(i, p)' <=> FactorKnown(i, p)
  BY <1>2, <1>4 DEF FactorKnown
<1> QED
  BY <1>2, <1>3, <1>4, <1>5 DEF GoodsOK

\* An edit books what it changes of the lines it has read: by their factor, or without
\* it once an edit has dropped it.
LEMMA EditGoods ==
  ASSUME TypeOK, Known, NEW c \in Calls, NEW i \in Invoices, WriteEdit(c, i), NEW p \in Parts,
         GoodsOK(i, p)
  PROVE  GoodsOK(i, p)' /\ \A j \in Invoices \ {i} : moved'[j] = moved[j]
<1> DEFINE row == Rewrite(invoice[i], call[c].qty)
           taken == Minus(Stock(call[c].qty), call[c].old)
<1>1. /\ stale \subseteq stale' /\ Move(i, taken)
      /\ call[c].pc = "edit" /\ i \in call[c].todo
      /\ i \in call[c].changed => <<i, "edit">> \in stale'
      /\ invoice'[i] = Sync(row, Paid(money, i))
  BY EditWorks DEF Works
<1>2. /\ moved'[i][p] = moved[i][p] + taken[p] /\ moved[i][p] \in Int
      /\ \A j \in Invoices \ {i} : moved'[j] = moved[j]
  BY <1>1, MoveOne
<1>3. call[c].qty \in Quantities /\ invoice[i] \in InvoiceRows
  BY DEF TypeOK, CallStates
<1>4. /\ row \in InvoiceRows /\ row.qty = call[c].qty /\ row.bills = invoice[i].bills
      /\ row.status = invoice[i].status /\ row.edits = invoice[i].edits + 1
  BY <1>3, RewriteType
<1> HIDE DEF row
<1>5. /\ invoice'[i].bills = invoice[i].bills /\ invoice'[i].qty = call[c].qty
      /\ invoice'[i].edits = invoice[i].edits + 1
      /\ Live(i)' <=> invoice[i].status # "VOID"
      /\ invoice'[i].status \in {"ISSUED", "PAID", "VOID"}
      /\ invoice'[i].status = "VOID" <=> invoice[i].status = "VOID"
  <2>1. Paid(money, i) \in Int
    BY PaidType DEF TypeOK
  <2> QED
    BY <1>1, <1>4, <2>1, SyncType DEF Live
<1>6. GoodsOK(i, p)'
  <2> SUFFICES ASSUME invoice[i].bills = "goods", ~Unseen(i, {"edit", "void"})', FactorKnown(i, p)'
               PROVE  moved'[i][p] = Stock(call[c].qty)[p] /\ Live(i)' /\ invoice'[i].status # "VOID"
    BY <1>5 DEF GoodsOK
  <2>1. i \notin call[c].changed
    BY <1>1 DEF Unseen
  <2>2. invoice[i].status = "ISSUED" /\ call[c].old = StockOf(invoice[i])
    BY <1>1, <2>1 DEF Known, ReadsTrue
  <2>3. ~Unseen(i, {"edit", "void"})
    BY <1>1, UnseenStays
  <2>4. invoice[i].edits \in Nat
    BY <1>3 DEF InvoiceRows
  <2>5. Grains[p] = Plain \/ invoice[i].edits = 0
    BY <1>5, <2>2, <2>4 DEF FactorKnown
  <2>6. moved[i][p] = Stock(invoice[i].qty)[p]
    BY <2>2, <2>3, <2>5 DEF GoodsOK, Live, FactorKnown
  <2>7. call[c].old[p] = Stock(invoice[i].qty)[p]
    BY <1>3, <2>2, <2>5, StockOfRow
  <2>8. taken[p] = Stock(call[c].qty)[p] - moved[i][p] /\ Stock(call[c].qty)[p] \in Int
    BY <1>3, <2>6, <2>7, StockType DEF Minus, Quantities
  <2> HIDE DEF taken
  <2> QED
    BY <1>2, <1>5, <2>2, <2>8
<1> QED
  BY <1>2, <1>6

\* A void puts back what the lines hold, rounded.
LEMMA VoidGoods ==
  ASSUME TypeOK, Known, NEW c \in Calls, NEW i \in Invoices, VoidInvoice(c, i), NEW p \in Parts,
         GoodsOK(i, p)
  PROVE  GoodsOK(i, p)' /\ \A j \in Invoices \ {i} : moved'[j] = moved[j]
<1> DEFINE taken == Minus(Nothing, Restored(invoice[i]))
<1>1. /\ stale \subseteq stale' /\ Move(i, taken)
      /\ call[c].pc = "void" /\ i \in call[c].todo
      /\ i \in call[c].changed => <<i, "void">> \in stale'
      /\ invoice'[i].status = "VOID" /\ invoice'[i].bills = invoice[i].bills
      /\ invoice'[i].edits = invoice[i].edits
  BY VoidWorks DEF Works
<1>2. /\ moved'[i][p] = moved[i][p] + taken[p] /\ moved[i][p] \in Int
      /\ \A j \in Invoices \ {i} : moved'[j] = moved[j]
  BY <1>1, MoveOne
<1>3. invoice[i] \in InvoiceRows /\ Restored(invoice[i]) \in Quantities
  BY StockOfRow DEF TypeOK
<1>4. GoodsOK(i, p)'
  <2> SUFFICES ASSUME invoice[i].bills = "goods", ~Unseen(i, {"edit", "void"})', FactorKnown(i, p)'
               PROVE  HalfAUnit(moved'[i][p])
    BY <1>1 DEF GoodsOK, Live
  <2>1. Live(i)
    <3>1. i \notin call[c].changed
      BY <1>1 DEF Unseen
    <3> QED
      BY <1>1, <3>1 DEF Known, ReadsTrue
  <2>2. invoice[i].edits \in Nat
    BY <1>3 DEF InvoiceRows
  <2>3. Grains[p] = Plain \/ invoice[i].edits = 0
    BY <1>1, <2>2 DEF FactorKnown, Live
  <2>4. moved[i][p] = Stock(invoice[i].qty)[p]
    BY <1>1, <2>1, <2>3, UnseenStays DEF GoodsOK, FactorKnown
  <2>5. StockOf(invoice[i])[p] = Stock(invoice[i].qty)[p]
        /\ HalfAUnit(StockOf(invoice[i])[p] - Restored(invoice[i])[p])
    BY <1>3, <2>3, StockOfRow
  <2>6. taken[p] = -Restored(invoice[i])[p] /\ Restored(invoice[i])[p] \in Int
    BY <1>3 DEF Minus, Nothing, Quantities
  <2>7. moved'[i][p] = StockOf(invoice[i])[p] - Restored(invoice[i])[p]
    BY <1>2, <2>4, <2>5, <2>6
  <2> QED
    BY <2>5, <2>7
<1> QED
  BY <1>2, <1>4

LEMMA GoodsStep == TypeOK /\ Known /\ GoodsFollowInvoice /\ [Next]_vars => GoodsFollowInvoice'
<1> SUFFICES ASSUME TypeOK, Known, GoodsFollowInvoice, [Next]_vars, NEW j \in Invoices,
                    NEW p \in Parts
             PROVE  GoodsOK(j, p)'
  BY DEF GoodsFollowInvoice, GoodsOK
<1>1. \A i \in Invoices : GoodsOK(i, p)
  BY DEF GoodsFollowInvoice, GoodsOK
<1>2. ASSUME invoice'[j] = invoice[j], moved'[j] = moved[j], stale \subseteq stale'
      PROVE  GoodsOK(j, p)'
  BY <1>1, <1>2, UnseenStays DEF GoodsOK, Live, FactorKnown
<1>3. \A i \in Invoices : Works(i) /\ i # j => /\ invoice'[j] = invoice[j] /\ stale \subseteq stale'
  BY DEF Works
<1>4. CASE UNCHANGED Rows
  BY <1>2, <1>4 DEF Rows, stockVars
<1>5. ASSUME NEW i \in Invoices, NEW paid \in Int, Works(i), UNCHANGED stockVars,
             invoice'[i] = Sync(invoice[i], paid), invoice[i].status # "NONE"
      PROVE  GoodsOK(j, p)'
  <2>1. CASE i = j
    BY <1>1, <1>5, <2>1, SyncGoods DEF Works, stockVars
  <2>2. CASE i # j
    BY <1>2, <1>3, <1>5, <2>2 DEF stockVars
  <2> QED
    BY <2>1, <2>2
<1>6. \A i \in Invoices : Works(i) => Paid(money', i) \in Int
  BY PaidType DEF Works, TypeOK
<1>7. ASSUME NEW i \in Invoices, NEW qty \in Bags, CreateInvoice(i, qty) PROVE GoodsOK(j, p)'
  <2>1. /\ Works(i) /\ stale' = stale /\ Move(i, Stock(qty)) /\ invoice[i].status = "NONE"
        /\ invoice'[i].status = "ISSUED" /\ invoice'[i].qty = qty /\ Stock(qty) \in [Parts -> Int]
    BY <1>7, IssueWorks
  <2>2. /\ moved'[i][p] = moved[i][p] + Stock(qty)[p] /\ Stock(qty)[p] \in Int
        /\ \A k \in Invoices \ {i} : moved'[k] = moved[k]
    BY <2>1, MoveOne
  <2>3. CASE i = j
    <3>1. invoice[j].edits = 0 /\ invoice[j].bills = "goods"
      BY <2>1, <2>3 DEF Known, Blank
    <3>2. ~Unseen(j, {"edit", "void"})' => moved[j][p] = 0
      BY <1>1, <2>1, <2>3, <3>1 DEF GoodsOK, Unseen, FactorKnown, Live
    <3> QED
      BY <2>1, <2>2, <2>3, <3>2 DEF GoodsOK, Live
  <2>4. CASE i # j
    BY <1>2, <1>3, <2>1, <2>2, <2>4
  <2> QED
    BY <2>3, <2>4
<1>8. ASSUME NEW i \in Invoices, NEW qty \in Bags, ConvertQuotation(i, qty) PROVE GoodsOK(j, p)'
  <2>1. Works(i) /\ moved' = moved /\ invoice'[i].bills = "job"
    BY <1>8, ConvertWorks
  <2> QED
    BY <1>2, <1>3, <2>1 DEF GoodsOK
<1>9. ASSUME NEW c \in Calls, NEW i \in Invoices, WriteEdit(c, i) PROVE GoodsOK(j, p)'
  <2>1. Works(i)
    BY <1>9, EditWorks
  <2>2. GoodsOK(i, p)' /\ \A k \in Invoices \ {i} : moved'[k] = moved[k]
    BY <1>1, <1>9, EditGoods
  <2> QED
    BY <1>2, <1>3, <2>1, <2>2
<1>10. ASSUME NEW c \in Calls, NEW i \in Invoices, VoidInvoice(c, i) PROVE GoodsOK(j, p)'
  <2>1. Works(i)
    BY <1>10, VoidWorks
  <2>2. GoodsOK(i, p)' /\ \A k \in Invoices \ {i} : moved'[k] = moved[k]
    BY <1>1, <1>10, VoidGoods
  <2> QED
    BY <1>2, <1>3, <2>1, <2>2
<1>11. ASSUME NEW c \in Calls, NEW i \in Invoices, NEW m \in Money,
              WritePayment(c, i, m) \/ WriteRefund(c, i, m) \/ WriteAmend(c, i)
       PROVE  GoodsOK(j, p)'
  <2>1. /\ Works(i) /\ UNCHANGED stockVars /\ i \in call[c].todo
        /\ invoice'[i] = Sync(invoice[i], Paid(money', i))
    BY <1>11, PayWorks, RefundWorks, AmendWorks
  <2>2. invoice[i].status # "NONE"
    BY <2>1 DEF Known, ReadsTrue
  <2> QED
    BY <1>5, <1>6, <2>1, <2>2
<1>12. ASSUME NEW i \in Invoices, NEW qty \in Bags, NEW m \in Money, NEW amount \in Amounts,
              NEW kind \in {"payment", "jobrefund", "adjustment"}, NEW confirmed \in BOOLEAN,
              RecordClientPayment(i, qty, m, kind, amount, confirmed)
       PROVE  GoodsOK(j, p)'
  <2>1. /\ Works(i) /\ UNCHANGED stockVars /\ Composed(i, qty) \in InvoiceRows
        /\ invoice'[i] = Sync(Composed(i, qty), Paid(money', i))
    BY <1>12, JobWorks
  <2>2. Composed(i, qty).bills = "job"
    BY DEF Composed, TypeOK, InvoiceRows
  <2>3. invoice'[i].bills = "job"
    BY <1>6, <2>1, <2>2, SyncType
  <2> QED
    BY <1>2, <1>3, <2>1, <2>3 DEF GoodsOK, stockVars
<1>13. ASSUME NEW m \in Money, DeleteMoney(m) PROVE GoodsOK(j, p)'
  <2>1. LET i == money[m].invoice IN
        i \in Invoices /\ Works(i) /\ UNCHANGED stockVars /\ invoice'[i] = Sync(invoice[i], Paid(money', i))
    BY <1>13, DeleteWorks
  <2>2. invoice[money[m].invoice].status # "NONE"
    BY <1>13 DEF DeleteMoney, Known, RowsKnown, PaymentKinds
  <2> QED
    BY <1>5, <1>6, <2>1, <2>2
<1>14. CASE Writes
  BY <1>7, <1>8, <1>9, <1>10, <1>11, <1>12, <1>13, <1>14, IdsAssumption DEF Writes
<1> QED
  BY <1>4, <1>14, RowsStand

\* What an invoice for goods took off the shelf is what its lines sell by the product's
\* factor, and within half a unit of nothing once it is void, however many requests edit
\* and void it at once: but for writes over a change unseen, and for a product not sold
\* by the base unit once lines without their factor are given back.
THEOREM GoodsCorrect == Spec => []GoodsFollowInvoice
<1>1. Init => GoodsFollowInvoice
  BY DEF Init, GoodsFollowInvoice, NewInvoice, Live, Nothing
<1> QED
  BY <1>1, GoodsStep, AlwaysKnown, PTL DEF Spec

-----------------------------------------------------------------------------
(* An invoice reads as paid when its money covers it *)

StatusOK(j) ==
    Live(j) => /\ invoice[j].paid = Paid(money, j)
               /\ invoice[j].status = "PAID" <=> Paid(money, j) >= InvoiceTotal(j)

\* The rows of another invoice stay.
LEMMA PaidStays ==
  ASSUME TypeOK, NEW i \in Invoices, MoneyMoves(i), NEW j \in Invoices, i # j
  PROVE  Paid(money', j) = Paid(money, j)
<1>1. MoneyOf(money', j) = MoneyOf(money, j)
  BY DEF MoneyMoves, MoneyOf, PaymentKinds, TakesIn, PaysOut
<1>2. \A m \in MoneyOf(money, j) : money'[m] = money[m]
  BY DEF MoneyMoves, MoneyOf, PaymentKinds, TakesIn, PaysOut
<1>3. \A m \in MoneyOf(money, j) :
        [o \in Money |-> Signed(money'[o])][m] = [o \in Money |-> Signed(money[o])][m]
  BY <1>2 DEF MoneyOf
<1> QED
  BY <1>1, <1>3, SameSigned DEF Paid

\* An invoice as just synced says what its money says.
LEMMA SyncStatus ==
  ASSUME NEW i \in Invoices, NEW row \in InvoiceRows, money' \in [Money -> MoneyRows],
         invoice'[i] = Sync(row, Paid(money', i))
  PROVE  StatusOK(i)'
<1> DEFINE paid == Paid(money', i)
<1>1. paid \in Int
  BY PaidType
<1> HIDE DEF paid
<1>2. /\ Sync(row, paid).qty = row.qty
      /\ IF row.status = "VOID" THEN Sync(row, paid) = row
         ELSE /\ Sync(row, paid).status \in {"ISSUED", "PAID"} /\ Sync(row, paid).paid = paid
              /\ Sync(row, paid).status = "PAID" <=> paid >= Value(row.qty)
  BY <1>1, SyncType
<1>3. invoice'[i] = Sync(row, paid) /\ paid = Paid(money', i)
  BY DEF paid
<1> QED
  BY <1>2, <1>3 DEF StatusOK, Live, InvoiceTotal

\* A new invoice has no money and is worth something.
LEMMA OutcomeStatus ==
  ASSUME TypeOK, Known, NEW i \in Invoices, Outcome(i), Works(i)
  PROVE  StatusOK(i)'
<1>1. money' \in [Money -> MoneyRows]
  BY DEF Works, TypeOK
<1>2. ASSUME NEW row \in InvoiceRows, invoice'[i] = Sync(row, Paid(money', i)) PROVE StatusOK(i)'
  BY <1>1, <1>2, SyncStatus
<1>3. ASSUME invoice'[i].status = "VOID" PROVE StatusOK(i)'
  BY <1>3 DEF StatusOK, Live
<1>4. ASSUME invoice[i].status = "NONE", money' = money, invoice'[i].status = "ISSUED",
             invoice'[i].paid = 0, invoice'[i].qty \in Quantities, Value(invoice'[i].qty) > 0
      PROVE  StatusOK(i)'
  <2>1. MoneyOf(money, i) = {}
    BY <1>4 DEF Known, RowsKnown, MoneyOf, PaymentKinds
  <2>2. Paid(money', i) = 0
    BY <1>4, <2>1, NoSigned DEF Paid
  <2>3. Value(invoice'[i].qty) \in Nat
    BY <1>4, ValueType
  <2> QED
    BY <1>4, <2>2, <2>3 DEF StatusOK, InvoiceTotal
<1> QED
  BY <1>2, <1>3, <1>4 DEF Outcome

LEMMA StatusStep == TypeOK /\ Known /\ StatusFollowsMoney /\ [Next]_vars => StatusFollowsMoney'
<1> SUFFICES ASSUME TypeOK, Known, StatusFollowsMoney, [Next]_vars, NEW j \in Invoices
             PROVE  StatusOK(j)'
  BY DEF StatusFollowsMoney, StatusOK
<1>1. StatusOK(j)
  BY DEF StatusFollowsMoney, StatusOK
<1>2. CASE UNCHANGED Rows
  BY <1>1, <1>2 DEF Rows, StatusOK, Live, InvoiceTotal
<1>3. CASE Writes
  <2>1. PICK i \in Invoices : Works(i) /\ MoneyMoves(i) /\ Outcome(i)
    BY <1>3, WritesMove
  <2>2. CASE i # j
    <3>1. invoice'[j] = invoice[j] /\ Paid(money', j) = Paid(money, j)
      BY <2>1, <2>2, PaidStays DEF Works
    <3> QED
      BY <1>1, <3>1 DEF StatusOK, Live, InvoiceTotal
  <2>3. CASE i = j
    BY <2>1, <2>3, OutcomeStatus
  <2> QED
    BY <2>2, <2>3
<1> QED
  BY <1>2, <1>3, RowsStand

\* An invoice that is not void reads as paid exactly when its payments, less what
\* was handed back, cover it, however receipts, edits and deletions overlap.
THEOREM StatusCorrect == Spec => []StatusFollowsMoney
<1>1. Init => StatusFollowsMoney
  BY DEF Init, StatusFollowsMoney, NewInvoice, Live
<1> QED
  BY <1>1, StatusStep, AlwaysKnown, PTL DEF Spec

-----------------------------------------------------------------------------
(* A refund leaves what was paid at or above nothing *)

\* One row more adds what it is worth, signed.
LEMMA PaidAdds ==
  ASSUME TypeOK, NEW m \in Money, NEW kind \in PaymentKinds, NEW i \in Invoices, NEW n \in Nat,
         NewMoney(m, kind, i, n)
  PROVE  Paid(money', i) = Paid(money, i) + Signed(money'[m])
<1> DEFINE old == MoneyOf(money, i)
           q == [o \in Money |-> Signed(money[o])]
           q2 == [o \in Money |-> Signed(money'[o])]
<1>1. /\ money[m].kind = "none" /\ money'[m] = [kind |-> kind, invoice |-> i, amount |-> n]
      /\ \A o \in Money \ {m} : money'[o] = money[o]
      /\ money' \in [Money -> MoneyRows]
  BY NewMoneyType DEF PaymentKinds
<1>2. m \notin old /\ MoneyOf(money', i) = old \cup {m}
  BY <1>1 DEF MoneyOf, PaymentKinds, TakesIn, PaysOut
<1>3. IsFiniteSet(old) /\ \A o \in old : q2[o] = q[o]
  BY <1>1, <1>2, PaidType DEF MoneyOf, TypeOK
<1>4. q2[m] = Signed(money'[m])
  OBVIOUS
<1>5. \A o \in old \cup {m} : q2[o] \in Int
  BY <1>1, PaidType DEF MoneyOf
<1>6. Paid(money', i) = SignedTotal(old \cup {m}, q2) /\ Paid(money, i) = SignedTotal(old, q)
  BY <1>2 DEF Paid
<1> HIDE DEF old, q, q2
<1>7. SignedTotal(old, q2) = SignedTotal(old, q)
  BY <1>3, SameSigned
<1>8. m \notin old
  BY <1>2
<1>9. SignedTotal(old \cup {m}, q2) = SignedTotal(old, q2) + q2[m]
  BY <1>3, <1>5, <1>8, AddSigned
<1> QED
  BY <1>4, <1>6, <1>7, <1>9

RefundStep ==
    \A m \in Money : LET i == money'[m].invoice IN
        NewRefund(m) /\ Live(i) => Paid(money', i) >= 0

LEMMA RefundsCovered == TypeOK /\ [Next]_vars => RefundStep
<1> SUFFICES ASSUME TypeOK, [Next]_vars, NEW r \in Money, NewRefund(r), Live(money'[r].invoice)
             PROVE  Paid(money', money'[r].invoice) >= 0
  BY DEF RefundStep
<1> DEFINE Kept == Paid(money', money'[r].invoice) >= 0
<1> USE DEF NewRefund
<1>1. ASSUME NEW m \in Money, NEW kind \in TakesIn \cup PaysOut, NEW i \in Invoices, NEW n \in Nat,
             NewMoney(m, kind, i, n)
      PROVE  /\ money'[m].kind = kind /\ money'[m].invoice = i
             /\ \A o \in Money \ {m} : money'[o] = money[o]
  <2>1. /\ money'[m] = [kind |-> kind, invoice |-> i, amount |-> n]
        /\ \A o \in Money \ {m} : money'[o] = money[o]
    BY <1>1, NewMoneyType
  <2> QED
    BY <2>1
<1>2. money' # money
  BY DEF PaysOut
<1>3. ASSUME NEW c \in Calls, NEW i \in Invoices, NEW m \in Money, WriteRefund(c, i, m) PROVE Kept
  <2>1. /\ Works(i) /\ invoice'[i] = Sync(invoice[i], Paid(money', i)) /\ invoice'[i].paid >= 0
        /\ NewMoney(m, "refund", i, call[c].amount) /\ call[c].amount \in Nat
    BY <1>3, RefundWorks
  <2>2. "refund" \in TakesIn \cup PaysOut
    BY DEF PaysOut
  <2>3. money'[m].invoice = i /\ \A o \in Money \ {m} : money'[o] = money[o]
    BY <1>1, <2>1, <2>2
  <2>4. r = m
    BY <2>3 DEF PaysOut
  <2>5. Paid(money', i) \in Int
    BY <2>1, PaidType DEF Works, TypeOK
  <2>6. invoice'[i].paid = Paid(money', i)
    BY <2>1, <2>3, <2>4, <2>5, SyncType DEF Live, TypeOK
  <2> QED
    BY <2>1, <2>3, <2>4, <2>6
<1>4. ASSUME NEW i \in Invoices, NEW qty \in Bags, NEW m \in Money, NEW n \in Amounts,
             NEW kind \in {"payment", "jobrefund", "adjustment"}, NEW confirmed \in BOOLEAN,
             RecordClientPayment(i, qty, m, kind, n, confirmed)
      PROVE  Kept
  <2>1. NewMoney(m, kind, i, n) /\ (kind = "jobrefund" => Paid(money, i) - n >= 0)
    BY <1>4, JobWorks
  <2>2. n \in Nat /\ kind \in TakesIn \cup PaysOut /\ kind \in PaymentKinds
    BY FormTypes DEF PaymentKinds, TakesIn, PaysOut
  <2>3. /\ money'[m] = [kind |-> kind, invoice |-> i, amount |-> n]
        /\ \A o \in Money \ {m} : money'[o] = money[o]
    BY <2>1, <2>2, NewMoneyType
  <2>4. r = m /\ kind = "jobrefund"
    BY <2>3 DEF PaysOut
  <2>5. Signed(money'[m]) = -n
    BY <2>3, <2>4 DEF Signed, PaysOut
  <2>6. Paid(money', i) = Paid(money, i) + Signed(money'[m]) /\ Paid(money, i) \in Int
    BY <2>1, <2>2, PaidAdds, PaidType DEF TypeOK
  <2> QED
    BY <2>1, <2>2, <2>3, <2>4, <2>5, <2>6
<1>5. ASSUME NEW c \in Calls, NEW i \in Invoices, NEW m \in Money, WritePayment(c, i, m) PROVE FALSE
  <2>1. NewMoney(m, "payment", i, call[c].amount) /\ call[c].amount \in Nat
    BY <1>5, PayWorks
  <2>2. "payment" \in TakesIn \cup PaysOut
    BY DEF TakesIn
  <2>3. money'[m].kind = "payment" /\ \A o \in Money \ {m} : money'[o] = money[o]
    BY <1>1, <2>1, <2>2
  <2> QED
    BY <2>3 DEF PaysOut
<1>6. ASSUME NEW c \in Calls, NEW i \in Invoices, WriteAmend(c, i) PROVE FALSE
  <2>1. PICK m \in Money : /\ \A o \in Money \ {m} : money'[o] = money[o]
                           /\ money'[m].kind = money[m].kind
    BY <1>6, AmendWorks
  <2> QED
    BY <2>1 DEF PaysOut
<1>7. ASSUME NEW m \in Money, DeleteMoney(m) PROVE FALSE
  BY <1>7, DeleteWorks DEF PaysOut
<1>8. CASE Writes
  <2>1. \A i \in Invoices, qty \in Bags : ~CreateInvoice(i, qty) /\ ~ConvertQuotation(i, qty)
    BY <1>2 DEF CreateInvoice, ConvertQuotation
  <2>2. \A c \in Calls, i \in Invoices : ~WriteEdit(c, i) /\ ~VoidInvoice(c, i)
    BY <1>2 DEF WriteEdit, VoidInvoice
  <2> QED
    BY <1>3, <1>4, <1>5, <1>6, <1>7, <1>8, <2>1, <2>2 DEF Writes
<1> QED
  BY <1>2, <1>8, RowsStand DEF Rows

\* No more is handed back on an invoice in force than was received on it: a new
\* refund, however it overlaps others, leaves what is paid at or above nothing.
THEOREM RefundsCorrect == Spec => RefundsHaveMoney
<1>1. TypeOK /\ [Next]_vars => [RefundStep]_vars
  BY RefundsCovered
<1> QED
  BY <1>1, TypeCorrect, PTL DEF Spec, RefundsHaveMoney, RefundStep

-----------------------------------------------------------------------------
(* The stock book *)

\* What an invoice took changes what all took by as much.
LEMMA TakenChanges ==
  ASSUME NEW x \in Invoices, NEW n \in Int, NEW q1, NEW q2,
         \A i \in Invoices : q1[i] \in Int,
         \A i \in Invoices : q2[i] = IF i = x THEN q1[i] + n ELSE q1[i]
  PROVE  SignedTotal(Invoices, q2) = SignedTotal(Invoices, q1) + n
<1>1. IsFiniteSet(Invoices)
  BY IdsAssumption
<1> QED
  BY <1>1, ChangeSigned

LEMMA MoveBooked ==
  ASSUME TypeOK, NEW i \in Invoices, NEW taken \in [Parts -> Int], Move(i, taken), NEW p \in Parts
  PROVE  Taken(p)' = Taken(p) + taken[p] /\ onHand'[p] = onHand[p] - taken[p] /\ Taken(p) \in Int
<1> DEFINE n == taken[p]
           q1 == [j \in Invoices |-> moved[j][p]]
           q2 == [j \in Invoices |-> moved'[j][p]]
<1>1. n \in Int /\ q1 \in [Invoices -> Int]
  BY DEF TypeOK
<1>2. moved'[i] = Plus(moved[i], taken) /\ \A j \in Invoices \ {i} : moved'[j] = moved[j]
  BY MoveOne
<1>3. \A j \in Invoices : q2[j] = IF j = i THEN q1[j] + n ELSE q1[j]
  BY <1>2 DEF Plus
<1>4. onHand'[p] = onHand[p] - n
  BY DEF Move, Minus
<1>5. Taken(p)' = SignedTotal(Invoices, q2) /\ Taken(p) = SignedTotal(Invoices, q1)
  BY DEF Taken
<1> HIDE DEF n, q1, q2
<1>6. SignedTotal(Invoices, q2) = SignedTotal(Invoices, q1) + n
  BY <1>1, <1>3, TakenChanges
<1>7. SignedTotal(Invoices, q1) \in Int
  BY <1>1, IdsAssumption, SignedType
<1> QED
  BY <1>4, <1>5, <1>6, <1>7 DEF n

\* Issuing, editing and voiding implement the stock book, for any number of
\* invoices, parts and requests.
THEOREM BookImplemented == Spec => ImplementsStockBook
<1>1. Init => Book!Init
  <2> SUFFICES ASSUME Init PROVE Book!Init
    OBVIOUS
  <2>1. \A p \in Parts : Taken(p) = 0
    BY ZeroSigned DEF Init, Taken, Nothing
  <2>2. onHand \in [Parts -> Int] /\ onHand = [p \in Parts |-> Opening[p] - Taken(p)]
    BY <2>1, BoundsAssumption DEF Init
  <2> QED
    BY <2>2 DEF Book!Init
<1>2. TypeOK /\ [Next]_vars => [Book!Next]_(Book!vars)
  <2> SUFFICES ASSUME TypeOK, [Next]_vars PROVE Book!Book \/ UNCHANGED Book!vars
    BY DEF Book!Next
  <2>1. ASSUME NEW i \in Invoices, NEW taken \in [Parts -> Int], Move(i, taken) PROVE Book!Book
    <3>1. \A p \in Parts : /\ Taken(p)' = Taken(p) + taken[p] /\ onHand'[p] = onHand[p] - taken[p]
                           /\ Taken(p) \in Int /\ taken[p] \in Int /\ onHand[p] \in Int
                           /\ Opening[p] \in Int
      BY <2>1, MoveBooked, BoundsAssumption DEF TypeOK
    <3>2. \A p \in Parts : (Opening[p] - Taken(p)') - (Opening[p] - Taken(p)) = onHand'[p] - onHand[p]
      BY <3>1
    <3> QED
      BY <3>2 DEF Book!Book
  <2>2. ASSUME UNCHANGED stockVars PROVE UNCHANGED Book!vars
    BY <2>2 DEF Book!vars, stockVars, Taken
  <2>3. ASSUME NEW i \in Invoices, NEW qty \in Bags, CreateInvoice(i, qty) PROVE Book!Book
    BY <2>1, <2>3, IssueWorks
  <2>4. ASSUME NEW c \in Calls, NEW i \in Invoices, WriteEdit(c, i) \/ VoidInvoice(c, i)
        PROVE  Book!Book
    <3>1. CASE WriteEdit(c, i)
      BY <2>1, <3>1, EditWorks
    <3>2. CASE VoidInvoice(c, i)
      BY <2>1, <3>2, VoidWorks
    <3> QED
      BY <2>4, <3>1, <3>2
  <2>5. CASE Writes
    <3>1. \A i \in Invoices, qty \in Bags : ConvertQuotation(i, qty) => UNCHANGED stockVars
      BY DEF ConvertQuotation
    <3>2. \A c \in Calls, i \in Invoices, m \in Money :
            WriteAmend(c, i) \/ WritePayment(c, i, m) \/ WriteRefund(c, i, m)
              => UNCHANGED stockVars
      BY DEF WriteAmend, WritePayment, WriteRefund
    <3>3. \A i, qty, m, amount, kind, confirmed :
            RecordClientPayment(i, qty, m, kind, amount, confirmed) => UNCHANGED stockVars
      BY DEF RecordClientPayment
    <3>4. \A m \in Money : DeleteMoney(m) => UNCHANGED stockVars
      BY DEF DeleteMoney
    <3> QED
      BY <2>2, <2>3, <2>4, <2>5, <3>1, <3>2, <3>3, <3>4, IdsAssumption DEF Writes
  <2> QED
    BY <2>2, <2>5, RowsStand DEF Rows
<1> QED
  BY <1>1, <1>2, TypeCorrect, PTL DEF Spec, ImplementsStockBook, Book!Spec


-----------------------------------------------------------------------------
(* The journal follows the money *)

\* What a journal says of a payment or refund.
JournalOf(b, m) ==
    Balance(b, m) + SignedTotal(1..MaxEdits, [n \in 1..MaxEdits |-> Balance(b, <<m, n>>)])

LEMMA KeysApart ==
  /\ \A m \in Money : m \in Refs
  /\ \A m \in Money, n \in 1..MaxEdits : <<m, n>> \in Refs /\ <<m, n>> \notin Money
BY IdsAssumption DEF Refs, Adjustments

\* Entry r stands as it did.
EntryKept(b, c, r) == c.entry[r] = b.entry[r] /\ (r \in c.reversed <=> r \in b.reversed)

LEMMA BalanceType ==
  ASSUME NEW b \in BooksOver(Refs), NEW m \in Money
  PROVE  /\ Balance(b, m) \in Int
         /\ \A n \in 1..MaxEdits : Balance(b, <<m, n>>) \in Int
BY KeysApart DEF Balance, BooksOver

\* Without adjustments the journal says what the first posting says.
LEMMA PlainJournal ==
  ASSUME NEW b \in BooksOver(Refs), NEW m \in Money,
         \A n \in 1..MaxEdits : b.entry[<<m, n>>] = 0
  PROVE  JournalOf(b, m) = Balance(b, m)
<1> DEFINE adj == [n \in 1..MaxEdits |-> Balance(b, <<m, n>>)]
<1>1. \A n \in 1..MaxEdits : adj[n] = 0
  BY DEF Balance
<1> HIDE DEF adj
<1>2. SignedTotal(1..MaxEdits, adj) = 0
  BY <1>1, ZeroSigned
<1>3. JournalOf(b, m) = Balance(b, m) + SignedTotal(1..MaxEdits, adj)
  BY DEF JournalOf, adj
<1> QED
  BY <1>2, <1>3, BalanceType

LEMMA JournalKept ==
  ASSUME NEW b, NEW c, NEW m \in Money, EntryKept(b, c, m),
         \A n \in 1..MaxEdits : EntryKept(b, c, <<m, n>>)
  PROVE  JournalOf(c, m) = JournalOf(b, m)
<1> DEFINE before == [n \in 1..MaxEdits |-> Balance(b, <<m, n>>)]
           after == [n \in 1..MaxEdits |-> Balance(c, <<m, n>>)]
<1>1. \A n \in 1..MaxEdits : after[n] = before[n]
  BY DEF EntryKept, Balance
<1>2. /\ Balance(c, m) = Balance(b, m)
      /\ JournalOf(b, m) = Balance(b, m) + SignedTotal(1..MaxEdits, before)
      /\ JournalOf(c, m) = Balance(c, m) + SignedTotal(1..MaxEdits, after)
  BY DEF EntryKept, Balance, JournalOf
<1> HIDE DEF before, after
<1>3. SignedTotal(1..MaxEdits, after) = SignedTotal(1..MaxEdits, before)
  BY <1>1, SameSigned
<1> QED
  BY <1>2, <1>3

\* A sum over the numbers of changes moves by what one of them does.
EditNumbers == 1..MaxEdits
LEMMA NumbersFinite == IsFiniteSet(EditNumbers)
BY BoundsAssumption, FS_Interval DEF EditNumbers

LEMMA AdjustmentsSum ==
  ASSUME NEW f, NEW g, NEW k \in EditNumbers, NEW delta \in Int,
         \A n \in EditNumbers : f[n] \in Int,
         \A n \in EditNumbers : g[n] = IF n = k THEN f[n] + delta ELSE f[n]
  PROVE  SignedTotal(EditNumbers, g) = SignedTotal(EditNumbers, f) + delta
BY NumbersFinite, ChangeSigned

\* A first adjustment under a key moves what the journal says by as much.
LEMMA JournalMoves ==
  ASSUME NEW b \in BooksOver(Refs), NEW c \in BooksOver(Refs), NEW m \in Money,
         NEW k \in 1..MaxEdits, NEW delta \in Int,
         EntryKept(b, c, m), \A n \in (1..MaxEdits) \ {k} : EntryKept(b, c, <<m, n>>),
         Balance(b, <<m, k>>) = 0, Balance(c, <<m, k>>) = delta
  PROVE  JournalOf(c, m) = JournalOf(b, m) + delta
<1> DEFINE before == [n \in 1..MaxEdits |-> Balance(b, <<m, n>>)]
           after == [n \in 1..MaxEdits |-> Balance(c, <<m, n>>)]
<1>1. /\ IsFiniteSet(1..MaxEdits)
      /\ \A n \in 1..MaxEdits : before[n] \in Int
      /\ \A n \in 1..MaxEdits : after[n] = IF n = k THEN before[n] + delta ELSE before[n]
  <2>1. \A n \in 1..MaxEdits : before[n] \in Int
    BY BalanceType
  <2>2. after[k] = before[k] + delta
    OBVIOUS
  <2>3. \A n \in (1..MaxEdits) \ {k} : after[n] = before[n]
    BY DEF EntryKept, Balance
  <2>4. IsFiniteSet(1..MaxEdits)
    BY BoundsAssumption, FS_Interval
  <2> HIDE DEF before, after
  <2> QED
    BY <2>1, <2>2, <2>3, <2>4
<1>2. /\ Balance(c, m) = Balance(b, m) /\ Balance(b, m) \in Int
      /\ JournalOf(b, m) = Balance(b, m) + SignedTotal(1..MaxEdits, before)
      /\ JournalOf(c, m) = Balance(c, m) + SignedTotal(1..MaxEdits, after)
  BY BalanceType DEF EntryKept, Balance, JournalOf
<1> HIDE DEF before, after
<1>3. SignedTotal(1..MaxEdits, before) \in Int
  BY <1>1, SignedType
<1>4. SignedTotal(1..MaxEdits, after) = SignedTotal(1..MaxEdits, before) + delta
  <2>1. /\ k \in EditNumbers /\ \A n \in EditNumbers : before[n] \in Int
        /\ \A n \in EditNumbers : after[n] = IF n = k THEN before[n] + delta ELSE before[n]
    BY <1>1 DEF EditNumbers
  <2>2. SignedTotal(EditNumbers, after) = SignedTotal(EditNumbers, before) + delta
    BY <2>1, AdjustmentsSum
  <2> QED
    BY <2>2 DEF EditNumbers
<1> QED
  BY <1>2, <1>3, <1>4

\* Changes are posted under 1, 2, ..., so the next number is free.
InOrder(m) == \A n \in Adjusted(m) : 1..n \subseteq Adjusted(m)

LEMMA NextFree ==
  ASSUME NEW m, InOrder(m), NEW k \in 1..MaxEdits, Cardinality(Adjusted(m)) = k - 1
  PROVE  Adjusted(m) = 1..(k - 1)
<1>1. IsFiniteSet(Adjusted(m)) /\ Adjusted(m) \subseteq 1..MaxEdits /\ MaxEdits \in Nat
  <2>1. IsFiniteSet(1..MaxEdits) /\ Adjusted(m) \subseteq 1..MaxEdits
    BY BoundsAssumption, FS_Interval DEF Adjusted
  <2> QED
    BY <2>1, BoundsAssumption, FS_Subset
<1>2. ASSUME NEW j \in 1..(k - 1), j \notin Adjusted(m) PROVE FALSE
  <2>1. \A n \in Adjusted(m) : n < j
    BY <1>1, <1>2 DEF InOrder
  <2>2. Adjusted(m) \subseteq 1..(j - 1)
    BY <1>1, <2>1
  <2>3. IsFiniteSet(1..(j - 1)) /\ Cardinality(1..(j - 1)) = j - 1
    <3>1. \A n \in Nat : IsFiniteSet(1..n) /\ Cardinality(1..n) = n
      BY FS_Interval
    <3>2. j - 1 \in Nat
      BY <1>1
    <3> QED
      BY <3>1, <3>2
  <2>4. Cardinality(Adjusted(m)) <= j - 1
    BY <2>2, <2>3, FS_Subset
  <2> QED
    BY <1>2, <2>4
<1>3. ASSUME NEW n \in Adjusted(m), n >= k PROVE FALSE
  <2>1. 1..k \subseteq Adjusted(m)
    BY <1>1, <1>3 DEF InOrder
  <2>2. Cardinality(1..k) = k
    BY FS_Interval
  <2>3. k <= Cardinality(Adjusted(m))
    BY <1>1, <2>1, <2>2, FS_Subset
  <2> QED
    BY <2>3
<1>4. \A n \in Adjusted(m) : n \in 1..(k - 1)
  BY <1>1, <1>3
<1>5. 1..(k - 1) \subseteq Adjusted(m)
  BY <1>2
<1> QED
  BY <1>4, <1>5

\* What the books hold of one row, and how that follows from what it is.
RowBooked(m) ==
    LET row == money[m] IN
    /\ InOrder(m)
    /\ row.kind = "none" => books.entry[m] = 0 /\ Adjusted(m) = {}
    /\ row.kind = "adjustment" => books.entry[m] = 0
    /\ row.kind = "gone" => Balance(books, m) = 0
    /\ row.kind # "gone" => m \notin books.reversed
    /\ row.kind = "refund" => Adjusted(m) = {}
    /\ row.kind \in PaymentKinds \ {"adjustment"} /\ Adjusted(m) = {} => books.entry[m] = Signed(row)
    /\ row.kind = "payment" => JournalOf(books, m) = row.amount \/ Unseen(row.invoice, {"amend"})
Booked == books.reversed \subseteq Money /\ \A m \in Money : RowBooked(m)

LEMMA BookedFollows == TypeOK /\ Booked => BooksFollowMoney
<1> SUFFICES ASSUME TypeOK, Booked, NEW m \in Money
             PROVE  LET row == money[m] IN
                    /\ row.kind = "payment" =>
                         Journal(m) = row.amount \/ Unseen(row.invoice, {"amend"})
                    /\ row.kind = "refund" => Journal(m) = -row.amount
                    /\ Adjusted(m) = {} =>
                         Journal(m) = IF row.kind \in {"none", "gone", "adjustment"}
                                      THEN 0 ELSE Signed(row)
  BY DEF BooksFollowMoney
<1> DEFINE row == money[m]
<1>1. RowBooked(m) /\ Journal(m) = JournalOf(books, m)
  BY DEF Booked, Journal, JournalOf
<1>2. ASSUME Adjusted(m) = {}
      PROVE  Journal(m) = IF row.kind \in {"none", "gone", "adjustment"} THEN 0 ELSE Signed(row)
  <2>1. \A n \in 1..MaxEdits : books.entry[<<m, n>>] = 0
    BY <1>2 DEF Adjusted, Posted
  <2>2. Journal(m) = Balance(books, m)
    BY <1>1, <2>1, PlainJournal DEF TypeOK
  <2>3. row.kind \in {"none", "gone"} \cup PaymentKinds
    BY DEF TypeOK, MoneyRows, PaymentKinds
  <2> QED
    BY <1>1, <1>2, <2>2, <2>3 DEF RowBooked, Balance
<1>3. row.kind = "refund" => Adjusted(m) = {} /\ Signed(row) = -row.amount
  BY <1>1 DEF RowBooked, Signed, PaysOut
<1> QED
  BY <1>1, <1>2, <1>3 DEF RowBooked


\* The row and what the books hold of it are as they were.
RowKept(m) ==
    /\ money'[m] = money[m] /\ EntryKept(books, books', m)
    /\ \A n \in 1..MaxEdits : EntryKept(books, books', <<m, n>>)

LEMMA KeptRow ==
  ASSUME NEW m \in Money, RowBooked(m), RowKept(m), stale \subseteq stale'
  PROVE  RowBooked(m)'
<1>1. Adjusted(m)' = Adjusted(m)
  BY DEF RowKept, EntryKept, Adjusted, Posted
<1>2. JournalOf(books', m) = JournalOf(books, m)
  BY JournalKept DEF RowKept
<1>3. Unseen(money[m].invoice, {"amend"}) => Unseen(money[m].invoice, {"amend"})'
  BY DEF RowKept, Unseen
<1>4. Balance(books', m) = Balance(books, m)
  BY DEF RowKept, EntryKept, Balance
<1>5. money'[m] = money[m] /\ EntryKept(books, books', m)
  BY DEF RowKept
<1> QED
  BY <1>1, <1>2, <1>3, <1>4, <1>5 DEF RowBooked, InOrder, EntryKept

\* A posting touches its own reference and reverses nothing.
LEMMA PostChanges ==
  ASSUME TypeOK, NEW r \in Refs, NEW amount, books' = Post(books, r, amount)
  PROVE  /\ books'.reversed = books.reversed
         /\ books'.entry[r] = IF books.entry[r] = 0 THEN amount ELSE books.entry[r]
         /\ \A q \in Refs \ {r} : EntryKept(books, books', q)
<1>1. CASE Posted(books, r)
  BY <1>1 DEF Post, Posted, EntryKept
<1>2. CASE ~Posted(books, r)
  BY <1>2 DEF Post, Posted, EntryKept, TypeOK, BooksOver
<1> QED
  BY <1>1, <1>2

\* A row is written and posted under its own id; adjustments are not posted.
LEMMA RowRecorded ==
  ASSUME TypeOK, TypeOK', Booked, stale \subseteq stale',
         NEW m \in Money, NEW kind \in PaymentKinds, NEW i \in Invoices, NEW amount \in Nat,
         NewMoney(m, kind, i, amount),
         books' = IF kind = "adjustment" THEN books ELSE Post(books, m, Signed(money'[m]))
  PROVE  Booked'
<1>1. /\ money[m].kind = "none" /\ money'[m] = [kind |-> kind, invoice |-> i, amount |-> amount]
      /\ \A o \in Money \ {m} : money'[o] = money[o]
  BY NewMoneyType DEF PaymentKinds
<1>2. /\ RowBooked(m) /\ books.entry[m] = 0 /\ m \notin books.reversed
      /\ Adjusted(m) = {}
  BY <1>1 DEF Booked, RowBooked
<1>3. /\ books'.reversed = books.reversed
      /\ \A q \in Refs \ {m} : EntryKept(books, books', q)
      /\ books'.entry[m] = IF kind = "adjustment" THEN 0 ELSE Signed(money'[m])
  <2>1. CASE kind = "adjustment"
    BY <1>2, <2>1 DEF EntryKept
  <2>2. CASE kind # "adjustment"
    BY <1>2, <2>2, PostChanges, KeysApart
  <2> QED
    BY <2>1, <2>2
<1>4. \A n \in 1..MaxEdits : EntryKept(books, books', <<m, n>>)
  BY <1>3, KeysApart
<1>5. Adjusted(m)' = {} /\ \A n \in 1..MaxEdits : books'.entry[<<m, n>>] = 0
  BY <1>2, <1>4 DEF EntryKept, Adjusted, Posted
<1>6. JournalOf(books', m) = books'.entry[m]
  <2>1. JournalOf(books', m) = Balance(books', m)
    BY <1>5, PlainJournal DEF TypeOK
  <2> QED
    BY <1>2, <1>3, <2>1 DEF Balance
<1>7. kind = "payment" => Signed(money'[m]) = amount
  BY <1>1 DEF Signed, PaysOut
<1>8. RowBooked(m)'
  <2>1. money'[m].kind = kind /\ money'[m].amount = amount /\ kind \notin {"none", "gone"}
    BY <1>1 DEF PaymentKinds, TakesIn, PaysOut
  <2>2. InOrder(m)'
    BY <1>5 DEF InOrder
  <2> QED
    BY <1>2, <1>3, <1>5, <1>6, <1>7, <2>1, <2>2 DEF RowBooked
<1>9. ASSUME NEW o \in Money \ {m} PROVE RowBooked(o)'
  <2>1. RowKept(o)
    BY <1>1, <1>3, KeysApart DEF RowKept
  <2> QED
    BY <2>1, KeptRow DEF Booked
<1> QED
  BY <1>3, <1>8, <1>9 DEF Booked

\* A row is deleted and its posting reversed.
LEMMA RowErased ==
  ASSUME TypeOK, Booked, stale \subseteq stale', NEW m \in Money, money'[m].kind = "gone",
         \A o \in Money \ {m} : money'[o] = money[o], books' = Reverse(books, m)
  PROVE  Booked'
<1>1. RowBooked(m)
  BY DEF Booked
<1>2. /\ books'.entry = books.entry
      /\ books'.reversed = IF Posted(books, m) THEN books.reversed \cup {m} ELSE books.reversed
  BY DEF Reverse, TypeOK, BooksOver
<1>3. Balance(books', m) = 0
  BY <1>2 DEF Balance, Posted
<1>4. Adjusted(m)' = Adjusted(m)
  BY <1>2 DEF Adjusted, Posted
<1>5. RowBooked(m)'
  <2>1. InOrder(m)'
    BY <1>1, <1>4 DEF RowBooked, InOrder
  <2> QED
    BY <1>3, <2>1 DEF RowBooked, PaymentKinds, TakesIn, PaysOut
<1>6. ASSUME NEW o \in Money \ {m} PROVE RowBooked(o)'
  <2>1. \A q : q # m => EntryKept(books, books', q)
    BY <1>2 DEF EntryKept
  <2>2. RowKept(o)
    BY <2>1, KeysApart DEF RowKept
  <2> QED
    BY <2>2, KeptRow DEF Booked
<1>7. books'.reversed \subseteq Money
  BY <1>2 DEF Booked
<1> QED
  BY <1>5, <1>6, <1>7 DEF Booked

\* An amount changes and the difference is posted: what the journal says of a payment
\* follows, or the change wrote over one it had not seen.
LEMMA RowAmended ==
  ASSUME TypeOK, Known, Booked, NEW c \in Calls, NEW i \in Invoices, WriteAmend(c, i)
  PROVE  Booked'
<1>0. PICK m \in Money, k \in 1..MaxEdits, amount \in Nat, before \in Nat :
        /\ m = call[c].money /\ amount = call[c].amount /\ before = call[c].old[SomePart]
        /\ k = Cardinality(Adjusted(m)) + 1
  BY AmendWorks
<1> DEFINE delta == amount - before
<1>1. /\ TypeOK' /\ stale \subseteq stale'
      /\ Cardinality(Adjusted(m)) = k - 1
      /\ \A o \in Money \ {m} : money'[o] = money[o]
      /\ IF money[m].kind = "gone" THEN money'[m] = money[m]
         ELSE /\ money'[m].kind = money[m].kind /\ money'[m].invoice = money[m].invoice
              /\ money'[m].amount = amount
      /\ books' = Post(books, <<m, k>>, delta)
      /\ call[c].pc = "amend" /\ i \in call[c].todo
      /\ i \in call[c].changed => <<i, "amend">> \in stale'
  BY <1>0, AmendWorks DEF Works
<1>2. /\ delta \in Int /\ delta # 0 /\ money[m].kind \in {"gone", "jobrefund"} \cup TakesIn
      /\ money[m].kind # "gone" => money[m].invoice = i
      /\ money[m].kind # "gone" /\ i \notin call[c].changed => money[m].amount = before
  <2>1. Amends(c)
    BY DEF Known
  <2> QED
    BY <1>0, <1>1, <2>1 DEF Amends
<1> HIDE DEF delta
<1>3. RowBooked(m) /\ Adjusted(m) = 1..(k - 1)
  <2>1. RowBooked(m)
    BY DEF Booked
  <2>2. InOrder(m)
    BY <2>1 DEF RowBooked
  <2>3. Adjusted(m) = 1..(k - 1)
    BY <1>1, <2>2, NextFree
  <2> QED
    BY <2>1, <2>3
<1>4. <<m, k>> \in Refs /\ <<m, k>> \notin Money /\ k \notin Adjusted(m)
  BY <1>1, <1>3, KeysApart
<1>5. books.entry[<<m, k>>] = 0
  BY <1>1, <1>4 DEF Adjusted, Posted
<1>6. /\ books'.reversed = books.reversed /\ books'.entry[<<m, k>>] = delta
      /\ \A q \in Refs \ {<<m, k>>} : EntryKept(books, books', q)
  BY <1>1, <1>4, <1>5, PostChanges
<1>7. /\ EntryKept(books, books', m)
      /\ \A n \in (1..MaxEdits) \ {k} : EntryKept(books, books', <<m, n>>)
  BY <1>1, <1>4, <1>6, KeysApart
<1>8. Adjusted(m)' = 1..k
  <2>1. \A n \in 1..MaxEdits : n \in Adjusted(m)' <=> n = k \/ n \in Adjusted(m)
    BY <1>1, <1>2, <1>6, <1>7 DEF Adjusted, Posted, EntryKept
  <2>2. Adjusted(m)' \subseteq 1..MaxEdits /\ MaxEdits \in Nat
    BY BoundsAssumption DEF Adjusted
  <2> QED
    <3>1. \A n \in 1..MaxEdits : n \in Adjusted(m)' <=> n \in 1..k
      BY <1>3, <2>1
    <3>2. 1..k \subseteq 1..MaxEdits
      BY <2>2
    <3> QED
      BY <2>2, <3>1, <3>2
<1>9. InOrder(m)' /\ Adjusted(m)' # {}
  <2>1. \A x \in 1..k : 1..x \subseteq 1..k
    OBVIOUS
  <2>2. k \in 1..k
    OBVIOUS
  <2> QED
    BY <1>8, <2>1, <2>2 DEF InOrder
<1>10. JournalOf(books', m) = JournalOf(books, m) + delta
  <2>1. books \in BooksOver(Refs) /\ books' \in BooksOver(Refs)
    BY <1>1 DEF TypeOK
  <2>2. Balance(books, <<m, k>>) = 0 /\ Balance(books', <<m, k>>) = delta
    BY <1>4, <1>5, <1>6 DEF Balance, Booked
  <2> QED
    BY <1>1, <1>2, <1>7, <2>1, <2>2, JournalMoves
<1>11. ASSUME money'[m].kind = "payment"
       PROVE  JournalOf(books', m) = money'[m].amount \/ Unseen(money[m].invoice, {"amend"})'
  <2>1. money[m].kind = "payment" /\ money'[m].invoice = i /\ money[m].invoice = i
        /\ money'[m].amount = amount
    BY <1>1, <1>2, <1>11
  <2>2. CASE i \in call[c].changed
    <3>1. Unseen(i, {"amend"})'
      BY <1>1, <2>2 DEF Unseen
    <3> QED
      BY <2>1, <3>1 DEF Unseen
  <2>3. CASE i \notin call[c].changed
    <3>1. JournalOf(books, m) = money[m].amount \/ Unseen(i, {"amend"})
      BY <1>3, <2>1 DEF RowBooked
    <3>2. CASE Unseen(i, {"amend"})
      <4>1. Unseen(i, {"amend"})'
        BY <1>1, <3>2 DEF Unseen
      <4> QED
        BY <2>1, <4>1 DEF Unseen
    <3>3. CASE JournalOf(books, m) = money[m].amount
      BY <1>1, <1>2, <1>10, <2>1, <2>3, <3>3 DEF delta
    <3> QED
      BY <3>1, <3>2, <3>3
  <2> QED
    BY <2>2, <2>3
<1>12. RowBooked(m)'
  <2>1. money'[m].kind = money[m].kind /\ money[m].kind \notin {"none", "refund"}
    BY <1>1, <1>2 DEF TakesIn
  <2>2. /\ books'.entry[m] = books.entry[m] /\ Balance(books', m) = Balance(books, m)
        /\ m \in books'.reversed <=> m \in books.reversed
    BY <1>7 DEF EntryKept, Balance
  <2> QED
    BY <1>3, <1>9, <1>11, <2>1, <2>2 DEF RowBooked
<1>13. ASSUME NEW o \in Money \ {m} PROVE RowBooked(o)'
  <2>1. o \in Refs \ {<<m, k>>} /\ \A n \in 1..MaxEdits : <<o, n>> \in Refs \ {<<m, k>>}
    BY <1>4, KeysApart
  <2>2. RowKept(o)
    BY <1>1, <1>6, <2>1 DEF RowKept
  <2> QED
    BY <1>1, <2>2, KeptRow DEF Booked
<1>14. books'.reversed \subseteq Money
  BY <1>6 DEF Booked
<1> QED
  BY <1>12, <1>13, <1>14 DEF Booked

\* No row and no entry changes.
LEMMA BookedStays ==
  ASSUME Booked, money' = money, books' = books, stale \subseteq stale'
  PROVE  Booked'
<1>1. \A m \in Money : RowKept(m)
  BY DEF RowKept, EntryKept
<1> QED
  BY <1>1, KeptRow DEF Booked

LEMMA BookedInit == Init => Booked
<1> SUFFICES ASSUME Init PROVE Booked
  OBVIOUS
<1>1. /\ \A r \in Refs : books.entry[r] = 0
      /\ books.reversed = {}
  BY DEF Init, NewBooks
<1>2. \A m \in Money : Adjusted(m) = {}
  BY <1>1, KeysApart DEF Adjusted, Posted
<1>3. \A m \in Money : money[m].kind = "none"
  BY DEF Init, NoMoney
<1> QED
  BY <1>1, <1>2, <1>3, KeysApart DEF Booked, RowBooked, InOrder, PaymentKinds, TakesIn, PaysOut

LEMMA BookedStep == TypeOK /\ Known /\ Booked /\ [Next]_vars => Booked'
<1> SUFFICES ASSUME TypeOK, Known, Booked, [Next]_vars PROVE Booked'
  OBVIOUS
<1>1. CASE UNCHANGED Rows
  BY <1>1, BookedStays DEF Rows
<1>2. ASSUME NEW i \in Invoices, NEW qty \in Bags,
             CreateInvoice(i, qty) \/ ConvertQuotation(i, qty)
      PROVE  Booked'
  BY <1>2, IssueWorks, ConvertWorks, BookedStays
<1>3. ASSUME NEW c \in Calls, NEW i \in Invoices, WriteEdit(c, i) \/ VoidInvoice(c, i) PROVE Booked'
  <2>1. money' = money /\ books' = books /\ stale \subseteq stale'
    BY <1>3, EditWorks, VoidWorks DEF Works
  <2> QED
    BY <2>1, BookedStays
<1>4. ASSUME NEW c \in Calls, NEW i \in Invoices, WriteAmend(c, i) PROVE Booked'
  BY <1>4, RowAmended
<1>5. ASSUME NEW c \in Calls, NEW i \in Invoices, NEW m \in Money, WritePayment(c, i, m) PROVE Booked'
  <2> DEFINE n == call[c].amount
  <2>1. /\ TypeOK' /\ stale \subseteq stale' /\ NewMoney(m, "payment", i, n) /\ n \in Nat
        /\ books' = Post(books, m, n)
    BY <1>5, PayWorks DEF Works
  <2> HIDE DEF n
  <2>2. "payment" \in PaymentKinds /\ "payment" \in TakesIn \cup PaysOut
    BY DEF PaymentKinds, TakesIn
  <2>3. money'[m] = [kind |-> "payment", invoice |-> i, amount |-> n]
    BY <2>1, <2>2, NewMoneyType
  <2>4. Signed(money'[m]) = n
    BY <2>3 DEF Signed, PaysOut
  <2> QED
    BY <2>1, <2>2, <2>4, RowRecorded
<1>6. ASSUME NEW c \in Calls, NEW i \in Invoices, NEW m \in Money, WriteRefund(c, i, m) PROVE Booked'
  <2> DEFINE n == call[c].amount
  <2>1. /\ TypeOK' /\ stale \subseteq stale' /\ NewMoney(m, "refund", i, n) /\ n \in Nat
        /\ books' = Post(books, m, -n)
    BY <1>6, RefundWorks DEF Works
  <2> HIDE DEF n
  <2>2. "refund" \in PaymentKinds /\ "refund" \in TakesIn \cup PaysOut
    BY DEF PaymentKinds, PaysOut
  <2>3. money'[m] = [kind |-> "refund", invoice |-> i, amount |-> n]
    BY <2>1, <2>2, NewMoneyType
  <2>4. Signed(money'[m]) = -n
    BY <2>3 DEF Signed, PaysOut
  <2> QED
    BY <2>1, <2>2, <2>4, RowRecorded
<1>7. ASSUME NEW i \in Invoices, NEW qty \in Bags, NEW m \in Money, NEW n \in Amounts,
             NEW kind \in {"payment", "jobrefund", "adjustment"}, NEW confirmed \in BOOLEAN,
             RecordClientPayment(i, qty, m, kind, n, confirmed)
      PROVE  Booked'
  <2>1. /\ TypeOK' /\ stale \subseteq stale' /\ NewMoney(m, kind, i, n)
        /\ books' = IF kind = "adjustment" THEN books ELSE Post(books, m, Signed(money'[m]))
    BY <1>7, JobWorks DEF Works
  <2>2. n \in Nat /\ kind \in PaymentKinds
    BY FormTypes DEF PaymentKinds, TakesIn, PaysOut
  <2> QED
    BY <2>1, <2>2, RowRecorded
<1>8. ASSUME NEW m \in Money, DeleteMoney(m) PROVE Booked'
  <2>1. /\ stale \subseteq stale' /\ money'[m].kind = "gone"
        /\ \A o \in Money \ {m} : money'[o] = money[o] /\ books' = Reverse(books, m)
    BY <1>8, DeleteWorks
  <2>2. books' = Reverse(books, m)
    BY <1>8, DeleteWorks
  <2> QED
    BY <2>1, <2>2, RowErased
<1> QED
  BY <1>1, <1>2, <1>3, <1>4, <1>5, <1>6, <1>7, <1>8, RowsStand DEF Writes

\* The journal holds every payment as it stands, every refund negated and nothing of
\* a row that is gone, except where an amount was changed twice at once, or changed
\* and then deleted, or belongs to no plain payment.
THEOREM BooksCorrect == Spec => []BooksFollowMoney
<1>1. TypeOK /\ Booked => BooksFollowMoney
  BY BookedFollows
<1> QED
  BY <1>1, BookedInit, BookedStep, AlwaysKnown, PTL DEF Spec
=============================================================================
