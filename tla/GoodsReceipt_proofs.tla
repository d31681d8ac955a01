-------------------------- MODULE GoodsReceipt_proofs --------------------------
(***************************************************************************)
(* What GoodsReceipt keeps for every number of orders, parts, notes and    *)
(* concurrent requests: its types, that nothing is received beyond the     *)
(* order, that closed orders are empty, that it implements the stock book, *)
(* that what a line received is what its notes brought in, and that an     *)
(* order is billed within its value.                                       *)
(***************************************************************************)
EXTENDS GoodsReceipt, UnitTotals_proofs

-----------------------------------------------------------------------------
(* Types *)

LEMMA ConstantTypes ==
  /\ SomeOrder \in Orders /\ SomeNote \in Notes
  /\ Nothing \in Quantities /\ Ordered \in Quantities
  /\ Idle \in CallStates /\ Unused \in NoteRows /\ NoBill \in BillRows
BY IdsAssumption, OrderedAssumption
DEF SomeOrder, SomeNote, Nothing, Quantities, Idle, CallStates, Unused, NoteRows, NoBill, BillRows

\* An empty purchasing department is well typed.
LEMMA TypeInit == Init => TypeOK
<1> SUFFICES ASSUME Init PROVE TypeOK
  OBVIOUS
<1>1. worth \in [Orders -> Nat] /\ bill \in [Bills -> BillRows]
  BY ConstantTypes, BillsAssumption DEF Init
<1> QED
  BY <1>1, ConstantTypes DEF Init, TypeOK, Statuses, Nothing, Quantities

\* Which status an order gets from what came in.
LEMMA StatusOfType == \A got : StatusOf(got) \in {"RECEIVED", "PARTIAL", "ORDERED"}
BY DEF StatusOf

\* A request that returns is idle again.
LEMMA ReturnType ==
  ASSUME call \in [Calls -> CallStates], NEW c \in Calls, Return(c)
  PROVE  call' \in [Calls -> CallStates]
BY ConstantTypes DEF Return

\* Ordering keeps the types.
LEMMA TypeOrdering == TypeOK /\ Ordering => TypeOK'
<1> SUFFICES ASSUME TypeOK, Ordering PROVE TypeOK'
  OBVIOUS
<1> USE DEF orderVars, stockVars, historyVars
<1>1. ASSUME NEW o \in Orders, NEW first \in {"DRAFT", "ORDERED"}, CreateOrder(o, first)
      PROVE  TypeOK'
  BY <1>1 DEF CreateOrder, TypeOK, Statuses
<1>2. ASSUME NEW c \in Calls, NEW o \in Orders, BuyOverCounter(c, o) PROVE TypeOK'
  <2>1. [Idle EXCEPT !.pc = "bought", !.order = o] \in CallStates
    BY ConstantTypes DEF CallStates
  <2> QED
    BY <1>2, <2>1 DEF BuyOverCounter, TypeOK, Statuses
<1>3. ASSUME NEW c \in Calls, ReadOwnOrder(c) PROVE TypeOK'
  <2>1. [call[c] EXCEPT !.pc = "receive", !.want = Ordered] \in CallStates
    BY ConstantTypes DEF CallStates, TypeOK
  <2>2. call' = [call EXCEPT ![c] = [call[c] EXCEPT !.pc = "receive", !.want = Ordered]]
    BY <1>3 DEF ReadOwnOrder
  <2> QED
    BY <1>3, <2>1, <2>2 DEF ReadOwnOrder, TypeOK
<1>4. ASSUME NEW c \in Calls, NEW o \in Orders, NEW next \in Statuses, ReadForStatus(c, o, next)
      PROVE  TypeOK'
  <2>1. [Idle EXCEPT !.pc = "write", !.order = o, !.status = next] \in CallStates
    BY ConstantTypes DEF CallStates
  <2> QED
    BY <1>4, <2>1 DEF ReadForStatus, TypeOK
<1>5. ASSUME NEW c \in Calls, WriteStatus(c) PROVE TypeOK'
  <2>1. call[c].order \in Orders /\ call[c].status \in Statuses \cup {"NONE"}
    BY DEF TypeOK, CallStates
  <2> QED
    BY <1>5, <2>1, ReturnType DEF WriteStatus, TypeOK
<1>6. ASSUME NEW c \in Calls, NEW o \in Orders, ReadForDelete(c, o) PROVE TypeOK'
  <2>1. [Idle EXCEPT !.pc = "delete", !.order = o] \in CallStates
    BY ConstantTypes DEF CallStates
  <2> QED
    BY <1>6, <2>1 DEF ReadForDelete, TypeOK
<1>7. ASSUME NEW c \in Calls, DeleteOrder(c) PROVE TypeOK'
  BY <1>7, ConstantTypes, ReturnType DEF DeleteOrder, TypeOK
<1>8. ASSUME NEW c \in Calls, EndCall(c) PROVE TypeOK'
  BY <1>8, ReturnType DEF EndCall, TypeOK
<1> QED
  BY <1>1, <1>2, <1>3, <1>4, <1>5, <1>6, <1>7, <1>8 DEF Ordering

\* What a receipt books of a line is a quantity.
LEMMA DeltaType ==
  ASSUME TypeOK, NEW c \in Calls, NEW l \in Lines
  PROVE  /\ Delta(c, l) \in Nat
         /\ call[c].order \in Orders
         /\ received[call[c].order][l] \in Nat /\ call[c].want[l] \in Nat
BY DEF TypeOK, CallStates, Quantities, Delta

\* Receiving keeps the types.
LEMMA TypeReceiving == TypeOK /\ Receiving => TypeOK'
<1> SUFFICES ASSUME TypeOK, Receiving PROVE TypeOK'
  OBVIOUS
<1>1. ASSUME NEW c \in Calls, NEW o \in Orders, NEW want \in Wants, ReadForReceipt(c, o, want)
      PROVE  TypeOK'
  <2>1. want \in Quantities
    BY OrderedAssumption DEF Wants, Quantities, Lines
  <2>2. [Idle EXCEPT !.pc = "receive", !.order = o, !.want = want] \in CallStates
    BY <2>1, ConstantTypes DEF CallStates
  <2> QED
    BY <1>1, <2>2 DEF ReadForReceipt, TypeOK, orderVars, stockVars, historyVars
<1>2. ASSUME NEW c \in Calls, NEW n \in Notes, PerformReceipt(c, n) PROVE TypeOK'
  <2> DEFINE o == call[c].order
             delta == [l \in Lines |-> Delta(c, l)]
             got == [l \in Lines |-> received[o][l] + delta[l]]
  <2>1. o \in Orders /\ delta \in Quantities /\ got \in Quantities
    BY DeltaType DEF Quantities, TypeOK, CallStates
  <2>2. /\ note' = [note EXCEPT ![n] = [status |-> "POSTED", order |-> o, qty |-> delta]]
        /\ received' = [received EXCEPT ![o] = got]
        /\ onHand' = [p \in Parts |-> onHand[p] + delta[p]]
        /\ row' = [p \in Parts |-> row[p] + delta[p]]
        /\ ledger' = [p \in Parts |-> ledger[p] + delta[p]]
        /\ status' = [status EXCEPT ![o] = StatusOf(got)]
        /\ raced' \in {raced, raced \cup {o}}
        /\ Return(c)
        /\ UNCHANGED <<worth, bill, moves, unbooked, torn, takenBack, billedAtOnce>>
    BY <1>2 DEF PerformReceipt
  <2>3. \A p \in Parts : delta[p] \in Int
    BY <2>1 DEF Quantities, Lines
  <2>4. StatusOf(got) \in Statuses
    BY StatusOfType DEF Statuses
  <2> HIDE DEF delta, got
  <2>5. note' \in [Notes -> NoteRows]
    BY <2>1, <2>2 DEF TypeOK, NoteRows
  <2> QED
    BY <2>1, <2>2, <2>3, <2>4, <2>5, ReturnType DEF TypeOK
<1> QED
  BY <1>1, <1>2 DEF Receiving

\* What a line of a note leaves is a quantity.
LEMMA LessType ==
  ASSUME TypeOK, NEW n \in Notes, NEW l \in Lines, NEW got \in Nat
  PROVE  note[n].qty[l] \in Nat /\ Less(got, n, l) \in Nat /\ Less(got, n, l) <= got
BY DEF TypeOK, NoteRows, Quantities, Less

\* Taking lines back keeps the types of what it writes.
LEMMA TakeBackType ==
  ASSUME TypeOK, NEW n \in Notes, NEW parts \in SUBSET Parts, TakeBack(n, parts)
  PROVE  /\ row' \in [Parts -> Int] /\ ledger' \in [Parts -> Int]
         /\ received' \in [Orders -> Quantities]
         /\ takenBack' \in [Notes -> Quantities]
<1> DEFINE o == note[n].order
<1>1. o \in Orders /\ \A l \in Lines : note[n].qty[l] \in Nat
  BY DEF TypeOK, NoteRows, Quantities
<1>2. Parts \subseteq Lines
  BY DEF Lines
<1>3. row' \in [Parts -> Int] /\ ledger' \in [Parts -> Int]
  BY <1>1, <1>2 DEF TakeBack, TypeOK
<1>4. received' \in [Orders -> Quantities]
  <2>1. \A l \in Lines : received[o][l] \in Nat /\ Less(received[o][l], n, l) \in Nat
    BY <1>1, LessType DEF TypeOK, Quantities
  <2>2. [l \in Lines |-> IF l \in parts THEN Less(received[o][l], n, l) ELSE received[o][l]]
           \in Quantities
    BY <2>1 DEF Quantities
  <2>3. received' = [received EXCEPT ![o] =
           [l \in Lines |-> IF l \in parts THEN Less(received[o][l], n, l) ELSE received[o][l]]]
    BY DEF TakeBack
  <2> QED
    BY <2>2, <2>3 DEF TypeOK
<1>5. takenBack' \in [Notes -> Quantities]
  <2>1. \A l \in Lines : takenBack[n][l] \in Nat
    BY DEF TypeOK, Quantities
  <2>2. [l \in Lines |-> IF l \in parts THEN takenBack[n][l] + note[n].qty[l]
                         ELSE takenBack[n][l]] \in Quantities
    BY <1>1, <2>1 DEF Quantities
  <2>3. takenBack' = [takenBack EXCEPT ![n] =
           [l \in Lines |-> IF l \in parts THEN takenBack[n][l] + note[n].qty[l]
                            ELSE takenBack[n][l]]]
    BY DEF TakeBack
  <2> QED
    BY <2>2, <2>3 DEF TypeOK
<1> QED
  BY <1>3, <1>4, <1>5

\* Reversing keeps the types.
LEMMA TypeReversing == TypeOK /\ Reversing => TypeOK'
<1> SUFFICES ASSUME TypeOK, Reversing PROVE TypeOK'
  OBVIOUS
<1> USE DEF orderVars, stockVars, historyVars
<1>1. ASSUME NEW c \in Calls, NEW n \in Notes, ReadNote(c, n) PROVE TypeOK'
  <2>1. [Idle EXCEPT !.pc = "billed", !.note = n] \in CallStates
    BY ConstantTypes DEF CallStates
  <2> QED
    BY <1>1, <2>1 DEF ReadNote, TypeOK
<1>2. ASSUME NEW c \in Calls, CheckBilled(c) PROVE TypeOK'
  <2>1. call' \in [Calls -> CallStates]
    BY <1>2 DEF CheckBilled, Go, TypeOK, CallStates
  <2> QED
    BY <1>2, <2>1 DEF CheckBilled, TypeOK
<1>3. ASSUME NEW c \in Calls, Reverse(c) PROVE TypeOK'
  <2> DEFINE n == call[c].note
             o == note[n].order
  <2>1. n \in Notes /\ o \in Orders /\ Stocked(n) \in SUBSET Parts
    BY DEF TypeOK, CallStates, NoteRows, Stocked
  <2>2. /\ TakeBack(n, Stocked(n)) /\ Decrement(n, Stocked(n))
        /\ note' = [note EXCEPT ![n].status = "CANCELLED"]
        /\ status' = IF Exists(o) THEN [status EXCEPT ![o] = StatusOf(received'[o])] ELSE status
        /\ Return(c)
        /\ UNCHANGED <<worth, bill, moves, unbooked, torn, raced, billedAtOnce>>
    BY <1>3 DEF Reverse
  <2>3. onHand' \in [Parts -> Int]
    BY <2>1, <2>2, LessType DEF Decrement, TypeOK, Lines, NoteRows, Quantities
  <2>4. note' \in [Notes -> NoteRows]
    BY <2>1, <2>2 DEF TypeOK, NoteRows
  <2>5. status' \in [Orders -> Statuses \cup {"NONE", "DELETED"}]
    <3>1. StatusOf(received'[o]) \in Statuses
      BY StatusOfType DEF Statuses
    <3> QED
      BY <2>1, <2>2, <3>1 DEF TypeOK
  <2> HIDE DEF n, o
  <2> QED
    BY <2>1, <2>2, <2>3, <2>4, <2>5, TakeBackType, ReturnType DEF TypeOK
<1>4. ASSUME NEW c \in Calls, NEW before \in SUBSET Parts, NEW short \in Parts,
             ReverseGivesUp(c, before, short)
      PROVE  TypeOK'
  <2> DEFINE n == call[c].note
             down == IF ShortPart(n, short) THEN {} ELSE {short}
  <2>1. n \in Notes /\ down \in SUBSET Parts /\ \A p \in Parts : note[n].qty[p] \in Int
    BY DEF TypeOK, CallStates, NoteRows, Quantities, Lines
  <2>2. /\ TakeBack(n, before) /\ Decrement(n, before \cup down)
        /\ unbooked' = [p \in Parts |-> IF p \in down THEN unbooked[p] + note[n].qty[p]
                                                      ELSE unbooked[p]]
        /\ torn' \in {torn, torn \cup {n}}
        /\ Return(c)
        /\ UNCHANGED <<status, worth, note, bill, moves, raced, billedAtOnce>>
    BY <1>4 DEF ReverseGivesUp
  <2> HIDE DEF n, down
  <2>3. onHand' \in [Parts -> Int] /\ unbooked' \in [Parts -> Int]
    BY <2>1, <2>2 DEF Decrement, TypeOK
  <2> QED
    BY <2>1, <2>2, <2>3, TakeBackType, ReturnType DEF TypeOK
<1> QED
  BY <1>1, <1>2, <1>3, <1>4 DEF Reversing

\* Billing and the movements around it keep the types.
LEMMA TypeBillingMoving == TypeOK /\ (Billing \/ Moving) => TypeOK'
<1> SUFFICES ASSUME TypeOK, Billing \/ Moving PROVE TypeOK'
  OBVIOUS
<1> USE DEF orderVars, stockVars, historyVars
<1>1. ASSUME NEW c \in Calls, NEW form \in Forms, CheckBill(c, form) PROVE TypeOK'
  <2>1. [Idle EXCEPT !.pc = "bill", !.form = form] \in CallStates
    BY ConstantTypes, BillsAssumption DEF CallStates
  <2>2. moves' \in Nat
    BY <1>1 DEF CheckBill, UseMoves, TypeOK
  <2> QED
    BY <1>1, <2>1, <2>2 DEF CheckBill, TypeOK
<1>2. ASSUME NEW c \in Calls, NEW b \in Bills, CreateBill(c, b) PROVE TypeOK'
  <2> DEFINE o == call[c].form.order
             made == [status |-> "POSTED", order |-> o, note |-> call[c].form.note,
                      amount |-> call[c].form.amount]
  <2>1. made \in BillRows
    BY DEF TypeOK, CallStates, BillRows
  <2>2. bill' = [bill EXCEPT ![b] = made] /\ Return(c)
        /\ billedAtOnce' \in {billedAtOnce, billedAtOnce \cup ({o} \cap Orders)}
        /\ UNCHANGED <<orderVars, note, stockVars, moves, unbooked, torn, takenBack, raced>>
    BY <1>2 DEF CreateBill
  <2> HIDE DEF made
  <2> QED
    BY <2>1, <2>2, ReturnType DEF TypeOK
<1>3. ASSUME NEW b \in Bills, CancelBill(b) PROVE TypeOK'
  <2>1. [NoBill EXCEPT !.status = "CANCELLED", !.order = bill[b].order] \in BillRows
    BY ConstantTypes DEF TypeOK, BillRows
  <2> QED
    BY <1>3, <2>1 DEF CancelBill, TypeOK
<1>4. ASSUME NEW p \in Parts, SellUnit(p) PROVE TypeOK'
  BY <1>4 DEF SellUnit, UseMoves, TypeOK
<1>5. ASSUME NEW p \in Parts, MoveUnitAway(p) PROVE TypeOK'
  BY <1>5 DEF MoveUnitAway, UseMoves, TypeOK
<1> QED
  BY <1>1, <1>2, <1>3, <1>4, <1>5 DEF Billing, Moving

\* Every step keeps the types.
LEMMA TypeStep == TypeOK /\ [Next]_vars => TypeOK'
<1>1. TypeOK /\ UNCHANGED vars => TypeOK'
  BY DEF vars, TypeOK
<1> QED
  BY <1>1, TypeOrdering, TypeReceiving, TypeReversing, TypeBillingMoving DEF Next

\* Rows, forms and locals of procurement keep their types, for every instance.
THEOREM TypeCorrect == Spec => []TypeOK
BY TypeInit, TypeStep, PTL DEF Spec
-----------------------------------------------------------------------------
(* Nothing is received beyond the order *)

\* What a form asks for is within the order, however long ago it was rendered.
WantsWithinOrder == \A c \in Calls : \A l \in Lines : call[c].want[l] <= Ordered[l]

OverInv == TypeOK /\ NeverOverReceived /\ WantsWithinOrder

\* Nothing is received and nothing asked for at the start.
LEMMA OverInit == Init => NeverOverReceived /\ WantsWithinOrder
BY OrderedAssumption DEF Init, NeverOverReceived, WantsWithinOrder, Nothing, Idle

\* A request goes on with what it asked for, or starts with a form of the page.
LEMMA WantsStep == TypeOK /\ WantsWithinOrder /\ [Next]_vars => WantsWithinOrder'
<1> SUFFICES ASSUME TypeOK, WantsWithinOrder, [Next]_vars,
                    NEW d \in Calls, NEW l \in Lines
             PROVE  call'[d].want[l] <= Ordered[l]
  BY DEF WantsWithinOrder
<1> USE DEF TypeOK
<1>1. call[d].want[l] <= Ordered[l] /\ Ordered[l] \in Nat
  BY OrderedAssumption DEF WantsWithinOrder
<1>2. Idle.want[l] <= Ordered[l]
  BY <1>1 DEF Idle, Nothing
<1>3. CASE UNCHANGED call
  BY <1>1, <1>3
<1>4. ASSUME NEW c \in Calls, Return(c) PROVE call'[d].want[l] <= Ordered[l]
  BY <1>1, <1>2, <1>4 DEF Return
<1>6. CASE Ordering
  <2>1. ASSUME NEW c \in Calls, NEW o \in Orders, BuyOverCounter(c, o)
        PROVE  call'[d].want[l] <= Ordered[l]
    BY <1>1, <2>1 DEF BuyOverCounter, Idle, Nothing
  <2>2. ASSUME NEW c \in Calls, ReadOwnOrder(c) PROVE call'[d].want[l] <= Ordered[l]
    <3>1. call' = [call EXCEPT ![c] = [call[c] EXCEPT !.pc = "receive", !.want = Ordered]]
      BY <2>2 DEF ReadOwnOrder
    <3>2. [call[c] EXCEPT !.pc = "receive", !.want = Ordered].want = Ordered
      BY DEF CallStates
    <3> QED
      BY <1>1, <3>1, <3>2
  <2>3. ASSUME NEW c \in Calls, NEW o \in Orders, NEW next \in Statuses, ReadForStatus(c, o, next)
        PROVE  call'[d].want[l] <= Ordered[l]
    BY <1>1, <2>3 DEF ReadForStatus, Idle, Nothing
  <2>4. ASSUME NEW c \in Calls, NEW o \in Orders, ReadForDelete(c, o)
        PROVE  call'[d].want[l] <= Ordered[l]
    BY <1>1, <2>4 DEF ReadForDelete, Idle, Nothing
  <2> QED
    BY <1>3, <1>4, <1>6, <2>1, <2>2, <2>3, <2>4
    DEF Ordering, CreateOrder, WriteStatus, DeleteOrder, EndCall
<1>7. CASE Receiving
  <2>1. ASSUME NEW c \in Calls, NEW o \in Orders, NEW want \in Wants, ReadForReceipt(c, o, want)
        PROVE  call'[d].want[l] <= Ordered[l]
    <3>1. call' = [call EXCEPT ![c] = [Idle EXCEPT !.pc = "receive", !.order = o, !.want = want]]
      BY <2>1 DEF ReadForReceipt
    <3>2. want[l] <= Ordered[l]
      BY DEF Wants
    <3>3. CASE d = c
      BY <3>1, <3>2, <3>3 DEF Idle
    <3>4. CASE d # c
      BY <1>1, <3>1, <3>4
    <3> QED
      BY <3>3, <3>4
  <2> QED
    BY <1>4, <1>7, <2>1 DEF Receiving, PerformReceipt
<1>8. CASE Reversing
  <2>1. ASSUME NEW c \in Calls, NEW n \in Notes, ReadNote(c, n) PROVE call'[d].want[l] <= Ordered[l]
    BY <1>1, <2>1 DEF ReadNote, Idle, Nothing
  <2>2. ASSUME NEW c \in Calls, CheckBilled(c) PROVE call'[d].want[l] <= Ordered[l]
    BY <1>1, <2>2 DEF CheckBilled, Go, CallStates
  <2> QED
    BY <1>4, <1>8, <2>1, <2>2 DEF Reversing, Reverse, ReverseGivesUp
<1>9. CASE Billing \/ Moving
  <2>1. ASSUME NEW c \in Calls, NEW form \in Forms, CheckBill(c, form) PROVE call'[d].want[l] <= Ordered[l]
    BY <1>1, <2>1 DEF CheckBill, Idle, Nothing
  <2> QED
    BY <1>3, <1>4, <1>9, <2>1 DEF Billing, Moving, CreateBill, CancelBill, SellUnit, MoveUnitAway
<1> QED
  BY <1>3, <1>6, <1>7, <1>8, <1>9 DEF Next, vars

\* A receipt is clamped to what is open by then, and nothing else adds to a line.
LEMMA OverStep == OverInv /\ [Next]_vars => NeverOverReceived'
<1> SUFFICES ASSUME OverInv, [Next]_vars, NEW o \in Orders, NEW l \in Lines
             PROVE  received'[o][l] <= Ordered[l]
  BY DEF NeverOverReceived
<1> USE DEF OverInv
<1>1. received[o][l] <= Ordered[l] /\ Ordered[l] \in Nat /\ received[o][l] \in Nat
  BY OrderedAssumption DEF NeverOverReceived, TypeOK, Quantities
<1>2. CASE UNCHANGED received
  BY <1>1, <1>2
<1>3. ASSUME NEW c \in Calls, DeleteOrder(c) PROVE received'[o][l] <= Ordered[l]
  BY <1>1, <1>3 DEF DeleteOrder, Nothing, TypeOK
<1>4. ASSUME NEW c \in Calls, NEW n \in Notes, PerformReceipt(c, n)
      PROVE  received'[o][l] <= Ordered[l]
  <2>1. received' = [received EXCEPT ![call[c].order] =
           [k \in Lines |-> received[call[c].order][k] + [m \in Lines |-> Delta(c, m)][k]]]
    BY <1>4 DEF PerformReceipt
  <2>2. CASE o # call[c].order
    BY <1>1, <2>1, <2>2 DEF TypeOK
  <2>3. CASE o = call[c].order
    <3>1. received'[o][l] = received[o][l] + Delta(c, l)
      BY <2>1, <2>3 DEF TypeOK
    <3>2. call[c].want[l] <= Ordered[l] /\ call[c].want[l] \in Nat
      BY DeltaType DEF WantsWithinOrder
    <3> QED
      BY <1>1, <2>3, <3>1, <3>2 DEF Delta
  <2> QED
    BY <2>2, <2>3
<1>5. ASSUME NEW n \in Notes, NEW parts, TakeBack(n, parts) PROVE received'[o][l] <= Ordered[l]
  <2>1. received'[o][l] \in {received[o][l], Less(received[o][l], n, l)}
    BY <1>5 DEF TakeBack, TypeOK
  <2>2. Less(received[o][l], n, l) \in Nat /\ Less(received[o][l], n, l) <= received[o][l]
    BY <1>1, LessType
  <2> QED
    BY <1>1, <2>1, <2>2
<1>6. \A c \in Calls : call[c].note \in Notes
  BY DEF TypeOK, CallStates
<1>7. CASE Reversing
  BY <1>2, <1>5, <1>6, <1>7
  DEF Reversing, ReadNote, CheckBilled, Reverse, ReverseGivesUp, orderVars
<1>8. CASE Ordering
  BY <1>2, <1>3, <1>8
  DEF Ordering, CreateOrder, BuyOverCounter, ReadOwnOrder, ReadForStatus, WriteStatus,
      ReadForDelete, EndCall, orderVars
<1>9. CASE Receiving
  BY <1>2, <1>4, <1>9 DEF Receiving, ReadForReceipt, orderVars
<1>10. CASE Billing \/ Moving
  BY <1>2, <1>10
  DEF Billing, Moving, CheckBill, CreateBill, CancelBill, SellUnit, MoveUnitAway, orderVars
<1> QED
  BY <1>2, <1>7, <1>8, <1>9, <1>10 DEF Next, vars

\* Forms filled in side by side never receive more of a line than was ordered,
\* whatever number of requests there is.
THEOREM OverCorrect == Spec => []NeverOverReceived
<1>1. Init => OverInv
  BY TypeInit, OverInit DEF OverInv
<1>2. OverInv /\ [Next]_vars => OverInv'
  BY TypeStep, WantsStep, OverStep DEF OverInv
<1>3. OverInv => NeverOverReceived
  BY DEF OverInv
<1> QED
  BY <1>1, <1>2, <1>3, PTL DEF Spec
-----------------------------------------------------------------------------
(* Closed orders are empty *)

\* A request that is about to cancel or delete an order has seen it empty, and it
\* still is, unless goods came in since.
Cancels(c, o) == call[c].pc = "write" /\ call[c].status = "CANCELLED" /\ call[c].order = o
Deletes(c, o) == call[c].pc = "delete" /\ call[c].order = o
SeenEmpty ==
  \A c \in Calls : \A o \in Orders \ raced :
     /\ Cancels(c, o) => ~AnyReceived(o)
     /\ Deletes(c, o) => PostedFor(o) = {}

ClosedInv == TypeOK /\ ClosedOrdersAreEmpty /\ SeenEmpty

Receipt == \E c \in Calls, n \in Notes : PerformReceipt(c, n)

LEMMA ClosedInit == Init => ClosedOrdersAreEmpty /\ SeenEmpty
BY ConstantTypes DEF Init, ClosedOrdersAreEmpty, SeenEmpty, Cancels, Deletes, AnyReceived, PostedFor,
   Nothing, Idle, Unused

\* Only a receipt brings goods in, and only it makes an order raced.
LEMMA NoGoodsIn ==
  ASSUME TypeOK, [Next]_vars, ~Receipt
  PROVE  /\ raced' = raced
         /\ \A o \in Orders : /\ AnyReceived(o)' => AnyReceived(o)
                              /\ PostedFor(o)' \subseteq PostedFor(o)
<1> DEFINE Goal == /\ raced' = raced
                   /\ \A o \in Orders : /\ AnyReceived(o)' => AnyReceived(o)
                                        /\ PostedFor(o)' \subseteq PostedFor(o)
<1>1. CASE UNCHANGED <<received, note, raced>>
  BY <1>1 DEF AnyReceived, PostedFor
<1>2. ASSUME NEW c \in Calls, DeleteOrder(c) PROVE Goal
  <2>1. /\ received' = [received EXCEPT ![call[c].order] = Nothing]
        /\ UNCHANGED <<note, raced>>
    BY <1>2 DEF DeleteOrder, historyVars
  <2>2. \A o \in Orders : AnyReceived(o)' => AnyReceived(o)
    BY <2>1 DEF AnyReceived, Nothing, TypeOK
  <2> QED
    BY <2>1, <2>2 DEF PostedFor
<1>3. ASSUME NEW n \in Notes, NEW parts, TakeBack(n, parts) PROVE \A o \in Orders : AnyReceived(o)' => AnyReceived(o)
  <2> SUFFICES ASSUME NEW o \in Orders, NEW l \in Lines, received'[o][l] > 0
               PROVE  received[o][l] > 0
    BY DEF AnyReceived
  <2>1. received[o][l] \in Nat
    BY DEF TypeOK, Quantities
  <2>2. received'[o][l] \in {received[o][l], Less(received[o][l], n, l)}
    BY <1>3 DEF TakeBack, TypeOK
  <2>3. Less(received[o][l], n, l) \in Nat /\ Less(received[o][l], n, l) <= received[o][l]
    BY <2>1, LessType
  <2> QED
    BY <2>1, <2>2, <2>3
<1>4. \A c \in Calls : call[c].note \in Notes
  BY DEF TypeOK, CallStates
<1>5. ASSUME NEW c \in Calls, Reverse(c) PROVE Goal
  <2>1. \A o \in Orders : AnyReceived(o)' => AnyReceived(o)
    BY <1>3, <1>4, <1>5 DEF Reverse
  <2>2. note' = [note EXCEPT ![call[c].note].status = "CANCELLED"] /\ raced' = raced
    BY <1>5 DEF Reverse
  <2>3. \A o \in Orders : PostedFor(o)' \subseteq PostedFor(o)
    BY <1>4, <2>2 DEF PostedFor, TypeOK, NoteRows
  <2> QED
    BY <2>1, <2>2, <2>3
<1>6. ASSUME NEW c \in Calls, NEW before \in SUBSET Parts, NEW short \in Parts,
             ReverseGivesUp(c, before, short)
      PROVE  Goal
  <2>1. \A o \in Orders : AnyReceived(o)' => AnyReceived(o)
    BY <1>3, <1>4, <1>6 DEF ReverseGivesUp
  <2>2. note' = note /\ raced' = raced
    BY <1>6 DEF ReverseGivesUp
  <2> QED
    BY <2>1, <2>2 DEF PostedFor
<1>7. CASE Ordering
  BY <1>1, <1>2, <1>7
  DEF Ordering, CreateOrder, BuyOverCounter, ReadOwnOrder, ReadForStatus, WriteStatus,
      ReadForDelete, EndCall, orderVars, historyVars
<1>8. CASE Receiving
  BY <1>1, <1>8 DEF Receiving, ReadForReceipt, Receipt, orderVars, historyVars
<1>9. CASE Reversing
  BY <1>1, <1>5, <1>6, <1>9 DEF Reversing, ReadNote, CheckBilled, orderVars, historyVars
<1>10. CASE Billing \/ Moving
  BY <1>1, <1>10
  DEF Billing, Moving, CheckBill, CreateBill, CancelBill, SellUnit, MoveUnitAway, orderVars,
      historyVars
<1> QED
  BY <1>1, <1>7, <1>8, <1>9, <1>10 DEF Next, vars

\* An order is closed by a request that was about to, and a request is about to
\* when it has just seen the order empty.
LEMMA Closing ==
  ASSUME TypeOK, [Next]_vars, ~Receipt, NEW o \in Orders
  PROVE  /\ status'[o] = "CANCELLED" => status[o] = "CANCELLED" \/ \E c \in Calls : Cancels(c, o)
         /\ status'[o] = "DELETED" => status[o] = "DELETED" \/ \E c \in Calls : Deletes(c, o)
         /\ \A d \in Calls : /\ Cancels(d, o)' => Cancels(d, o) \/ ~AnyReceived(o)
                             /\ Deletes(d, o)' => Deletes(d, o) \/ PostedFor(o) = {}
<1> DEFINE Written ==
      /\ status'[o] = "CANCELLED" => status[o] = "CANCELLED" \/ \E c \in Calls : Cancels(c, o)
      /\ status'[o] = "DELETED" => status[o] = "DELETED" \/ \E c \in Calls : Deletes(c, o)
    Pending ==
      \A d \in Calls : /\ Cancels(d, o)' => Cancels(d, o) \/ ~AnyReceived(o)
                       /\ Deletes(d, o)' => Deletes(d, o) \/ PostedFor(o) = {}
<1>1. Written
  <2>1. CASE UNCHANGED status
    BY <2>1
  <2>2. ASSUME NEW c \in Calls, WriteStatus(c) PROVE Written
    BY <2>2 DEF WriteStatus, Cancels, TypeOK, CallStates, Statuses
  <2>3. ASSUME NEW c \in Calls, DeleteOrder(c) PROVE Written
    BY <2>3 DEF DeleteOrder, Deletes, TypeOK
  <2>4. ASSUME NEW c \in Calls, Reverse(c) PROVE Written
    <3>1. \A got : StatusOf(got) \notin {"CANCELLED", "DELETED"}
      BY DEF StatusOf
    <3>2. \/ status' = status
          \/ \E p, got : status' = [status EXCEPT ![p] = StatusOf(got)]
      BY <2>4 DEF Reverse
    <3> QED
      BY <3>1, <3>2 DEF TypeOK
  <2>5. ASSUME NEW p \in Orders, NEW first \in {"DRAFT", "ORDERED"}, CreateOrder(p, first)
        PROVE  Written
    BY <2>5 DEF CreateOrder, TypeOK
  <2>6. ASSUME NEW c \in Calls, NEW p \in Orders, BuyOverCounter(c, p) PROVE Written
    BY <2>6 DEF BuyOverCounter, TypeOK
  <2>7. CASE Ordering
    BY <2>1, <2>2, <2>3, <2>5, <2>6, <2>7
    DEF Ordering, ReadOwnOrder, ReadForStatus, ReadForDelete, EndCall, orderVars
  <2>8. CASE Receiving \/ Reversing \/ Billing \/ Moving
    BY <2>1, <2>4, <2>8
    DEF Receiving, ReadForReceipt, Receipt, Reversing, ReadNote, CheckBilled, ReverseGivesUp,
        Billing, CheckBill, CreateBill, CancelBill, Moving, SellUnit, MoveUnitAway, orderVars
  <2> QED
    BY <2>1, <2>7, <2>8 DEF Next, vars
<1>2. Pending
  <2> SUFFICES ASSUME NEW d \in Calls
               PROVE  /\ Cancels(d, o)' => Cancels(d, o) \/ ~AnyReceived(o)
                      /\ Deletes(d, o)' => Deletes(d, o) \/ PostedFor(o) = {}
    OBVIOUS
  <2> DEFINE Still == /\ Cancels(d, o)' => Cancels(d, o) \/ ~AnyReceived(o)
                      /\ Deletes(d, o)' => Deletes(d, o) \/ PostedFor(o) = {}
  <2> USE DEF Cancels, Deletes, TypeOK, CallStates
  <2>1. CASE UNCHANGED call
    BY <2>1
  <2>2. ASSUME NEW c \in Calls, Return(c) PROVE Still
    BY <2>2 DEF Return, Idle
  <2>3. ASSUME NEW c \in Calls, NEW p \in Orders, NEW next \in Statuses, ReadForStatus(c, p, next)
        PROVE  Still
    BY <2>3 DEF ReadForStatus, MayBecome, Idle
  <2>4. ASSUME NEW c \in Calls, NEW p \in Orders, ReadForDelete(c, p) PROVE Still
    BY <2>4 DEF ReadForDelete, PostedFor, Idle
  <2>5. ASSUME NEW c \in Calls, NEW p \in Orders, BuyOverCounter(c, p) PROVE Still
    BY <2>5 DEF BuyOverCounter, Idle
  <2>6. ASSUME NEW c \in Calls, ReadOwnOrder(c) PROVE Still
    BY <2>6 DEF ReadOwnOrder
  <2>7. ASSUME NEW c \in Calls, NEW p \in Orders, NEW want \in Wants, ReadForReceipt(c, p, want)
        PROVE  Still
    BY <2>7 DEF ReadForReceipt, Idle
  <2>8. ASSUME NEW c \in Calls, NEW n \in Notes, ReadNote(c, n) PROVE Still
    BY <2>8 DEF ReadNote, Idle
  <2>9. ASSUME NEW c \in Calls, CheckBilled(c) PROVE Still
    BY <2>9 DEF CheckBilled, Go
  <2>10. ASSUME NEW c \in Calls, NEW form \in Forms, CheckBill(c, form) PROVE Still
    BY <2>10 DEF CheckBill, Idle
  <2>11. CASE Ordering
    BY <2>1, <2>2, <2>3, <2>4, <2>5, <2>6, <2>11
    DEF Ordering, CreateOrder, WriteStatus, DeleteOrder, EndCall
  <2>12. CASE Receiving \/ Reversing
    BY <2>7, <2>8, <2>9, <2>2, <2>12 DEF Receiving, Receipt, Reversing, Reverse, ReverseGivesUp
  <2>13. CASE Billing \/ Moving
    BY <2>1, <2>2, <2>10, <2>13
    DEF Billing, CreateBill, CancelBill, Moving, SellUnit, MoveUnitAway
  <2> QED
    BY <2>1, <2>11, <2>12, <2>13 DEF Next, vars
<1> QED
  BY <1>1, <1>2
\* Goods that come in open their order again, and whoever was closing it raced.
LEMMA ReceiptRaces ==
  ASSUME TypeOK, NEW c \in Calls, NEW n \in Notes, PerformReceipt(c, n), NEW o \in Orders
  PROVE  /\ raced \subseteq raced'
         /\ o # call[c].order =>
              /\ status'[o] = status[o] /\ (AnyReceived(o)' <=> AnyReceived(o))
              /\ PostedFor(o)' \subseteq PostedFor(o)
              /\ \A d \in Calls : /\ Cancels(d, o)' => Cancels(d, o)
                                  /\ Deletes(d, o)' => Deletes(d, o)
         /\ o = call[c].order =>
              /\ status'[o] \notin {"CANCELLED", "DELETED"}
              /\ o \notin raced' => \A d \in Calls : ~Cancels(d, o)' /\ ~Deletes(d, o)'
<1> DEFINE at == call[c].order
<1> USE DEF TypeOK
<1>1. PICK qty, got :
        /\ received' = [received EXCEPT ![at] = got]
        /\ status' = [status EXCEPT ![at] = StatusOf(got)]
        /\ note' = [note EXCEPT ![n] = [status |-> "POSTED", order |-> at, qty |-> qty]]
        /\ Return(c)
  BY DEF PerformReceipt
<1>2. raced' = IF \E d \in Calls : call[d].pc \in {"write", "delete"} /\ call[d].order = at
               THEN raced \cup {at} ELSE raced
  BY DEF PerformReceipt
<1>3. \A d \in Calls : /\ Cancels(d, o)' => Cancels(d, o)
                       /\ Deletes(d, o)' => Deletes(d, o)
  BY <1>1 DEF Return, Idle, Cancels, Deletes
<1>4. CASE o # at
  <2>1. status'[o] = status[o] /\ (AnyReceived(o)' <=> AnyReceived(o))
    BY <1>1, <1>4 DEF AnyReceived
  <2>2. PostedFor(o)' \subseteq PostedFor(o)
    BY <1>1, <1>4 DEF PostedFor, NoteRows
  <2> QED
    BY <1>2, <1>3, <1>4, <2>1, <2>2
<1>5. CASE o = at
  <2>1. status'[o] \notin {"CANCELLED", "DELETED"}
    BY <1>1, <1>5, StatusOfType
  <2>2. o \notin raced' => \A d \in Calls : ~Cancels(d, o)' /\ ~Deletes(d, o)'
    <3> SUFFICES ASSUME o \notin raced', NEW d \in Calls PROVE ~Cancels(d, o)' /\ ~Deletes(d, o)'
      OBVIOUS
    <3>1. ~ (call[d].pc \in {"write", "delete"} /\ call[d].order = at)
      BY <1>2, <1>5
    <3> QED
      BY <1>3, <1>5, <3>1 DEF Cancels, Deletes
  <2> QED
    BY <1>2, <1>5, <2>1, <2>2
<1> QED
  BY <1>4, <1>5

LEMMA ClosedStep == ClosedInv /\ [Next]_vars => ClosedOrdersAreEmpty' /\ SeenEmpty'
<1> SUFFICES ASSUME ClosedInv, [Next]_vars, NEW o \in Orders, o \notin raced'
             PROVE  /\ status'[o] = "CANCELLED" => ~AnyReceived(o)'
                    /\ status'[o] = "DELETED" => PostedFor(o)' = {}
                    /\ \A d \in Calls : /\ Cancels(d, o)' => ~AnyReceived(o)'
                                        /\ Deletes(d, o)' => PostedFor(o)' = {}
  BY DEF ClosedOrdersAreEmpty, SeenEmpty
<1>1. TypeOK
  BY DEF ClosedInv
<1>2. o \notin raced =>
        /\ status[o] = "CANCELLED" => ~AnyReceived(o)
        /\ status[o] = "DELETED" => PostedFor(o) = {}
        /\ \A d \in Calls : /\ Cancels(d, o) => ~AnyReceived(o)
                            /\ Deletes(d, o) => PostedFor(o) = {}
  BY DEF ClosedInv, ClosedOrdersAreEmpty, SeenEmpty
<1>3. CASE Receipt
  <2>1. PICK c \in Calls, n \in Notes : PerformReceipt(c, n)
    BY <1>3 DEF Receipt
  <2>2. o \notin raced
    BY <1>1, <2>1, ReceiptRaces
  <2>3. CASE o = call[c].order
    BY <1>1, <2>1, <2>3, ReceiptRaces
  <2>4. CASE o # call[c].order
    <3>1. /\ status'[o] = status[o] /\ (AnyReceived(o)' <=> AnyReceived(o))
          /\ PostedFor(o)' \subseteq PostedFor(o)
          /\ \A d \in Calls : /\ Cancels(d, o)' => Cancels(d, o)
                              /\ Deletes(d, o)' => Deletes(d, o)
      BY <1>1, <2>1, <2>4, ReceiptRaces
    <3> QED
      BY <1>2, <2>2, <3>1
  <2> QED
    BY <2>3, <2>4
<1>4. CASE ~Receipt
  <2>1. /\ raced' = raced /\ (AnyReceived(o)' => AnyReceived(o))
        /\ PostedFor(o)' \subseteq PostedFor(o)
    BY <1>1, <1>4, NoGoodsIn
  <2> QED
    <3>1. o \notin raced
      BY <2>1
    <3>2. /\ status'[o] = "CANCELLED" => status[o] = "CANCELLED" \/ \E c \in Calls : Cancels(c, o)
          /\ status'[o] = "DELETED" => status[o] = "DELETED" \/ \E c \in Calls : Deletes(c, o)
          /\ \A d \in Calls : /\ Cancels(d, o)' => Cancels(d, o) \/ ~AnyReceived(o)
                              /\ Deletes(d, o)' => Deletes(d, o) \/ PostedFor(o) = {}
      BY <1>1, <1>4, Closing
    <3>3. PostedFor(o) = {} => PostedFor(o)' = {}
      BY <2>1
    <3> QED
      BY <1>2, <2>1, <3>1, <3>2, <3>3
<1> QED
  BY <1>3, <1>4

\* An order is cancelled or deleted over goods only when they came in between that
\* handler's check and its write, however many requests there are.
THEOREM ClosedCorrect == Spec => []ClosedOrdersAreEmpty
<1>1. Init => ClosedInv
  BY TypeInit, ClosedInit DEF ClosedInv
<1>2. ClosedInv /\ [Next]_vars => ClosedInv'
  BY TypeStep, ClosedStep DEF ClosedInv
<1>3. ClosedInv => ClosedOrdersAreEmpty
  BY DEF ClosedInv
<1> QED
  BY <1>1, <1>2, <1>3, PTL DEF Spec

-----------------------------------------------------------------------------
(* A note is billed once *)

\* Only a bill written or cancelled changes the bills.
LEMMA OnlyBilling ==
  ASSUME [Next]_vars
  PROVE  \/ \E c \in Calls, b \in Bills : CreateBill(c, b)
         \/ \E b \in Bills : CancelBill(b)
         \/ bill' = bill /\ billedAtOnce' = billedAtOnce
BY DEF Next, vars, Ordering, CreateOrder, BuyOverCounter, ReadOwnOrder, ReadForStatus, WriteStatus,
       ReadForDelete, DeleteOrder, EndCall, Receiving, ReadForReceipt, PerformReceipt, Reversing,
       ReadNote, CheckBilled, Reverse, ReverseGivesUp, Billing, CheckBill, Moving, SellUnit,
       MoveUnitAway, historyVars

LEMMA BilledStep == TypeOK /\ NoteBilledOnce /\ [Next]_vars => NoteBilledOnce'
<1> SUFFICES ASSUME TypeOK, NoteBilledOnce, [Next]_vars PROVE NoteBilledOnce'
  OBVIOUS
<1>1. CASE bill' = bill
  BY <1>1 DEF NoteBilledOnce
<1>2. ASSUME NEW c \in Calls, NEW b \in Bills, CreateBill(c, b) PROVE NoteBilledOnce'
  <2>1. /\ call[c].form.note # NoNote =>
             \A a \in Bills : ~(bill[a].status = "POSTED" /\ bill[a].note = call[c].form.note)
        /\ bill' = [bill EXCEPT ![b] = [status |-> "POSTED", order |-> call[c].form.order,
                                        note |-> call[c].form.note, amount |-> call[c].form.amount]]
    BY <1>2 DEF CreateBill, NoteUnbilled, Billed
  <2> QED
    BY <2>1 DEF NoteBilledOnce, TypeOK
<1>3. ASSUME NEW b \in Bills, CancelBill(b) PROVE NoteBilledOnce'
  <2>1. bill'[b].status = "CANCELLED" /\ \A a \in Bills \ {b} : bill'[a] = bill[a]
    BY <1>3 DEF CancelBill, NoBill, TypeOK
  <2> QED
    BY <2>1 DEF NoteBilledOnce
<1> QED
  BY <1>1, <1>2, <1>3, OnlyBilling

\* However many forms are posted at once, a note has one live bill.
THEOREM BilledCorrect == Spec => []NoteBilledOnce
<1>1. Init => NoteBilledOnce
  BY DEF Init, NoteBilledOnce, NoBill
<1> QED
  BY <1>1, BilledStep, TypeCorrect, PTL DEF Spec

-----------------------------------------------------------------------------
(* The stock book *)

\* Every step changes the total of a part as it changes the ledger, but for what a
\* given-up reversal takes without an entry.
Booked(p) == ledger'[p] - ledger[p] - (unbooked'[p] - unbooked[p]) = onHand'[p] - onHand[p]

LEMMA BookStep == TypeOK /\ [Next]_vars => \A p \in Parts : Booked(p)
<1> SUFFICES ASSUME TypeOK, [Next]_vars, NEW p \in Parts PROVE Booked(p)
  OBVIOUS
<1> USE DEF Booked
<1>1. onHand[p] \in Int /\ ledger[p] \in Int /\ unbooked[p] \in Int
  BY DEF TypeOK
<1>2. CASE UNCHANGED <<onHand, ledger, unbooked>>
  BY <1>1, <1>2
<1>3. ASSUME NEW c \in Calls, NEW n \in Notes, PerformReceipt(c, n) PROVE Booked(p)
  <2>1. Delta(c, p) \in Int /\ p \in Lines
    BY DeltaType DEF Lines
  <2>2. /\ onHand'[p] = onHand[p] + Delta(c, p) /\ ledger'[p] = ledger[p] + Delta(c, p)
        /\ unbooked' = unbooked
    BY <1>3, <2>1 DEF PerformReceipt
  <2> QED
    BY <1>1, <2>1, <2>2
<1>4. \A c \in Calls : note[call[c].note].qty[p] \in Int
  BY DEF TypeOK, CallStates, NoteRows, Quantities, Lines
<1>5. ASSUME NEW c \in Calls, Reverse(c) PROVE Booked(p)
  <2> DEFINE n == call[c].note
  <2>1. /\ ledger'[p] = IF p \in Stocked(n) THEN ledger[p] - note[n].qty[p] ELSE ledger[p]
        /\ onHand'[p] = IF p \in Stocked(n) THEN onHand[p] - note[n].qty[p] ELSE onHand[p]
        /\ unbooked' = unbooked
    BY <1>5 DEF Reverse, TakeBack, Decrement
  <2> QED
    BY <1>1, <1>4, <2>1
<1>6. ASSUME NEW c \in Calls, NEW before \in SUBSET Parts, NEW short \in Parts,
             ReverseGivesUp(c, before, short)
      PROVE  Booked(p)
  <2> DEFINE n == call[c].note
             down == IF ShortPart(n, short) THEN {} ELSE {short}
  <2>1. /\ ledger'[p] = IF p \in before THEN ledger[p] - note[n].qty[p] ELSE ledger[p]
        /\ onHand'[p] = IF p \in before \cup down THEN onHand[p] - note[n].qty[p] ELSE onHand[p]
        /\ unbooked'[p] = IF p \in down THEN unbooked[p] + note[n].qty[p] ELSE unbooked[p]
    BY <1>6 DEF ReverseGivesUp, TakeBack, Decrement
  <2>2. before \cap down = {}
    BY <1>6 DEF ReverseGivesUp
  <2> HIDE DEF down
  <2> QED
    BY <1>1, <1>4, <2>1, <2>2
<1>7. ASSUME NEW s \in Parts, SellUnit(s) PROVE Booked(p)
  BY <1>1, <1>7 DEF SellUnit, historyVars, TypeOK
<1>8. CASE Ordering
  BY <1>2, <1>8
  DEF Ordering, CreateOrder, BuyOverCounter, ReadOwnOrder, ReadForStatus, WriteStatus,
      ReadForDelete, DeleteOrder, EndCall, stockVars, historyVars
<1>9. CASE Receiving
  BY <1>2, <1>3, <1>9 DEF Receiving, ReadForReceipt, stockVars, historyVars
<1>10. CASE Reversing
  BY <1>2, <1>5, <1>6, <1>10 DEF Reversing, ReadNote, CheckBilled, stockVars, historyVars
<1>11. CASE Billing \/ Moving
  BY <1>2, <1>7, <1>11
  DEF Billing, Moving, CheckBill, CreateBill, CancelBill, MoveUnitAway, stockVars, historyVars
<1> QED
  BY <1>2, <1>8, <1>9, <1>10, <1>11 DEF Next, vars

\* Receiving, reversing and selling implement the stock book, for any number of
\* parts, notes and requests.
THEOREM BookImplemented == Spec => ImplementsStockBook
<1>1. Init => Book!Init
  BY DEF Init, Book!Init
<1>2. TypeOK /\ [Next]_vars => [Book!Next]_(Book!vars)
  <2> SUFFICES ASSUME TypeOK, [Next]_vars PROVE Book!Book
    BY DEF Book!Next
  <2>1. ASSUME NEW p \in Parts
        PROVE  (ledger'[p] - unbooked'[p]) - (ledger[p] - unbooked[p]) = onHand'[p] - onHand[p]
    <3>1. /\ onHand[p] \in Int /\ ledger[p] \in Int /\ unbooked[p] \in Int
          /\ Booked(p)
      BY BookStep DEF TypeOK
    <3>2. /\ onHand'[p] \in Int /\ ledger'[p] \in Int /\ unbooked'[p] \in Int
      BY TypeStep DEF TypeOK
    <3> QED
      BY <3>1, <3>2 DEF Booked
  <2> QED
    BY <2>1 DEF Book!Book
<1> QED
  BY <1>1, <1>2, TypeCorrect, PTL DEF Spec, ImplementsStockBook, Book!Spec

-----------------------------------------------------------------------------
(* What notes, orders and requests know of each other *)

\* A note is written for an order that was created.
NotesOfOrders == \A n \in Notes : note[n].status # "NONE" => status[note[n].order] # "NONE"

\* Nothing came in for an order before it was created.
NewOrdersEmpty == \A o \in Orders : status[o] = "NONE" => received[o] = Nothing

\* Only a note that was written is reversed half way.
TornNotes == \A n \in torn : note[n].status # "NONE"

\* What a request is about to write is a status of the form.
RealWrites == \A c \in Calls : call[c].pc = "write" => call[c].status \in Statuses

NoteInv == NotesOfOrders /\ NewOrdersEmpty /\ TornNotes /\ RealWrites

LEMMA NoteInit == Init => NoteInv
BY ConstantTypes
DEF Init, NoteInv, NotesOfOrders, NewOrdersEmpty, TornNotes, RealWrites, Unused, Idle

\* Whether a note was written.
Written(n) == note[n].status # "NONE"

\* But for a receipt, a step leaves every note its order and its quantities.
LEMMA NotesKept ==
  ASSUME TypeOK, [Next]_vars, ~Receipt, NEW n \in Notes
  PROVE  /\ note'[n].order = note[n].order /\ note'[n].qty = note[n].qty
         /\ note'[n].status = "NONE" <=> note[n].status = "NONE"
<1> DEFINE Kept == /\ note'[n].order = note[n].order /\ note'[n].qty = note[n].qty
                   /\ note'[n].status = "NONE" <=> note[n].status = "NONE"
<1>1. CASE UNCHANGED note
  BY <1>1
<1>2. ASSUME NEW c \in Calls, Reverse(c) PROVE Kept
  BY <1>2 DEF Reverse, Reversible, TypeOK, NoteRows
<1> QED
  BY <1>1, <1>2
  DEF Next, vars, Ordering, CreateOrder, BuyOverCounter, ReadOwnOrder, ReadForStatus, WriteStatus,
      ReadForDelete, DeleteOrder, EndCall, Receiving, ReadForReceipt, Receipt, Reversing, ReadNote,
      CheckBilled, ReverseGivesUp, Billing, CheckBill, CreateBill, CancelBill, Moving, SellUnit,
      MoveUnitAway

\* A request that was going on had read what it goes on with.
LEMMA PendingStep == TypeOK /\ RealWrites /\ [Next]_vars => RealWrites'
<1> SUFFICES ASSUME TypeOK, RealWrites, [Next]_vars, NEW d \in Calls
             PROVE  call'[d].pc = "write" => call'[d].status \in Statuses
  BY DEF RealWrites
<1> DEFINE Knows == call'[d].pc = "write" => call'[d].status \in Statuses
<1> USE DEF TypeOK, CallStates, Written
<1>1. CASE UNCHANGED call
  BY <1>1 DEF RealWrites
<1>2. ASSUME NEW c \in Calls, Return(c) PROVE Knows
  BY <1>2 DEF Return, Idle, RealWrites
<1>3. ASSUME NEW c \in Calls, NEW o \in Orders, BuyOverCounter(c, o) PROVE Knows
  BY <1>3 DEF BuyOverCounter, Idle, RealWrites
<1>4. ASSUME NEW c \in Calls, ReadOwnOrder(c) PROVE Knows
  BY <1>4 DEF ReadOwnOrder, RealWrites
<1>5. ASSUME NEW c \in Calls, NEW o \in Orders, NEW next \in Statuses, ReadForStatus(c, o, next)
      PROVE  Knows
  BY <1>5 DEF ReadForStatus, Idle, RealWrites
<1>6. ASSUME NEW c \in Calls, NEW o \in Orders, ReadForDelete(c, o) PROVE Knows
  BY <1>6 DEF ReadForDelete, Idle, RealWrites
<1>7. ASSUME NEW c \in Calls, NEW o \in Orders, NEW want \in Wants, ReadForReceipt(c, o, want)
      PROVE  Knows
  BY <1>7 DEF ReadForReceipt, Idle, RealWrites
<1>8. ASSUME NEW c \in Calls, NEW n \in Notes, ReadNote(c, n) PROVE Knows
  BY <1>8 DEF ReadNote, Idle, RealWrites
<1>9. ASSUME NEW c \in Calls, CheckBilled(c) PROVE Knows
  BY <1>9 DEF CheckBilled, Go, RealWrites
<1>10. ASSUME NEW c \in Calls, NEW form \in Forms, CheckBill(c, form) PROVE Knows
  BY <1>10 DEF CheckBill, Idle, RealWrites
<1>11. CASE Ordering
  BY <1>1, <1>2, <1>3, <1>4, <1>5, <1>6, <1>11
  DEF Ordering, CreateOrder, WriteStatus, DeleteOrder, EndCall
<1>12. CASE Receiving \/ Reversing
  BY <1>2, <1>7, <1>8, <1>9, <1>12
  DEF Receiving, PerformReceipt, Reversing, Reverse, ReverseGivesUp
<1>13. CASE Billing \/ Moving
  BY <1>1, <1>2, <1>10, <1>13
  DEF Billing, CreateBill, CancelBill, Moving, SellUnit, MoveUnitAway
<1> QED
  BY <1>1, <1>11, <1>12, <1>13 DEF Next, vars

\* An order that is there stays created, and only the order of a receipt gets goods.
LEMMA OrdersStep ==
  ASSUME TypeOK, RealWrites, [Next]_vars, NEW o \in Orders, status'[o] = "NONE"
  PROVE  status[o] = "NONE" /\ (NewOrdersEmpty /\ NotesOfOrders => received'[o] = Nothing)
<1> DEFINE Unborn == status[o] = "NONE" /\ (NewOrdersEmpty /\ NotesOfOrders => received'[o] = Nothing)
<1> USE DEF TypeOK, NewOrdersEmpty
<1>1. CASE UNCHANGED <<status, received>>
  BY <1>1
<1>2. ASSUME NEW p \in Orders, NEW first \in {"DRAFT", "ORDERED"}, CreateOrder(p, first)
      PROVE  Unborn
  BY <1>2 DEF CreateOrder
<1>3. ASSUME NEW c \in Calls, NEW p \in Orders, BuyOverCounter(c, p) PROVE Unborn
  BY <1>3 DEF BuyOverCounter
<1>4. ASSUME NEW c \in Calls, WriteStatus(c) PROVE Unborn
  BY <1>4 DEF WriteStatus, CallStates, RealWrites, Statuses
<1>5. ASSUME NEW c \in Calls, DeleteOrder(c) PROVE Unborn
  BY <1>5 DEF DeleteOrder, CallStates
<1>6. ASSUME NEW c \in Calls, NEW n \in Notes, PerformReceipt(c, n) PROVE Unborn
  <2>1. PICK got : /\ status' = [status EXCEPT ![call[c].order] = StatusOf(got)]
                   /\ received' = [received EXCEPT ![call[c].order] = got]
    BY <1>6 DEF PerformReceipt
  <2>2. call[c].order \in Orders
    BY DEF CallStates
  <2> QED
    BY <2>1, <2>2, StatusOfType
<1>7. ASSUME NEW c \in Calls, Reverse(c) PROVE Unborn
  <2> DEFINE n == call[c].note
  <2>1. n \in Notes /\ note[n].order \in Orders /\ note[n].status # "NONE"
    BY <1>7 DEF Reverse, Reversible, CallStates, NoteRows
  <2>2. \/ status' = status
        \/ \E got : status' = [status EXCEPT ![note[n].order] = StatusOf(got)]
    BY <1>7 DEF Reverse
  <2>3. \E got : received' = [received EXCEPT ![note[n].order] = got]
    BY <1>7 DEF Reverse, TakeBack
  <2> QED
    BY <2>1, <2>2, <2>3, StatusOfType DEF NotesOfOrders
<1>8. ASSUME NEW c \in Calls, NEW before \in SUBSET Parts, NEW short \in Parts,
             ReverseGivesUp(c, before, short)
      PROVE  Unborn
  <2> DEFINE n == call[c].note
  <2>1. n \in Notes /\ note[n].order \in Orders /\ note[n].status # "NONE" /\ status' = status
    BY <1>8 DEF ReverseGivesUp, Reversible, CallStates, NoteRows
  <2>2. \E got : received' = [received EXCEPT ![note[n].order] = got]
    BY <1>8 DEF ReverseGivesUp, TakeBack
  <2> QED
    BY <2>1, <2>2 DEF NotesOfOrders
<1>9. CASE Ordering
  BY <1>1, <1>2, <1>3, <1>4, <1>5, <1>9
  DEF Ordering, ReadOwnOrder, ReadForStatus, ReadForDelete, EndCall, orderVars
<1>10. CASE Receiving \/ Reversing
  BY <1>1, <1>6, <1>7, <1>8, <1>10
  DEF Receiving, ReadForReceipt, Reversing, ReadNote, CheckBilled, orderVars
<1>11. CASE Billing \/ Moving
  BY <1>1, <1>11
  DEF Billing, CheckBill, CreateBill, CancelBill, Moving, SellUnit, MoveUnitAway, orderVars
<1> QED
  BY <1>1, <1>9, <1>10, <1>11 DEF Next, vars

\* Only a written note is torn.
LEMMA TornStep ==
  ASSUME TypeOK, TornNotes, [Next]_vars
  PROVE  \A n \in torn' : Written(n)
<1> USE DEF TypeOK, Written
<1>1. CASE UNCHANGED torn
  BY <1>1 DEF TornNotes
<1>2. ASSUME NEW c \in Calls, NEW before \in SUBSET Parts, NEW short \in Parts,
             ReverseGivesUp(c, before, short)
      PROVE  \A n \in torn' : Written(n)
  BY <1>2 DEF ReverseGivesUp, Reversible, TornNotes, CallStates
<1> QED
  BY <1>1, <1>2
  DEF Next, vars, Ordering, CreateOrder, BuyOverCounter, ReadOwnOrder, ReadForStatus, WriteStatus,
      ReadForDelete, DeleteOrder, EndCall, Receiving, ReadForReceipt, PerformReceipt, Reversing,
      ReadNote, CheckBilled, Reverse, Billing, CheckBill, CreateBill, CancelBill, Moving,
      SellUnit, MoveUnitAway, historyVars

LEMMA NoteStep == TypeOK /\ NoteInv /\ [Next]_vars => NoteInv'
<1> SUFFICES ASSUME TypeOK, NoteInv, [Next]_vars PROVE NoteInv'
  OBVIOUS
<1> USE DEF NoteInv
<1>1. RealWrites'
  BY PendingStep
<1>2. \A o \in Orders : status'[o] = "NONE" => status[o] = "NONE" /\ received'[o] = Nothing
  BY OrdersStep
<1>3. \A n \in torn' : Written(n)
  BY TornStep
<1>4. \A n \in Notes : Written(n) => /\ note'[n].status # "NONE"
                                     /\ note'[n].order = note[n].order
  <2>1. CASE ~Receipt
    BY <2>1, NotesKept DEF Written
  <2>2. CASE Receipt
    BY <2>2 DEF Receipt, PerformReceipt, Written, TypeOK
  <2> QED
    BY <2>1, <2>2
<1>5. \A n \in Notes : ~Written(n) =>
        note'[n].status = "NONE" \/ status'[note'[n].order] # "NONE"
  <2>1. CASE ~Receipt
    BY <2>1, NotesKept DEF Written
  <2>2. ASSUME NEW c \in Calls, NEW m \in Notes, PerformReceipt(c, m)
        PROVE  \A n \in Notes : ~Written(n) =>
                 note'[n].status = "NONE" \/ status'[note'[n].order] # "NONE"
    <3>1. PICK got, qty :
            /\ status' = [status EXCEPT ![call[c].order] = StatusOf(got)]
            /\ note' = [note EXCEPT ![m] = [status |-> "POSTED", order |-> call[c].order,
                                           qty |-> qty]]
      BY <2>2 DEF PerformReceipt
    <3>2. call[c].order \in Orders
      BY DEF TypeOK, CallStates
    <3> QED
      BY <3>1, <3>2, StatusOfType DEF Written, TypeOK
  <2> QED
    BY <2>1, <2>2 DEF Receipt
<1>6. NotesOfOrders'
  BY <1>2, <1>4, <1>5 DEF NotesOfOrders, Written, TypeOK, NoteRows
<1>7. NewOrdersEmpty'
  BY <1>2 DEF NewOrdersEmpty
<1>8. TornNotes'
  BY <1>3, <1>4, TypeStep DEF TornNotes, TypeOK
<1> QED
  BY <1>1, <1>6, <1>7, <1>8

-----------------------------------------------------------------------------
(* What a line received is what its order's notes brought in *)

\* The notes' quantities of a part, and their sum for an order.
Brought(p) == [n \in Notes |-> note[n].qty[p]]
NotesSum(o, p) == Total(PostedFor(o), Brought(p))
Untorn(o) == \A n \in torn : note[n].order # o

LEMMA PostedFinite ==
  ASSUME TypeOK, NEW o \in Orders, NEW p \in Parts
  PROVE  /\ IsFiniteSet(PostedFor(o))
         /\ \A n \in PostedFor(o) : Brought(p)[n] \in Nat
         /\ IsFiniteSet(UnitsOf(PostedFor(o), Brought(p))) /\ NotesSum(o, p) \in Nat
<1>1. IsFiniteSet(PostedFor(o))
  BY IdsAssumption, FS_Subset DEF PostedFor
<1>2. \A n \in PostedFor(o) : Brought(p)[n] \in Nat
  BY DEF TypeOK, PostedFor, Brought, NoteRows, Quantities, Lines
<1> QED
  BY <1>1, <1>2, NatUnits DEF NotesSum

\* The notes of the order and what is on them unchanged, the sum is unchanged.
LEMMA NotesStand ==
  ASSUME NEW o \in Orders, NEW p \in Parts, PostedFor(o)' = PostedFor(o),
         \A n \in PostedFor(o) : note'[n].qty = note[n].qty
  PROVE  NotesSum(o, p)' = NotesSum(o, p)
<1>1. \A n \in PostedFor(o) : Brought(p)'[n] = Brought(p)[n]
  BY DEF Brought, PostedFor
<1>2. Total(PostedFor(o), Brought(p)') = Total(PostedFor(o), Brought(p))
  BY <1>1, SameUnits
<1> QED
  BY <1>2 DEF NotesSum

Matches(o, p) == received[o][p] = NotesSum(o, p)

LEMMA MatchSpelled ==
  ReceivedMatchesNotes <=>
    \A o \in Orders, p \in Parts : Exists(o) /\ Untorn(o) => Matches(o, p)
BY DEF ReceivedMatchesNotes, Matches, NotesSum, Brought, Untorn

\* A receipt books on the order's line what its note says.
LEMMA ReceiptMatches ==
  ASSUME TypeOK, NEW c \in Calls, NEW m \in Notes, PerformReceipt(c, m),
         NEW o \in Orders, NEW p \in Parts, Matches(o, p)
  PROVE  Matches(o, p)'
<1> DEFINE at == call[c].order
           delta == [l \in Lines |-> Delta(c, l)]
<1>1. /\ note' = [note EXCEPT ![m] = [status |-> "POSTED", order |-> at, qty |-> delta]]
      /\ received' = [received EXCEPT ![at] = [l \in Lines |-> received[at][l] + delta[l]]]
      /\ note[m].status = "NONE"
  BY DEF PerformReceipt
<1>2. at \in Orders /\ p \in Lines /\ delta[p] \in Nat /\ received[o][p] \in Nat
  BY DeltaType DEF Lines, TypeOK, Quantities
<1>3. m \notin PostedFor(o) /\ \A n \in PostedFor(o) : note'[n] = note[n]
  BY <1>1 DEF PostedFor, TypeOK
<1> HIDE DEF delta
<1>4. CASE o # at
  <2>1. PostedFor(o)' = PostedFor(o)
    BY <1>1, <1>4 DEF PostedFor, TypeOK, NoteRows
  <2>2. received'[o][p] = received[o][p]
    BY <1>1, <1>2, <1>4 DEF TypeOK
  <2> QED
    BY <1>3, <2>1, <2>2, NotesStand DEF Matches
<1>5. CASE o = at
  <2>1. PostedFor(o)' = PostedFor(o) \cup {m}
    BY <1>1, <1>5 DEF PostedFor, TypeOK, NoteRows
  <2>2. Brought(p)'[m] = delta[p] /\ \A n \in PostedFor(o) : Brought(p)'[n] = Brought(p)[n]
    BY <1>1, <1>3 DEF Brought, PostedFor, TypeOK
  <2>3. /\ Total(PostedFor(o), Brought(p)') = NotesSum(o, p)
        /\ IsFiniteSet(UnitsOf(PostedFor(o), Brought(p)'))
    <3>1. UnitsOf(PostedFor(o), Brought(p)') = UnitsOf(PostedFor(o), Brought(p))
      BY <2>2, SameUnits
    <3> QED
      BY <3>1, PostedFinite DEF NotesSum, Total
  <2>4. Total(PostedFor(o) \cup {m}, Brought(p)') = Total(PostedFor(o), Brought(p)') + delta[p]
    <3>1. m \notin PostedFor(o) /\ Brought(p)'[m] \in Nat
      BY <1>2, <1>3, <2>2
    <3>2. Total(PostedFor(o) \cup {m}, Brought(p)')
            = Total(PostedFor(o), Brought(p)') + Brought(p)'[m]
      BY <2>3, <3>1, AddUnits
    <3> QED
      BY <2>2, <3>2
  <2>5. received'[o][p] = received[o][p] + delta[p]
    BY <1>1, <1>2, <1>5 DEF TypeOK
  <2> QED
    BY <2>1, <2>3, <2>4, <2>5 DEF Matches, NotesSum
<1> QED
  BY <1>4, <1>5

\* A reversal takes off the line what its note had brought in, and the line has it.
LEMMA ReverseMatches ==
  ASSUME TypeOK, NEW c \in Calls, Reverse(c),
         NEW o \in Orders, NEW p \in Parts, Matches(o, p)
  PROVE  Matches(o, p)'
<1> DEFINE n == call[c].note
           at == note[n].order
<1>1. /\ n \in Notes /\ at \in Orders /\ note[n].status = "POSTED"
      /\ p \in Lines /\ note[n].qty[p] \in Nat /\ received[o][p] \in Nat
  BY DEF TypeOK, CallStates, NoteRows, Quantities, Lines, Reverse, Reversible
<1>2. /\ note' = [note EXCEPT ![n].status = "CANCELLED"]
      /\ received' = [received EXCEPT ![at] = [l \in Lines |->
             IF l \in Stocked(n) THEN Less(received[at][l], n, l) ELSE received[at][l]]]
  BY DEF Reverse, TakeBack
<1> HIDE DEF n
<1>3. \A k \in Notes : /\ note'[k].order = note[k].order /\ note'[k].qty = note[k].qty
                       /\ k # n => note'[k] = note[k]
      /\ note'[n].status = "CANCELLED"
  BY <1>1, <1>2 DEF TypeOK, NoteRows
<1>4. CASE o # at
  <2>1. PostedFor(o)' = PostedFor(o)
    BY <1>3, <1>4 DEF PostedFor
  <2>2. received'[o][p] = received[o][p]
    BY <1>1, <1>2, <1>4 DEF TypeOK
  <2>3. \A k \in PostedFor(o) : note'[k].qty = note[k].qty
    BY <1>3 DEF PostedFor
  <2> QED
    BY <2>1, <2>2, <2>3, NotesStand DEF Matches
<1>5. CASE o = at
  <2> DEFINE rest == PostedFor(o)'
             q == Brought(p)
  <2>1. rest \subseteq PostedFor(o) /\ n \notin rest
    BY <1>1, <1>3, <1>5 DEF PostedFor
  <2>2. PostedFor(o) = rest \cup {n}
    BY <1>1, <1>3, <1>5 DEF PostedFor
  <2>3. q[n] = note[n].qty[p] /\ \A k \in rest : Brought(p)'[k] = q[k]
    BY <1>1, <1>3 DEF Brought, PostedFor
  <2>4. /\ \A k \in rest : q[k] \in Nat
        /\ IsFiniteSet(rest) /\ IsFiniteSet(PostedFor(o)) /\ \A k \in PostedFor(o) : q[k] \in Nat
    BY <2>1, PostedFinite, FS_Subset
  <2>5. NotesSum(o, p)' = Total(rest, q)
    <3>1. Total(rest, Brought(p)') = Total(rest, q)
      BY <2>3, SameUnits
    <3> QED
      BY <3>1 DEF NotesSum
  <2> HIDE DEF rest, q
  <2>6. IsFiniteSet(UnitsOf(rest, q)) /\ Total(rest, q) \in Nat
    BY <2>4, NatUnits
  <2>7. Total(rest \cup {n}, q) = Total(rest, q) + q[n]
    <3>1. n \notin rest /\ q[n] \in Nat
      BY <1>1, <2>1, <2>3
    <3> QED
      BY <2>6, <3>1, AddUnits
  <2>8. received[o][p] = Total(rest, q) + note[n].qty[p]
    BY <2>2, <2>3, <2>7 DEF Matches, NotesSum, q
  <2>9. received'[o][p] = IF p \in Stocked(n) THEN Less(received[o][p], n, p) ELSE received[o][p]
    BY <1>1, <1>2, <1>5 DEF TypeOK
  <2>10. p \in Stocked(n) \/ note[n].qty[p] = 0
    BY <1>1 DEF Stocked
  <2> QED
    BY <1>1, <2>5, <2>6, <2>8, <2>9, <2>10 DEF Matches, Less
<1> QED
  BY <1>4, <1>5

\* A reversal that gives up with something taken tears its order; with nothing
\* taken it changed nothing.
LEMMA GivesUpMatches ==
  ASSUME TypeOK, NEW c \in Calls, NEW before \in SUBSET Parts, NEW short \in Parts,
         ReverseGivesUp(c, before, short),
         NEW o \in Orders, NEW p \in Parts, Matches(o, p), Untorn(o)'
  PROVE  Matches(o, p)'
<1> DEFINE n == call[c].note
           down == IF ShortPart(n, short) THEN {} ELSE {short}
<1>1. /\ n \in Notes /\ note[n].order \in Orders /\ note' = note
      /\ p \in Lines /\ o \in Orders
  BY DEF TypeOK, CallStates, NoteRows, Lines, ReverseGivesUp
<1>2. received' = [received EXCEPT ![note[n].order] = [l \in Lines |->
          IF l \in before THEN Less(received[note[n].order][l], n, l)
          ELSE received[note[n].order][l]]]
  BY DEF ReverseGivesUp, TakeBack
<1>3. torn' = IF before \cup down = {} THEN torn ELSE torn \cup {n}
  BY DEF ReverseGivesUp
<1> HIDE DEF n, down
<1>4. received'[o][p] = received[o][p]
  <2>1. CASE before = {}
    BY <1>1, <1>2, <2>1 DEF TypeOK
  <2>2. CASE before # {}
    <3>1. note[n].order # o
      BY <1>1, <1>3, <2>2 DEF Untorn
    <3> QED
      BY <1>1, <1>2, <3>1 DEF TypeOK
  <2> QED
    BY <2>1, <2>2
<1>5. NotesSum(o, p)' = NotesSum(o, p)
  BY <1>1 DEF NotesSum, PostedFor, Brought
<1> QED
  BY <1>4, <1>5 DEF Matches

LEMMA MatchStep ==
  TypeOK /\ NoteInv /\ ReceivedMatchesNotes /\ [Next]_vars => ReceivedMatchesNotes'
<1> SUFFICES ASSUME TypeOK, NoteInv, ReceivedMatchesNotes, [Next]_vars,
                    NEW o \in Orders, NEW p \in Parts, Exists(o)', Untorn(o)'
             PROVE  Matches(o, p)'
  BY DEF ReceivedMatchesNotes, Matches, NotesSum, Brought, Untorn
<1>1. \A n \in torn : note'[n].order = note[n].order
  <2>1. CASE ~Receipt
    BY <2>1, NotesKept DEF TypeOK
  <2>2. CASE Receipt
    BY <2>2 DEF Receipt, PerformReceipt, NoteInv, TornNotes, TypeOK
  <2> QED
    BY <2>1, <2>2
<1>2. Exists(o) /\ torn \subseteq torn' => Matches(o, p)
  BY <1>1, MatchSpelled DEF Untorn
<1>3. CASE UNCHANGED <<status, received, note, torn>>
  BY <1>2, <1>3 DEF Matches, NotesSum, PostedFor, Brought, Exists
<1>4. status[o] = "NONE" /\ received'[o] = received[o] /\ note' = note => Matches(o, p)'
  <2> SUFFICES ASSUME status[o] = "NONE", received'[o] = received[o], note' = note
               PROVE  Matches(o, p)'
    OBVIOUS
  <2>1. PostedFor(o) = {}
    BY DEF NoteInv, NotesOfOrders, PostedFor
  <2>2. NotesSum(o, p)' = 0
    BY <2>1, NoUnits DEF NotesSum, PostedFor
  <2>3. received[o][p] = 0
    BY DEF NoteInv, NewOrdersEmpty, Nothing, Lines
  <2> QED
    BY <2>2, <2>3 DEF Matches
<1>5. received'[o] = received[o] /\ note' = note /\ torn' = torn /\ Exists(o) => Matches(o, p)'
  BY <1>2 DEF Matches, NotesSum, PostedFor, Brought
<1>6. ASSUME NEW q \in Orders, NEW first \in {"DRAFT", "ORDERED"}, CreateOrder(q, first)
      PROVE  Matches(o, p)'
  BY <1>4, <1>5, <1>6 DEF CreateOrder, Exists, historyVars, TypeOK
<1>7. ASSUME NEW c \in Calls, NEW q \in Orders, BuyOverCounter(c, q) PROVE Matches(o, p)'
  BY <1>4, <1>5, <1>7 DEF BuyOverCounter, Exists, historyVars, TypeOK
<1>8. ASSUME NEW c \in Calls, WriteStatus(c) PROVE Matches(o, p)'
  BY <1>5, <1>8 DEF WriteStatus, Exists, historyVars, TypeOK
<1>9. ASSUME NEW c \in Calls, DeleteOrder(c) PROVE Matches(o, p)'
  BY <1>5, <1>9 DEF DeleteOrder, Exists, historyVars, TypeOK
<1>10. CASE Ordering
  BY <1>3, <1>6, <1>7, <1>8, <1>9, <1>10
  DEF Ordering, ReadOwnOrder, ReadForStatus, ReadForDelete, EndCall, orderVars, historyVars
<1>11. ASSUME NEW c \in Calls, NEW m \in Notes, PerformReceipt(c, m) PROVE Matches(o, p)'
  <2>1. Exists(o) /\ torn' = torn
    BY <1>11 DEF PerformReceipt, Exists, TypeOK
  <2> QED
    BY <1>2, <1>11, <2>1, ReceiptMatches
<1>12. ASSUME NEW c \in Calls, Reverse(c) PROVE Matches(o, p)'
  <2>1. Exists(o) /\ torn' = torn
    BY <1>12 DEF Reverse, Exists, TypeOK
  <2> QED
    BY <1>2, <1>12, <2>1, ReverseMatches
<1>13. ASSUME NEW c \in Calls, NEW before \in SUBSET Parts, NEW short \in Parts,
              ReverseGivesUp(c, before, short)
       PROVE  Matches(o, p)'
  <2>1. Exists(o) /\ torn \subseteq torn'
    BY <1>13 DEF ReverseGivesUp, Exists
  <2> QED
    BY <1>2, <1>13, <2>1, GivesUpMatches
<1>14. CASE Receiving \/ Reversing
  BY <1>3, <1>11, <1>12, <1>13, <1>14
  DEF Receiving, ReadForReceipt, Reversing, ReadNote, CheckBilled, orderVars, historyVars
<1>15. CASE Billing \/ Moving
  BY <1>3, <1>15
  DEF Billing, CheckBill, CreateBill, CancelBill, Moving, SellUnit, MoveUnitAway, orderVars,
      historyVars
<1> QED
  BY <1>3, <1>10, <1>14, <1>15 DEF Next, vars

\* What a line says it received is what the posted notes of its order brought in,
\* whatever was received and reversed at once, unless a reversal gave up half way.
THEOREM ReceivedCorrect == Spec => []ReceivedMatchesNotes
<1>1. Init => ReceivedMatchesNotes
  BY DEF Init, ReceivedMatchesNotes, Exists
<1>2. TypeOK /\ NoteInv /\ ReceivedMatchesNotes /\ [Next]_vars
        => NoteInv' /\ ReceivedMatchesNotes'
  BY NoteStep, MatchStep
<1> QED
  BY <1>1, <1>2, NoteInit, TypeCorrect, PTL DEF Spec

-----------------------------------------------------------------------------
(* What the bills of an order come to *)

AmountOf == [b \in Bills |-> bill[b].amount]

\* A priced order is not billed above its worth, nor will it be by the one request that
\* is about to bill it.
Within(o) == BilledFor(o) <= worth[o]
About(c, o) == call[c].pc = "bill" /\ call[c].form.order = o
PendingFits ==
    \A o \in Orders \ billedAtOnce : worth[o] > 0 =>
        \A c \in Calls : About(c, o) => BilledFor(o) + call[c].form.amount <= worth[o]

LEMMA BilledType ==
  ASSUME TypeOK, NEW o \in Orders
  PROVE  /\ IsFiniteSet(BillsFor(o)) /\ \A b \in BillsFor(o) : AmountOf[b] \in Nat
         /\ BilledFor(o) = Total(BillsFor(o), AmountOf) /\ BilledFor(o) \in Nat
<1>1. IsFiniteSet(BillsFor(o))
  BY BillsAssumption, FS_Subset DEF BillsFor
<1>2. \A b \in BillsFor(o) : AmountOf[b] \in Nat
  BY DEF TypeOK, BillRows, AmountOf, BillsFor
<1>3. BilledFor(o) = Total(BillsFor(o), AmountOf)
  BY DEF BilledFor, AmountOf
<1> QED
  BY <1>1, <1>2, <1>3, NatUnits

BilledNat == \A o \in Orders : BilledFor(o) \in Nat

LEMMA BilledTyped == TypeOK => BilledNat
BY BilledType DEF BilledNat

\* The sum over a set and one bill of it more, in terms that do not change.
LEMMA OneBill ==
  ASSUME NEW rest, IsFiniteSet(rest), NEW b, b \notin rest, NEW q,
         \A k \in rest : q[k] \in Nat, q[b] \in Nat
  PROVE  Total(rest \cup {b}, q) = Total(rest, q) + q[b] /\ Total(rest, q) \in Nat
BY NatUnits, AddUnits

\* One bill changes: the sum of an order is that of the others and, while the bill is
\* live and names the order, what it comes to.
OthersFor(o, b) == Total(BillsFor(o) \ {b}, AmountOf)

LEMMA OneBillApart ==
  ASSUME TypeOK, NEW o \in Orders, NEW b \in Bills
  PROVE  /\ OthersFor(o, b) \in Nat
         /\ b \in BillsFor(o) => BilledFor(o) = OthersFor(o, b) + bill[b].amount
         /\ b \notin BillsFor(o) => BilledFor(o) = OthersFor(o, b)
<1> DEFINE rest == BillsFor(o) \ {b}
<1>1. /\ IsFiniteSet(rest) /\ b \notin rest /\ \A k \in rest : AmountOf[k] \in Nat
  BY BilledType, FS_Subset
<1>2. AmountOf[b] = bill[b].amount /\ bill[b].amount \in Nat
  BY DEF TypeOK, BillRows, AmountOf
<1>3. Total(rest \cup {b}, AmountOf) = Total(rest, AmountOf) + AmountOf[b]
      /\ Total(rest, AmountOf) \in Nat
  BY <1>1, <1>2, OneBill
<1>4. /\ b \in BillsFor(o) => BillsFor(o) = rest \cup {b}
      /\ b \notin BillsFor(o) => BillsFor(o) = rest
  OBVIOUS
<1> QED
  BY <1>2, <1>3, <1>4, BilledType DEF OthersFor

ApartNow == \A o \in Orders, b \in Bills :
    /\ OthersFor(o, b) \in Nat
    /\ b \in BillsFor(o) => BilledFor(o) = OthersFor(o, b) + bill[b].amount
    /\ b \notin BillsFor(o) => BilledFor(o) = OthersFor(o, b)

LEMMA BillsApart == TypeOK => ApartNow
BY OneBillApart DEF ApartNow

LEMMA OthersStand ==
  ASSUME NEW o \in Orders, NEW b \in Bills, \A k \in Bills \ {b} : bill'[k] = bill[k]
  PROVE  OthersFor(o, b)' = OthersFor(o, b)
<1>1. (BillsFor(o) \ {b})' = BillsFor(o) \ {b}
  BY DEF BillsFor
<1>2. \A k \in BillsFor(o) \ {b} : AmountOf'[k] = AmountOf[k]
  BY DEF AmountOf, BillsFor
<1>3. Total(BillsFor(o) \ {b}, AmountOf') = Total(BillsFor(o) \ {b}, AmountOf)
  BY <1>2, SameUnits
<1> QED
  BY <1>1, <1>3 DEF OthersFor

\* What an order is worth does not change.
LEMMA WorthStands == [Next]_vars => worth' = worth
BY DEF Next, vars, Ordering, CreateOrder, BuyOverCounter, ReadOwnOrder, ReadForStatus, WriteStatus,
       ReadForDelete, DeleteOrder, EndCall, Receiving, ReadForReceipt, PerformReceipt, Reversing,
       ReadNote, CheckBilled, Reverse, ReverseGivesUp, Billing, CheckBill, CreateBill, CancelBill,
       Moving, SellUnit, MoveUnitAway, orderVars

\* A request about to bill was about to already, or has just found that it fits.
LEMMA JustChecked ==
  ASSUME TypeOK, [Next]_vars, NEW d \in Calls, call'[d].pc = "bill"
  PROVE  \/ call'[d] = call[d]
         \/ FitsOrder(call'[d].form) /\ UNCHANGED <<worth, bill>>
<1> DEFINE Knows == \/ call'[d] = call[d]
                    \/ FitsOrder(call'[d].form) /\ UNCHANGED <<worth, bill>>
<1> USE DEF TypeOK
<1>1. CASE UNCHANGED call
  BY <1>1
<1>2. ASSUME NEW c \in Calls, Return(c) PROVE Knows
  BY <1>2 DEF Return, Idle
<1>3. ASSUME NEW c \in Calls, NEW o \in Orders, BuyOverCounter(c, o) PROVE Knows
  BY <1>3 DEF BuyOverCounter, Idle
<1>4. ASSUME NEW c \in Calls, ReadOwnOrder(c) PROVE Knows
  <2>1. call' = [call EXCEPT ![c] = [call[c] EXCEPT !.pc = "receive", !.want = Ordered]]
    BY <1>4 DEF ReadOwnOrder
  <2> QED
    BY <2>1 DEF CallStates
<1>5. ASSUME NEW c \in Calls, NEW o \in Orders, NEW next \in Statuses, ReadForStatus(c, o, next)
      PROVE  Knows
  BY <1>5 DEF ReadForStatus, Idle
<1>6. ASSUME NEW c \in Calls, NEW o \in Orders, ReadForDelete(c, o) PROVE Knows
  BY <1>6 DEF ReadForDelete, Idle
<1>7. ASSUME NEW c \in Calls, NEW o \in Orders, NEW want \in Wants, ReadForReceipt(c, o, want)
      PROVE  Knows
  BY <1>7 DEF ReadForReceipt, Idle
<1>8. ASSUME NEW c \in Calls, NEW n \in Notes, ReadNote(c, n) PROVE Knows
  BY <1>8 DEF ReadNote, Idle
<1>9. ASSUME NEW c \in Calls, CheckBilled(c) PROVE Knows
  <2>1. call' = [call EXCEPT ![c] = [call[c] EXCEPT !.pc = "reverse"]]
    BY <1>9 DEF CheckBilled, Go
  <2> QED
    BY <2>1 DEF CallStates
<1>10. ASSUME NEW c \in Calls, NEW form \in Forms, CheckBill(c, form) PROVE Knows
  <2>1. call' = [call EXCEPT ![c] = [Idle EXCEPT !.pc = "bill", !.form = form]]
        /\ FitsOrder(form) /\ UNCHANGED <<worth, bill>>
    BY <1>10 DEF CheckBill, orderVars
  <2> QED
    BY <2>1 DEF Idle
<1>11. CASE Ordering
  BY <1>1, <1>2, <1>3, <1>4, <1>5, <1>6, <1>11
  DEF Ordering, CreateOrder, WriteStatus, DeleteOrder, EndCall
<1>12. CASE Receiving \/ Reversing
  BY <1>2, <1>7, <1>8, <1>9, <1>12
  DEF Receiving, PerformReceipt, Reversing, Reverse, ReverseGivesUp
<1>13. CASE Billing \/ Moving
  BY <1>1, <1>2, <1>10, <1>13
  DEF Billing, CreateBill, CancelBill, Moving, SellUnit, MoveUnitAway
<1> QED
  BY <1>1, <1>11, <1>12, <1>13 DEF Next, vars

WithinInv == BilledWithinOrder /\ PendingFits

LEMMA WithinStep == TypeOK /\ WithinInv /\ [Next]_vars => WithinInv'
<1> SUFFICES ASSUME TypeOK, WithinInv, [Next]_vars,
                    NEW o \in Orders, o \notin billedAtOnce', worth'[o] > 0
             PROVE  /\ Within(o)'
                    /\ \A d \in Calls : About(d, o)' =>
                         BilledFor(o)' + call'[d].form.amount <= worth'[o]
  BY DEF WithinInv, BilledWithinOrder, PendingFits, Within
<1> DEFINE Fits == /\ Within(o)'
                   /\ \A d \in Calls : About(d, o)' =>
                        BilledFor(o)' + call'[d].form.amount <= worth'[o]
<1>1. TypeOK' /\ worth' = worth /\ worth[o] \in Nat /\ \A c \in Calls : call[c].form.amount \in Nat
  BY TypeStep, WorthStands DEF TypeOK, CallStates
<1>2. ApartNow /\ ApartNow'
  <2>1. ApartNow
    BY BillsApart
  <2>2. ApartNow'
    BY <1>1, BillsApart, PTL
  <2> QED
    BY <2>1, <2>2
<1>3. BilledFor(o) \in Nat /\ BilledFor(o)' \in Nat
  <2>1. BilledNat
    BY BilledTyped
  <2>2. BilledNat'
    BY <1>1, BilledTyped, PTL
  <2> QED
    BY <2>1, <2>2 DEF BilledNat
<1>4. o \notin billedAtOnce =>
        /\ BilledFor(o) <= worth[o]
        /\ \A c \in Calls : About(c, o) => BilledFor(o) + call[c].form.amount <= worth[o]
  BY <1>1 DEF WithinInv, BilledWithinOrder, PendingFits
<1>5. CASE bill' = bill /\ billedAtOnce' = billedAtOnce
  <2>1. BilledFor(o)' = BilledFor(o)
    BY <1>5 DEF BilledFor, BillsFor
  <2>2. ASSUME NEW d \in Calls, About(d, o)'
        PROVE  BilledFor(o)' + call'[d].form.amount <= worth'[o]
    <3>1. CASE call'[d] = call[d]
      BY <1>1, <1>4, <1>5, <2>1, <2>2, <3>1 DEF About
    <3>2. CASE FitsOrder(call'[d].form)
      BY <1>1, <2>1, <2>2, <3>2, BillsAssumption DEF About, FitsOrder
    <3> QED
      BY <2>2, <3>1, <3>2, JustChecked DEF About
  <2> QED
    BY <1>1, <1>4, <1>5, <2>1, <2>2 DEF Within
<1>6. ASSUME NEW c \in Calls, NEW b \in Bills, CreateBill(c, b) PROVE Fits
  <2> DEFINE at == call[c].form.order
             v == call[c].form.amount
  <2>1. /\ call[c].pc = "bill" /\ bill[b].status = "NONE" /\ Return(c)
        /\ bill' = [bill EXCEPT ![b] = [status |-> "POSTED", order |-> at,
                                        note |-> call[c].form.note, amount |-> v]]
        /\ billedAtOnce' = IF \E d \in Calls \ {c} : call[d].pc = "bill" /\ call[d].form.order = at
                           THEN billedAtOnce \cup ({at} \cap Orders) ELSE billedAtOnce
    BY <1>6 DEF CreateBill
  <2>2. o \notin billedAtOnce
    BY <2>1
  <2>3. \A d \in Calls : About(d, o)' => d # c /\ call'[d] = call[d] /\ About(d, o)
    BY <2>1 DEF Return, About, Idle, TypeOK
  <2>4. /\ bill'[b].status = "POSTED" /\ bill'[b].order = at /\ bill'[b].amount = v
        /\ \A k \in Bills \ {b} : bill'[k] = bill[k]
    BY <2>1 DEF TypeOK
  <2>5. OthersFor(o, b)' = OthersFor(o, b)
    BY <2>4, OthersStand
  <2>6. BilledFor(o) = OthersFor(o, b)
    BY <1>2, <2>1 DEF ApartNow, BillsFor
  <2> HIDE DEF v
  <2>7. CASE o # at
    <3>1. BilledFor(o)' = BilledFor(o)
      BY <1>2, <2>4, <2>5, <2>6, <2>7 DEF ApartNow, BillsFor
    <3> QED
      BY <1>1, <1>4, <2>2, <2>3, <3>1 DEF Within
  <2>8. CASE o = at
    <3>1. BilledFor(o)' = BilledFor(o) + v
      BY <1>2, <2>4, <2>5, <2>6, <2>8 DEF ApartNow, BillsFor
    <3>2. About(c, o)
      BY <2>1, <2>8 DEF About
    <3>3. \A d \in Calls : ~About(d, o)'
      BY <2>1, <2>3, <2>8 DEF About
    <3> QED
      BY <1>1, <1>4, <2>2, <3>1, <3>2, <3>3 DEF Within, v
  <2> QED
    BY <2>7, <2>8
<1>7. ASSUME NEW b \in Bills, CancelBill(b) PROVE Fits
  <2>1. /\ call' = call /\ billedAtOnce' = billedAtOnce /\ bill'[b].status = "CANCELLED"
        /\ \A k \in Bills \ {b} : bill'[k] = bill[k]
    BY <1>7 DEF CancelBill, NoBill, historyVars, TypeOK
  <2>2. OthersFor(o, b)' = OthersFor(o, b)
    BY <2>1, OthersStand
  <2>3. BilledFor(o)' = OthersFor(o, b)
    BY <1>2, <2>1, <2>2 DEF ApartNow, BillsFor
  <2>4. BilledFor(o)' <= BilledFor(o)
    <3>1. bill[b].amount \in Nat
      BY DEF TypeOK, BillRows
    <3> QED
      BY <1>2, <2>3, <3>1 DEF ApartNow
  <2> QED
    BY <1>1, <1>3, <1>4, <2>1, <2>4 DEF Within, About
<1> QED
  BY <1>5, <1>6, <1>7, OnlyBilling

\* The bills of a priced order come to more than it is worth only when two of them
\* were being written at once, for any number of bills and requests.
THEOREM BillsWithinOrder == Spec => []BilledWithinOrder
<1>1. Init => WithinInv
  <2> SUFFICES ASSUME Init, NEW o \in Orders PROVE BilledFor(o) = 0 /\ worth[o] \in Nat
    BY DEF WithinInv, BilledWithinOrder, PendingFits, About, Init, Idle
  <2>1. BillsFor(o) = {}
    BY DEF Init, BillsFor, NoBill
  <2> QED
    BY <2>1, TypeInit, BilledType, NoUnits DEF TypeOK
<1>2. TypeOK /\ WithinInv /\ [Next]_vars => WithinInv'
  BY WithinStep
<1>3. WithinInv => BilledWithinOrder
  BY DEF WithinInv
<1> QED
  BY <1>1, <1>2, <1>3, TypeCorrect, PTL DEF Spec

=============================================================================
