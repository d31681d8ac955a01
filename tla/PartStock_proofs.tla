--------------------------- MODULE PartStock_proofs ---------------------------
(***************************************************************************)
(* PartStock, for every number of parts, locations, jobs, reservations and *)
(* concurrent requests: its types; Part.qtyOnHand is what the ledger and   *)
(* the goods in transit explain, so that the tables implement the stock    *)
(* book; Part.qtyReserved is what reservations hold; the location rows     *)
(* follow both totals; and quoted parts are consumed once.  One lemma per  *)
(* group of operations.                                                    *)
(***************************************************************************)
EXTENDS PartStock, UnitTotals_proofs, WellFoundedInduction

-----------------------------------------------------------------------------
(* Types *)

\* A new database is well typed.
LEMMA TypeInit == Init => TypeOK
<1> SUFFICES ASSUME Init PROVE TypeOK
  OBVIOUS
<1>1. SomePart \in Parts /\ SomeJob \in Jobs /\ SomeLocation \in Locations
  BY CatalogueAssumption, LocationsAssumption DEF SomePart, SomeJob, SomeLocation
<1> QED
  BY <1>1, BoundsAssumption
  DEF Init, TypeOK, StockType, HoldType, JobType, DocumentType, MasterType, CallType, NoRow, NoReservation, NoTransfer, NoCount, NoRequest, NoUpdate, Rows,
      ReservationRows, ReservationStatuses, TransferRows, TransferStatuses, CountRows,
      RequestStates, UpdateStates, Quantities

\* The oldest active location exists: locations are numbered.
LEMMA PanelIsLocation ==
  ASSUME TypeOK, HasPanel
  PROVE  PanelLocation \in Locations
<1>1. activeLocations \subseteq Nat /\ activeLocations # {}
  BY LocationsAssumption DEF TypeOK, MasterType, HasPanel
<1>2. PICK l \in activeLocations :
         \A m \in activeLocations : ~ (<<m, l>> \in OpToRel(<, Nat))
  BY <1>1, WFMin, NatLessThanWellFounded
<1>3. \A m \in activeLocations : l <= m
  <2> SUFFICES ASSUME NEW m \in activeLocations PROVE l <= m
    OBVIOUS
  <2>1. l \in Nat /\ m \in Nat
    BY <1>1
  <2>2. ~ (m < l)
    <3>1. m < l => <<m, l>> \in OpToRel(<, Nat)
      BY <2>1, Zenon DEF OpToRel
    <3> QED BY <1>2, <3>1
  <2> QED BY <2>1, <2>2
<1> QED
  BY <1>3 DEF PanelLocation, TypeOK, MasterType

\* A group of variables left alone keeps its types.
LEMMA TypeUnchanged ==
  /\ UNCHANGED stockVars /\ StockType => StockType'
  /\ UNCHANGED holdVars /\ HoldType => HoldType'
  /\ UNCHANGED jobVars /\ JobType => JobType'
  /\ UNCHANGED documentVars /\ DocumentType => DocumentType'
  /\ UNCHANGED masterVars /\ MasterType => MasterType'
  /\ UNCHANGED callVars /\ CallType => CallType'
BY DEF stockVars, holdVars, jobVars, documentVars, masterVars, callVars, StockType, HoldType,
       JobType, DocumentType, MasterType, CallType

\* One row of one part changes by integers.
LEMMA UpsertType ==
  ASSUME NEW p \in Parts, NEW l \in Locations, NEW a \in Int, NEW b \in Int,
         locationStock \in [Parts -> [Locations -> Rows]], UpsertRow(p, l, a, b)
  PROVE  locationStock' \in [Parts -> [Locations -> Rows]]
BY DEF UpsertRow, Rows

\* The totals of one part change by an integer.
LEMMA IncrementType ==
  ASSUME NEW p \in Parts, NEW a \in Int, NEW b \in Int,
         qtyOnHand \in [Parts -> Int], qtyReserved \in [Parts -> Int], IncrementPart(p, a, b)
  PROVE  qtyOnHand' \in [Parts -> Int] /\ qtyReserved' \in [Parts -> Int]
BY DEF IncrementPart

\* The ledger of one part grows by an integer.
LEMMA LedgerType ==
  ASSUME NEW p \in Parts, NEW n \in Int, ledger \in [Parts -> Int], AppendLedger(p, n)
  PROVE  ledger' \in [Parts -> Int]
BY DEF AppendLedger

\* Reserving, with its dedup window and backfill, keeps the types.
LEMMA TypeReserving == TypeOK /\ Reserving => TypeOK'
<1> SUFFICES ASSUME TypeOK, Reserving PROVE TypeOK'
  OBVIOUS
<1>1. ASSUME NEW c \in Requests, NEW p \in Parts, NEW j \in Jobs, NEW q \in Quantities,
             SubmitReserve(c, p, j, q)
      PROVE  TypeOK'
  <2>1. CallType'
    BY <1>1, PanelIsLocation DEF SubmitReserve, TypeOK, CallType, RequestStates
  <2> QED
    BY <1>1, <2>1, TypeUnchanged DEF SubmitReserve, TypeOK
<1>2. ASSUME NEW c \in Requests, CountLocationRows(c) PROVE TypeOK'
  <2>1. CallType'
    BY <1>2 DEF CountLocationRows, TypeOK, CallType, RequestStates
  <2> QED
    BY <1>2, <2>1, TypeUnchanged DEF CountLocationRows, TypeOK
<1>3. ASSUME NEW c \in Requests, ReadPartTotals(c) PROVE TypeOK'
  <2>1. CallType'
    <3>1. request[c] \in RequestStates /\ request[c].part \in Parts
      BY DEF TypeOK, CallType, RequestStates
    <3>2. qtyOnHand[request[c].part] \in Int /\ qtyReserved[request[c].part] \in Int
      BY <3>1 DEF TypeOK, StockType
    <3>3. [request[c] EXCEPT !.pc = "reserve"] \in RequestStates
      BY <3>1 DEF RequestStates
    <3>4. [request[c] EXCEPT !.pc = "create", !.onHand = qtyOnHand[request[c].part],
                             !.reserved = qtyReserved[request[c].part]] \in RequestStates
      BY <3>1, <3>2 DEF RequestStates
    <3> QED
      BY <1>3, <3>3, <3>4 DEF ReadPartTotals, TypeOK, CallType
  <2> QED
    BY <1>3, <2>1, TypeUnchanged DEF ReadPartTotals, TypeOK
<1>4. ASSUME NEW c \in Requests, CreateLocationRow(c) PROVE TypeOK'
  <2>1. CallType'
    BY <1>4 DEF CreateLocationRow, TypeOK, CallType, RequestStates
  <2>2. StockType'
    BY <1>4, UpsertType DEF CreateLocationRow, TypeOK, CallType, StockType, RequestStates
  <2> QED
    BY <1>4, <2>1, <2>2, TypeUnchanged DEF CreateLocationRow, TypeOK
<1>5. ASSUME NEW c \in Requests, NEW r \in Reservations, ReserveForJob(c, r) PROVE TypeOK'
  <2>1. CallType'
    BY <1>5 DEF ReserveForJob, TypeOK, CallType, RequestStates
  <2>2. StockType'
    <3>1. /\ request[c].part \in Parts /\ request[c].location \in Locations
          /\ request[c].qty \in Int
      BY DEF TypeOK, CallType, RequestStates, Quantities
    <3>2. /\ UpsertRow(request[c].part, request[c].location, 0, request[c].qty)
          /\ IncrementPart(request[c].part, 0, request[c].qty)
          /\ UNCHANGED <<ledger, signLost>>
      BY <1>5, Zenon DEF ReserveForJob
    <3>3. locationStock' \in [Parts -> [Locations -> Rows]]
      BY <3>1, <3>2, UpsertType DEF TypeOK, StockType
    <3>4. qtyOnHand' \in [Parts -> Int] /\ qtyReserved' \in [Parts -> Int]
      BY <3>1, <3>2, IncrementType DEF TypeOK, StockType
    <3> QED
      BY <3>2, <3>3, <3>4 DEF TypeOK, StockType
  <2>3. HoldType'
    BY <1>5 DEF ReserveForJob, TypeOK, CallType, HoldType, RequestStates, ReservationRows,
       ReservationStatuses
  <2> QED
    BY <1>5, <2>1, <2>2, <2>3, TypeUnchanged DEF ReserveForJob, TypeOK
<1>6. ASSUME NEW c \in Requests, EndRequest(c) PROVE TypeOK'
  <2>1. CallType'
    BY <1>6 DEF EndRequest, TypeOK, CallType, RequestStates
  <2> QED
    BY <1>6, <2>1, TypeUnchanged DEF EndRequest, TypeOK
<1>7. ASSUME NEW r \in Reservations, DedupWindowPasses(r) PROVE TypeOK'
  <2>1. HoldType'
    BY <1>7 DEF DedupWindowPasses, TypeOK, HoldType, ReservationRows
  <2> QED
    BY <1>7, <2>1, TypeUnchanged DEF DedupWindowPasses, TypeOK
<1> QED
  BY <1>1, <1>2, <1>3, <1>4, <1>5, <1>6, <1>7 DEF Reserving

\* Consuming, releasing and deleting a job keep the types.
LEMMA TypeSettling == TypeOK /\ Settling => TypeOK'
<1> SUFFICES ASSUME TypeOK, Settling PROVE TypeOK'
  OBVIOUS
<1>1. ASSUME NEW r \in Reservations, ConsumeReservation(r) PROVE TypeOK'
  <2> DEFINE p == reservation[r].part
             q == reservation[r].qty
  <2>1. p \in Parts /\ q \in Int /\ -q \in Int /\ reservation[r].job \in Jobs
    BY DEF TypeOK, HoldType, ReservationRows, Quantities
  <2>2. /\ HasPanel /\ UpsertRow(p, PanelLocation, -q, -q) /\ AppendLedger(p, -q)
        /\ IncrementPart(p, -q, -q) /\ UNCHANGED signLost
    BY <1>1, Zenon DEF ConsumeReservation
  <2> HIDE DEF p, q
  <2>3. StockType'
    BY <2>1, <2>2, PanelIsLocation, UpsertType, IncrementType, LedgerType DEF TypeOK, StockType
  <2>4. HoldType'
    BY <1>1 DEF ConsumeReservation, TypeOK, HoldType, ReservationRows, ReservationStatuses
  <2>5. JobType'
    BY <1>1, <2>1 DEF ConsumeReservation, TypeOK, JobType
  <2> QED
    BY <1>1, <2>3, <2>4, <2>5, TypeUnchanged DEF ConsumeReservation, TypeOK
<1>2. ASSUME NEW r \in Reservations, ReleaseReservation(r) PROVE TypeOK'
  <2> DEFINE p == reservation[r].part
             q == reservation[r].qty
  <2>1. p \in Parts /\ q \in Int /\ -q \in Int
    BY DEF TypeOK, HoldType, ReservationRows, Quantities
  <2>2. /\ HasPanel /\ UpsertRow(p, PanelLocation, 0, -q)
        /\ IncrementPart(p, 0, -q) /\ UNCHANGED <<ledger, signLost>>
    BY <1>2, Zenon DEF ReleaseReservation
  <2> HIDE DEF p, q
  <2>3. StockType'
    BY <2>1, <2>2, PanelIsLocation, UpsertType, IncrementType DEF TypeOK, StockType
  <2>4. HoldType'
    BY <1>2 DEF ReleaseReservation, TypeOK, HoldType, ReservationRows, ReservationStatuses
  <2> QED
    BY <1>2, <2>3, <2>4, TypeUnchanged DEF ReleaseReservation, TypeOK
<1>3. ASSUME NEW j \in Jobs, DeleteJob(j) PROVE TypeOK'
  <2>1. HoldType'
    BY <1>3 DEF DeleteJob, TypeOK, HoldType, ReservationRows, ReservationStatuses
  <2>2. JobType'
    BY <1>3 DEF DeleteJob, TypeOK, JobType
  <2> QED
    BY <1>3, <2>1, <2>2, TypeUnchanged DEF DeleteJob, TypeOK
<1> QED
  BY <1>1, <1>2, <1>3 DEF Settling

\* Quotations, updates and the consumption on completion keep the types.
LEMMA TypeRepairing == TypeOK /\ Repairing => TypeOK'
<1> SUFFICES ASSUME TypeOK, Repairing PROVE TypeOK'
  OBVIOUS
<1>1. ASSUME NEW j \in Jobs, NEW p \in Parts, NEW q \in Quantities, AcceptQuotation(j, p, q)
      PROVE  TypeOK'
  <2>1. q \in 0..MaxQty /\ 0 \in 0..MaxQty
    BY BoundsAssumption DEF Quantities
  <2>2. [x \in Parts |-> IF x = p THEN q ELSE 0] \in [Parts -> 0..MaxQty]
    BY <2>1
  <2>3. quote' \in [Jobs -> [Parts -> 0..MaxQty]]
    BY <1>1, <2>2 DEF AcceptQuotation, TypeOK, JobType
  <2>4. JobType' /\ edits' \in Nat
    BY <1>1, <2>3 DEF AcceptQuotation, UseEdit, TypeOK, JobType
  <2> QED
    BY <1>1, <2>4, TypeUnchanged DEF AcceptQuotation, TypeOK
<1>2. ASSUME NEW u \in Updates, NEW j \in Jobs, NEW next \in {"OPEN", "COMPLETED"},
             ReadJob(u, j, next)
      PROVE  TypeOK'
  <2>1. CallType'
    BY <1>2 DEF ReadJob, TypeOK, CallType, UpdateStates
  <2> QED
    BY <1>2, <2>1, TypeUnchanged DEF ReadJob, TypeOK
<1>3. ASSUME NEW u \in Updates, WriteJob(u) PROVE TypeOK'
  <2>1. CallType'
    BY <1>3 DEF WriteJob, TypeOK, CallType, UpdateStates
  <2>2. JobType'
    BY <1>3 DEF WriteJob, TypeOK, CallType, JobType, UpdateStates
  <2> QED
    BY <1>3, <2>1, <2>2, TypeUnchanged DEF WriteJob, TypeOK
<1>4. ASSUME NEW u \in Updates, ConsumeRepairParts(u) PROVE TypeOK'
  <2>1. CallType'
    BY <1>4 DEF ConsumeRepairParts, TypeOK, CallType, UpdateStates
  <2>2. update[u].job \in Jobs /\ quote[update[u].job] \in [Parts -> Int]
    BY DEF TypeOK, CallType, JobType, UpdateStates
  <2>3. StockType'
    BY <1>4, <2>2 DEF ConsumeRepairParts, TypeOK, StockType
  <2>4. JobType'
    BY <1>4, <2>2 DEF ConsumeRepairParts, TypeOK, JobType
  <2> QED
    BY <1>4, <2>1, <2>3, <2>4, TypeUnchanged DEF ConsumeRepairParts, TypeOK
<1>5. ASSUME NEW u \in Updates, EndUpdate(u) PROVE TypeOK'
  <2>1. CallType'
    BY <1>5 DEF EndUpdate, TypeOK, CallType, UpdateStates
  <2> QED
    BY <1>5, <2>1, TypeUnchanged DEF EndUpdate, TypeOK
<1> QED
  BY <1>1, <1>2, <1>3, <1>4, <1>5 DEF Repairing

\* Transfers keep the types.
LEMMA TypeTransferring == TypeOK /\ Transferring => TypeOK'
<1> SUFFICES ASSUME TypeOK, Transferring PROVE TypeOK'
  OBVIOUS
<1>1. ASSUME NEW t \in Transfers, NEW status \in TransferStatuses, TransferTo(t, status),
             UNCHANGED count
      PROVE  DocumentType'
  BY <1>1 DEF TransferTo, TypeOK, DocumentType, TransferRows
<1>2. ASSUME NEW t \in Transfers
      PROVE  /\ transfer[t].part \in Parts /\ transfer[t].from \in Locations
             /\ transfer[t].to \in Locations
             /\ transfer[t].qty \in Int /\ -transfer[t].qty \in Int
  BY <1>2 DEF TypeOK, DocumentType, TransferRows, Quantities
<1>3. ASSUME NEW t \in Transfers, NEW p \in Parts, NEW from \in Locations,
             NEW to \in Locations, NEW q \in Quantities, CreateTransfer(t, p, from, to, q)
      PROVE  TypeOK'
  <2>1. DocumentType'
    BY <1>3 DEF CreateTransfer, TypeOK, DocumentType, TransferRows, TransferStatuses
  <2> QED
    BY <1>3, <2>1, TypeUnchanged DEF CreateTransfer, TypeOK
<1>4. ASSUME NEW t \in Transfers, ApproveTransfer(t) PROVE TypeOK'
  BY <1>1, <1>4, TypeUnchanged DEF ApproveTransfer, TypeOK, TransferStatuses
<1>5. ASSUME NEW t \in Transfers, CancelTransfer(t) PROVE TypeOK'
  BY <1>1, <1>5, TypeUnchanged DEF CancelTransfer, TypeOK, TransferStatuses
<1>6. ASSUME NEW t \in Transfers, DispatchTransfer(t) PROVE TypeOK'
  <2> DEFINE p == transfer[t].part
             l == transfer[t].from
             q == transfer[t].qty
  <2>1. /\ UpsertRow(p, l, -q, 0) /\ AppendLedger(p, -q)
        /\ UNCHANGED <<qtyOnHand, qtyReserved, signLost>>
    BY <1>6, Zenon DEF DispatchTransfer
  <2>2. p \in Parts /\ l \in Locations /\ q \in Int /\ -q \in Int
    BY <1>2
  <2> HIDE DEF p, l, q
  <2>3. StockType'
    BY <2>1, <2>2, UpsertType, LedgerType DEF TypeOK, StockType
  <2> QED
    BY <1>1, <1>6, <2>3, TypeUnchanged DEF DispatchTransfer, TypeOK, TransferStatuses
<1>7. ASSUME NEW t \in Transfers, ReceiveTransfer(t) PROVE TypeOK'
  <2> DEFINE p == transfer[t].part
             l == transfer[t].to
             q == transfer[t].qty
  <2>1. /\ UpsertRow(p, l, q, 0) /\ AppendLedger(p, q)
        /\ UNCHANGED <<qtyOnHand, qtyReserved, signLost>>
    BY <1>7, Zenon DEF ReceiveTransfer
  <2>2. p \in Parts /\ l \in Locations /\ q \in Int
    BY <1>2
  <2> HIDE DEF p, l, q
  <2>3. StockType'
    BY <2>1, <2>2, UpsertType, LedgerType DEF TypeOK, StockType
  <2> QED
    BY <1>1, <1>7, <2>3, TypeUnchanged DEF ReceiveTransfer, TypeOK, TransferStatuses
<1> QED
  BY <1>3, <1>4, <1>5, <1>6, <1>7 DEF Transferring

\* Stock counts keep the types.
LEMMA TypeCounting == TypeOK /\ Counting => TypeOK'
<1> SUFFICES ASSUME TypeOK, Counting PROVE TypeOK'
  OBVIOUS
<1>1. ASSUME NEW k \in Counts, NEW l \in Locations, NEW lines \in SUBSET Parts,
             NEW counted \in [lines -> 0..MaxQty], CreateCount(k, l, counted)
      PROVE  TypeOK'
  <2>1. ASSUME NEW p \in Parts
        PROVE  (IF p \in DOMAIN counted THEN counted[p] - locationStock[p][l].onHand ELSE 0) \in Int
    <3>1. locationStock[p][l].onHand \in Int
      BY DEF TypeOK, StockType, Rows
    <3>2. p \in lines => counted[p] \in Int
      OBVIOUS
    <3> QED
      BY <3>1, <3>2
  <2>2. [p \in Parts |-> IF p \in DOMAIN counted
                          THEN counted[p] - locationStock[p][l].onHand ELSE 0] \in [Parts -> Int]
    BY <2>1
  <2>3. DocumentType'
    BY <1>1, <2>2 DEF CreateCount, TypeOK, DocumentType, CountRows
  <2> QED
    BY <1>1, <2>3, TypeUnchanged DEF CreateCount, TypeOK
<1>2. ASSUME NEW k \in Counts, CancelCount(k) PROVE TypeOK'
  <2>1. DocumentType'
    BY <1>2 DEF CancelCount, TypeOK, DocumentType, CountRows
  <2> QED
    BY <1>2, <2>1, TypeUnchanged DEF CancelCount, TypeOK
<1>3. ASSUME NEW k \in Counts, ApproveCount(k) PROVE TypeOK'
  <2>1. count[k].variance \in [Parts -> Int] /\ count[k].location \in Locations
    BY DEF TypeOK, DocumentType, CountRows
  <2>2. DocumentType'
    BY <1>3 DEF ApproveCount, TypeOK, DocumentType, CountRows
  <2>3. locationStock' \in [Parts -> [Locations -> Rows]]
    BY <1>3, <2>1 DEF ApproveCount, TypeOK, StockType, Rows
  <2>4. qtyOnHand' \in [Parts -> Int] /\ ledger' \in [Parts -> Int]
    BY <1>3, <2>1 DEF ApproveCount, TypeOK, StockType
  <2>5. StockType'
    BY <1>3, <2>3, <2>4 DEF ApproveCount, TypeOK, StockType
  <2> QED
    BY <1>3, <2>2, <2>5, TypeUnchanged DEF ApproveCount, TypeOK
<1> QED
  BY <1>1, <1>2, <1>3 DEF Counting

\* A movement at one location, logged and totalled, keeps the types.
LEMMA TypeMove ==
  ASSUME TypeOK, NEW p \in Parts, NEW l \in Locations, NEW delta \in Int,
         MoveAtLocation(p, l, delta)
  PROVE  TypeOK'
<1>1. /\ UpsertRow(p, l, delta, 0) /\ AppendLedger(p, delta) /\ IncrementPart(p, delta, 0)
      /\ UNCHANGED signLost /\ edits' = edits + 1
  BY DEF MoveAtLocation, UseEdit
<1>2. StockType'
  BY <1>1, UpsertType, IncrementType, LedgerType DEF TypeOK, StockType
<1> QED
  BY <1>1, <1>2, TypeUnchanged DEF MoveAtLocation, TypeOK

\* Adjusting and correcting: the total and the row logged are integers.
LEMMA TypePartOnly ==
  ASSUME TypeOK, NEW p \in Parts, NEW delta \in Int, NEW logged \in Int,
         UseEdit, IncrementPart(p, delta, 0), AppendLedger(p, logged),
         signLost' = [signLost EXCEPT ![p] = @ + (logged - delta)],
         UNCHANGED <<locationStock, holdVars, jobVars, documentVars, masterVars, callVars,
                     opening>>
  PROVE  TypeOK'
<1>1. signLost' \in [Parts -> Int]
  BY DEF TypeOK, StockType
<1>2. StockType'
  BY <1>1, IncrementType, LedgerType DEF TypeOK, StockType
<1> QED
  BY <1>2, TypeUnchanged DEF UseEdit, TypeOK

\* Manual edits and the switching of parts and locations keep the types.
LEMMA TypeEditing == TypeOK /\ Editing => TypeOK'
<1> SUFFICES ASSUME TypeOK, Editing PROVE TypeOK'
  OBVIOUS
<1>1. ASSUME NEW p \in Parts, NEW type, NEW qty \in Int, AdjustStock(p, type, qty)
      PROVE  TypeOK'
  <2> DEFINE delta == CASE type = "IN" -> qty [] type = "OUT" -> -qty [] OTHER -> qty
             logged == IF type = "ADJUST" /\ qty < 0 THEN -qty ELSE delta
  <2>1. delta \in Int /\ logged \in Int
    OBVIOUS
  <2>2. /\ UseEdit /\ IncrementPart(p, delta, 0) /\ AppendLedger(p, logged)
        /\ signLost' = [signLost EXCEPT ![p] = @ + (logged - delta)]
        /\ UNCHANGED <<locationStock, holdVars, jobVars, documentVars, masterVars, callVars,
                       opening>>
    BY <1>1, Zenon DEF AdjustStock
  <2> HIDE DEF delta, logged
  <2> QED
    BY <2>1, <2>2, TypePartOnly
<1>2. ASSUME NEW p \in Parts, NEW target \in Int, CorrectStock(p, target)
      PROVE  TypeOK'
  <2> DEFINE delta == target - qtyOnHand[p]
             logged == IF delta < 0 THEN -delta ELSE delta
  <2>1. delta \in Int /\ logged \in Int
    BY DEF TypeOK, StockType
  <2>2. /\ UseEdit /\ IncrementPart(p, delta, 0) /\ AppendLedger(p, logged)
        /\ signLost' = [signLost EXCEPT ![p] = @ + (logged - delta)]
        /\ UNCHANGED <<locationStock, holdVars, jobVars, documentVars, masterVars, callVars,
                       opening>>
    BY <1>2, Zenon DEF CorrectStock
  <2> HIDE DEF delta, logged
  <2> QED
    BY <2>1, <2>2, TypePartOnly
<1>3. ASSUME NEW p \in Parts, NEW l \in Locations, NEW q \in Int, ReceiveStock(p, l, q)
      PROVE  TypeOK'
  BY <1>3, TypeMove DEF ReceiveStock
<1>4. ASSUME NEW p \in Parts, NEW l \in Locations, NEW q \in Int, IssueStock(p, l, q)
      PROVE  TypeOK'
  BY <1>4, TypeMove DEF IssueStock
<1>5. ASSUME NEW p \in Parts, NEW l \in Locations, NEW system \in Int, NEW counted \in Int,
             ApplyAdjustment(p, l, system, counted)
      PROVE  TypeOK'
  BY <1>5, TypeMove DEF ApplyAdjustment
<1>6. ASSUME NEW l \in Locations, ToggleLocation(l) PROVE TypeOK'
  <2>1. MasterType'
    BY <1>6 DEF ToggleLocation, TypeOK, MasterType
  <2> QED
    BY <1>6, <2>1, TypeUnchanged DEF ToggleLocation, TypeOK
<1>7. ASSUME NEW p \in Parts, TogglePart(p) PROVE TypeOK'
  <2>1. MasterType' /\ edits' \in Nat
    BY <1>7 DEF TogglePart, UseEdit, TypeOK, MasterType
  <2> QED
    BY <1>7, <2>1, TypeUnchanged DEF TogglePart, TypeOK
<1>8. Quantities \subseteq Int /\ (-MaxQty)..MaxQty \subseteq Int /\ 0..MaxQty \subseteq Int
  BY BoundsAssumption DEF Quantities
<1> QED
  BY <1>1, <1>2, <1>3, <1>4, <1>5, <1>6, <1>7, <1>8, Zenon DEF Editing

\* Re-creating a deleted part keeps the types.
LEMMA TypeRecreating == TypeOK /\ Recreating => TypeOK'
<1> SUFFICES ASSUME TypeOK, Recreating PROVE TypeOK'
  OBVIOUS
<1>1. ASSUME NEW c \in Requests, NEW p \in Parts, FindDeletedPart(c, p) PROVE TypeOK'
  <2>1. NoRequest \in RequestStates
    BY CatalogueAssumption, LocationsAssumption, BoundsAssumption
    DEF NoRequest, RequestStates, SomePart, SomeJob, SomeLocation, Quantities
  <2>2. [NoRequest EXCEPT !.pc = "recreate", !.part = p] \in RequestStates
    BY <2>1 DEF RequestStates
  <2>3. CallType'
    BY <1>1, <2>2 DEF FindDeletedPart, TypeOK, CallType
  <2> QED
    BY <1>1, <2>3, TypeUnchanged DEF FindDeletedPart, TypeOK
<1>2. ASSUME NEW c \in Requests, NEW q \in 0..MaxQty, RecreatePart(c, q) PROVE TypeOK'
  <2>1. request[c] \in RequestStates /\ q \in Int
    BY BoundsAssumption DEF TypeOK, CallType
  <2>2. request[c].part \in Parts /\ [request[c] EXCEPT !.pc = "idle"] \in RequestStates
    BY <2>1 DEF RequestStates
  <2>3. StockType'
    BY <1>2, <2>1, <2>2 DEF RecreatePart, TypeOK, StockType
  <2>4. MasterType'
    BY <1>2, <2>1, <2>2 DEF RecreatePart, TypeOK, StockType, MasterType
  <2>5. CallType'
    BY <1>2, <2>2 DEF RecreatePart, TypeOK, CallType
  <2> QED
    BY <1>2, <2>3, <2>4, <2>5, TypeUnchanged DEF RecreatePart, TypeOK
<1> QED
  BY <1>1, <1>2 DEF Recreating

\* Every step keeps the types.
LEMMA TypeStep == TypeOK /\ [Next]_vars => TypeOK'
<1>1. TypeOK /\ UNCHANGED vars => TypeOK'
  BY TypeUnchanged DEF vars, TypeOK, stockVars, holdVars, jobVars, documentVars, masterVars,
     callVars
<1> QED
  BY <1>1, TypeReserving, TypeSettling, TypeRepairing, TypeTransferring, TypeCounting,
     TypeEditing, TypeRecreating DEF Next

\* Type correctness, for every instance.
THEOREM TypeCorrect == Spec => []TypeOK
BY TypeInit, TypeStep, PTL DEF Spec

-----------------------------------------------------------------------------
(* The ledger explains the quantity on hand *)

\* A step moves the total of a part by what it logs, less the sign it loses, plus
\* what it puts on the road.
LedgerStep(p) ==
  qtyOnHand'[p] - qtyOnHand[p]
    = (ledger'[p] - ledger[p]) - (signLost'[p] - signLost[p]) + (InTransit(p)' - InTransit(p))

TransferQty == [t \in Transfers |-> transfer[t].qty]

FiniteTransit == \A p \in Parts :
  IsFiniteSet(UnitsOf(TransitRows(p), TransferQty)) /\ InTransit(p) \in Nat

LEMMA TransitFinite == TypeOK => FiniteTransit
<1> SUFFICES ASSUME TypeOK, NEW p \in Parts
             PROVE  IsFiniteSet(UnitsOf(TransitRows(p), TransferQty)) /\ InTransit(p) \in Nat
  BY DEF FiniteTransit
<1>1. TransitRows(p) \in SUBSET Transfers
  BY DEF TransitRows
<1>2. \A t \in TransitRows(p) : TransferQty[t] \in 1..MaxQty
  BY DEF TransitRows, TransferQty, TypeOK, DocumentType, TransferRows, Quantities
<1>3. MaxQty \in Nat
  BY BoundsAssumption
<1> QED
  BY <1>1, <1>2, <1>3, TransfersAssumption, FiniteUnits DEF InTransit, TransferQty

\* Steps that move no goods between locations leave the road as it is.
LEMMA TransitUnchanged ==
  ASSUME \/ UNCHANGED transfer
         \/ \E t \in Transfers, status \in TransferStatuses \ {"DISPATCHED"} :
               transfer[t].status # "DISPATCHED" /\ TransferTo(t, status) /\ TypeOK,
         NEW p
  PROVE  InTransit(p)' = InTransit(p)
<1>1. CASE UNCHANGED transfer
  BY <1>1 DEF InTransit, TransitRows
<1>2. ASSUME NEW t \in Transfers, NEW status \in TransferStatuses \ {"DISPATCHED"},
             transfer[t].status # "DISPATCHED", TransferTo(t, status), TypeOK
      PROVE  InTransit(p)' = InTransit(p)
  <2>1. \A x \in Transfers : /\ transfer'[x].qty = transfer[x].qty
                             /\ transfer'[x].part = transfer[x].part
                             /\ transfer'[x].status = "DISPATCHED"
                                    <=> transfer[x].status = "DISPATCHED"
    BY <1>2 DEF TransferTo, TypeOK, DocumentType, TransferRows
  <2>2. TransitRows(p)' = TransitRows(p)
    BY <2>1 DEF TransitRows
  <2>3. TransferQty' = TransferQty
    BY <2>1 DEF TransferQty
  <2> QED
    BY <2>2, <2>3 DEF InTransit, TransferQty
<1> QED
  BY <1>1, <1>2

\* A transfer that is asked for puts nothing on the road.
LEMMA TransitOfCreation ==
  ASSUME TypeOK, NEW t \in Transfers, NEW p, NEW from, NEW to, NEW q,
         CreateTransfer(t, p, from, to, q),
         NEW x \in Parts
  PROVE  InTransit(x)' = InTransit(x)
<1>1. /\ transfer[t].status = "NONE" /\ transfer'[t].status = "REQUESTED"
      /\ \A y \in Transfers \ {t} : transfer'[y] = transfer[y]
  BY DEF CreateTransfer, TypeOK, DocumentType
<1>2. TransitRows(x)' = TransitRows(x)
  BY <1>1 DEF TransitRows
<1>3. \A y \in TransitRows(x) : TransferQty'[y] = TransferQty[y]
  BY <1>1 DEF TransitRows, TransferQty
<1>4. Total(TransitRows(x), TransferQty') = Total(TransitRows(x), TransferQty)
  BY <1>3, SameUnits
<1> QED
  BY <1>2, <1>4 DEF InTransit, TransferQty

\* A transfer that goes on the road, or comes off it, changes the units on the
\* road of its part by its quantity, and those of no other part.
LEMMA TransitMoves ==
  ASSUME TypeOK, TypeOK', NEW t \in Transfers, NEW p \in Parts
  PROVE  /\ transfer[t].status # "DISPATCHED" /\ TransferTo(t, "DISPATCHED")
            => InTransit(p)' = InTransit(p) + IF p = transfer[t].part THEN transfer[t].qty ELSE 0
         /\ transfer[t].status = "DISPATCHED" /\ TransferTo(t, "RECEIVED")
            => InTransit(p) = InTransit(p)' + IF p = transfer[t].part THEN transfer[t].qty ELSE 0
<1>1. ASSUME NEW status \in TransferStatuses, TransferTo(t, status)
      PROVE  /\ TransferQty' = TransferQty
             /\ transfer'[t].status = status
             /\ \A x \in Transfers \ {t} : transfer'[x] = transfer[x]
             /\ \A x \in Transfers : transfer'[x].part = transfer[x].part
  BY <1>1 DEF TransferTo, TransferQty, TypeOK, DocumentType, TransferRows
<1>2. TransferQty[t] = transfer[t].qty /\ transfer[t].qty \in Nat
  BY BoundsAssumption DEF TransferQty, TypeOK, DocumentType, TransferRows, Quantities
<1>3. FiniteTransit
  BY TransitFinite
<1>4. FiniteTransit'
  BY TransitFinite, PTL
<1>5. ASSUME transfer[t].status # "DISPATCHED", TransferTo(t, "DISPATCHED")
      PROVE  InTransit(p)' = InTransit(p) + IF p = transfer[t].part THEN transfer[t].qty ELSE 0
  <2>1. CASE p = transfer[t].part
    <3>1. TransitRows(p)' = TransitRows(p) \cup {t} /\ t \notin TransitRows(p)
      BY <1>1, <1>5, <2>1 DEF TransitRows, TransferStatuses
    <3>2. TransferQty' = TransferQty
      BY <1>1, <1>5 DEF TransferStatuses
    <3>3. Total(TransitRows(p) \cup {t}, TransferQty)
            = Total(TransitRows(p), TransferQty) + TransferQty[t]
      BY <1>2, <1>3, <3>1, AddUnits DEF FiniteTransit
    <3> QED
      BY <1>2, <2>1, <3>1, <3>2, <3>3 DEF InTransit, TransferQty
  <2>2. CASE p # transfer[t].part
    <3>1. TransitRows(p)' = TransitRows(p) /\ TransferQty' = TransferQty
      BY <1>1, <1>5, <2>2 DEF TransitRows, TransferStatuses
    <3>2. InTransit(p)' = InTransit(p) /\ InTransit(p) \in Nat
      BY <1>3, <3>1 DEF InTransit, TransferQty, FiniteTransit
    <3> QED
      BY <2>2, <3>2
  <2> QED
    BY <2>1, <2>2
<1>6. ASSUME transfer[t].status = "DISPATCHED", TransferTo(t, "RECEIVED")
      PROVE  InTransit(p) = InTransit(p)' + IF p = transfer[t].part THEN transfer[t].qty ELSE 0
  <2>1. CASE p = transfer[t].part
    <3>1. TransitRows(p) = TransitRows(p)' \cup {t} /\ t \notin TransitRows(p)'
      BY <1>1, <1>6, <2>1 DEF TransitRows, TransferStatuses
    <3>2. TransferQty' = TransferQty
      BY <1>1, <1>6 DEF TransferStatuses
    <3>3. Total(TransitRows(p)' \cup {t}, TransferQty)
            = Total(TransitRows(p)', TransferQty) + TransferQty[t]
      BY <1>2, <1>4, <3>1, <3>2, AddUnits DEF FiniteTransit
    <3> QED
      BY <1>2, <2>1, <3>1, <3>2, <3>3 DEF InTransit, TransferQty
  <2>2. CASE p # transfer[t].part
    <3>1. TransitRows(p)' = TransitRows(p) /\ TransferQty' = TransferQty
      BY <1>1, <1>6, <2>2 DEF TransitRows, TransferStatuses
    <3>2. InTransit(p)' = InTransit(p) /\ InTransit(p) \in Nat
      BY <1>3, <3>1 DEF InTransit, TransferQty, FiniteTransit
    <3> QED
      BY <2>2, <3>2
  <2> QED
    BY <2>1, <2>2
<1> QED
  BY <1>5, <1>6

\* Nothing moves: every part keeps its balance.
LEMMA LedgerQuiet ==
  ASSUME TypeOK, UNCHANGED <<qtyOnHand, ledger, signLost>>,
         \A p \in Parts : InTransit(p)' = InTransit(p)
  PROVE  \A p \in Parts : LedgerStep(p)
<1> SUFFICES ASSUME NEW p \in Parts PROVE LedgerStep(p)
  OBVIOUS
<1>1. qtyOnHand[p] \in Int /\ ledger[p] \in Int /\ signLost[p] \in Int /\ InTransit(p) \in Int
  BY TransitFinite DEF FiniteTransit, TypeOK, StockType
<1> QED
  BY <1>1 DEF LedgerStep

\* A total moves by the row that is logged, corrected by the sign it loses.
LEMMA LedgerMove ==
  ASSUME TypeOK, NEW p \in Parts, NEW delta \in Int, NEW logged \in Int, NEW reserved,
         IncrementPart(p, delta, reserved), AppendLedger(p, logged),
         \/ signLost' = [signLost EXCEPT ![p] = @ + (logged - delta)]
         \/ UNCHANGED signLost /\ logged = delta,
         UNCHANGED transfer
  PROVE  \A x \in Parts : LedgerStep(x)
<1> SUFFICES ASSUME NEW x \in Parts PROVE LedgerStep(x)
  OBVIOUS
<1>1. /\ qtyOnHand[x] \in Int /\ ledger[x] \in Int /\ signLost[x] \in Int
      /\ InTransit(x) \in Int /\ InTransit(x)' = InTransit(x)
  BY TransitFinite, TransitUnchanged DEF FiniteTransit, TypeOK, StockType
<1>2. /\ qtyOnHand'[x] = IF x = p THEN qtyOnHand[x] + delta ELSE qtyOnHand[x]
      /\ ledger'[x] = IF x = p THEN ledger[x] + logged ELSE ledger[x]
  BY DEF IncrementPart, AppendLedger, TypeOK, StockType
<1>3. signLost'[x] = IF x = p THEN signLost[x] + (logged - delta) ELSE signLost[x]
  <2>1. CASE signLost' = [signLost EXCEPT ![p] = @ + (logged - delta)]
    BY <2>1 DEF TypeOK, StockType
  <2>2. CASE UNCHANGED signLost /\ logged = delta
    BY <1>1, <2>2
  <2> QED
    BY <2>1, <2>2
<1> QED
  BY <1>1, <1>2, <1>3 DEF LedgerStep

\* Reserving moves nothing on hand.
LEMMA LedgerReserving == TypeOK /\ Reserving => \A p \in Parts : LedgerStep(p)
<1> SUFFICES ASSUME TypeOK, Reserving PROVE \A p \in Parts : LedgerStep(p)
  OBVIOUS
<1>1. UNCHANGED transfer /\ UNCHANGED ledger /\ UNCHANGED signLost
  BY DEF Reserving, SubmitReserve, CountLocationRows, ReadPartTotals, CreateLocationRow,
     ReserveForJob, EndRequest, DedupWindowPasses, stockVars, documentVars
<1>2. UNCHANGED qtyOnHand
  <2>1. ASSUME NEW c \in Requests, NEW r \in Reservations, ReserveForJob(c, r)
        PROVE  UNCHANGED qtyOnHand
    BY <2>1 DEF ReserveForJob, IncrementPart, TypeOK, StockType, CallType, RequestStates
  <2> QED
    BY <2>1 DEF Reserving, SubmitReserve, CountLocationRows, ReadPartTotals, CreateLocationRow,
       EndRequest, DedupWindowPasses, stockVars
<1> QED
  BY <1>1, <1>2, TransitUnchanged, LedgerQuiet

\* Consuming logs what it takes; releasing and deleting move nothing on hand.
LEMMA LedgerSettling == TypeOK /\ Settling => \A p \in Parts : LedgerStep(p)
<1> SUFFICES ASSUME TypeOK, Settling PROVE \A p \in Parts : LedgerStep(p)
  OBVIOUS
<1>1. ASSUME NEW r \in Reservations, ConsumeReservation(r)
      PROVE  \A p \in Parts : LedgerStep(p)
  <2> DEFINE p == reservation[r].part
             q == reservation[r].qty
  <2>1. p \in Parts /\ -q \in Int
    BY DEF TypeOK, HoldType, ReservationRows, Quantities
  <2>2. /\ AppendLedger(p, -q) /\ IncrementPart(p, -q, -q)
        /\ UNCHANGED signLost /\ UNCHANGED documentVars
    BY <1>1, Zenon DEF ConsumeReservation
  <2>3. UNCHANGED transfer
    BY <2>2 DEF documentVars
  <2> HIDE DEF p, q
  <2> QED
    BY <2>1, <2>2, <2>3, LedgerMove
<1>2. ASSUME NEW r \in Reservations, ReleaseReservation(r)
      PROVE  \A p \in Parts : LedgerStep(p)
  <2>1. UNCHANGED <<qtyOnHand, ledger, signLost, transfer>>
    BY <1>2 DEF ReleaseReservation, IncrementPart, documentVars, TypeOK, StockType, HoldType,
       ReservationRows
  <2> QED
    BY <2>1, TransitUnchanged, LedgerQuiet
<1>3. ASSUME NEW j \in Jobs, DeleteJob(j) PROVE \A p \in Parts : LedgerStep(p)
  <2>1. UNCHANGED <<qtyOnHand, ledger, signLost, transfer>>
    BY <1>3 DEF DeleteJob, stockVars, documentVars
  <2> QED
    BY <2>1, TransitUnchanged, LedgerQuiet
<1> QED
  BY <1>1, <1>2, <1>3 DEF Settling

\* Consumption on completion logs each part it takes.
LEMMA LedgerRepairing == TypeOK /\ Repairing => \A p \in Parts : LedgerStep(p)
<1> SUFFICES ASSUME TypeOK, Repairing PROVE \A p \in Parts : LedgerStep(p)
  OBVIOUS
<1>1. ASSUME NEW u \in Updates, ConsumeRepairParts(u)
      PROVE  \A p \in Parts : LedgerStep(p)
  <2> SUFFICES ASSUME NEW p \in Parts PROVE LedgerStep(p)
    OBVIOUS
  <2>1. /\ qtyOnHand[p] \in Int /\ ledger[p] \in Int /\ signLost[p] \in Int
        /\ InTransit(p) \in Int
    BY TransitFinite DEF FiniteTransit, TypeOK, StockType
  <2>2. update[u].job \in Jobs /\ quote[update[u].job][p] \in Int
    BY DEF TypeOK, CallType, JobType, UpdateStates
  <2>3. PICK n \in Int : qtyOnHand'[p] = qtyOnHand[p] - n /\ ledger'[p] = ledger[p] - n
    BY <1>1, <2>2 DEF ConsumeRepairParts
  <2>4. UNCHANGED signLost /\ UNCHANGED transfer
    BY <1>1 DEF ConsumeRepairParts, documentVars
  <2>5. InTransit(p)' = InTransit(p)
    BY <2>4, TransitUnchanged
  <2> QED
    BY <2>1, <2>3, <2>4, <2>5 DEF LedgerStep
<1>2. ASSUME UNCHANGED stockVars, UNCHANGED documentVars PROVE \A p \in Parts : LedgerStep(p)
  <2>1. UNCHANGED <<qtyOnHand, ledger, signLost, transfer>>
    BY <1>2 DEF stockVars, documentVars
  <2> QED
    BY <2>1, TransitUnchanged, LedgerQuiet
<1> QED
  BY <1>1, <1>2, Zenon DEF Repairing, AcceptQuotation, ReadJob, WriteJob, EndUpdate

\* Dispatch and receipt log the quantity that goes on, or comes off, the road.
LEMMA LedgerTransferring == TypeOK /\ TypeOK' /\ Transferring => \A p \in Parts : LedgerStep(p)
<1> SUFFICES ASSUME TypeOK, TypeOK', Transferring PROVE \A p \in Parts : LedgerStep(p)
  OBVIOUS
<1>1. ASSUME UNCHANGED stockVars, \A p \in Parts : InTransit(p)' = InTransit(p)
      PROVE  \A p \in Parts : LedgerStep(p)
  BY <1>1, LedgerQuiet DEF stockVars
<1>2. ASSUME NEW t \in Transfers, NEW p \in Parts, NEW from \in Locations,
             NEW to \in Locations, NEW q \in Quantities, CreateTransfer(t, p, from, to, q)
      PROVE  \A x \in Parts : LedgerStep(x)
  <2>1. \A x \in Parts : InTransit(x)' = InTransit(x)
    BY <1>2, TransitOfCreation
  <2> QED
    BY <1>1, <1>2, <2>1 DEF CreateTransfer
<1>3. ASSUME NEW t \in Transfers, ApproveTransfer(t) PROVE \A p \in Parts : LedgerStep(p)
  <2>1. \A p \in Parts : InTransit(p)' = InTransit(p)
    BY <1>3, TransitUnchanged DEF ApproveTransfer, TransferStatuses
  <2> QED
    BY <1>1, <1>3, <2>1 DEF ApproveTransfer
<1>4. ASSUME NEW t \in Transfers, CancelTransfer(t) PROVE \A p \in Parts : LedgerStep(p)
  <2>1. \A p \in Parts : InTransit(p)' = InTransit(p)
    BY <1>4, TransitUnchanged DEF CancelTransfer, TransferStatuses
  <2> QED
    BY <1>1, <1>4, <2>1 DEF CancelTransfer
<1>5. ASSUME NEW t \in Transfers, DispatchTransfer(t) PROVE \A p \in Parts : LedgerStep(p)
  <2> DEFINE q == transfer[t].qty
  <2>1. /\ AppendLedger(transfer[t].part, -q) /\ TransferTo(t, "DISPATCHED")
        /\ transfer[t].status = "APPROVED" /\ UNCHANGED <<qtyOnHand, signLost>>
    BY <1>5, Zenon DEF DispatchTransfer
  <2> SUFFICES ASSUME NEW p \in Parts PROVE LedgerStep(p)
    OBVIOUS
  <2>2. InTransit(p)' = InTransit(p) + IF p = transfer[t].part THEN q ELSE 0
    BY <2>1, TransitMoves
  <2>3. /\ qtyOnHand[p] \in Int /\ ledger[p] \in Int /\ signLost[p] \in Int
        /\ InTransit(p) \in Int /\ q \in Int
    BY TransitFinite DEF FiniteTransit, TypeOK, StockType, DocumentType, TransferRows, Quantities
  <2>4. ledger'[p] = IF p = transfer[t].part THEN ledger[p] + (-q) ELSE ledger[p]
    BY <2>1 DEF AppendLedger, TypeOK, StockType
  <2>5. qtyOnHand'[p] = qtyOnHand[p] /\ signLost'[p] = signLost[p]
    BY <2>1
  <2> HIDE DEF q
  <2> QED
    BY <2>2, <2>3, <2>4, <2>5 DEF LedgerStep
<1>6. ASSUME NEW t \in Transfers, ReceiveTransfer(t) PROVE \A p \in Parts : LedgerStep(p)
  <2> DEFINE q == transfer[t].qty
  <2>1. /\ AppendLedger(transfer[t].part, q) /\ TransferTo(t, "RECEIVED")
        /\ transfer[t].status = "DISPATCHED" /\ UNCHANGED <<qtyOnHand, signLost>>
    BY <1>6, Zenon DEF ReceiveTransfer
  <2> SUFFICES ASSUME NEW p \in Parts PROVE LedgerStep(p)
    OBVIOUS
  <2>2. InTransit(p) = InTransit(p)' + IF p = transfer[t].part THEN q ELSE 0
    BY <2>1, TransitMoves
  <2>3. FiniteTransit'
    BY TransitFinite, PTL
  <2>4. /\ qtyOnHand[p] \in Int /\ ledger[p] \in Int /\ signLost[p] \in Int
        /\ InTransit(p)' \in Int /\ q \in Int
    BY <2>3 DEF FiniteTransit, TypeOK, StockType, DocumentType, TransferRows, Quantities
  <2>5. ledger'[p] = IF p = transfer[t].part THEN ledger[p] + q ELSE ledger[p]
    BY <2>1 DEF AppendLedger, TypeOK, StockType
  <2>6. qtyOnHand'[p] = qtyOnHand[p] /\ signLost'[p] = signLost[p]
    BY <2>1
  <2> HIDE DEF q
  <2> QED
    BY <2>2, <2>4, <2>5, <2>6 DEF LedgerStep
<1> QED
  BY <1>2, <1>3, <1>4, <1>5, <1>6 DEF Transferring

\* An approved count logs the variance it applies.
LEMMA LedgerCounting == TypeOK /\ Counting => \A p \in Parts : LedgerStep(p)
<1> SUFFICES ASSUME TypeOK, Counting PROVE \A p \in Parts : LedgerStep(p)
  OBVIOUS
<1>1. UNCHANGED transfer /\ UNCHANGED signLost
  BY Zenon DEF Counting, CreateCount, CancelCount, ApproveCount, stockVars
<1>2. ASSUME UNCHANGED stockVars PROVE \A p \in Parts : LedgerStep(p)
  BY <1>1, <1>2, TransitUnchanged, LedgerQuiet DEF stockVars
<1>3. ASSUME NEW k \in Counts, ApproveCount(k) PROVE \A p \in Parts : LedgerStep(p)
  <2> SUFFICES ASSUME NEW p \in Parts PROVE LedgerStep(p)
    OBVIOUS
  <2>1. /\ qtyOnHand[p] \in Int /\ ledger[p] \in Int /\ signLost[p] \in Int
        /\ InTransit(p) \in Int /\ InTransit(p)' = InTransit(p)
    BY <1>1, TransitFinite, TransitUnchanged DEF FiniteTransit, TypeOK, StockType
  <2>2. count[k].variance[p] \in Int
    BY DEF TypeOK, DocumentType, CountRows
  <2>3. /\ qtyOnHand'[p] = qtyOnHand[p] + count[k].variance[p]
        /\ ledger'[p] = ledger[p] + count[k].variance[p]
    BY <1>3 DEF ApproveCount
  <2> QED
    BY <1>1, <2>1, <2>2, <2>3 DEF LedgerStep
<1> QED
  BY <1>2, <1>3, Zenon DEF Counting, CreateCount, CancelCount

\* Manual edits log what they do, but for the sign that ADJUST rows lose.
LEMMA LedgerEditing == TypeOK /\ Editing => \A p \in Parts : LedgerStep(p)
<1> SUFFICES ASSUME TypeOK, Editing PROVE \A p \in Parts : LedgerStep(p)
  OBVIOUS
<1>1. UNCHANGED transfer
  BY Zenon DEF Editing, AdjustStock, CorrectStock, ReceiveStock, IssueStock, ApplyAdjustment,
     MoveAtLocation, ToggleLocation, TogglePart, documentVars
<1>2. ASSUME NEW p \in Parts, NEW type, NEW qty \in Int, AdjustStock(p, type, qty)
      PROVE  \A x \in Parts : LedgerStep(x)
  <2> DEFINE delta == CASE type = "IN" -> qty [] type = "OUT" -> -qty [] OTHER -> qty
             logged == IF type = "ADJUST" /\ qty < 0 THEN -qty ELSE delta
  <2>1. delta \in Int /\ logged \in Int
    OBVIOUS
  <2>2. /\ IncrementPart(p, delta, 0) /\ AppendLedger(p, logged)
        /\ signLost' = [signLost EXCEPT ![p] = @ + (logged - delta)]
    BY <1>2, Zenon DEF AdjustStock
  <2> HIDE DEF delta, logged
  <2> QED
    BY <1>1, <2>1, <2>2, LedgerMove
<1>3. ASSUME NEW p \in Parts, NEW target \in Int, CorrectStock(p, target)
      PROVE  \A x \in Parts : LedgerStep(x)
  <2> DEFINE delta == target - qtyOnHand[p]
             logged == IF delta < 0 THEN -delta ELSE delta
  <2>1. delta \in Int /\ logged \in Int
    BY DEF TypeOK, StockType
  <2>2. /\ IncrementPart(p, delta, 0) /\ AppendLedger(p, logged)
        /\ signLost' = [signLost EXCEPT ![p] = @ + (logged - delta)]
    BY <1>3, Zenon DEF CorrectStock
  <2> HIDE DEF delta, logged
  <2> QED
    BY <1>1, <2>1, <2>2, LedgerMove
<1>4. ASSUME NEW p \in Parts, NEW l \in Locations, NEW delta \in Int,
             MoveAtLocation(p, l, delta)
      PROVE  \A x \in Parts : LedgerStep(x)
  BY <1>1, <1>4, LedgerMove DEF MoveAtLocation
<1>5. ASSUME UNCHANGED stockVars PROVE \A p \in Parts : LedgerStep(p)
  BY <1>1, <1>5, TransitUnchanged, LedgerQuiet DEF stockVars
<1>6. Quantities \subseteq Int /\ (-MaxQty)..MaxQty \subseteq Int /\ 0..MaxQty \subseteq Int
  BY BoundsAssumption DEF Quantities
<1>7. ASSUME NEW p \in Parts, NEW l \in Locations, NEW q \in Int,
             ReceiveStock(p, l, q) \/ IssueStock(p, l, q)
      PROVE  \A x \in Parts : LedgerStep(x)
  BY <1>4, <1>7 DEF ReceiveStock, IssueStock
<1>8. ASSUME NEW p \in Parts, NEW l \in Locations, NEW system \in Int, NEW counted \in Int,
             ApplyAdjustment(p, l, system, counted)
      PROVE  \A x \in Parts : LedgerStep(x)
  BY <1>4, <1>8 DEF ApplyAdjustment
<1> QED
  BY <1>2, <1>3, <1>5, <1>6, <1>7, <1>8, Zenon DEF Editing, ToggleLocation, TogglePart

\* Only Init chooses the opening quantities.
LEMMA OpeningKept == [Next]_vars => UNCHANGED opening
BY Zenon DEF vars, Next, Reserving, Settling, Repairing, Transferring, Counting, Editing,
   SubmitReserve, CountLocationRows, ReadPartTotals, CreateLocationRow, ReserveForJob,
   EndRequest, DedupWindowPasses, ConsumeReservation, ReleaseReservation, DeleteJob,
   AcceptQuotation, ReadJob, WriteJob, ConsumeRepairParts, EndUpdate, CreateTransfer,
   ApproveTransfer, CancelTransfer, DispatchTransfer, ReceiveTransfer, CreateCount,
   CancelCount, ApproveCount, AdjustStock, CorrectStock, ReceiveStock, IssueStock,
   ApplyAdjustment, MoveAtLocation, ToggleLocation, TogglePart, Recreating, FindDeletedPart,
   RecreatePart

\* Only the re-creation of a part overwrites a total.
LEMMA UnloggedKept ==
  [Next]_vars /\ ~ Recreating => UNCHANGED unlogged
BY Zenon DEF vars, Next, Reserving, Settling, Repairing, Transferring, Counting, Editing,
   SubmitReserve, CountLocationRows, ReadPartTotals, CreateLocationRow, ReserveForJob,
   EndRequest, DedupWindowPasses, ConsumeReservation, ReleaseReservation, DeleteJob,
   AcceptQuotation, ReadJob, WriteJob, ConsumeRepairParts, EndUpdate, CreateTransfer,
   ApproveTransfer, CancelTransfer, DispatchTransfer, ReceiveTransfer, CreateCount,
   CancelCount, ApproveCount, AdjustStock, CorrectStock, ReceiveStock, IssueStock,
   ApplyAdjustment, MoveAtLocation, ToggleLocation, TogglePart, masterVars

\* What re-creating a part writes: one total, by a row's worth that has no row.
Overwritten(p) ==
  /\ UNCHANGED <<ledger, signLost, transfer>>
  /\ qtyOnHand'[p] \in Nat
  /\ unlogged'[p] - unlogged[p] = qtyOnHand'[p] - qtyOnHand[p]
  /\ \A x \in Parts \ {p} : unlogged'[x] = unlogged[x] /\ qtyOnHand'[x] = qtyOnHand[x]

LEMMA RecreatingOverwrites ==
  ASSUME TypeOK, Recreating
  PROVE  \/ UNCHANGED stockVars /\ UNCHANGED <<unlogged, transfer>>
         \/ \E p \in Parts : Overwritten(p)
<1>1. ASSUME NEW c \in Requests, NEW q \in 0..MaxQty, RecreatePart(c, q)
      PROVE  \E p \in Parts : Overwritten(p)
  <2> DEFINE p == request[c].part
  <2>1. p \in Parts /\ q \in Nat
    BY BoundsAssumption DEF TypeOK, CallType, RequestStates
  <2>2. /\ qtyOnHand' = [qtyOnHand EXCEPT ![p] = q]
        /\ unlogged' = [unlogged EXCEPT ![p] = @ + (q - qtyOnHand[p])]
        /\ UNCHANGED <<ledger, signLost, transfer>>
    BY <1>1, Zenon DEF RecreatePart, documentVars
  <2> HIDE DEF p
  <2>3. Overwritten(p)
    BY <2>1, <2>2 DEF Overwritten, TypeOK, StockType, MasterType
  <2> QED
    BY <2>1, <2>3
<1>2. ASSUME NEW c \in Requests, NEW p \in Parts, FindDeletedPart(c, p)
      PROVE  UNCHANGED stockVars /\ UNCHANGED <<unlogged, transfer>>
  BY <1>2 DEF FindDeletedPart, masterVars, documentVars
<1> QED
  BY <1>1, <1>2 DEF Recreating

\* The same with what was overwritten: what every step keeps.
ExplainedStep(p) ==
  qtyOnHand'[p] - qtyOnHand[p]
    = (ledger'[p] - ledger[p]) - (signLost'[p] - signLost[p]) + (unlogged'[p] - unlogged[p])
      + (InTransit(p)' - InTransit(p))

\* Every step moves totals as it logs them, or overwrites one of them.
LEMMA LedgerSteps == TypeOK /\ TypeOK' /\ [Next]_vars => \A p \in Parts : ExplainedStep(p)
<1> SUFFICES ASSUME TypeOK, TypeOK', [Next]_vars, NEW p \in Parts PROVE ExplainedStep(p)
  OBVIOUS
<1>1. ASSUME LedgerStep(p), UNCHANGED unlogged PROVE ExplainedStep(p)
  <2>1. FiniteTransit /\ FiniteTransit'
    BY TransitFinite, PTL
  <2>2. /\ unlogged[p] \in Int /\ ledger[p] \in Int /\ ledger'[p] \in Int
        /\ signLost[p] \in Int /\ signLost'[p] \in Int
        /\ InTransit(p) \in Int /\ InTransit(p)' \in Int
    BY <2>1 DEF FiniteTransit, TypeOK, StockType, MasterType
  <2>3. unlogged'[p] = unlogged[p]
    BY <1>1
  <2> QED
    BY <1>1, <2>2, <2>3 DEF LedgerStep, ExplainedStep
<1>2. CASE UNCHANGED vars
  <2>1. LedgerStep(p) /\ UNCHANGED unlogged
    BY <1>2, TransitUnchanged, LedgerQuiet DEF vars
  <2> QED
    BY <1>1, <2>1
<1>3. CASE Next /\ ~ Recreating
  <2>1. LedgerStep(p)
    BY <1>3, LedgerReserving, LedgerSettling, LedgerRepairing, LedgerTransferring,
       LedgerCounting, LedgerEditing DEF Next
  <2> QED
    BY <1>1, <1>3, <2>1, UnloggedKept
<1>4. CASE Recreating
  <2>1. CASE UNCHANGED stockVars /\ UNCHANGED <<unlogged, transfer>>
    <3>1. LedgerStep(p)
      BY <2>1, TransitUnchanged, LedgerQuiet DEF stockVars
    <3> QED
      BY <1>1, <2>1, <3>1
  <2>2. ASSUME NEW x \in Parts, Overwritten(x) PROVE ExplainedStep(p)
    <3>1. InTransit(p)' = InTransit(p) /\ InTransit(p) \in Int
      BY <2>2, TransitUnchanged, TransitFinite DEF Overwritten, FiniteTransit
    <3>2. unlogged'[p] - unlogged[p] = qtyOnHand'[p] - qtyOnHand[p]
      BY <2>2 DEF Overwritten, TypeOK, StockType, MasterType
    <3>3. ledger'[p] = ledger[p] /\ signLost'[p] = signLost[p]
      BY <2>2 DEF Overwritten
    <3>4. ledger[p] \in Int /\ signLost[p] \in Int
      BY DEF TypeOK, StockType
    <3>5. qtyOnHand[p] \in Int /\ qtyOnHand'[p] \in Int
      BY DEF TypeOK, StockType
    <3> QED
      BY <3>1, <3>2, <3>3, <3>4, <3>5 DEF ExplainedStep
  <2> QED
    BY <1>4, <2>1, <2>2, RecreatingOverwrites
<1> QED
  BY <1>2, <1>3, <1>4

\* Every step balances, and so keeps what the ledger explains.
LEMMA LedgerKept ==
  TypeOK /\ TypeOK' /\ LedgerExplainsOnHand /\ [Next]_vars => LedgerExplainsOnHand'
<1> SUFFICES ASSUME TypeOK, TypeOK', LedgerExplainsOnHand, [Next]_vars
             PROVE  LedgerExplainsOnHand'
  OBVIOUS
<1>1. UNCHANGED opening
  BY OpeningKept
<1>2. \A p \in Parts : ExplainedStep(p)
  BY LedgerSteps
<1>3. FiniteTransit /\ FiniteTransit'
  BY TransitFinite, PTL
<1>4. ASSUME NEW p \in Parts
      PROVE  qtyOnHand'[p] = opening'[p] + ledger'[p] - signLost'[p] + unlogged'[p] + InTransit(p)'
  <2>1. /\ qtyOnHand[p] \in Int /\ ledger[p] \in Int /\ signLost[p] \in Int
        /\ unlogged[p] \in Int /\ opening[p] \in Int /\ InTransit(p) \in Int
    BY <1>3 DEF FiniteTransit, TypeOK, StockType, MasterType
  <2>2. /\ qtyOnHand'[p] \in Int /\ ledger'[p] \in Int /\ signLost'[p] \in Int
        /\ unlogged'[p] \in Int /\ InTransit(p)' \in Int
    BY <1>3 DEF FiniteTransit, TypeOK, StockType, MasterType
  <2>3. qtyOnHand[p] = opening[p] + ledger[p] - signLost[p] + unlogged[p] + InTransit(p)
    BY DEF LedgerExplainsOnHand
  <2>4. opening'[p] = opening[p]
    BY <1>1
  <2>5. ExplainedStep(p)
    BY <1>2
  <2> QED
    BY <2>1, <2>2, <2>3, <2>4, <2>5 DEF ExplainedStep
<1> QED
  BY <1>4 DEF LedgerExplainsOnHand

\* At the start the ledger is empty and nothing is on the road.
LEMMA LedgerInit == Init => LedgerExplainsOnHand
<1> SUFFICES ASSUME Init, NEW p \in Parts
             PROVE  qtyOnHand[p] = opening[p] + ledger[p] - signLost[p] + unlogged[p]
                                   + InTransit(p)
  BY DEF LedgerExplainsOnHand
<1>1. TransitRows(p) = {}
  BY DEF Init, TransitRows, NoTransfer
<1>2. InTransit(p) = 0
  BY <1>1, FS_EmptySet DEF InTransit, Total, UnitsOf
<1>3. /\ qtyOnHand[p] = opening[p] /\ opening[p] \in Int
      /\ ledger[p] = 0 /\ signLost[p] = 0 /\ unlogged[p] = 0
  BY BoundsAssumption DEF Init
<1> QED
  BY <1>2, <1>3

\* Part.qtyOnHand is its opening quantity, the ledger, the goods in transit and what
\* re-creating the part overwrote.
THEOREM LedgerCorrect == Spec => []LedgerExplainsOnHand
<1>1. TypeOK /\ LedgerExplainsOnHand /\ [Next]_vars => LedgerExplainsOnHand'
  BY TypeStep, LedgerKept
<1> QED
  BY <1>1, TypeCorrect, LedgerInit, PTL DEF Spec

-----------------------------------------------------------------------------
(* The tables implement the stock book *)

\* Goods on the road move for one part at a time, and its total does not.
Shipped(p) ==
  /\ UNCHANGED qtyOnHand
  /\ InTransit(p)' # InTransit(p)
  /\ \A x \in Parts \ {p} : InTransit(x)' = InTransit(x)

\* Only the dispatch and the receipt of a transfer change what is on the road.
LEMMA RoadStep ==
  TypeOK /\ TypeOK' /\ [Next]_vars =>
    \/ \A p \in Parts : InTransit(p)' = InTransit(p)
    \/ \E p \in Parts : Shipped(p)
<1> SUFFICES ASSUME TypeOK, TypeOK', [Next]_vars,
                    ~ \A p \in Parts : InTransit(p)' = InTransit(p)
             PROVE  \E p \in Parts : Shipped(p)
  OBVIOUS
<1>1. ~ UNCHANGED transfer
  BY TransitUnchanged
<1>2. Transferring
  BY <1>1, Zenon
  DEF vars, documentVars, Next, Reserving, Settling, Repairing, Counting, Editing,
      SubmitReserve, CountLocationRows, ReadPartTotals, CreateLocationRow, ReserveForJob,
      EndRequest, DedupWindowPasses, ConsumeReservation, ReleaseReservation, DeleteJob,
      AcceptQuotation, ReadJob, WriteJob, ConsumeRepairParts, EndUpdate, CreateCount,
      CancelCount, ApproveCount, AdjustStock, CorrectStock, ReceiveStock, IssueStock,
      ApplyAdjustment, MoveAtLocation, ToggleLocation, TogglePart, Recreating,
      FindDeletedPart, RecreatePart
<1>3. ASSUME NEW t \in Transfers, DispatchTransfer(t) \/ ReceiveTransfer(t),
             NEW p \in Parts, p = transfer[t].part
      PROVE  Shipped(p)
  <2> DEFINE q == transfer[t].qty
  <2>1. /\ UNCHANGED qtyOnHand
        /\ \/ transfer[t].status # "DISPATCHED" /\ TransferTo(t, "DISPATCHED")
           \/ transfer[t].status = "DISPATCHED" /\ TransferTo(t, "RECEIVED")
    BY <1>3, SMT DEF DispatchTransfer, ReceiveTransfer
  <2>2. q \in Nat /\ q > 0
    BY BoundsAssumption DEF TypeOK, DocumentType, TransferRows, Quantities
  <2>3. FiniteTransit'
    BY TransitFinite, PTL
  <2>4. \A x \in Parts : InTransit(x) \in Nat /\ InTransit(x)' \in Nat
    BY <2>3, TransitFinite DEF FiniteTransit
  <2>5. ASSUME NEW x \in Parts
        PROVE  \/ InTransit(x)' = InTransit(x) + IF x = p THEN q ELSE 0
               \/ InTransit(x) = InTransit(x)' + IF x = p THEN q ELSE 0
    BY <1>3, <2>1, TransitMoves
  <2> HIDE DEF q
  <2>6. InTransit(p)' # InTransit(p)
    BY <2>2, <2>4, <2>5
  <2>7. \A x \in Parts \ {p} : InTransit(x)' = InTransit(x)
    BY <2>4, <2>5
  <2> QED
    BY <2>1, <2>6, <2>7 DEF Shipped
<1>4. ASSUME NEW t \in Transfers, ApproveTransfer(t) \/ CancelTransfer(t) PROVE FALSE
  BY <1>4, TransitUnchanged DEF ApproveTransfer, CancelTransfer, TransferStatuses
<1>5. ASSUME NEW t \in Transfers, NEW p \in Parts, NEW from \in Locations,
             NEW to \in Locations, NEW q \in Quantities, CreateTransfer(t, p, from, to, q)
      PROVE  FALSE
  BY <1>5, TransitOfCreation
<1>6. \A t \in Transfers : transfer[t].part \in Parts
  BY DEF TypeOK, DocumentType, TransferRows
<1> QED
  BY <1>2, <1>3, <1>4, <1>5, <1>6 DEF Transferring

\* What one step does to the book of a part.
LEMMA BookedStep ==
  ASSUME TypeOK, TypeOK', [Next]_vars, NEW p \in Parts
  PROVE  /\ booked'[p] + transit'[p] + unlogged'[p] - (booked[p] + transit[p] + unlogged[p])
               = qtyOnHand'[p] - qtyOnHand[p]
         /\ unlogged[p] \in Int /\ unlogged'[p] \in Int
         /\ booked[p] \in Int /\ booked'[p] \in Int
         /\ transit[p] = InTransit(p) /\ transit'[p] = InTransit(p)'
         /\ transit[p] \in Nat /\ transit'[p] \in Nat
         /\ qtyOnHand[p] \in Int /\ qtyOnHand'[p] \in Int
<1>1. UNCHANGED opening /\ ExplainedStep(p)
  BY OpeningKept, LedgerSteps
<1>2. FiniteTransit /\ FiniteTransit'
  BY TransitFinite, PTL
<1>3. /\ qtyOnHand[p] \in Int /\ ledger[p] \in Int /\ signLost[p] \in Int
      /\ opening[p] \in Int /\ unlogged[p] \in Int /\ InTransit(p) \in Nat
  BY <1>2 DEF FiniteTransit, TypeOK, StockType, MasterType
<1>4. /\ qtyOnHand'[p] \in Int /\ ledger'[p] \in Int /\ signLost'[p] \in Int
      /\ unlogged'[p] \in Int /\ InTransit(p)' \in Nat
  BY <1>2 DEF FiniteTransit, TypeOK, StockType, MasterType
<1>5. /\ booked[p] = opening[p] + ledger[p] - signLost[p]
      /\ booked'[p] = opening[p] + ledger'[p] - signLost'[p]
      /\ transit[p] = InTransit(p) /\ transit'[p] = InTransit(p)'
  BY <1>1 DEF booked, transit
<1> QED
  BY <1>1, <1>3, <1>4, <1>5 DEF ExplainedStep

\* Every operation on parts implements the stock book: a total changes with its
\* entry, goods go on the road and come off it without the total noticing, and the one
\* overwrite that is not booked sets one total to a number that is not negative.
THEOREM BookImplemented == Spec => ImplementsStockBook
<1>1. Init => Book!Init
  <2> SUFFICES ASSUME Init PROVE Book!Init
    OBVIOUS
  <2>1. \A p \in Parts : InTransit(p) = 0
    <3> SUFFICES ASSUME NEW p \in Parts PROVE InTransit(p) = 0
      OBVIOUS
    <3>1. TransitRows(p) = {}
      BY DEF Init, TransitRows, NoTransfer
    <3> QED
      BY <3>1, FS_EmptySet DEF InTransit, Total, UnitsOf
  <2>2. transit = [p \in Parts |-> 0]
    BY <2>1 DEF transit
  <2>3. qtyOnHand \in [Parts -> Int] /\ booked = qtyOnHand /\ unlogged = [p \in Parts |-> 0]
    BY BoundsAssumption DEF Init, booked
  <2> QED
    BY <2>2, <2>3 DEF Book!Init
<1>2. TypeOK /\ TypeOK' /\ [Next]_vars => [Book!Next]_(Book!vars)
  <2> SUFFICES ASSUME TypeOK, TypeOK', [Next]_vars PROVE Book!Next
    OBVIOUS
  <2>1. CASE UNCHANGED unlogged /\ \A p \in Parts : InTransit(p)' = InTransit(p)
    <3>1. transit' = transit
      BY <2>1 DEF transit
    <3>2. \A p \in Parts : booked'[p] - booked[p] = qtyOnHand'[p] - qtyOnHand[p]
      BY <2>1, <3>1, BookedStep
    <3> QED
      BY <2>1, <3>1, <3>2 DEF Book!Next, Book!Book
  <2>2. ASSUME NEW p \in Parts, Shipped(p), UNCHANGED unlogged PROVE Book!Next
    <3>1. qtyOnHand' = qtyOnHand
      BY <2>2 DEF Shipped
    <3>2. transit'[p] >= 0 /\ transit'[p] # transit[p]
      BY <2>2, BookedStep DEF Shipped
    <3>3. ASSUME NEW x \in Parts
          PROVE  booked'[x] + transit'[x] = booked[x] + transit[x]
      <4>1. qtyOnHand'[x] = qtyOnHand[x] /\ unlogged'[x] = unlogged[x]
        BY <2>2, <3>1
      <4>2. /\ booked'[x] + transit'[x] + unlogged'[x] - (booked[x] + transit[x] + unlogged[x])
                  = qtyOnHand'[x] - qtyOnHand[x]
            /\ unlogged[x] \in Int /\ booked[x] \in Int /\ booked'[x] \in Int
            /\ transit[x] \in Nat /\ transit'[x] \in Nat /\ qtyOnHand[x] \in Int
        BY BookedStep
      <4> QED
        BY <4>1, <4>2
    <3>4. ASSUME NEW x \in Parts \ {p}
          PROVE  booked'[x] = booked[x] /\ transit'[x] = transit[x]
      <4>1. transit'[x] = transit[x]
        BY <2>2, BookedStep DEF Shipped
      <4>2. /\ booked[x] \in Int /\ booked'[x] \in Int
            /\ transit[x] \in Nat /\ transit'[x] \in Nat
        BY BookedStep
      <4> QED
        BY <3>3, <4>1, <4>2
    <3> QED
      BY <2>2, <3>1, <3>2, <3>3, <3>4 DEF Book!Next, Book!Ship
  <2>3. ASSUME NEW p \in Parts, Overwritten(p) PROVE Book!Next
    <3>1. \A x \in Parts : InTransit(x)' = InTransit(x)
      BY <2>3, TransitUnchanged DEF Overwritten
    <3>2. transit' = transit
      BY <3>1 DEF transit
    <3>3. booked' = booked
      BY <2>3, OpeningKept DEF Overwritten, booked
    <3> QED
      BY <2>3, <3>2, <3>3 DEF Overwritten, Book!Next, Book!Slip
  <2>4. CASE Recreating
    <3>1. CASE UNCHANGED stockVars /\ UNCHANGED <<unlogged, transfer>>
      BY <2>1, <3>1, TransitUnchanged
    <3> QED
      BY <2>3, <2>4, <3>1, RecreatingOverwrites
  <2>5. CASE ~ Recreating
    BY <2>1, <2>2, <2>5, RoadStep, UnloggedKept
  <2> QED
    BY <2>4, <2>5
<1> QED
  BY <1>1, <1>2, TypeStep, TypeCorrect, PTL DEF Spec, ImplementsStockBook, Book!Spec

-----------------------------------------------------------------------------
(* What reservations hold *)

\* Units are stranded only by reservations that are gone: without this, settling
\* a live reservation might not lower what is held.
StrandedDeleted == \A r \in stranded : reservation[r].status = "DELETED"

\* A step moves the reserved total of a part as it moves what is held.
ReservedStep(p) == qtyReserved'[p] - qtyReserved[p] = Held(p)' - Held(p)

HeldQty == [r \in Reservations |-> reservation[r].qty]

FiniteHeld == \A p \in Parts :
  IsFiniteSet(UnitsOf(HeldRows(p), HeldQty)) /\ Held(p) \in Nat

\* What reservations hold is a number.
LEMMA HeldFinite == TypeOK => FiniteHeld
<1> SUFFICES ASSUME TypeOK, NEW p \in Parts
             PROVE  IsFiniteSet(UnitsOf(HeldRows(p), HeldQty)) /\ Held(p) \in Nat
  BY DEF FiniteHeld
<1>1. HeldRows(p) \in SUBSET Reservations
  BY DEF HeldRows
<1>2. \A r \in HeldRows(p) : HeldQty[r] \in 1..MaxQty
  BY DEF HeldRows, HeldQty, TypeOK, HoldType, ReservationRows, Quantities
<1>3. MaxQty \in Nat
  BY BoundsAssumption
<1> QED
  BY <1>1, <1>2, <1>3, ReservationsAssumption, FiniteUnits DEF Held, HeldQty

\* The same reservations holding the same quantities hold the same.
LEMMA HeldSame ==
  ASSUME NEW p, HeldRows(p)' = HeldRows(p),
         \A r \in HeldRows(p) : HeldQty'[r] = HeldQty[r]
  PROVE  Held(p)' = Held(p)
<1>1. Total(HeldRows(p), HeldQty') = Total(HeldRows(p), HeldQty)
  BY SameUnits
<1> QED
  BY <1>1 DEF Held, HeldQty

\* The reserved totals and the reservations left alone.
LEMMA ReservedQuiet ==
  ASSUME TypeOK, UNCHANGED <<qtyReserved, reservation, stranded>>
  PROVE  (\A p \in Parts : ReservedStep(p)) /\ (StrandedDeleted => StrandedDeleted')
<1>1. ASSUME NEW p \in Parts PROVE ReservedStep(p)
  <2>1. Held(p)' = Held(p)
    BY DEF Held, HeldRows
  <2>2. Held(p) \in Int /\ qtyReserved[p] \in Int
    BY HeldFinite DEF FiniteHeld, TypeOK, StockType
  <2> QED
    BY <2>1, <2>2 DEF ReservedStep
<1> QED
  BY <1>1 DEF StrandedDeleted

\* A reservation made: its part has its quantity reserved, and holds it.
LEMMA ReservedByReserving ==
  ASSUME TypeOK, TypeOK', StrandedDeleted, NEW c \in Requests, NEW r \in Reservations,
         ReserveForJob(c, r)
  PROVE  (\A p \in Parts : ReservedStep(p)) /\ StrandedDeleted'
<1> DEFINE x == request[c].part
           q == request[c].qty
<1>1. /\ reservation[r].status = "NONE"
      /\ reservation' = [reservation EXCEPT ![r] =
             [status |-> "RESERVED", part |-> x, job |-> request[c].job, qty |-> q,
              recent |-> TRUE]]
      /\ IncrementPart(x, 0, q) /\ UNCHANGED stranded
  BY Zenon DEF ReserveForJob
<1>2. x \in Parts /\ q \in Nat
  BY BoundsAssumption DEF TypeOK, CallType, RequestStates, Quantities
<1> HIDE DEF x, q
<1>3. r \notin stranded
  BY <1>1 DEF StrandedDeleted
<1>4. /\ reservation'[r].status = "RESERVED" /\ reservation'[r].part = x
      /\ reservation'[r].qty = q
      /\ \A y \in Reservations \ {r} : reservation'[y] = reservation[y]
  BY <1>1 DEF TypeOK, HoldType
<1>5. ASSUME NEW p \in Parts PROVE ReservedStep(p)
  <2>1. qtyReserved'[p] = IF p = x THEN qtyReserved[p] + q ELSE qtyReserved[p]
    BY <1>1, <1>2 DEF IncrementPart, TypeOK, StockType
  <2>2. r \notin HeldRows(p)
    BY <1>1, <1>3 DEF HeldRows
  <2>3. HeldRows(p)' = IF p = x THEN HeldRows(p) \cup {r} ELSE HeldRows(p)
    BY <1>1, <1>3, <1>4 DEF HeldRows
  <2>4. \A y \in HeldRows(p) : HeldQty'[y] = HeldQty[y]
    BY <1>4, <2>2 DEF HeldRows, HeldQty
  <2>5. HeldQty'[r] = q
    BY <1>4 DEF HeldQty
  <2>6. /\ UnitsOf(HeldRows(p), HeldQty') = UnitsOf(HeldRows(p), HeldQty)
        /\ Total(HeldRows(p), HeldQty') = Held(p)
    BY <2>4, SameUnits DEF Held, HeldQty
  <2>7. IsFiniteSet(UnitsOf(HeldRows(p), HeldQty')) /\ Held(p) \in Nat
    BY <2>6, HeldFinite DEF FiniteHeld
  <2>8. Total(HeldRows(p) \cup {r}, HeldQty') = Held(p) + q
    <3> DEFINE rows == HeldRows(p)
               qty == HeldQty'
    <3>1. r \notin rows /\ qty[r] \in Nat /\ IsFiniteSet(UnitsOf(rows, qty))
      BY <1>2, <2>2, <2>5, <2>7
    <3> HIDE DEF rows, qty
    <3>2. Total(rows \cup {r}, qty) = Total(rows, qty) + qty[r]
      BY <3>1, AddUnits
    <3> QED
      BY <2>5, <2>6, <3>2 DEF rows, qty
  <2>9. Held(p)' = Total(HeldRows(p)', HeldQty')
    BY DEF Held, HeldQty
  <2>10. Held(p)' = IF p = x THEN Held(p) + q ELSE Held(p)
    BY <2>3, <2>6, <2>8, <2>9
  <2>11. qtyReserved[p] \in Int
    BY DEF TypeOK, StockType
  <2> QED
    BY <1>2, <2>1, <2>7, <2>10, <2>11 DEF ReservedStep
<1>6. StrandedDeleted'
  BY <1>1, <1>3, <1>4 DEF StrandedDeleted, TypeOK, HoldType
<1> QED
  BY <1>5, <1>6

\* A live reservation settled, as used or as unneeded: its part has its quantity
\* reserved no longer, and holds it no longer.
LEMMA ReservedBySettling ==
  ASSUME TypeOK, TypeOK', StrandedDeleted, NEW r \in Reservations,
         NEW status \in {"CONSUMED", "RELEASED"}, NEW onHand, IsLive(r),
         reservation' = [reservation EXCEPT ![r].status = status, ![r].recent = FALSE],
         IncrementPart(reservation[r].part, onHand, -reservation[r].qty), UNCHANGED stranded
  PROVE  (\A p \in Parts : ReservedStep(p)) /\ StrandedDeleted'
<1> DEFINE x == reservation[r].part
           q == reservation[r].qty
<1>1. reservation[r].status = "RESERVED" /\ r \notin stranded
  BY DEF IsLive, StrandedDeleted
<1>2. x \in Parts /\ q \in Nat
  BY BoundsAssumption DEF TypeOK, HoldType, ReservationRows, Quantities
<1>3. /\ reservation'[r].status = status
      /\ \A y \in Reservations \ {r} : reservation'[y] = reservation[y]
      /\ \A y \in Reservations : reservation'[y].part = reservation[y].part
      /\ \A y \in Reservations : reservation'[y].qty = reservation[y].qty
  BY DEF TypeOK, HoldType, ReservationRows
<1>4. ASSUME NEW p \in Parts PROVE ReservedStep(p)
  <2>1. qtyReserved'[p] = IF p = x THEN qtyReserved[p] + (-q) ELSE qtyReserved[p]
    BY <1>2 DEF IncrementPart, TypeOK, StockType
  <2>2. HeldQty' = HeldQty
    BY <1>3 DEF HeldQty
  <2>3. r \notin HeldRows(p)'
    BY <1>1, <1>3 DEF HeldRows
  <2>4. HeldRows(p) = IF p = x THEN HeldRows(p)' \cup {r} ELSE HeldRows(p)'
    BY <1>1, <1>3 DEF HeldRows
  <2>5. FiniteHeld'
    BY HeldFinite, PTL
  <2>6. IsFiniteSet(UnitsOf(HeldRows(p)', HeldQty)) /\ Held(p)' \in Nat
    BY <2>2, <2>5 DEF FiniteHeld
  <2>7. HeldQty[r] = q
    BY DEF HeldQty
  <2>8. Total(HeldRows(p)' \cup {r}, HeldQty) = Total(HeldRows(p)', HeldQty) + q
    BY <1>2, <2>3, <2>6, <2>7, AddUnits
  <2>9. Held(p)' = Total(HeldRows(p)', HeldQty)
    BY <2>2 DEF Held, HeldQty
  <2>10. Held(p) = Total(HeldRows(p), HeldQty)
    BY DEF Held, HeldQty
  <2>11. Held(p) = IF p = x THEN Held(p)' + q ELSE Held(p)'
    BY <2>4, <2>8, <2>9, <2>10
  <2>12. qtyReserved[p] \in Int
    BY DEF TypeOK, StockType
  <2> HIDE DEF x, q
  <2> QED
    BY <1>2, <2>1, <2>6, <2>11, <2>12 DEF ReservedStep
<1>5. StrandedDeleted'
  BY <1>1, <1>3 DEF StrandedDeleted, TypeOK, HoldType
<1> QED
  BY <1>4, <1>5

\* A job deleted: its live reservations hold on as stranded ones.
LEMMA ReservedByDeleting ==
  ASSUME TypeOK, StrandedDeleted, NEW j \in Jobs, DeleteJob(j)
  PROVE  (\A p \in Parts : ReservedStep(p)) /\ StrandedDeleted'
<1>1. /\ UNCHANGED qtyReserved
      /\ stranded' = stranded \cup {r \in Reservations : reservation[r].job = j
                                                      /\ reservation[r].status = "RESERVED"}
  BY DEF DeleteJob, stockVars
<1>2. ASSUME NEW r \in Reservations
      PROVE  /\ reservation'[r].part = reservation[r].part
             /\ reservation'[r].qty = reservation[r].qty
             /\ reservation'[r].status =
                    IF reservation[r].job = j /\ reservation[r].status # "NONE"
                    THEN "DELETED" ELSE reservation[r].status
  BY DEF DeleteJob, TypeOK, HoldType, ReservationRows
<1>3. ASSUME NEW p \in Parts PROVE ReservedStep(p)
  <2>1. HeldRows(p)' = HeldRows(p)
    BY <1>1, <1>2 DEF HeldRows
  <2>2. \A r \in HeldRows(p) : HeldQty'[r] = HeldQty[r]
    BY <1>2 DEF HeldRows, HeldQty
  <2>3. Held(p)' = Held(p)
    BY <2>1, <2>2, HeldSame
  <2>4. Held(p) \in Int /\ qtyReserved[p] \in Int
    BY HeldFinite DEF FiniteHeld, TypeOK, StockType
  <2> QED
    BY <1>1, <2>3, <2>4 DEF ReservedStep
<1>4. StrandedDeleted'
  BY <1>1, <1>2 DEF StrandedDeleted, TypeOK, HoldType
<1> QED
  BY <1>3, <1>4

\* The double-submission window closing changes nothing that holds.
LEMMA ReservedByWaiting ==
  ASSUME TypeOK, StrandedDeleted, NEW r \in Reservations, DedupWindowPasses(r)
  PROVE  (\A p \in Parts : ReservedStep(p)) /\ StrandedDeleted'
<1>1. UNCHANGED <<qtyReserved, stranded>>
  BY DEF DedupWindowPasses, stockVars
<1>2. ASSUME NEW y \in Reservations
      PROVE  /\ reservation'[y].part = reservation[y].part
             /\ reservation'[y].qty = reservation[y].qty
             /\ reservation'[y].status = reservation[y].status
  BY DEF DedupWindowPasses, TypeOK, HoldType, ReservationRows
<1>3. ASSUME NEW p \in Parts PROVE ReservedStep(p)
  <2>1. HeldRows(p)' = HeldRows(p)
    BY <1>1, <1>2 DEF HeldRows
  <2>2. \A y \in HeldRows(p) : HeldQty'[y] = HeldQty[y]
    BY <1>2 DEF HeldRows, HeldQty
  <2>3. Held(p)' = Held(p)
    BY <2>1, <2>2, HeldSame
  <2>4. Held(p) \in Int /\ qtyReserved[p] \in Int
    BY HeldFinite DEF FiniteHeld, TypeOK, StockType
  <2> QED
    BY <1>1, <2>3, <2>4 DEF ReservedStep
<1>4. StrandedDeleted'
  BY <1>1, <1>2 DEF StrandedDeleted, TypeOK, HoldType
<1> QED
  BY <1>3, <1>4

\* Changing quantities on hand only leaves the reserved totals.
LEMMA OnHandOnly ==
  ASSUME TypeOK, NEW p \in Parts, NEW onHand, IncrementPart(p, onHand, 0)
  PROVE  UNCHANGED qtyReserved
BY DEF IncrementPart, TypeOK, StockType

\* Every step moves what is reserved as it moves what is held.
LEMMA ReservedSteps ==
  ASSUME TypeOK, TypeOK', StrandedDeleted, [Next]_vars
  PROVE  (\A p \in Parts : ReservedStep(p)) /\ StrandedDeleted'
<1> DEFINE Goal == (\A p \in Parts : ReservedStep(p)) /\ StrandedDeleted'
<1>1. ASSUME UNCHANGED qtyReserved, UNCHANGED holdVars PROVE Goal
  BY <1>1, ReservedQuiet DEF holdVars
<1>2. ASSUME Reserving PROVE Goal
  <2>1. ASSUME UNCHANGED stockVars, UNCHANGED holdVars PROVE Goal
    BY <1>1, <2>1 DEF stockVars
  <2>2. ASSUME NEW c \in Requests, CreateLocationRow(c) PROVE Goal
    BY <1>1, <2>2 DEF CreateLocationRow
  <2>3. ASSUME NEW c \in Requests, NEW r \in Reservations, ReserveForJob(c, r) PROVE Goal
    BY <2>3, ReservedByReserving
  <2>4. ASSUME NEW r \in Reservations, DedupWindowPasses(r) PROVE Goal
    BY <2>4, ReservedByWaiting
  <2> HIDE DEF Goal
  <2> QED
    BY <1>2, <2>1, <2>2, <2>3, <2>4, Zenon
    DEF Reserving, SubmitReserve, CountLocationRows, ReadPartTotals, EndRequest
<1>3. ASSUME Settling PROVE Goal
  <2>1. ASSUME NEW r \in Reservations, ConsumeReservation(r) PROVE Goal
    <3>1. /\ IsLive(r) /\ UNCHANGED stranded
          /\ reservation' = [reservation EXCEPT ![r].status = "CONSUMED", ![r].recent = FALSE]
          /\ IncrementPart(reservation[r].part, -reservation[r].qty, -reservation[r].qty)
      BY <2>1, Zenon DEF ConsumeReservation
    <3> QED
      BY <3>1, ReservedBySettling
  <2>2. ASSUME NEW r \in Reservations, ReleaseReservation(r) PROVE Goal
    <3>1. /\ IsLive(r) /\ UNCHANGED stranded
          /\ reservation' = [reservation EXCEPT ![r].status = "RELEASED", ![r].recent = FALSE]
          /\ IncrementPart(reservation[r].part, 0, -reservation[r].qty)
      BY <2>2, Zenon DEF ReleaseReservation
    <3> QED
      BY <3>1, ReservedBySettling
  <2>3. ASSUME NEW j \in Jobs, DeleteJob(j) PROVE Goal
    BY <2>3, ReservedByDeleting
  <2> HIDE DEF Goal
  <2> QED
    BY <1>3, <2>1, <2>2, <2>3 DEF Settling
<1>4. ASSUME Repairing PROVE Goal
  <2>1. UNCHANGED qtyReserved /\ UNCHANGED holdVars
    BY <1>4, Zenon DEF Repairing, AcceptQuotation, ReadJob, WriteJob, ConsumeRepairParts,
       EndUpdate, stockVars
  <2> QED
    BY <1>1, <2>1
<1>5. ASSUME Transferring PROVE Goal
  <2>1. UNCHANGED qtyReserved /\ UNCHANGED holdVars
    BY <1>5, Zenon DEF Transferring, CreateTransfer, ApproveTransfer, CancelTransfer,
       DispatchTransfer, ReceiveTransfer, stockVars
  <2> QED
    BY <1>1, <2>1
<1>6. ASSUME Counting PROVE Goal
  <2>1. UNCHANGED qtyReserved /\ UNCHANGED holdVars
    BY <1>6, Zenon DEF Counting, CreateCount, CancelCount, ApproveCount, stockVars
  <2> QED
    BY <1>1, <2>1
<1>7. ASSUME Editing PROVE Goal
  <2>1. ASSUME UNCHANGED stockVars, UNCHANGED holdVars PROVE Goal
    BY <1>1, <2>1 DEF stockVars
  <2>2. ASSUME NEW p \in Parts, NEW onHand, IncrementPart(p, onHand, 0), UNCHANGED holdVars
        PROVE  Goal
    BY <1>1, <2>2, OnHandOnly
  <2> HIDE DEF Goal
  <2> QED
    BY <1>7, <2>1, <2>2, Zenon DEF Editing, AdjustStock, CorrectStock, ReceiveStock,
       IssueStock, ApplyAdjustment, MoveAtLocation, ToggleLocation, TogglePart
<1>8. ASSUME UNCHANGED vars PROVE Goal
  BY <1>1, <1>8 DEF vars, holdVars
<1>9. ASSUME Recreating PROVE Goal
  <2>1. UNCHANGED qtyReserved /\ UNCHANGED holdVars
    BY <1>9, Zenon DEF Recreating, FindDeletedPart, RecreatePart, stockVars
  <2> QED
    BY <1>1, <2>1
<1> QED
  BY <1>2, <1>3, <1>4, <1>5, <1>6, <1>7, <1>8, <1>9 DEF Next

\* The reserved totals match the reservations, and stranded units have no row.
ReservedInv == ReservedMatchesReservations /\ StrandedDeleted

\* At the start nothing is reserved.
LEMMA ReservedInit == Init => ReservedInv
<1> SUFFICES ASSUME Init PROVE ReservedInv
  OBVIOUS
<1>1. ASSUME NEW p \in Parts PROVE qtyReserved[p] = Held(p)
  <2>1. HeldRows(p) = {}
    BY DEF Init, HeldRows, NoReservation
  <2>2. Held(p) = 0
    BY <2>1, FS_EmptySet DEF Held, Total, UnitsOf
  <2> QED
    BY <2>2 DEF Init
<1> QED
  BY <1>1 DEF Init, ReservedInv, ReservedMatchesReservations, StrandedDeleted

\* Every step keeps them.
LEMMA ReservedKept ==
  TypeOK /\ TypeOK' /\ ReservedInv /\ [Next]_vars => ReservedInv'
<1> SUFFICES ASSUME TypeOK, TypeOK', ReservedInv, [Next]_vars PROVE ReservedInv'
  OBVIOUS
<1>1. (\A p \in Parts : ReservedStep(p)) /\ StrandedDeleted'
  BY ReservedSteps DEF ReservedInv
<1>2. FiniteHeld /\ FiniteHeld'
  BY HeldFinite, PTL
<1>3. ASSUME NEW p \in Parts PROVE qtyReserved'[p] = Held(p)'
  <2>1. qtyReserved[p] \in Int /\ qtyReserved'[p] \in Int
    BY DEF TypeOK, StockType
  <2>2. Held(p) \in Int /\ Held(p)' \in Int /\ qtyReserved[p] = Held(p)
    BY <1>2 DEF FiniteHeld, ReservedInv, ReservedMatchesReservations
  <2> QED
    BY <1>1, <2>1, <2>2 DEF ReservedStep
<1> QED
  BY <1>1, <1>3 DEF ReservedInv, ReservedMatchesReservations

\* Part.qtyReserved is the sum of what reservations hold, whatever races, is
\* settled elsewhere or is deleted.
THEOREM ReservedCorrect == Spec => []ReservedMatchesReservations
<1>1. TypeOK /\ ReservedInv /\ [Next]_vars => ReservedInv'
  BY TypeStep, ReservedKept
<1>2. ReservedInv => ReservedMatchesReservations
  BY DEF ReservedInv
<1> QED
  BY <1>1, <1>2, TypeCorrect, ReservedInit, PTL DEF Spec

-----------------------------------------------------------------------------
(* Quoted parts are consumed once *)

\* A job whose quoted parts were consumed has the row that says so, unless the
\* job and its rows are gone: without this, a completion might find no row after
\* an earlier one consumed.
ConsumedKnown == \A j \in Jobs :
  /\ quoteConsumed[j] <= 1
  /\ quoteConsumed[j] = 1 => j \in consumeRow \/ job[j] = "DELETED"

\* At the start nothing is consumed.
LEMMA ConsumedInit == Init => ConsumedKnown
BY DEF Init, ConsumedKnown

\* A deleted job stays deleted, a row stays until its job is deleted, and only a
\* completion that finds none of them consumes.
LEMMA ConsumedStep == TypeOK /\ ConsumedKnown /\ [Next]_vars => ConsumedKnown'
<1> SUFFICES ASSUME TypeOK, ConsumedKnown, [Next]_vars PROVE ConsumedKnown'
  OBVIOUS
<1>1. ASSUME UNCHANGED quoteConsumed, consumeRow \subseteq consumeRow',
             \A j \in Jobs : job[j] = "DELETED" => job'[j] = "DELETED"
      PROVE  ConsumedKnown'
  BY <1>1 DEF ConsumedKnown
<1>2. ASSUME UNCHANGED jobVars PROVE ConsumedKnown'
  BY <1>1, <1>2 DEF jobVars
<1>3. CASE Reserving
  BY <1>2, <1>3, Zenon DEF Reserving, SubmitReserve, CountLocationRows, ReadPartTotals,
     CreateLocationRow, ReserveForJob, EndRequest, DedupWindowPasses
<1>4. CASE Settling
  <2>1. ASSUME NEW r \in Reservations, ConsumeReservation(r) PROVE ConsumedKnown'
    BY <1>1, <2>1 DEF ConsumeReservation
  <2>2. ASSUME NEW r \in Reservations, ReleaseReservation(r) PROVE ConsumedKnown'
    BY <1>2, <2>2 DEF ReleaseReservation
  <2>3. ASSUME NEW j \in Jobs, DeleteJob(j) PROVE ConsumedKnown'
    BY <2>3 DEF DeleteJob, ConsumedKnown, TypeOK, JobType
  <2> QED
    BY <1>4, <2>1, <2>2, <2>3 DEF Settling
<1>5. CASE Repairing
  <2>1. ASSUME NEW j \in Jobs, NEW p \in Parts, NEW q \in Quantities, AcceptQuotation(j, p, q)
        PROVE  ConsumedKnown'
    BY <1>1, <2>1 DEF AcceptQuotation
  <2>2. ASSUME NEW u \in Updates, NEW j \in Jobs, NEW next \in {"OPEN", "COMPLETED"},
               ReadJob(u, j, next)
        PROVE  ConsumedKnown'
    BY <1>2, <2>2 DEF ReadJob
  <2>3. ASSUME NEW u \in Updates, WriteJob(u) PROVE ConsumedKnown'
    BY <1>1, <2>3 DEF WriteJob, TypeOK, JobType
  <2>4. ASSUME NEW u \in Updates, ConsumeRepairParts(u) PROVE ConsumedKnown'
    <3> DEFINE j == update[u].job
    <3>1. j \in Jobs
      BY DEF TypeOK, CallType, UpdateStates
    <3>2. /\ UNCHANGED job
          /\ \/ UNCHANGED <<consumeRow, quoteConsumed>>
             \/ /\ consumeRow' = consumeRow \cup {j} /\ j \notin consumeRow
                /\ job[j] # "DELETED"
                /\ quoteConsumed' = [quoteConsumed EXCEPT ![j] = @ + 1]
      BY <2>4 DEF ConsumeRepairParts, AlreadyConsumed
    <3>3. CASE UNCHANGED <<consumeRow, quoteConsumed>>
      BY <1>1, <3>2, <3>3
    <3>4. CASE /\ consumeRow' = consumeRow \cup {j} /\ j \notin consumeRow
               /\ job[j] # "DELETED"
               /\ quoteConsumed' = [quoteConsumed EXCEPT ![j] = @ + 1]
      <4>1. quoteConsumed[j] \in Nat /\ quoteConsumed[j] <= 1 /\ quoteConsumed[j] # 1
        BY <3>1, <3>4 DEF ConsumedKnown, TypeOK, JobType
      <4>2. quoteConsumed \in [Jobs -> Nat]
        BY DEF TypeOK, JobType
      <4> HIDE DEF j
      <4>3. quoteConsumed'[j] = 1
        <5>1. quoteConsumed'[j] = quoteConsumed[j] + 1
          BY <3>1, <3>4, <4>2
        <5> QED
          BY <4>1, <5>1
      <4>4. \A x \in Jobs \ {j} : quoteConsumed'[x] = quoteConsumed[x]
        BY <3>1, <3>4, <4>2
      <4> QED
        BY <3>1, <3>2, <3>4, <4>3, <4>4 DEF ConsumedKnown
    <3> QED
      BY <3>2, <3>3, <3>4
  <2>5. ASSUME NEW u \in Updates, EndUpdate(u) PROVE ConsumedKnown'
    BY <1>2, <2>5 DEF EndUpdate
  <2> QED
    BY <1>5, <2>1, <2>2, <2>3, <2>4, <2>5 DEF Repairing
<1>6. CASE Transferring
  BY <1>2, <1>6, Zenon DEF Transferring, CreateTransfer, ApproveTransfer, CancelTransfer,
     DispatchTransfer, ReceiveTransfer
<1>7. CASE Counting
  BY <1>2, <1>7, Zenon DEF Counting, CreateCount, CancelCount, ApproveCount
<1>8. CASE Editing
  BY <1>2, <1>8, Zenon DEF Editing, AdjustStock, CorrectStock, ReceiveStock, IssueStock,
     ApplyAdjustment, MoveAtLocation, ToggleLocation, TogglePart
<1>9. CASE UNCHANGED vars
  BY <1>2, <1>9 DEF vars, jobVars
<1>10. CASE Recreating
  BY <1>2, <1>10, Zenon DEF Recreating, FindDeletedPart, RecreatePart
<1> QED
  BY <1>3, <1>4, <1>5, <1>6, <1>7, <1>8, <1>9, <1>10 DEF Next

\* However many completions of a job race, and whatever else uses its parts, its
\* quoted parts leave the stock at most once.
THEOREM ConsumedOnce == Spec => []QuoteConsumedOnce
<1>1. ConsumedKnown => QuoteConsumedOnce
  BY DEF ConsumedKnown, QuoteConsumedOnce
<1> QED
  BY <1>1, ConsumedInit, ConsumedStep, TypeCorrect, PTL DEF Spec

-----------------------------------------------------------------------------
(* The location rows *)

\* The sums over a part's rows are numbers.
RowsTyped == \A p \in Parts : RowsOnHand(p) \in Int /\ RowsReserved(p) \in Int

LEMMA RowsType == TypeOK => RowsTyped
<1> SUFFICES ASSUME TypeOK, NEW p \in Parts
             PROVE  RowsOnHand(p) \in Int /\ RowsReserved(p) \in Int
  BY DEF RowsTyped
<1>1. IsFiniteSet(Locations)
  BY LocationsAssumption
<1>2. /\ \A l \in Locations : [m \in Locations |-> locationStock[p][m].onHand][l] \in Int
      /\ \A l \in Locations : [m \in Locations |-> locationStock[p][m].reserved][l] \in Int
  BY DEF TypeOK, StockType, Rows
<1> QED
  BY <1>1, <1>2, SignedType DEF RowsOnHand, RowsReserved

\* Rows left alone sum to the same.
LEMMA RowsSame ==
  ASSUME NEW p, locationStock'[p] = locationStock[p]
  PROVE  RowsOnHand(p)' = RowsOnHand(p) /\ RowsReserved(p)' = RowsReserved(p)
BY DEF RowsOnHand, RowsReserved

\* A sum over the locations changes by what one of its rows does.
LEMMA SumChanges ==
  ASSUME NEW f, NEW g, NEW l \in Locations, NEW n \in Int,
         \A m \in Locations : f[m] \in Int,
         \A m \in Locations : g[m] = IF m = l THEN f[m] + n ELSE f[m]
  PROVE  SignedTotal(Locations, g) = SignedTotal(Locations, f) + n
<1>1. IsFiniteSet(Locations)
  BY LocationsAssumption
<1> QED
  BY <1>1, ChangeSigned

\* One row changes: the part's sums change by as much.
LEMMA RowChanges ==
  ASSUME TypeOK, TypeOK', NEW p \in Parts, NEW l \in Locations, NEW a \in Int, NEW b \in Int,
         locationStock'[p][l].onHand = locationStock[p][l].onHand + a,
         locationStock'[p][l].reserved = locationStock[p][l].reserved + b,
         \A m \in Locations \ {l} : locationStock'[p][m] = locationStock[p][m]
  PROVE  RowsOnHand(p)' = RowsOnHand(p) + a /\ RowsReserved(p)' = RowsReserved(p) + b
<1> DEFINE h1 == [m \in Locations |-> locationStock[p][m].onHand]
           h2 == [m \in Locations |-> locationStock'[p][m].onHand]
           r1 == [m \in Locations |-> locationStock[p][m].reserved]
           r2 == [m \in Locations |-> locationStock'[p][m].reserved]
<1>1. \A m \in Locations : h1[m] \in Int
  BY DEF TypeOK, StockType, Rows
<1>2. \A m \in Locations : r1[m] \in Int
  BY DEF TypeOK, StockType, Rows
<1>3. \A m \in Locations : h2[m] = IF m = l THEN h1[m] + a ELSE h1[m]
  OBVIOUS
<1>4. \A m \in Locations : r2[m] = IF m = l THEN r1[m] + b ELSE r1[m]
  OBVIOUS
<1>5. /\ RowsOnHand(p) = SignedTotal(Locations, h1)
      /\ RowsOnHand(p)' = SignedTotal(Locations, h2)
      /\ RowsReserved(p) = SignedTotal(Locations, r1)
      /\ RowsReserved(p)' = SignedTotal(Locations, r2)
  BY DEF RowsOnHand, RowsReserved
<1> HIDE DEF h1, h2, r1, r2
<1>6. SignedTotal(Locations, h2) = SignedTotal(Locations, h1) + a
  BY <1>1, <1>3, SumChanges
<1>7. SignedTotal(Locations, r2) = SignedTotal(Locations, r1) + b
  BY <1>2, <1>4, SumChanges
<1> QED
  BY <1>5, <1>6, <1>7

\* An upsert changes its part's sums by its deltas and no other part's.
LEMMA RowsUpserted ==
  ASSUME TypeOK, TypeOK', NEW p \in Parts, NEW l \in Locations, NEW a \in Int, NEW b \in Int,
         UpsertRow(p, l, a, b), NEW x \in Parts
  PROVE  /\ RowsOnHand(x)' = RowsOnHand(x) + IF x = p THEN a ELSE 0
         /\ RowsReserved(x)' = RowsReserved(x) + IF x = p THEN b ELSE 0
<1>1. CASE x = p
  <2>1. /\ locationStock'[p][l].onHand = locationStock[p][l].onHand + a
        /\ locationStock'[p][l].reserved = locationStock[p][l].reserved + b
        /\ \A m \in Locations \ {l} : locationStock'[p][m] = locationStock[p][m]
    BY DEF UpsertRow, TypeOK, StockType, Rows
  <2> QED
    BY <1>1, <2>1, RowChanges
<1>2. CASE x # p
  <2>1. locationStock'[x] = locationStock[x]
    BY <1>2 DEF UpsertRow, TypeOK, StockType
  <2> QED
    BY <1>2, <2>1, RowsSame, RowsType DEF RowsTyped
<1> QED
  BY <1>1, <1>2


-----------------------------------------------------------------------------
(* Locations follow the part total *)

\* What a step does to the account of one part.
FollowsStep(p) ==
  LET moved == Attributed(p)' - Attributed(p)
  IN moved = 0 \/ moved = qtyOnHand'[p] - qtyOnHand[p] \/ Backfills(p)

\* Rows and road left alone account for the same.
LEMMA FollowsQuiet ==
  ASSUME TypeOK, NEW p \in Parts, locationStock'[p] = locationStock[p],
         InTransit(p)' = InTransit(p)
  PROVE  FollowsStep(p)
<1>1. RowsOnHand(p)' = RowsOnHand(p) /\ RowsOnHand(p) \in Int /\ InTransit(p) \in Int
  BY RowsSame, RowsType, TransitFinite DEF RowsTyped, FiniteTransit
<1> QED
  BY <1>1 DEF FollowsStep, Attributed

\* An upsert that moves the total by as much, or nothing on hand, is followed.
LEMMA FollowsUpsert ==
  ASSUME TypeOK, TypeOK', NEW p \in Parts, NEW l \in Locations, NEW a \in Int, NEW b \in Int,
         UpsertRow(p, l, a, b), UNCHANGED transfer,
         a = 0 \/ \E c \in Int : IncrementPart(p, a, c)
  PROVE  \A x \in Parts : FollowsStep(x)
<1> SUFFICES ASSUME NEW x \in Parts PROVE FollowsStep(x)
  OBVIOUS
<1>1. RowsOnHand(x)' = RowsOnHand(x) + IF x = p THEN a ELSE 0
  BY RowsUpserted
<1>2. RowsOnHand(x) \in Int /\ InTransit(x) \in Int /\ InTransit(x)' = InTransit(x)
  BY RowsType, TransitFinite, TransitUnchanged DEF RowsTyped, FiniteTransit
<1>3. Attributed(x)' - Attributed(x) = IF x = p THEN a ELSE 0
  BY <1>1, <1>2 DEF Attributed
<1>4. CASE a = 0
  BY <1>3, <1>4 DEF FollowsStep
<1>5. ASSUME NEW c \in Int, IncrementPart(p, a, c) PROVE FollowsStep(x)
  <2>1. qtyOnHand[x] \in Int /\ qtyOnHand'[x] = IF x = p THEN qtyOnHand[x] + a ELSE qtyOnHand[x]
    BY <1>5 DEF IncrementPart, TypeOK, StockType
  <2> QED
    BY <1>3, <2>1 DEF FollowsStep
<1> QED
  BY <1>4, <1>5

\* A reservation moves nothing on hand; only the backfill makes a row of a total.
LEMMA FollowsReserving == TypeOK /\ TypeOK' /\ Reserving => \A p \in Parts : FollowsStep(p)
<1> SUFFICES ASSUME TypeOK, TypeOK', Reserving PROVE \A p \in Parts : FollowsStep(p)
  OBVIOUS
<1>1. UNCHANGED transfer
  BY DEF Reserving, SubmitReserve, CountLocationRows, ReadPartTotals, CreateLocationRow,
     ReserveForJob, EndRequest, DedupWindowPasses, documentVars
<1>2. \A p \in Parts : InTransit(p)' = InTransit(p)
  BY <1>1, TransitUnchanged
<1>3. ASSUME UNCHANGED locationStock PROVE \A p \in Parts : FollowsStep(p)
  BY <1>2, <1>3, FollowsQuiet
<1>4. ASSUME NEW c \in Requests, CreateLocationRow(c) PROVE \A p \in Parts : FollowsStep(p)
  <2> SUFFICES ASSUME NEW p \in Parts PROVE FollowsStep(p)
    OBVIOUS
  <2>1. CASE p = request[c].part
    <3>1. request[c].pc = "create" /\ request'[c].pc = "reserve"
      BY <1>4 DEF CreateLocationRow, TypeOK, CallType, RequestStates
    <3> QED
      BY <2>1, <3>1 DEF FollowsStep, Backfills
  <2>2. CASE p # request[c].part
    <3>1. locationStock'[p] = locationStock[p]
      BY <1>4, <2>2 DEF CreateLocationRow, UpsertRow, TypeOK, StockType
    <3> QED
      BY <1>2, <3>1, FollowsQuiet
  <2> QED
    BY <2>1, <2>2
<1>5. ASSUME NEW c \in Requests, NEW r \in Reservations, ReserveForJob(c, r)
      PROVE  \A p \in Parts : FollowsStep(p)
  <2>1. /\ request[c].part \in Parts /\ request[c].location \in Locations
        /\ request[c].qty \in Int
    BY DEF TypeOK, CallType, RequestStates, Quantities
  <2>2. UpsertRow(request[c].part, request[c].location, 0, request[c].qty)
    BY <1>5, Zenon DEF ReserveForJob
  <2> QED
    BY <1>1, <2>1, <2>2, FollowsUpsert
<1>6. CASE UNCHANGED stockVars
  BY <1>3, <1>6 DEF stockVars
<1> QED
  BY <1>4, <1>5, <1>6, Zenon DEF Reserving, SubmitReserve, CountLocationRows, ReadPartTotals,
     EndRequest, DedupWindowPasses

\* A consumption takes from its row what it takes from the total.
LEMMA FollowsSettling == TypeOK /\ TypeOK' /\ Settling => \A p \in Parts : FollowsStep(p)
<1> SUFFICES ASSUME TypeOK, TypeOK', Settling PROVE \A p \in Parts : FollowsStep(p)
  OBVIOUS
<1>1. UNCHANGED transfer
  BY DEF Settling, ConsumeReservation, ReleaseReservation, DeleteJob, documentVars
<1>2. ASSUME NEW r \in Reservations
      PROVE  reservation[r].part \in Parts /\ -reservation[r].qty \in Int
  BY DEF TypeOK, HoldType, ReservationRows, Quantities
<1>3. ASSUME NEW r \in Reservations, ConsumeReservation(r)
      PROVE  \A p \in Parts : FollowsStep(p)
  <2> DEFINE p == reservation[r].part
             q == reservation[r].qty
  <2>1. HasPanel /\ UpsertRow(p, PanelLocation, -q, -q) /\ IncrementPart(p, -q, -q)
    BY <1>3, Zenon DEF ConsumeReservation
  <2>2. PanelLocation \in Locations /\ p \in Parts /\ -q \in Int
    BY <1>2, <2>1, PanelIsLocation
  <2> HIDE DEF p, q
  <2> QED
    BY <1>1, <2>1, <2>2, FollowsUpsert
<1>4. ASSUME NEW r \in Reservations, ReleaseReservation(r)
      PROVE  \A p \in Parts : FollowsStep(p)
  <2> DEFINE p == reservation[r].part
             q == reservation[r].qty
  <2>1. HasPanel /\ UpsertRow(p, PanelLocation, 0, -q)
    BY <1>4, Zenon DEF ReleaseReservation
  <2>2. PanelLocation \in Locations /\ p \in Parts /\ -q \in Int
    BY <1>2, <2>1, PanelIsLocation
  <2> HIDE DEF p, q
  <2> QED
    BY <1>1, <2>1, <2>2, FollowsUpsert
<1>5. ASSUME NEW j \in Jobs, DeleteJob(j) PROVE \A p \in Parts : FollowsStep(p)
  BY <1>1, <1>5, TransitUnchanged, FollowsQuiet DEF DeleteJob, stockVars
<1> QED
  BY <1>3, <1>4, <1>5 DEF Settling

\* What leaves the source row is on the road until the receipt books it.
LEMMA FollowsTransferring == TypeOK /\ TypeOK' /\ Transferring => \A p \in Parts : FollowsStep(p)
<1> SUFFICES ASSUME TypeOK, TypeOK', Transferring, NEW p \in Parts PROVE FollowsStep(p)
  OBVIOUS
<1>1. ASSUME UNCHANGED stockVars, InTransit(p)' = InTransit(p) PROVE FollowsStep(p)
  BY <1>1, FollowsQuiet DEF stockVars
<1>2. ASSUME NEW t \in Transfers, NEW x \in Parts, NEW from \in Locations,
             NEW to \in Locations, NEW q \in Quantities, CreateTransfer(t, x, from, to, q)
      PROVE  FollowsStep(p)
  <2>1. InTransit(p)' = InTransit(p)
    BY <1>2, TransitOfCreation
  <2> QED
    BY <1>1, <1>2, <2>1 DEF CreateTransfer
<1>3. ASSUME NEW t \in Transfers, ApproveTransfer(t) PROVE FollowsStep(p)
  <2>1. InTransit(p)' = InTransit(p)
    BY <1>3, TransitUnchanged DEF ApproveTransfer, TransferStatuses
  <2> QED
    BY <1>1, <1>3, <2>1 DEF ApproveTransfer
<1>4. ASSUME NEW t \in Transfers, CancelTransfer(t) PROVE FollowsStep(p)
  <2>1. InTransit(p)' = InTransit(p)
    BY <1>4, TransitUnchanged DEF CancelTransfer, TransferStatuses
  <2> QED
    BY <1>1, <1>4, <2>1 DEF CancelTransfer
<1>5. ASSUME NEW t \in Transfers
      PROVE  /\ transfer[t].part \in Parts /\ transfer[t].from \in Locations
             /\ transfer[t].to \in Locations
             /\ transfer[t].qty \in Int /\ -transfer[t].qty \in Int
  BY DEF TypeOK, DocumentType, TransferRows, Quantities
<1>6. RowsOnHand(p) \in Int /\ InTransit(p) \in Int /\ RowsOnHand(p)' \in Int /\ InTransit(p)' \in Int
  <2>1. RowsTyped /\ FiniteTransit
    BY RowsType, TransitFinite
  <2>2. RowsTyped' /\ FiniteTransit'
    BY RowsType, TransitFinite, PTL
  <2> QED
    BY <2>1, <2>2 DEF RowsTyped, FiniteTransit
<1>7. ASSUME NEW t \in Transfers, DispatchTransfer(t) PROVE FollowsStep(p)
  <2> DEFINE q == transfer[t].qty
  <2>1. /\ UpsertRow(transfer[t].part, transfer[t].from, -q, 0) /\ TransferTo(t, "DISPATCHED")
        /\ transfer[t].status = "APPROVED"
    BY <1>7, Zenon DEF DispatchTransfer
  <2>2. InTransit(p)' = InTransit(p) + IF p = transfer[t].part THEN q ELSE 0
    BY <2>1, TransitMoves
  <2>3. RowsOnHand(p)' = RowsOnHand(p) + IF p = transfer[t].part THEN -q ELSE 0
    BY <1>5, <2>1, RowsUpserted
  <2>4. q \in Int
    BY <1>5
  <2> HIDE DEF q
  <2> QED
    BY <1>6, <2>2, <2>3, <2>4 DEF FollowsStep, Attributed
<1>8. ASSUME NEW t \in Transfers, ReceiveTransfer(t) PROVE FollowsStep(p)
  <2> DEFINE q == transfer[t].qty
  <2>1. /\ UpsertRow(transfer[t].part, transfer[t].to, q, 0) /\ TransferTo(t, "RECEIVED")
        /\ transfer[t].status = "DISPATCHED"
    BY <1>8, Zenon DEF ReceiveTransfer
  <2>2. InTransit(p) = InTransit(p)' + IF p = transfer[t].part THEN q ELSE 0
    BY <2>1, TransitMoves
  <2>3. RowsOnHand(p)' = RowsOnHand(p) + IF p = transfer[t].part THEN q ELSE 0
    BY <1>5, <2>1, RowsUpserted
  <2>4. q \in Int
    BY <1>5
  <2> HIDE DEF q
  <2> QED
    BY <1>6, <2>2, <2>3, <2>4 DEF FollowsStep, Attributed
<1> QED
  BY <1>2, <1>3, <1>4, <1>7, <1>8 DEF Transferring

\* An approved count moves each part's row and total by its variance.
LEMMA FollowsCounting == TypeOK /\ TypeOK' /\ Counting => \A p \in Parts : FollowsStep(p)
<1> SUFFICES ASSUME TypeOK, TypeOK', Counting, NEW p \in Parts PROVE FollowsStep(p)
  OBVIOUS
<1>1. UNCHANGED transfer
  BY DEF Counting, CreateCount, CancelCount, ApproveCount
<1>2. InTransit(p)' = InTransit(p)
  BY <1>1, TransitUnchanged
<1>3. ASSUME UNCHANGED stockVars PROVE FollowsStep(p)
  BY <1>2, <1>3, FollowsQuiet DEF stockVars
<1>4. ASSUME NEW k \in Counts, ApproveCount(k) PROVE FollowsStep(p)
  <2> DEFINE l == count[k].location
             n == count[k].variance[p]
  <2>1. l \in Locations /\ n \in Int /\ 0 \in Int
    BY DEF TypeOK, DocumentType, CountRows
  <2>2. CASE n = 0
    <3>1. locationStock'[p] = locationStock[p]
      BY <1>4, <2>2 DEF ApproveCount
    <3> QED
      BY <1>2, <3>1, FollowsQuiet
  <2>3. CASE n # 0
    <3>1. /\ locationStock'[p][l].onHand = locationStock[p][l].onHand + n
          /\ locationStock'[p][l].reserved = locationStock[p][l].reserved + 0
          /\ \A m \in Locations \ {l} : locationStock'[p][m] = locationStock[p][m]
      <4>1. locationStock'[p] = [locationStock[p] EXCEPT ![l] =
                [exists |-> TRUE, onHand |-> locationStock[p][l].onHand + n,
                 reserved |-> locationStock[p][l].reserved]]
        BY <1>4, <2>3 DEF ApproveCount
      <4>2. locationStock[p] \in [Locations -> Rows]
        BY DEF TypeOK, StockType
      <4> HIDE DEF l, n
      <4> QED
        BY <2>1, <4>1, <4>2 DEF Rows
    <3>2. qtyOnHand'[p] = qtyOnHand[p] + n /\ qtyOnHand[p] \in Int
      BY <1>4 DEF ApproveCount, TypeOK, StockType
    <3> HIDE DEF l, n
    <3>3. RowsOnHand(p)' = RowsOnHand(p) + n
      BY <2>1, <3>1, RowChanges
    <3>4. RowsOnHand(p) \in Int /\ InTransit(p) \in Int
      BY RowsType, TransitFinite DEF RowsTyped, FiniteTransit
    <3> QED
      BY <1>2, <2>1, <3>2, <3>3, <3>4 DEF FollowsStep, Attributed
  <2> QED
    BY <2>2, <2>3
<1> QED
  BY <1>3, <1>4, Zenon DEF Counting, CreateCount, CancelCount

\* A movement at a location moves row and total together, other edits no row.
LEMMA FollowsEditing == TypeOK /\ TypeOK' /\ Editing => \A p \in Parts : FollowsStep(p)
<1> SUFFICES ASSUME TypeOK, TypeOK', Editing PROVE \A p \in Parts : FollowsStep(p)
  OBVIOUS
<1>1. UNCHANGED transfer
  BY Zenon DEF Editing, AdjustStock, CorrectStock, ReceiveStock, IssueStock, ApplyAdjustment,
     MoveAtLocation, ToggleLocation, TogglePart, documentVars
<1>2. ASSUME UNCHANGED locationStock PROVE \A p \in Parts : FollowsStep(p)
  BY <1>1, <1>2, TransitUnchanged, FollowsQuiet
<1>3. ASSUME NEW p \in Parts, NEW l \in Locations, NEW delta \in Int,
             MoveAtLocation(p, l, delta)
      PROVE  \A x \in Parts : FollowsStep(x)
  <2>1. UpsertRow(p, l, delta, 0) /\ IncrementPart(p, delta, 0)
    BY <1>3, Zenon DEF MoveAtLocation
  <2> QED
    BY <1>1, <2>1, FollowsUpsert
<1>4. ASSUME NEW p \in Parts, NEW l \in Locations, NEW q \in Int,
             ReceiveStock(p, l, q) \/ IssueStock(p, l, q)
      PROVE  \A x \in Parts : FollowsStep(x)
  BY <1>3, <1>4 DEF ReceiveStock, IssueStock
<1>5. ASSUME NEW p \in Parts, NEW l \in Locations, NEW system \in Int, NEW counted \in Int,
             ApplyAdjustment(p, l, system, counted)
      PROVE  \A x \in Parts : FollowsStep(x)
  BY <1>3, <1>5 DEF ApplyAdjustment
<1>6. ASSUME UNCHANGED stockVars PROVE \A x \in Parts : FollowsStep(x)
  BY <1>2, <1>6 DEF stockVars
<1>7. Quantities \subseteq Int /\ 0..MaxQty \subseteq Int
  BY BoundsAssumption DEF Quantities
<1> QED
  BY <1>2, <1>4, <1>5, <1>6, <1>7, Zenon DEF Editing, AdjustStock, CorrectStock,
     ToggleLocation, TogglePart

\* Every step is followed.
LEMMA FollowsSteps ==
  TypeOK /\ TypeOK' /\ [Next]_vars => \A p \in Parts : FollowsStep(p)
<1> SUFFICES ASSUME TypeOK, TypeOK', [Next]_vars PROVE \A p \in Parts : FollowsStep(p)
  OBVIOUS
<1>1. ASSUME UNCHANGED locationStock, UNCHANGED transfer
      PROVE  \A p \in Parts : FollowsStep(p)
  BY <1>1, TransitUnchanged, FollowsQuiet
<1>2. CASE Repairing
  BY <1>1, <1>2, Zenon DEF Repairing, AcceptQuotation, ReadJob, WriteJob, ConsumeRepairParts,
     EndUpdate, stockVars, documentVars
<1>3. CASE UNCHANGED vars
  BY <1>1, <1>3 DEF vars
<1>4. CASE Recreating
  BY <1>1, <1>4, Zenon DEF Recreating, FindDeletedPart, RecreatePart, stockVars, documentVars
<1> QED
  BY <1>2, <1>3, <1>4, FollowsReserving, FollowsSettling, FollowsTransferring, FollowsCounting,
     FollowsEditing DEF Next

\* Apart from the backfill, what a part's locations and the road account for
\* changes only with Part.qtyOnHand and by as much: a transfer neither creates
\* nor loses stock, and no operation moves a row without its total.
THEOREM LocationsCorrect == Spec => LocationsFollowPart
<1>1. TypeOK /\ TypeOK' /\ [Next]_vars
        => [\A p \in Parts : LET moved == Attributed(p)' - Attributed(p)
                             IN moved = 0 \/ moved = qtyOnHand'[p] - qtyOnHand[p] \/ Backfills(p)]_vars
  BY FollowsSteps DEF FollowsStep
<1> QED
  BY <1>1, TypeCorrect, PTL DEF Spec, LocationsFollowPart


-----------------------------------------------------------------------------
(* The rows' reserved quantities *)

\* With every location open for good, the job page always offers the same one:
\* requests hold its name, and until its row of a part exists the part has
\* nothing reserved, nor has a request that is about to make that row.  Without
\* this a racing backfill might copy a reservation its row does not hold.
PanelKnown ==
  /\ activeLocations = Locations
  /\ \A c \in Requests :
        request[c].pc \notin {"idle", "recreate"} => request[c].location = PanelLocation
  /\ \A p \in Parts : ~ locationStock[p][PanelLocation].exists => qtyReserved[p] = 0
  /\ \A c \in Requests :
        request[c].pc = "create" /\ ~ locationStock[request[c].part][PanelLocation].exists
           => request[c].reserved = 0

RowsInv == Closable = {} => PanelKnown /\ RowsAddUpToReserved

\* At the start there are no rows and nothing is reserved.
LEMMA RowsInit == Init => RowsInv
<1> SUFFICES ASSUME Init PROVE PanelKnown /\ RowsAddUpToReserved
  BY DEF RowsInv
<1>1. PanelKnown
  BY DEF Init, PanelKnown, NoRequest
<1>2. ASSUME NEW p \in Parts PROVE RowsReserved(p) = 0
  <2>1. \A l \in Locations : [m \in Locations |-> locationStock[p][m].reserved][l] = 0
    BY DEF Init, NoRow
  <2> QED
    BY <2>1, LocationsAssumption, ZeroSigned DEF RowsReserved
<1> QED
  BY <1>1, <1>2 DEF Init, RowsAddUpToReserved

\* The page's location does not change while every location stays open.
LEMMA PanelStays == UNCHANGED activeLocations => PanelLocation' = PanelLocation
BY DEF PanelLocation

\* A step that changes no row's reserved quantity, takes no row away and leaves
\* the requests keeps the account.
LEMMA RowsQuiet ==
  ASSUME TypeOK, PanelKnown, RowsAddUpToReserved, UNCHANGED <<qtyReserved, activeLocations>>,
         HasPanel,
         \A p \in Parts, l \in Locations :
            /\ locationStock'[p][l].reserved = locationStock[p][l].reserved
            /\ locationStock[p][l].exists => locationStock'[p][l].exists,
         \A c \in Requests :
            \/ request'[c] = request[c]
            \/ request'[c].pc \in {"idle", "recreate"}
            \/ /\ request'[c].location = PanelLocation
               /\ request'[c].pc = "create"
                     => request'[c].part \in Parts /\ request'[c].reserved = qtyReserved[request'[c].part]
  PROVE  PanelKnown' /\ RowsAddUpToReserved'
<1>1. PanelLocation' = PanelLocation /\ PanelLocation \in Locations
  BY PanelStays, PanelIsLocation
<1>2. PanelKnown'
  <2>1. /\ activeLocations' = Locations
        /\ \A p \in Parts : ~ locationStock'[p][PanelLocation].exists => qtyReserved'[p] = 0
    BY <1>1 DEF PanelKnown
  <2>2. ASSUME NEW c \in Requests
        PROVE  /\ request'[c].pc \notin {"idle", "recreate"} => request'[c].location = PanelLocation
               /\ request'[c].pc = "create"
                     /\ ~ locationStock'[request'[c].part][PanelLocation].exists
                  => request'[c].reserved = 0
    <3>1. request[c].part \in Parts
      BY DEF TypeOK, CallType, RequestStates
    <3>2. CASE request'[c] = request[c]
      BY <1>1, <3>1, <3>2 DEF PanelKnown
    <3>3. CASE request'[c].pc \in {"idle", "recreate"}
      BY <3>3
    <3>4. CASE /\ request'[c].location = PanelLocation
               /\ request'[c].pc = "create"
                     => request'[c].part \in Parts /\ request'[c].reserved = qtyReserved[request'[c].part]
      BY <1>1, <3>4 DEF PanelKnown
    <3> QED
      BY <3>2, <3>3, <3>4
  <2> QED
    BY <1>1, <2>1, <2>2 DEF PanelKnown
<1>3. ASSUME NEW p \in Parts PROVE RowsReserved(p)' = RowsReserved(p)
  <2>1. [l \in Locations |-> locationStock'[p][l].reserved]
          = [l \in Locations |-> locationStock[p][l].reserved]
    OBVIOUS
  <2> QED
    BY <2>1 DEF RowsReserved
<1> QED
  BY <1>2, <1>3 DEF RowsAddUpToReserved

\* A change of a part's reserved total with the row of the page's location.
LEMMA RowsMove ==
  ASSUME TypeOK, TypeOK', PanelKnown, RowsAddUpToReserved, HasPanel, UNCHANGED activeLocations,
         NEW p \in Parts, NEW a \in Int, NEW b \in Int, NEW c \in Int,
         UpsertRow(p, PanelLocation, a, b), IncrementPart(p, c, b),
         \A x \in Requests : request'[x] = request[x] \/ request'[x].pc = "idle"
  PROVE  PanelKnown' /\ RowsAddUpToReserved'
<1>1. PanelLocation' = PanelLocation /\ PanelLocation \in Locations
  BY PanelStays, PanelIsLocation
<1>2. ASSUME NEW x \in Parts
      PROVE  qtyReserved'[x] = qtyReserved[x] + IF x = p THEN b ELSE 0
  BY DEF IncrementPart, TypeOK, StockType
<1>3. ASSUME NEW x \in Parts
      PROVE  RowsReserved(x)' = RowsReserved(x) + IF x = p THEN b ELSE 0
  BY <1>1, RowsUpserted
<1>4. ASSUME NEW x \in Parts
      PROVE  /\ x = p => locationStock'[x][PanelLocation].exists
             /\ x # p => /\ locationStock'[x] = locationStock[x]
                         /\ qtyReserved'[x] = qtyReserved[x]
  BY <1>1 DEF UpsertRow, IncrementPart, TypeOK, StockType
<1>5. PanelKnown'
  <2>1. \A x \in Requests : request[x].part \in Parts
    BY DEF TypeOK, CallType, RequestStates
  <2> QED
    BY <1>1, <1>4, <2>1 DEF PanelKnown
<1> QED
  BY <1>2, <1>3, <1>5 DEF RowsAddUpToReserved

\* A backfill that makes its row makes it of a part with nothing reserved.
LEMMA RowsBackfill ==
  ASSUME TypeOK, TypeOK', PanelKnown, RowsAddUpToReserved, HasPanel,
         NEW c \in Requests, CreateLocationRow(c)
  PROVE  PanelKnown' /\ RowsAddUpToReserved'
<1> DEFINE p == request[c].part
           n == request[c].onHand
<1>1. p \in Parts /\ n \in Int
  BY DEF TypeOK, CallType, RequestStates
<1>2. request[c].location = PanelLocation /\ request[c].reserved = 0
  BY DEF CreateLocationRow, PanelKnown
<1>3. /\ UpsertRow(p, PanelLocation, n, 0) /\ UNCHANGED <<qtyReserved, masterVars>>
      /\ request' = [request EXCEPT ![c].pc = "reserve"]
  BY <1>2 DEF CreateLocationRow
<1>4. UNCHANGED activeLocations
  BY <1>3 DEF masterVars
<1>5. \A x \in Requests \ {c} : request'[x] = request[x]
  BY <1>3 DEF TypeOK, CallType
<1>6. request'[c].pc = "reserve" /\ request'[c].location = PanelLocation
  BY <1>2, <1>3 DEF TypeOK, CallType, RequestStates
<1>7. PanelLocation \in Locations
  BY PanelIsLocation
<1> HIDE DEF p, n
<1>8. ASSUME NEW x \in Parts, NEW l \in Locations
      PROVE  /\ locationStock'[x][l].reserved = locationStock[x][l].reserved
             /\ locationStock[x][l].exists => locationStock'[x][l].exists
  <2>1. locationStock[x][l] \in Rows
    BY DEF TypeOK, StockType
  <2> QED
    BY <1>1, <1>3, <1>7, <1>8, <2>1 DEF UpsertRow, TypeOK, StockType, Rows
<1> QED
  BY <1>3, <1>4, <1>5, <1>6, <1>8, RowsQuiet

\* Every step keeps the account of the rows.
LEMMA RowsStep ==
  TypeOK /\ TypeOK' /\ RowsInv /\ [Next]_vars => RowsInv'
<1> SUFFICES ASSUME TypeOK, TypeOK', Closable = {}, PanelKnown, RowsAddUpToReserved, [Next]_vars
             PROVE  PanelKnown' /\ RowsAddUpToReserved'
  BY DEF RowsInv
<1> DEFINE Goal == PanelKnown' /\ RowsAddUpToReserved'
<1> SUFFICES Goal
  OBVIOUS
<1>1. HasPanel
  BY LocationsAssumption DEF PanelKnown, HasPanel
<1>2. ASSUME UNCHANGED <<qtyReserved, locationStock, activeLocations, request>> PROVE Goal
  BY <1>1, <1>2, RowsQuiet
<1>3. ASSUME UNCHANGED stockVars, UNCHANGED activeLocations, UNCHANGED request PROVE Goal
  BY <1>2, <1>3 DEF stockVars
<1>4. CASE Reserving
  <2>1. UNCHANGED activeLocations
    BY <1>4 DEF Reserving, SubmitReserve, CountLocationRows, ReadPartTotals, CreateLocationRow,
       ReserveForJob, EndRequest, DedupWindowPasses, masterVars
  <2>2. ASSUME NEW c \in Requests, UNCHANGED stockVars,
               \A x \in Requests \ {c} : request'[x] = request[x],
               \/ request'[c].pc = "idle"
               \/ /\ request'[c].location = PanelLocation
                  /\ request'[c].pc = "create"
                        => /\ request'[c].part \in Parts
                           /\ request'[c].reserved = qtyReserved[request'[c].part]
        PROVE  Goal
    BY <1>1, <2>1, <2>2, RowsQuiet DEF stockVars
  <2>3. ASSUME NEW c \in Requests, NEW p \in Parts, NEW j \in Jobs, NEW q \in Quantities,
               SubmitReserve(c, p, j, q)
        PROVE  Goal
    <3>1. /\ \A x \in Requests \ {c} : request'[x] = request[x]
          /\ request'[c].location = PanelLocation /\ request'[c].pc = "count"
      BY <2>3 DEF SubmitReserve, TypeOK, CallType
    <3> QED
      BY <2>2, <2>3, <3>1 DEF SubmitReserve
  <2>4. ASSUME NEW c \in Requests, CountLocationRows(c) PROVE Goal
    <3>1. /\ \A x \in Requests \ {c} : request'[x] = request[x]
          /\ request'[c].location = request[c].location /\ request'[c].pc # "create"
          /\ request[c].pc = "count"
      BY <2>4 DEF CountLocationRows, TypeOK, CallType, RequestStates
    <3>2. request[c].location = PanelLocation
      BY <3>1 DEF PanelKnown
    <3> QED
      BY <2>2, <2>4, <3>1, <3>2 DEF CountLocationRows
  <2>5. ASSUME NEW c \in Requests, ReadPartTotals(c) PROVE Goal
    <3> DEFINE p == request[c].part
    <3>1. request[c] \in RequestStates /\ p \in Parts /\ request[c].pc = "read"
      BY <2>5 DEF ReadPartTotals, TypeOK, CallType, RequestStates
    <3>2. request[c].location = PanelLocation
      BY <3>1 DEF PanelKnown
    <3>3. \/ request'[c] = [request[c] EXCEPT !.pc = "reserve"]
          \/ request'[c] = [request[c] EXCEPT !.pc = "create", !.onHand = qtyOnHand[p],
                                              !.reserved = qtyReserved[p]]
      BY <2>5 DEF ReadPartTotals, TypeOK, CallType
    <3>4. \A x \in Requests \ {c} : request'[x] = request[x]
      BY <2>5 DEF ReadPartTotals, TypeOK, CallType
    <3>5. /\ request'[c].location = PanelLocation
          /\ request'[c].pc = "create"
                => request'[c].part \in Parts /\ request'[c].reserved = qtyReserved[request'[c].part]
      BY <3>1, <3>2, <3>3 DEF RequestStates
    <3> QED
      BY <2>2, <2>5, <3>4, <3>5 DEF ReadPartTotals
  <2>6. ASSUME NEW c \in Requests, CreateLocationRow(c) PROVE Goal
    BY <1>1, <2>6, RowsBackfill
  <2>7. ASSUME NEW c \in Requests, NEW r \in Reservations, ReserveForJob(c, r) PROVE Goal
    <3> DEFINE p == request[c].part
               q == request[c].qty
    <3>1. request[c].location = PanelLocation
      BY <2>7 DEF ReserveForJob, PanelKnown
    <3>2. p \in Parts /\ q \in Int
      BY DEF TypeOK, CallType, RequestStates, Quantities
    <3>3. UpsertRow(p, PanelLocation, 0, q) /\ IncrementPart(p, 0, q)
      BY <2>7, <3>1, Zenon DEF ReserveForJob
    <3>4. \A x \in Requests : request'[x] = request[x] \/ request'[x].pc = "idle"
      BY <2>7 DEF ReserveForJob, TypeOK, CallType, RequestStates
    <3> HIDE DEF p, q
    <3> QED
      BY <1>1, <2>1, <3>2, <3>3, <3>4, RowsMove
  <2>8. ASSUME NEW c \in Requests, EndRequest(c) PROVE Goal
    <3>1. \A x \in Requests \ {c} : request'[x] = request[x]
      BY <2>8 DEF EndRequest, TypeOK, CallType
    <3>2. request'[c].pc = "idle"
      BY <2>8 DEF EndRequest, TypeOK, CallType, RequestStates
    <3> QED
      BY <2>2, <2>8, <3>1, <3>2 DEF EndRequest
  <2>9. ASSUME NEW r \in Reservations, DedupWindowPasses(r) PROVE Goal
    BY <1>3, <2>1, <2>9 DEF DedupWindowPasses, callVars
  <2> HIDE DEF Goal
  <2> QED
    BY <1>4, <2>3, <2>4, <2>5, <2>6, <2>7, <2>8, <2>9 DEF Reserving
<1>5. CASE Settling
  <2>1. ASSUME NEW r \in Reservations
        PROVE  reservation[r].part \in Parts /\ -reservation[r].qty \in Int
    BY DEF TypeOK, HoldType, ReservationRows, Quantities
  <2>2. ASSUME NEW r \in Reservations, NEW a \in Int,
               UpsertRow(reservation[r].part, PanelLocation, a, -reservation[r].qty),
               IncrementPart(reservation[r].part, a, -reservation[r].qty),
               UNCHANGED <<activeLocations, request>>
        PROVE  Goal
    BY <1>1, <2>1, <2>2, RowsMove
  <2>3. ASSUME NEW r \in Reservations, ConsumeReservation(r) PROVE Goal
    BY <2>1, <2>2, <2>3 DEF ConsumeReservation, masterVars, callVars
  <2>4. ASSUME NEW r \in Reservations, ReleaseReservation(r) PROVE Goal
    BY <2>1, <2>2, <2>4 DEF ReleaseReservation, masterVars, callVars
  <2>5. ASSUME NEW j \in Jobs, DeleteJob(j) PROVE Goal
    BY <1>3, <2>5 DEF DeleteJob, masterVars, callVars
  <2> HIDE DEF Goal
  <2> QED
    BY <1>5, <2>3, <2>4, <2>5 DEF Settling
<1>6. CASE Repairing
  <2>1. UNCHANGED <<qtyReserved, locationStock, activeLocations, request>>
    BY <1>6, Zenon DEF Repairing, AcceptQuotation, ReadJob, WriteJob, ConsumeRepairParts,
       EndUpdate, stockVars, masterVars, callVars
  <2> QED
    BY <1>2, <2>1
<1>7. ASSUME NEW p \in Parts, NEW l \in Locations, NEW a \in Int, UpsertRow(p, l, a, 0),
             UNCHANGED <<qtyReserved, activeLocations, request>>
      PROVE  Goal
  <2>1. ASSUME NEW x \in Parts, NEW m \in Locations
        PROVE  /\ locationStock'[x][m].reserved = locationStock[x][m].reserved
               /\ locationStock[x][m].exists => locationStock'[x][m].exists
    <3>1. locationStock[x][m] \in Rows
      BY DEF TypeOK, StockType
    <3> QED
      BY <1>7, <3>1 DEF UpsertRow, TypeOK, StockType, Rows
  <2> QED
    BY <1>1, <1>7, <2>1, RowsQuiet
<1>8. CASE Transferring
  <2>1. UNCHANGED <<qtyReserved, activeLocations, request>>
    BY <1>8, Zenon DEF Transferring, CreateTransfer, ApproveTransfer, CancelTransfer,
       DispatchTransfer, ReceiveTransfer, stockVars, masterVars, callVars
  <2>2. ASSUME UNCHANGED locationStock PROVE Goal
    BY <1>2, <2>1, <2>2
  <2>3. ASSUME NEW t \in Transfers
        PROVE  /\ transfer[t].part \in Parts /\ transfer[t].from \in Locations
               /\ transfer[t].to \in Locations
               /\ transfer[t].qty \in Int /\ -transfer[t].qty \in Int
    BY DEF TypeOK, DocumentType, TransferRows, Quantities
  <2>4. ASSUME NEW t \in Transfers, DispatchTransfer(t) PROVE Goal
    BY <1>7, <2>1, <2>3, <2>4 DEF DispatchTransfer
  <2>5. ASSUME NEW t \in Transfers, ReceiveTransfer(t) PROVE Goal
    BY <1>7, <2>1, <2>3, <2>5 DEF ReceiveTransfer
  <2>6. ASSUME UNCHANGED stockVars PROVE Goal
    BY <2>2, <2>6 DEF stockVars
  <2> HIDE DEF Goal
  <2> QED
    BY <1>8, <2>4, <2>5, <2>6, Zenon DEF Transferring, CreateTransfer, ApproveTransfer,
       CancelTransfer
<1>9. CASE Counting
  <2>1. UNCHANGED <<qtyReserved, activeLocations, request>>
    BY <1>9, Zenon DEF Counting, CreateCount, CancelCount, ApproveCount, stockVars, masterVars,
       callVars
  <2>2. ASSUME NEW k \in Counts, ApproveCount(k) PROVE Goal
    <3>1. ASSUME NEW x \in Parts, NEW m \in Locations
          PROVE  /\ locationStock'[x][m].reserved = locationStock[x][m].reserved
                 /\ locationStock[x][m].exists => locationStock'[x][m].exists
      <4>1. locationStock[x] \in [Locations -> Rows] /\ count[k].location \in Locations
        BY DEF TypeOK, StockType, DocumentType, CountRows
      <4>2. \/ locationStock'[x] = locationStock[x]
            \/ locationStock'[x] = [locationStock[x] EXCEPT ![count[k].location] =
                 [exists |-> TRUE,
                  onHand |-> locationStock[x][count[k].location].onHand + count[k].variance[x],
                  reserved |-> locationStock[x][count[k].location].reserved]]
        BY <2>2 DEF ApproveCount
      <4> QED
        BY <4>1, <4>2 DEF Rows
    <3> QED
      BY <1>1, <2>1, <3>1, RowsQuiet
  <2>3. ASSUME UNCHANGED stockVars PROVE Goal
    BY <1>2, <2>1, <2>3 DEF stockVars
  <2> HIDE DEF Goal
  <2> QED
    BY <1>9, <2>2, <2>3, Zenon DEF Counting, CreateCount, CancelCount
<1>10. CASE Editing
  <2>1. ASSUME NEW l \in Locations, ToggleLocation(l) PROVE Goal
    BY <2>1 DEF ToggleLocation
  <2>2. ASSUME NEW p \in Parts, TogglePart(p) PROVE Goal
    BY <1>3, <2>2 DEF TogglePart, callVars
  <2>3. ASSUME NEW p \in Parts, NEW delta \in Int, IncrementPart(p, delta, 0),
               UNCHANGED <<locationStock, masterVars, callVars>>
        PROVE  Goal
    BY <1>2, <2>3, OnHandOnly DEF masterVars, callVars
  <2>4. ASSUME NEW p \in Parts, NEW l \in Locations, NEW delta \in Int,
               MoveAtLocation(p, l, delta)
        PROVE  Goal
    <3>1. UpsertRow(p, l, delta, 0) /\ UNCHANGED <<qtyReserved, activeLocations, request>>
      BY <2>4, OnHandOnly DEF MoveAtLocation, masterVars, callVars
    <3> QED
      BY <1>7, <3>1
  <2>5. ASSUME NEW p \in Parts, NEW type, NEW qty \in Int, AdjustStock(p, type, qty) PROVE Goal
    <3>1. PICK delta \in Int : IncrementPart(p, delta, 0)
      BY <2>5 DEF AdjustStock
    <3> QED
      BY <2>3, <2>5, <3>1, Zenon DEF AdjustStock
  <2>6. ASSUME NEW p \in Parts, NEW target \in Int, CorrectStock(p, target) PROVE Goal
    <3>1. target - qtyOnHand[p] \in Int
      BY DEF TypeOK, StockType
    <3> QED
      BY <2>3, <2>6, <3>1, Zenon DEF CorrectStock
  <2>7. ASSUME NEW p \in Parts, NEW l \in Locations, NEW q \in Int,
               ReceiveStock(p, l, q) \/ IssueStock(p, l, q)
        PROVE  Goal
    BY <2>4, <2>7 DEF ReceiveStock, IssueStock
  <2>8. ASSUME NEW p \in Parts, NEW l \in Locations, NEW system \in Int, NEW counted \in Int,
               ApplyAdjustment(p, l, system, counted)
        PROVE  Goal
    BY <2>4, <2>8 DEF ApplyAdjustment
  <2>9. Quantities \subseteq Int /\ (-MaxQty)..MaxQty \subseteq Int /\ 0..MaxQty \subseteq Int
    BY BoundsAssumption DEF Quantities
  <2> HIDE DEF Goal
  <2> QED
    BY <1>10, <2>1, <2>2, <2>5, <2>6, <2>7, <2>8, <2>9, Zenon DEF Editing
<1>11. CASE UNCHANGED vars
  BY <1>2, <1>11 DEF vars
<1>12. CASE Recreating
  <2>1. UNCHANGED <<qtyReserved, locationStock, activeLocations>>
    BY <1>12, Zenon DEF Recreating, FindDeletedPart, RecreatePart, stockVars, masterVars
  <2>2. ASSUME NEW x \in Requests
        PROVE  request'[x] = request[x] \/ request'[x].pc \in {"idle", "recreate"}
    <3>1. ASSUME NEW c \in Requests, NEW p \in Parts, FindDeletedPart(c, p)
          PROVE  request'[x] = request[x] \/ request'[x].pc = "recreate"
      BY <3>1 DEF FindDeletedPart, NoRequest, TypeOK, CallType
    <3>2. ASSUME NEW c \in Requests, NEW q \in 0..MaxQty, RecreatePart(c, q)
          PROVE  request'[x] = request[x] \/ request'[x].pc = "idle"
      BY <3>2 DEF RecreatePart, TypeOK, CallType, RequestStates
    <3> QED
      BY <1>12, <3>1, <3>2 DEF Recreating
  <2> QED
    BY <1>1, <2>1, <2>2, RowsQuiet
<1> QED
  BY <1>4, <1>5, <1>6, <1>8, <1>9, <1>10, <1>11, <1>12 DEF Next

\* While no location can be closed, the reserved quantities of a part's rows add
\* up to Part.qtyReserved, whichever backfills race and whoever settles.
THEOREM RowsCorrect == Spec => []RowsAddUpToReserved
<1>1. RowsInv => RowsAddUpToReserved
  BY DEF RowsInv, RowsAddUpToReserved
<1> QED
  BY <1>1, RowsInit, RowsStep, TypeStep, TypeCorrect, PTL DEF Spec
=============================================================================
