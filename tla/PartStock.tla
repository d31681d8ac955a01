------------------------------ MODULE PartStock ------------------------------
(***************************************************************************)
(* The stock of an organisation's parts: the authoritative totals on Part, *)
(* their per-location mirror PartLocationStock, the reservations repair    *)
(* jobs hold, the PartStockTransaction ledger, transfers between           *)
(* locations, physical counts, manual adjustments and the parts a          *)
(* completed repair uses up.                                               *)
(*                                                                         *)
(* Every prisma.$transaction is one action.  Handlers that read first and  *)
(* write later (reserveJobPartAction with its backfill, updateJob with the *)
(* consumption that follows it) are requests with a program counter, and   *)
(* other handlers run between their steps.                                 *)
(***************************************************************************)
EXTENDS Integers, FiniteSets, UnitTotals

CONSTANTS
    Parts,            \* parts in the catalogue
    Locations,        \* stock locations, numbered in creation order
    Closable,         \* the locations somebody may deactivate
    Jobs,             \* repair jobs
    PaidJobs,         \* jobs with a payment: deleteJobAction refuses them
    Reservations,     \* ids of PartReservation rows
    Transfers,        \* ids of StockTransfer rows
    Counts,           \* ids of StockCount rows
    Requests,         \* concurrent reserveJobPartAction and parts/create calls
    Updates,          \* concurrent updateJob calls
    MaxQty,           \* bound: largest quantity a form asks for
    MaxOpening,       \* bound: largest opening quantity of a part
    MaxEdits          \* bound: adjustments, receipts, issues, quotes and part switches

ASSUME CatalogueAssumption == Parts # {} /\ Jobs # {}
ASSUME LocationsAssumption == Locations \subseteq Nat /\ Locations # {} /\ IsFiniteSet(Locations)
ASSUME ClosableAssumption == Closable \subseteq Locations
ASSUME PaidJobsAssumption == PaidJobs \subseteq Jobs
ASSUME ReservationsAssumption == IsFiniteSet(Reservations)
ASSUME TransfersAssumption == IsFiniteSet(Transfers)
ASSUME BoundsAssumption == MaxQty \in Nat \ {0} /\ MaxOpening \in Nat /\ MaxEdits \in Nat

VARIABLES
    qtyOnHand,        \* Part.qtyOnHand
    qtyReserved,      \* Part.qtyReserved
    locationStock,    \* PartLocationStock rows; an absent row reads as zeros
    ledger,           \* per part, the signed sum of its PartStockTransaction rows
    reservation,      \* PartReservation rows
    job,              \* per job: OPEN, COMPLETED or DELETED
    quote,            \* per job, the part lines of its latest ACCEPTED quotation
    consumeRow,       \* jobs with a ledger row whose reason starts REPAIR_CONSUME
    transfer,         \* StockTransfer rows
    count,            \* StockCount rows
    activeLocations,  \* locations with isActive
    inactiveParts,    \* parts with isActive = false
    request,          \* reserveJobPartAction and parts/create calls in flight
    update,           \* updateJob calls in flight
    edits,            \* how much of MaxEdits is used up
    opening,          \* history: opening quantity of each part
    signLost,         \* history: what unsigned ADJUST rows overstate, per part
    unlogged,         \* history: what re-creating a part changed its total by
    stranded,         \* history: reservations deleted while RESERVED
    quoteConsumed     \* history: per job, runs that consumed its quoted parts

stockVars   == <<qtyOnHand, qtyReserved, locationStock, ledger, signLost>>
holdVars    == <<reservation, stranded>>
jobVars     == <<job, quote, consumeRow, quoteConsumed>>
documentVars == <<transfer, count>>
masterVars  == <<activeLocations, inactiveParts, unlogged>>
callVars    == <<request, update>>
vars == <<qtyOnHand, qtyReserved, locationStock, ledger, reservation, job, quote,
          consumeRow, transfer, count, activeLocations, inactiveParts, request,
          update, edits, opening, signLost, unlogged, stranded, quoteConsumed>>

Quantities == 1..MaxQty

NoRow == [exists |-> FALSE, onHand |-> 0, reserved |-> 0]
\* Unused ids: their other fields are never read.
SomePart == CHOOSE p \in Parts : TRUE
SomeJob == CHOOSE j \in Jobs : TRUE
SomeLocation == CHOOSE l \in Locations : TRUE
NoReservation == [status |-> "NONE", part |-> SomePart, job |-> SomeJob, qty |-> 1,
                  recent |-> FALSE]
NoTransfer == [status |-> "NONE", part |-> SomePart, from |-> SomeLocation,
               to |-> SomeLocation, qty |-> 1]
NoCount == [status |-> "NONE", location |-> SomeLocation,
            variance |-> [p \in Parts |-> 0]]
NoRequest == [pc |-> "idle", part |-> SomePart, location |-> SomeLocation,
              job |-> SomeJob, qty |-> 1, onHand |-> 0, reserved |-> 0]
NoUpdate == [pc |-> "idle", job |-> SomeJob, next |-> "OPEN"]

-----------------------------------------------------------------------------
(* Statements of the transactions.  A definition that stands just before one it  *)
(* resembles is its mutated form: what a plausible bug would make of it.  *)

\* partLocationStock.upsert of one row: creating it with the deltas and
\* incrementing an existing row by them are the same thing on zeros.
UpsertRowReplacing(p, l, onHand, reserved) ==
    locationStock' = [locationStock EXCEPT ![p][l] =
        [exists |-> TRUE, onHand |-> onHand, reserved |-> reserved]]

UpsertRow(p, l, onHand, reserved) ==
    locationStock' = [locationStock EXCEPT ![p][l] =
        [exists |-> TRUE, onHand |-> @.onHand + onHand, reserved |-> @.reserved + reserved]]

\* part.update with increments of the two totals.
IncrementPartClamped(p, onHand, reserved) ==
    /\ qtyOnHand' = [qtyOnHand EXCEPT ![p] = IF @ + onHand < 0 THEN 0 ELSE @ + onHand]
    /\ qtyReserved' = [qtyReserved EXCEPT ![p] = @ + reserved]

IncrementPart(p, onHand, reserved) ==
    /\ qtyOnHand' = [qtyOnHand EXCEPT ![p] = @ + onHand]
    /\ qtyReserved' = [qtyReserved EXCEPT ![p] = @ + reserved]

\* partStockTransaction.create: IN counts up, OUT down, ADJUST as logged.
AppendLedger(p, signedQty) == ledger' = [ledger EXCEPT ![p] = @ + signedQty]

Available(p, l) == locationStock[p][l].onHand - locationStock[p][l].reserved

\* The job page posts the oldest active location with every parts form.
PanelLocation == CHOOSE l \in activeLocations : \A m \in activeLocations : l <= m
HasPanel == activeLocations # {}

UseEdit == edits < MaxEdits /\ edits' = edits + 1

-----------------------------------------------------------------------------
Init ==
    /\ opening \in [Parts -> 0..MaxOpening]
    /\ qtyOnHand = opening
    /\ qtyReserved = [p \in Parts |-> 0]
    /\ locationStock = [p \in Parts |-> [l \in Locations |-> NoRow]]
    /\ ledger = [p \in Parts |-> 0]
    /\ reservation = [r \in Reservations |-> NoReservation]
    /\ job = [j \in Jobs |-> "OPEN"]
    /\ quote = [j \in Jobs |-> [p \in Parts |-> 0]]
    /\ consumeRow = {}
    /\ transfer = [t \in Transfers |-> NoTransfer]
    /\ count = [k \in Counts |-> NoCount]
    /\ activeLocations = Locations
    /\ inactiveParts = {}
    /\ request = [c \in Requests |-> NoRequest]
    /\ update = [u \in Updates |-> NoUpdate]
    /\ edits = 0
    /\ signLost = [p \in Parts |-> 0]
    /\ unlogged = [p \in Parts |-> 0]
    /\ stranded = {}
    /\ quoteConsumed = [j \in Jobs |-> 0]

-----------------------------------------------------------------------------
(* reserveJobPartAction: duplicate check, backfill, reservation.  The three  *)
(* backfill statements and the reservation are separate transactions.        *)

\* The form is posted from the job page.  A RESERVED row for the same job, part
\* and quantity made in the last seconds answers it without a new reservation.
SubmitReserve(c, p, j, q) ==
    /\ request[c].pc = "idle" /\ HasPanel
    /\ job[j] # "DELETED"
    /\ ~ \E r \in Reservations : /\ reservation[r].status = "RESERVED"
                                 /\ reservation[r].part = p /\ reservation[r].job = j
                                 /\ reservation[r].qty = q /\ reservation[r].recent
    /\ request' = [request EXCEPT ![c] =
           [pc |-> "count", part |-> p, location |-> PanelLocation, job |-> j, qty |-> q,
            onHand |-> 0, reserved |-> 0]]
    /\ UNCHANGED <<stockVars, holdVars, jobVars, documentVars, masterVars, update, edits, opening>>

\* backfillLocationStock, first statement: any row at all ends the backfill.
CountLocationRows(c) ==
    /\ request[c].pc = "count"
    /\ LET rows == {l \in Locations : locationStock[request[c].part][l].exists}
       IN request' = [request EXCEPT ![c].pc = IF rows = {} THEN "read" ELSE "reserve"]
    /\ UNCHANGED <<stockVars, holdVars, jobVars, documentVars, masterVars, update, edits, opening>>

\* Second statement: the totals it will copy.
ReadPartTotals(c) ==
    /\ request[c].pc = "read"
    /\ LET p == request[c].part
       IN request' = [request EXCEPT ![c] =
              IF qtyOnHand[p] <= 0 THEN [@ EXCEPT !.pc = "reserve"]
              ELSE [@ EXCEPT !.pc = "create", !.onHand = qtyOnHand[p],
                                              !.reserved = qtyReserved[p]]]
    /\ UNCHANGED <<stockVars, holdVars, jobVars, documentVars, masterVars, update, edits, opening>>

\* Third statement: the row, from the totals read before.
CreateLocationRow(c) ==
    LET p == request[c].part  l == request[c].location IN
    /\ request[c].pc = "create"
    /\ ~ locationStock[p][l].exists
    /\ UpsertRow(p, l, request[c].onHand, request[c].reserved)
    /\ request' = [request EXCEPT ![c].pc = "reserve"]
    /\ UNCHANGED <<qtyOnHand, qtyReserved, ledger, signLost, holdVars, jobVars, documentVars,
                   masterVars, update, edits, opening>>

\* reserveForJob.  The job reference must still resolve when the row is made.
ReserveForJob(c, r) ==
    LET p == request[c].part  l == request[c].location  q == request[c].qty IN
    /\ request[c].pc = "reserve"
    /\ job[request[c].job] # "DELETED"
    /\ Available(p, l) >= q
    /\ reservation[r].status = "NONE"
    /\ reservation' = [reservation EXCEPT ![r] =
           [status |-> "RESERVED", part |-> p, job |-> request[c].job, qty |-> q,
            recent |-> TRUE]]
    /\ UpsertRow(p, l, 0, q)
    /\ IncrementPart(p, 0, q)
    /\ request' = [request EXCEPT ![c].pc = "idle"]
    /\ UNCHANGED <<ledger, signLost, stranded, jobVars, documentVars, masterVars, update,
                   edits, opening>>

\* The unique row already exists, the stock is short, the job is gone, or the
\* server dies: the request ends where it is and what it wrote stays.
EndRequest(c) ==
    /\ request[c].pc # "idle"
    /\ request' = [request EXCEPT ![c].pc = "idle"]
    /\ UNCHANGED <<stockVars, holdVars, jobVars, documentVars, masterVars, update, edits, opening>>

\* Ten seconds pass: the reservation no longer counts as a double submission.
DedupWindowPasses(r) ==
    /\ reservation[r].recent
    /\ reservation' = [reservation EXCEPT ![r].recent = FALSE]
    /\ UNCHANGED <<stockVars, stranded, jobVars, documentVars, masterVars, callVars, edits, opening>>

-----------------------------------------------------------------------------
(* Settling a reservation, at the location the page shows by then. *)

\* Both refuse a reservation that is CONSUMED or RELEASED already.
NotReleased(r) == reservation[r].status \in {"RESERVED", "CONSUMED"}
IsLive(r) == reservation[r].status = "RESERVED"

\* consumeReservation.
ConsumeReservation(r) ==
    LET p == reservation[r].part  q == reservation[r].qty IN
    /\ HasPanel
    /\ IsLive(r)
    /\ reservation' = [reservation EXCEPT ![r].status = "CONSUMED", ![r].recent = FALSE]
    /\ UpsertRow(p, PanelLocation, -q, -q)
    /\ AppendLedger(p, -q)
    /\ consumeRow' = consumeRow \cup {reservation[r].job}
    /\ IncrementPart(p, -q, -q)
    /\ UNCHANGED <<signLost, stranded, job, quote, quoteConsumed, documentVars, masterVars,
                   callVars, edits, opening>>

\* releaseReservation.
ReleaseReservation(r) ==
    LET p == reservation[r].part  q == reservation[r].qty IN
    /\ HasPanel
    /\ IsLive(r)
    /\ reservation' = [reservation EXCEPT ![r].status = "RELEASED", ![r].recent = FALSE]
    /\ UpsertRow(p, PanelLocation, 0, -q)
    /\ IncrementPart(p, 0, -q)
    /\ UNCHANGED <<ledger, signLost, stranded, jobVars, documentVars, masterVars, callVars,
                   edits, opening>>

\* deleteJobAction: the delete cascades to the job's reservations.
DeleteJob(j) ==
    /\ job[j] # "DELETED" /\ j \notin PaidJobs
    /\ job' = [job EXCEPT ![j] = "DELETED"]
    /\ stranded' = stranded \cup {r \in Reservations : reservation[r].job = j
                                                     /\ reservation[r].status = "RESERVED"}
    /\ reservation' = [r \in Reservations |->
           IF reservation[r].job = j /\ reservation[r].status # "NONE"
           THEN [reservation[r] EXCEPT !.status = "DELETED", !.recent = FALSE]
           ELSE reservation[r]]
    /\ consumeRow' = consumeRow \ {j}
    /\ UNCHANGED <<stockVars, quote, quoteConsumed, documentVars, masterVars, callVars, edits,
                   opening>>

-----------------------------------------------------------------------------
(* updateJob: the status is read, written, and on completion the quoted parts *)
(* are consumed, each in a statement of its own.                              *)

\* A customer accepts a quotation; the newest accepted one is the one consumed.
AcceptQuotation(j, p, q) ==
    /\ UseEdit
    /\ job[j] # "DELETED"
    /\ quote' = [quote EXCEPT ![j] = [x \in Parts |-> IF x = p THEN q ELSE 0]]
    /\ UNCHANGED <<stockVars, holdVars, job, consumeRow, quoteConsumed, documentVars,
                   masterVars, callVars, opening>>

\* No status leads out of COMPLETED, so only a request that read the job before
\* it was completed goes on.
ReadJob(u, j, next) ==
    /\ update[u].pc = "idle"
    /\ job[j] = "OPEN"
    /\ update' = [update EXCEPT ![u] = [pc |-> "write", job |-> j, next |-> next]]
    /\ UNCHANGED <<stockVars, holdVars, jobVars, documentVars, masterVars, request, edits, opening>>

\* job.update is not conditional on the status read.
WriteJob(u) ==
    LET j == update[u].job IN
    /\ update[u].pc = "write"
    /\ job[j] # "DELETED"
    /\ job' = [job EXCEPT ![j] = update[u].next]
    /\ update' = [update EXCEPT ![u].pc = IF update[u].next = "COMPLETED"
                                          THEN "consume" ELSE "idle"]
    /\ UNCHANGED <<stockVars, holdVars, quote, consumeRow, quoteConsumed, documentVars,
                   masterVars, request, edits, opening>>

\* The lines of the accepted quotation whose part is still active.
QuotedParts(j) == {p \in Parts \ inactiveParts : quote[j][p] > 0}

\* Any ledger row of the job whose reason starts with REPAIR_CONSUME.
NeverConsumed(j) == FALSE
AlreadyConsumed(j) == j \in consumeRow

\* consumeRepairPartsForJob.
ConsumeRepairParts(u) ==
    LET j == update[u].job
        fitted == IF job[j] = "DELETED" \/ AlreadyConsumed(j) THEN {} ELSE QuotedParts(j)
        taken == [p \in Parts |-> IF p \in fitted THEN quote[j][p] ELSE 0]
    IN
    /\ update[u].pc = "consume"
    /\ qtyOnHand' = [p \in Parts |-> qtyOnHand[p] - taken[p]]
    /\ ledger' = [p \in Parts |-> ledger[p] - taken[p]]
    /\ IF fitted = {} THEN UNCHANGED <<consumeRow, quoteConsumed>>
       ELSE /\ consumeRow' = consumeRow \cup {j}
            /\ quoteConsumed' = [quoteConsumed EXCEPT ![j] = @ + 1]
    /\ update' = [update EXCEPT ![u].pc = "invoice"]
    /\ UNCHANGED <<qtyReserved, locationStock, signLost, holdVars, job, quote, documentVars,
                   masterVars, request, edits, opening>>

\* The request is over: its invoice is made, it failed, or the server died.
EndUpdate(u) ==
    /\ update[u].pc # "idle"
    /\ update' = [update EXCEPT ![u].pc = "idle"]
    /\ UNCHANGED <<stockVars, holdVars, jobVars, documentVars, masterVars, request, edits, opening>>

-----------------------------------------------------------------------------
(* Stock transfers move a part between two locations. *)

TransferTo(t, status) == transfer' = [transfer EXCEPT ![t].status = status]

CreateTransfer(t, p, from, to, q) ==
    /\ transfer[t].status = "NONE"
    /\ from # to /\ {from, to} \subseteq activeLocations /\ p \notin inactiveParts
    /\ transfer' = [transfer EXCEPT ![t] =
           [status |-> "REQUESTED", part |-> p, from |-> from, to |-> to, qty |-> q]]
    /\ UNCHANGED <<stockVars, holdVars, jobVars, count, masterVars, callVars, edits, opening>>

ApproveTransfer(t) ==
    /\ transfer[t].status = "REQUESTED"
    /\ TransferTo(t, "APPROVED")
    /\ UNCHANGED <<stockVars, holdVars, jobVars, count, masterVars, callVars, edits, opening>>

CancelTransfer(t) ==
    /\ transfer[t].status \in {"REQUESTED", "APPROVED"}
    /\ TransferTo(t, "CANCELLED")
    /\ UNCHANGED <<stockVars, holdVars, jobVars, count, masterVars, callVars, edits, opening>>

\* The goods leave the source row; Part.qtyOnHand keeps counting them.
DispatchTransfer(t) ==
    LET p == transfer[t].part  q == transfer[t].qty IN
    /\ transfer[t].status = "APPROVED"
    /\ Available(p, transfer[t].from) >= q
    /\ UpsertRow(p, transfer[t].from, -q, 0)
    /\ AppendLedger(p, -q)
    /\ TransferTo(t, "DISPATCHED")
    /\ UNCHANGED <<qtyOnHand, qtyReserved, signLost, holdVars, jobVars, count, masterVars,
                   callVars, edits, opening>>

ReceiveTransfer(t) ==
    LET p == transfer[t].part  q == transfer[t].qty IN
    /\ transfer[t].status = "DISPATCHED"
    /\ UpsertRow(p, transfer[t].to, q, 0)
    /\ AppendLedger(p, q)
    /\ TransferTo(t, "RECEIVED")
    /\ UNCHANGED <<qtyOnHand, qtyReserved, signLost, holdVars, jobVars, count, masterVars,
                   callVars, edits, opening>>

-----------------------------------------------------------------------------
(* Physical counts: the variance is fixed when the count is submitted and     *)
(* applied, whatever the stock is by then, when it is approved.               *)

CreateCount(k, l, counted) ==
    /\ count[k].status = "NONE"
    /\ l \in activeLocations /\ DOMAIN counted # {} /\ DOMAIN counted \cap inactiveParts = {}
    /\ count' = [count EXCEPT ![k] =
           [status |-> "SUBMITTED", location |-> l,
            variance |-> [p \in Parts |-> IF p \in DOMAIN counted
                                          THEN counted[p] - locationStock[p][l].onHand
                                          ELSE 0]]]
    /\ UNCHANGED <<stockVars, holdVars, jobVars, transfer, masterVars, callVars, edits, opening>>

CancelCount(k) ==
    /\ count[k].status = "SUBMITTED"
    /\ count' = [count EXCEPT ![k].status = "CANCELLED"]
    /\ UNCHANGED <<stockVars, holdVars, jobVars, transfer, masterVars, callVars, edits, opening>>

\* One line that would go negative rolls the whole approval back.
ApproveCount(k) ==
    LET l == count[k].location
        variance == count[k].variance
        changed == {p \in Parts : variance[p] # 0}
    IN
    /\ count[k].status = "SUBMITTED"
    /\ \A p \in changed : locationStock[p][l].onHand + variance[p] >= 0
    /\ locationStock' = [p \in Parts |->
           IF p \in changed
           THEN [locationStock[p] EXCEPT ![l] =
                    [exists |-> TRUE, onHand |-> @.onHand + variance[p],
                     reserved |-> @.reserved]]
           ELSE locationStock[p]]
    /\ qtyOnHand' = [p \in Parts |-> qtyOnHand[p] + variance[p]]
    /\ ledger' = [p \in Parts |-> ledger[p] + variance[p]]
    /\ count' = [count EXCEPT ![k].status = "APPROVED"]
    /\ UNCHANGED <<qtyReserved, signLost, holdVars, jobVars, transfer, masterVars, callVars,
                   edits, opening>>

-----------------------------------------------------------------------------
(* Edits of one part: adjustStockAction and the library's receive, issue and  *)
(* adjust.                                                                    *)

\* adjustStockAction, IN and OUT and a signed ADJUST: it touches Part only, and
\* logs the magnitude.  The running balance of the part page adds every row that
\* is not OUT, so a negative ADJUST is overstated by twice its size.
AdjustStock(p, type, qty) ==
    LET delta == CASE type = "IN" -> qty [] type = "OUT" -> -qty [] OTHER -> qty
        logged == IF type = "ADJUST" /\ qty < 0 THEN -qty ELSE delta
    IN
    /\ UseEdit
    /\ qty # 0 /\ (type # "ADJUST" => qty > 0)
    /\ qtyOnHand[p] + delta >= 0
    /\ IncrementPart(p, delta, 0)
    /\ AppendLedger(p, logged)
    /\ signLost' = [signLost EXCEPT ![p] = @ + (logged - delta)]
    /\ UNCHANGED <<locationStock, holdVars, jobVars, documentVars, masterVars, callVars, opening>>

\* adjustStockAction with correctTo: set the total, log the size of the change.
CorrectStock(p, target) ==
    LET delta == target - qtyOnHand[p]
        logged == IF delta < 0 THEN -delta ELSE delta
    IN
    /\ UseEdit
    /\ delta # 0
    /\ IncrementPart(p, delta, 0)
    /\ AppendLedger(p, logged)
    /\ signLost' = [signLost EXCEPT ![p] = @ + (logged - delta)]
    /\ UNCHANGED <<locationStock, holdVars, jobVars, documentVars, masterVars, callVars, opening>>

\* receiveStock, issueStock and applyAdjustment move a row and the total together.
MoveAtLocation(p, l, delta) ==
    /\ UseEdit
    /\ UpsertRow(p, l, delta, 0)
    /\ AppendLedger(p, delta)
    /\ IncrementPart(p, delta, 0)
    /\ UNCHANGED <<signLost, holdVars, jobVars, documentVars, masterVars, callVars, opening>>

ReceiveStock(p, l, q) == MoveAtLocation(p, l, q)

IssueStock(p, l, q) == Available(p, l) >= q /\ MoveAtLocation(p, l, -q)

ApplyAdjustment(p, l, system, counted) ==
    /\ counted # system
    /\ locationStock[p][l].onHand + (counted - system) >= 0
    /\ MoveAtLocation(p, l, counted - system)

\* toggleStockLocationAction.
ToggleLocation(l) ==
    /\ l \in Closable
    /\ activeLocations' = IF l \in activeLocations THEN activeLocations \ {l}
                          ELSE activeLocations \cup {l}
    /\ UNCHANGED <<stockVars, holdVars, jobVars, documentVars, inactiveParts, unlogged, callVars,
                   edits, opening>>

\* togglePartActiveAction; createPartAction on the SKU of a deleted part switches it
\* on in the same way and drops the quantity its form asked for.
TogglePart(p) ==
    /\ UseEdit
    /\ inactiveParts' = IF p \in inactiveParts THEN inactiveParts \ {p}
                        ELSE inactiveParts \cup {p}
    /\ UNCHANGED <<stockVars, holdVars, jobVars, documentVars, activeLocations, unlogged, callVars,
                   opening>>

-----------------------------------------------------------------------------
(* The quick add of the document editor, POST api/parts/create: a SKU that belongs *)
(* to a deleted part is looked up and then written, outside a transaction.     *)

FindDeletedPart(c, p) ==
    /\ request[c].pc = "idle"
    /\ p \in inactiveParts
    /\ request' = [request EXCEPT ![c] = [NoRequest EXCEPT !.pc = "recreate", !.part = p]]
    /\ UNCHANGED <<stockVars, holdVars, jobVars, documentVars, masterVars, update, edits, opening>>

\* The total becomes what the form says, whatever it is by then: neither the ledger
\* nor the location rows nor the reserved total hear of it.
RecreatePart(c, q) ==
    LET p == request[c].part IN
    /\ request[c].pc = "recreate"
    /\ qtyOnHand' = [qtyOnHand EXCEPT ![p] = q]
    /\ unlogged' = [unlogged EXCEPT ![p] = @ + (q - qtyOnHand[p])]
    /\ inactiveParts' = inactiveParts \ {p}
    /\ request' = [request EXCEPT ![c].pc = "idle"]
    /\ UNCHANGED <<qtyReserved, locationStock, ledger, signLost, holdVars, jobVars, documentVars,
                   activeLocations, update, edits, opening>>

-----------------------------------------------------------------------------
Reserving ==
    \/ \E c \in Requests, p \in Parts, j \in Jobs, q \in Quantities : SubmitReserve(c, p, j, q)
    \/ \E c \in Requests : CountLocationRows(c)
    \/ \E c \in Requests : ReadPartTotals(c)
    \/ \E c \in Requests : CreateLocationRow(c)
    \/ \E c \in Requests, r \in Reservations : ReserveForJob(c, r)
    \/ \E c \in Requests : EndRequest(c)
    \/ \E r \in Reservations : DedupWindowPasses(r)

Settling ==
    \/ \E r \in Reservations : ConsumeReservation(r)
    \/ \E r \in Reservations : ReleaseReservation(r)
    \/ \E j \in Jobs : DeleteJob(j)

Repairing ==
    \/ \E j \in Jobs, p \in Parts, q \in Quantities : AcceptQuotation(j, p, q)
    \/ \E u \in Updates, j \in Jobs, next \in {"OPEN", "COMPLETED"} : ReadJob(u, j, next)
    \/ \E u \in Updates : WriteJob(u)
    \/ \E u \in Updates : ConsumeRepairParts(u)
    \/ \E u \in Updates : EndUpdate(u)

Transferring ==
    \/ \E t \in Transfers, p \in Parts, from, to \in Locations, q \in Quantities :
           CreateTransfer(t, p, from, to, q)
    \/ \E t \in Transfers : ApproveTransfer(t)
    \/ \E t \in Transfers : CancelTransfer(t)
    \/ \E t \in Transfers : DispatchTransfer(t)
    \/ \E t \in Transfers : ReceiveTransfer(t)

Counting ==
    \/ \E k \in Counts, l \in Locations, lines \in SUBSET Parts :
           \E counted \in [lines -> 0..MaxQty] : CreateCount(k, l, counted)
    \/ \E k \in Counts : CancelCount(k)
    \/ \E k \in Counts : ApproveCount(k)

Editing ==
    \/ \E p \in Parts, q \in Quantities : AdjustStock(p, "IN", q)
    \/ \E p \in Parts, q \in Quantities : AdjustStock(p, "OUT", q)
    \/ \E p \in Parts, q \in (-MaxQty)..MaxQty : AdjustStock(p, "ADJUST", q)
    \/ \E p \in Parts, target \in 0..MaxQty : CorrectStock(p, target)
    \/ \E p \in Parts, l \in Locations, q \in Quantities : ReceiveStock(p, l, q)
    \/ \E p \in Parts, l \in Locations, q \in Quantities : IssueStock(p, l, q)
    \/ \E p \in Parts, l \in Locations, system, counted \in 0..MaxQty :
           ApplyAdjustment(p, l, system, counted)
    \/ \E l \in Locations : ToggleLocation(l)
    \/ \E p \in Parts : TogglePart(p)

Recreating ==
    \/ \E c \in Requests, p \in Parts : FindDeletedPart(c, p)
    \/ \E c \in Requests, q \in 0..MaxQty : RecreatePart(c, q)

Next == Reserving \/ Settling \/ Repairing \/ Transferring \/ Counting \/ Editing \/ Recreating

Spec == Init /\ [][Next]_vars

-----------------------------------------------------------------------------
(* Properties *)

Rows == [exists : BOOLEAN, onHand : Int, reserved : Int]
ReservationStatuses == {"NONE", "RESERVED", "CONSUMED", "RELEASED", "DELETED"}
ReservationRows == [status : ReservationStatuses, part : Parts, job : Jobs, qty : Quantities,
                    recent : BOOLEAN]
TransferStatuses == {"NONE", "REQUESTED", "APPROVED", "DISPATCHED", "RECEIVED", "CANCELLED"}
TransferRows == [status : TransferStatuses, part : Parts, from : Locations, to : Locations,
                 qty : Quantities]
CountRows == [status : {"NONE", "SUBMITTED", "APPROVED", "CANCELLED"}, location : Locations,
              variance : [Parts -> Int]]
RequestStates == [pc : {"idle", "count", "read", "create", "reserve", "recreate"}, part : Parts,
                  location : Locations, job : Jobs, qty : Quantities, onHand : Int,
                  reserved : Int]
UpdateStates == [pc : {"idle", "write", "consume", "invoice"}, job : Jobs, next : {"OPEN", "COMPLETED"}]

StockType ==
    /\ qtyOnHand \in [Parts -> Int]
    /\ qtyReserved \in [Parts -> Int]
    /\ locationStock \in [Parts -> [Locations -> Rows]]
    /\ ledger \in [Parts -> Int]
    /\ signLost \in [Parts -> Int]
HoldType == reservation \in [Reservations -> ReservationRows] /\ stranded \subseteq Reservations
JobType ==
    /\ job \in [Jobs -> {"OPEN", "COMPLETED", "DELETED"}]
    /\ quote \in [Jobs -> [Parts -> 0..MaxQty]]
    /\ consumeRow \subseteq Jobs
    /\ quoteConsumed \in [Jobs -> Nat]
DocumentType == transfer \in [Transfers -> TransferRows] /\ count \in [Counts -> CountRows]
MasterType ==
    /\ activeLocations \subseteq Locations /\ inactiveParts \subseteq Parts
    /\ unlogged \in [Parts -> Int]
CallType == request \in [Requests -> RequestStates] /\ update \in [Updates -> UpdateStates]

\* Every variable holds what the schema and the handlers' locals can hold.
TypeOK ==
    /\ StockType /\ HoldType /\ JobType /\ DocumentType /\ MasterType /\ CallType
    /\ edits \in Nat /\ opening \in [Parts -> Nat]

\* The reservations that hold units of a part: the live ones, and those deleted
\* with their job while they were live.
HeldRows(p) == {r \in Reservations : /\ reservation[r].part = p
                                     /\ reservation[r].status = "RESERVED" \/ r \in stranded}
Held(p) == Total(HeldRows(p), [r \in Reservations |-> reservation[r].qty])

\* The units of a part on the road between two locations.
TransitRows(p) == {t \in Transfers : transfer[t].status = "DISPATCHED" /\ transfer[t].part = p}
InTransit(p) == Total(TransitRows(p), [t \in Transfers |-> transfer[t].qty])

\* Part.qtyReserved is exactly what reservations hold, through concurrent
\* reservations, racing backfills, settlements at another location and job
\* deletion (whose reservations go on being counted).
ReservedMatchesReservations ==
    \A p \in Parts : qtyReserved[p] = Held(p)

\* Part.qtyOnHand is the opening quantity plus every ledger row, goods in transit
\* included, once the sign that ADJUST rows lose is put back.  One path alone moves the
\* total without a row: re-creating a deleted part, and by no more than it overwrote.
LedgerExplainsOnHand ==
    \A p \in Parts :
        qtyOnHand[p] = opening[p] + ledger[p] - signLost[p] + unlogged[p] + InTransit(p)

\* However many completions race, a job's quoted parts leave stock once.
QuoteConsumedOnce == \A j \in Jobs : quoteConsumed[j] <= 1

\* What locations and the road account for.
RowsOnHand(p) == SignedTotal(Locations, [l \in Locations |-> locationStock[p][l].onHand])
RowsReserved(p) == SignedTotal(Locations, [l \in Locations |-> locationStock[p][l].reserved])
Attributed(p) == RowsOnHand(p) + InTransit(p)
Backfills(p) == \E c \in Requests : /\ request[c].pc = "create" /\ request[c].part = p
                                    /\ request'[c].pc = "reserve"

\* The location rows and goods in transit follow the part total: apart from the
\* backfill, a step that changes what locations account for changes the part
\* total by exactly as much, so a transfer never creates or loses stock.
LocationsFollowPart ==
    [][\A p \in Parts : LET moved == Attributed(p)' - Attributed(p)
                        IN moved = 0 \/ moved = qtyOnHand'[p] - qtyOnHand[p] \/ Backfills(p)]_vars

\* While one location serves the job page, the rows' reserved quantities add up
\* to Part.qtyReserved, even when two backfills race for the same row.
RowsAddUpToReserved ==
    Closable = {} => \A p \in Parts : qtyReserved[p] = RowsReserved(p)

\* The stock book these tables keep: the ledger with its lost signs put back.
booked == [p \in Parts |-> opening[p] + ledger[p] - signLost[p]]
transit == [p \in Parts |-> InTransit(p)]
Book == INSTANCE StockBook WITH onHand <- qtyOnHand, transit <- transit, booked <- booked,
                                slipped <- unlogged

\* Every operation on parts implements the stock book: a change of the total has
\* its entry, or is the one overwrite that has none, and only a transfer takes goods
\* on the road and off it again.
ImplementsStockBook == Book!Spec

(* What comments and tests of the code say, and the code does not keep. *)

\* inventory-service.ts:13: every stock mutation appends a ledger row.  Re-creating a
\* deleted part overwrites its total and appends none.
EveryMutationAppends ==
    [][\A p \in Parts : qtyOnHand'[p] # qtyOnHand[p] => ledger'[p] # ledger[p]]_vars

\* parts-actions.ts:98: a row is invented for a part only when it has none.
BackfillOnlyUnattributed ==
    [][\A p \in Parts : Backfills(p) => \A l \in Locations : ~locationStock[p][l].exists]_vars

\* consume-repair-parts.ts:8 and :27: a completion that finds quoted parts takes
\* them from stock once, and reservation rows do not make it skip.
CompletionTakesQuotedParts ==
    [][\A u \in Updates :
        LET j == update[u].job IN
        ( /\ update[u].pc = "consume" /\ update'[u].pc = "invoice"
          /\ job[j] # "DELETED"
          /\ QuotedParts(j) # {} )
        => quoteConsumed'[j] >= 1]_vars
=============================================================================
