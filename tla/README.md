# A verification model of Eagle Info Repair Manager (MRMS)

The repository is a multi-tenant web application for electronics repair shops:
repair jobs, parts stock, quotations, invoices, a point of sale, purchase
orders, expenses, messages to customers, and the subscription the shop pays.
It is a Next.js application on Prisma over SQLite/Turso. There is no long-lived
process: every behaviour is a server action, an API route, a page render or a
scheduled request, and they meet only in the database.

This directory holds TLA+ models of its core logic, the TLC runs that check
them on small instances, and TLAPS proofs of what matters most for every
instance. Paths below are relative to `src/`.

## 1. Inventory

### How the parts interact

* **Shared state** is the database. Components call each other as functions
  (`updateJob` calls `consumeRepairPartsForJob`, a status change enqueues an
  `OutboundMessage`), sometimes inside the caller's transaction, often after it.
* **Two ledgers** tie the components together. What moves stock writes
  `Part.qtyOnHand` and a `PartStockTransaction` row, with one exception: the quick
  add of the document editor (`api/parts/create/route.ts:61`), given the SKU of a
  deleted part, overwrites its total and writes no row. What moves money posts a
  journal entry under a reference that posts once, except an expense paid from the
  payables page, which posts none.
* **Transactions.** `prisma.$transaction` serialises writes
  (`lib/dedup.ts:9`), so one transaction is one atomic action here. Returning
  from its callback commits, only throwing rolls back. A handler that makes
  several statements outside a transaction is *not* atomic: it is modelled as a
  process with a program counter, and every other handler may run in between.
  Most of the code's hazards are of one kind: a check before the transaction
  that the transaction does not repeat.
* **Schedules** (`vercel.json`): payables with recurring expenses and the
  subscription sweep at 06:00, the message sweep at 07:00, reminders. A
  scheduled execution may overlap anything, and the platform may kill it.
* **Outside services**: Pesapal (payments, by callback *and* webhook, each
  possibly repeated), the WhatsApp and e-mail providers.

### Components

| Component | State | Operations | What is hard | What makes it correct |
|---|---|---|---|---|
| Stock ledger and reservations (`lib/inventory-service.ts`, `lib/inventory/*`, `app/(app)/inventory/*`, `jobs/[id]/parts-actions.ts`) | `Part` totals, `PartLocationStock` rows, `PartReservation`, `PartStockTransaction`, `StockTransfer`, `StockCount` | reserve, consume, release, transfer, count, adjust, complete a repair, delete a job | reads outside transactions; a location chosen by a form rendered earlier; a ledger that forgets a sign | totals explained by ledger and by reservations; quoted parts leave once; transfers lose nothing |
| Purchase orders and goods received (`inventory/purchase-orders`, `inventory/supplier-bills`) | orders with lines, goods-received notes, bills | order, receive, reverse, bill, delete | guards and writes in different statements; an error return that commits | received at most ordered; notes, lines, stock and bills agree |
| Bills, expenses, payouts (`payout-followups`, `finance/expenses`, `lib/commercial/expense-payments.ts`) | rollups of paid amounts, payment rows, journal | pay singly and by the bucket, edit, delete, post | a list paid row by row after it was read; postings after the transaction | rollups add up; nobody is paid twice; books follow payments |
| Point of sale, returns (`pos/*`, `documents/credit-notes`, `documents/refunds`) | sales, lines, credit notes, payments, refunds, stock | sell, edit, delete, credit, take back, refund | read-then-delete; restocking guarded outside its transaction; sums asked before the write | nothing oversold; goods come back once; status and refunds follow money |
| Invoices and payments (`lib/commercial/payment-sync.ts`, `lib/commercial/document-workflow.ts`, pages and routes) | invoices, payments, refunds, receipts, stock, journal | issue, edit, pay, amend, refund, void | paid state recomputed from rows; bulk void; adjustments posted by difference | paid state equals the rows; a void restores once; books follow money |
| Recurring expenses (`lib/commercial/recurring-*.ts`, `api/cron/payables`) | schedules, issued expenses | daily run, button, pause, delete | check outside the transaction; calendar arithmetic | once a period; no month left out; always catches up |
| Outbound messages (`lib/notifications/whatsapp-outbox.ts`) | `OutboundMessage` rows: status, attempts, lock, due time | enqueue, deliver, sweep, retry, discard, cancel | no transaction anywhere; locks that expire; lost answers; dying workers | at most once unless disturbed; verdicts final; every row settles |
| Subscription (`lib/billing/*`, billing page, app shell, platform page) | plan, status, trial and renewal dates, last order on `Organization` | apply payment, lapse sweep, downgrade, trial, cancel, overrides | every handler reads, decides and later writes | an order counts once; no free time; a lapse is noticed |
| Job workflow (`jobs/*`) | job status, timeline, warranty, quotation | status changes, assignment | optimistic check not part of the write | only allowed transitions |
| Document numbers, reminders, statements, bank reconciliation, purchase requests, landed cost | counters, logs, forms | | little interleaving of their own | not modelled, section 9 |
| Background queue, tenancy, rate limits, backups, rendering, user interface | | | little state of their own | not modelled, section 9 |

The full list with statuses is `components` in `PROJECT.json`; what can go
wrong in this code and is hard to test is listed there under `hazards`, each at
its line, with the property that watches it or the reason none does.

## 2. Modules

| Module | Models | Proofs |
|---|---|---|
| `StockBook` | abstract: what everything that moves stock promises | |
| `UnitTotals` | sums over finite sets of rows, in a form proofs can use | `UnitTotals_proofs` |
| `Ledger` | the journal: post once, reverse once | |
| `PartStock` (uses `UnitTotals`) | stock ledger and reservations | `PartStock_proofs` |
| `GoodsReceipt` (uses `UnitTotals`) | purchase orders, goods-received notes, their bills | `GoodsReceipt_proofs` |
| `Payables` (uses `Ledger`, `UnitTotals`) | paying bills, expenses and technicians | `Payables_proofs` |
| `Till` (uses `UnitTotals`) | sales, returns, refunds | `Till_proofs` |
| `Invoicing` (uses `Ledger`, `UnitTotals`) | invoices, their stock, money and books | `Invoicing_proofs` |
| `Recurring` | schedules of recurring expenses | `Recurring_proofs` |
| `Outbox` | outbound message queue | `Services_proofs` |
| `Subscription` | subscription billing | `Services_proofs` |
| `MC*` | instances for TLC: model values and small sets | |

The composition is through the two ledgers. `StockBook` is an abstract
specification with a total per part, goods on the road and the balance of the
book; a step changes totals and book alike, or ships goods, which moves book and
road and leaves the total, or is the one overwrite that is in no book, whose
difference is kept apart in `slipped`. `PartStock`, `GoodsReceipt`, `Till` and
`Invoicing` each implement it under a refinement mapping (`ImplementsStockBook`);
`slipped` moves in `PartStock` alone. So the handlers of the shop together keep a
book that explains each total up to what re-creations of deleted parts overwrote.
`Ledger` is the journal as operators on a value, which `Payables` and
`Invoicing` hold in a variable. The other state of the components is disjoint:
a part's, an organisation's or a document's row is the unit of interaction, and
each module contains every handler it models that writes it. A re-creation may
also overwrite the total that `GoodsReceipt`, `Till` and `Invoicing` see as
`onHand`; there it would be one more sale or arrival of any size, and it is
modelled where the other operations on a deleted part are, in `PartStock`. `Outbox` and
`Subscription`, which wait for an outside service, have their proofs in one module;
the names that both would have carry a prefix in `Subscription`
(`SubscriptionInit`, `SubscriptionTypeOK`).

Each definition has its source lines in `PROJECT.json` under `map`. A definition
placed just before one it resembles (`NeverConsumed` before `AlreadyConsumed`,
`LockableWhenOpen` before `Lockable`) is a *mutated form*, a plausible bug. No
action uses it; substituting it for the real one makes a property fail, which
shows that the property looks at that code.

A handler that reads, decides and writes later is a *call* in all modules: the
read puts what it read in the call's record, the write uses it, `EndCall` lets a
check refuse it, its row be gone, or the server die. History variables (named so
where they are declared) are read by no guard; they name what disturbed a row,
so that a property can say exactly when the code keeps its promise.

### PartStock

State: `qtyOnHand`, `qtyReserved` and `locationStock` are the columns of the
same names. `ledger` is, per part, the signed sum of its
`PartStockTransaction` rows rather than the rows. Every model of a row's status
is the status column with `NONE` for an unused id. `request` and `update` hold
the local variables of calls in flight.

| Action | Code |
|---|---|
| `SubmitReserve`, `CountLocationRows`, `ReadPartTotals`, `CreateLocationRow`, `ReserveForJob`, `EndRequest` | `reserveJobPartAction`, `backfillLocationStock` (three statements) and `reserveForJob` (one transaction) |
| `ConsumeReservation`, `ReleaseReservation` | the two settlements, at the location the page posts by then |
| `DeleteJob` | `deleteJobAction`, with the cascade to reservations |
| `AcceptQuotation`, `ReadJob`, `WriteJob`, `ConsumeRepairParts`, `EndUpdate` | acceptance of a quotation; `updateJob`'s read, its unconditional write and `consumeRepairPartsForJob` |
| `CreateTransfer`, `ApproveTransfer`, `CancelTransfer`, `DispatchTransfer`, `ReceiveTransfer` | `inventory/transfers/actions.ts` |
| `CreateCount`, `CancelCount`, `ApproveCount` | `inventory/stock-counts/actions.ts` |
| `AdjustStock`, `CorrectStock`, `ReceiveStock`, `IssueStock`, `ApplyAdjustment`, `ToggleLocation`, `TogglePart` | the part page's adjustments, the library's movements and the two switches |
| `FindDeletedPart`, `RecreatePart` | `POST api/parts/create` with the SKU of a deleted part: the look-up and the write that overwrites its total |

`opening`, `signLost`, `unlogged`, `stranded` and `quoteConsumed` are history
variables. `signLost` holds what `ADJUST` rows logged by magnitude overstate;
`unlogged` what re-creating a part changed its total by, with no row; `stranded`
the reservations deleted with their job while live.

Abstractions: costs, names, users and audit rows are left out; a transfer and
the lines of a quotation carry one part each, as their lines do not interact; a
count carries any set of parts, because one bad line rolls it all back.

### GoodsReceipt

`status`, `received` and `note` are the rows of orders, their lines and the
goods-received notes, `worth` what the lines of an order come to, and `bill` the
rows of supplier bills: each for an order, a note, both or neither, at whatever the
lines of its form come to. `CheckBill` is everything `createSupplierBillAction` asks
before its transaction (the order is compared with only when it is worth anything),
`CreateBill` the transaction, which asks again about the note alone. `PerformReceipt` is
the whole of `performReceipt`: the clamp to what is still open, the note, stock
and order status. `Reverse` and `ReverseGivesUp` are the two outcomes of
`reverseGoodsReceivedAction`: the second is the `return { ok: false }` inside
the transaction callback, which commits the lines already taken back and, when
the shortage is at the location, the part's total as well. `unbooked` and `torn`
remember that. `raced` and `billedAtOnce` remember which orders goods came in
for, or bills were written for, between another handler's check and its write.
A reversal whose order was deleted meanwhile throws at its first line, unless that
line is short: then it gives up as any other. `SellUnit` and `MoveUnitAway` stand
for what makes stock short. The costs of lines beyond an order's worth, a second
supplier, currencies and the purchase factor, which no code sets, are left out.

### Payables

`bill`, `expense` and `settled` are the rollups, `payment` the rows behind them,
`recent` those young enough for the dedupe window. The three ways to pay a bill
write the same rows (`SettleBill`) and do not post the same: `PayBill` converts to
the books' currency, by what left the account or by the bill's rate, and
`BulkPayBill` posts the amount as it is. `payBucketAction` lists its rows in
`ListBucket` and pays them in order, each in its own transaction and with its own
second look (`BulkPayBill` is capped by now, `BulkPayExpense` passes over,
`BulkReadCost` reads again outside).

`cost` is what a technician is due for a job, and `UpdateJob` is what
`updateJobAction` does to it and to the paid flag: both are typed over with no look
at what was paid. `RecordPayout` goes by the cost its request read before the
transaction and by the payouts it reads inside; `ReadCost`, `ReadPaid` and `PayOut`
are the statements of `markExternalTechPaid` and of the bucket for each job, which
read both outside. `PostExpense` and `LosePosting` are the postings let run after the
transaction. `updates`, `rewritten`, `atOdds`, `agreed`, `bulked`, `unbooked`, `late`
are history: `atOdds` are the jobs whose cost or flag was typed over what was paid,
until a payout is next recorded; `bulked` the payments out of a bucket.
What a bill asks of note and order is in `GoodsReceipt`.

### Till

One action per handler of the till and of the credit-note, receipt and refund
pages that touches a sale. `SyncWith` is `syncSalePaymentState` over the rows as
just written. Every handler that writes money or a new note ends with it, and so does
every change of lines: `recalcSaleTotals` runs it after an added, changed or deleted
line and (`Recalc`) after tax or discount were set, so a sale paid in part may become
PAID by losing a line. Receiving goods back and deleting a note do not sync. `stale`
names handlers that wrote on a sale that had changed since they read it; `undone` the
sales whose money was deleted, lowered or handed back without a note, or with one
that was deleted. `Kinds` bounds which handlers a run uses. Every unit costs 1, lines
of one part are counted together, there is one way to pay.

### Invoicing

An invoice bills goods (its lines took stock when it was issued) or a job (its
parts were consumed at completion). `Sync` is `syncInvoicePaymentState`.
`VoidInvoice` is one transaction of the single or the bulk void, on candidates
read once. Stock moves in base units and lines in units of sale: `Stock` is what
lines take by their product's factor, `Restored` what a void brings back, rounded to
whole base units and by the factor the line carries. The edit of an invoice takes by
the product's factor and writes lines without it (`Rewrite`), so `StockOf` reads
them as plain units from then on; `edits` says how often that happened. A base unit
is `Unit` grains, so that fractions of units can be sold; a product is on one line
at most. `WriteAmend` is `updateReceiptAction`, whose difference is posted
under a running key. Left out: invoice-sourced credit notes, recurring invoices,
prices, tax and exchange rates, and the PDF generator, which may write an invoice's
total and status from its lines and ends in the same sync. `MayEdit` bounds edits to
`MaxRewrites` and to one overlap per invoice: further ones drift the stock by the
same again.

### Recurring

Days are counted from the first day of a calendar, `FirstDay`, which gives the
first of each month: any months of 28 to 31 days, as many as a schedule can be
moved ahead of the clock (`HorizonAssumption`: a year and a month). `Advance` is
`advanceRecurringDate` with JavaScript's overflow (the 31st of a month plus one
month runs into the month after if that is shorter), `PeriodKey` the year and month
of a due date. `ReadTemplate`,
`CheckIssued`, `AdvanceOnly` or `Issue` are the statements of
`issueRecurringExpense`, run by the daily execution or the button. The organisation
has an active administrator or finance user: without one the daily execution passes
over all schedules (`payables-digest.ts:36`). An expense is
a due date and whether its reference is intact; the rows of a schedule are a
bag, so that two equal ones count.

### Outbox

`deliverOutboundMessage` is cut at every database call and at the provider call:
`ReadRow`, `CheckConfigured` or `RecordNotConfigured`, `AcquireLock`, `Send` or
`SendThrows`, `RecordSent` or `RecordFailure`. `Enqueue`, `ScheduleNudge`,
`Sweep` and `RetryOne` start it; `Discard`, `CancelNudge`, `SetConfigured`,
`Crash` happen around it. Time is only what the guards compare: `due` says which
rows' `nextAttemptAt` has passed, `earlier` in which order (the sweep takes the
oldest), and `lock` is `free`, `fresh`, or `stale` once older than its TTL.

`contacted` counts how often the provider took a message. `disturbed` collects
the rows for which something happened that no local protocol can survive: an
answer was lost, a lock expired or was cleared while held, a verdict was
overwritten by the unconfigured path. The safety properties are about rows that
are not disturbed, and the steps that disturb are all taken in the runs.

Left out: the re-registration attempt at `whatsapp-outbox.ts:280-290`, which no
input reaches; the administrator's test message; dry-run rows, which no worker
picks up; and the provider's later delivery status, which no guard of the queue
reads.

### Subscription

One organisation. A handler that reads and writes later is a pair of actions:
`ReadForPayment`/`ApplyPayment` (callback and webhook), `ListLapsed`/
`MarkPastDue` (the daily sweep), `SeeEndedPlan`/`Downgrade` (app shell),
`ReadStarter`/`StartGrowthTrial`, `ReadTrial`/`ExtendTrial`. `CancelPlan`,
`SetPlan` and `SetBillingStatus` write without reading. `Die` ends an execution
between the two. The clock `now` ticks; `Never` (0) is a null date. Every paid
plan is `GROWTH`: the code treats them alike here. Once an order is paid the
provider may confirm it any number of times. `granted` and `applications` are
history; `applications` is also what `MaxApplications` bounds.

## 3. Properties

Each is stated in its module with the code it is about. Most read "unless", and
the exception is the point: it names exactly the overlap the code does not
guard against (a history variable remembers it), so the property says that
*nothing else* breaks the relation.

* **Stock.** `ReservedMatchesReservations`: `Part.qtyReserved` is what live
  reservations hold, plus what deleted jobs left behind. `LedgerExplainsOnHand`:
  the total is opening plus ledger, lost signs put back, goods in transit and what
  re-creations of the part overwrote counted. `QuoteConsumedOnce`: racing completions take a job's quoted parts
  once. `RowsAddUpToReserved`: the rows' reserved quantities add up to the
  part's. `LocationsFollowPart` (action): apart from the backfill, what
  locations and lorries account for changes exactly as the total does.
* **Goods receipt.** `NeverOverReceived`; `ReceivedMatchesNotes` (a line's
  received quantity is what the posted notes brought, but for reversals that
  gave up half way); `NoteBilledOnce`; `BilledWithinOrder` (all bills that name
  a priced order, unless two were being written at once); `ClosedOrdersAreEmpty` (a cancelled or deleted
  order has goods only if they came in behind that handler's check).
* **Payables.** `BillsAddUp`, `ExpensesAddUp`: rollups equal payments whichever
  pages pay at once. `TechniciansPaidOnce`: paid is paid in full, by the cost as it is
  now, unless cost or flag were typed over. `BooksFollowPayments`: each payment is
  in the journal once with its worth in base currency (out of a bucket: with its
  amount as it is), nothing of a deleted one is.
* **Till.** `NeverOversold`; `GoodsAccountedFor` (what a sale took is what its
  lines hold less what came back); `SaleFollowsMoney` (also a sale whose lines
  change reads PAID only when it is paid); `CreditsWithinSale`,
  `RefundsWithinNotes`, and the action property `RefundsHaveMoney`.
* **Invoicing.** `GoodsFollowInvoice` (what an invoice took is what its lines sell,
  and within half a unit of nothing once it is void; where an edit dropped a unit
  factor that is not 1, only until the lines are voided or edited again),
  `StatusFollowsMoney`, `BooksFollowMoney`, and `RefundsHaveMoney` (action).
* **Recurring.** `OncePerPeriod`, `MonthsCovered`, and `CatchesUp` (liveness: no
  automatic schedule stays due for ever).
* **Outbox.** `OnceUnlessDisturbed`, `SentWasTaken`, `SettledIsFinal` (action),
  `QueuedRowsSettle` (liveness: every queued row ends SENT or DEAD).
* **Subscription.** `AppliedAgainOnlyAfterAnother` (what the guard on the last
  order really buys), `NoUnappliedTime` (no race gives more time than was paid
  for), `LapseIsNoticed` (liveness).
* **`ImplementsStockBook`** (refinement) of `PartStock`, `GoodsReceipt`, `Till`
  and `Invoicing`: every change of a total has its entry in the book, but for the
  overwrite named in section 1.

`TypeOK` of every module is proved; runs check those of `Invoicing` and
`Recurring`, whose types say most: that of `Recurring` includes that no schedule
leaves the calendar.

## 4. Runs

| Run | Instance | Shows |
|---|---|---|
| `stock_movements` | 1 part, 2 locations (one switchable), 1 reservation, 1 transfer, 1 count, 1 request, 1 edit | ledger and location rows, all movements in all orders, re-creation of a deleted part included |
| `stock_completion` | 2 overlapping updates, 2 reservations, 2 requests, 1 edit, no switch | the quote is consumed once; rows and reservations add up, racing backfills included |
| `goods_receipt_orders` | 1 order of 2 parts worth 1, 2 notes, 2 calls, 2 bills of 1 for the order, a note or both, 2 bill forms or 1 move away | receipts, reversals, billing, closing and deleting in all orders |
| `payables_payments` | a foreign bill (rate 2), an expense and a technician's job worth 2 each, the job's cost also 0, 2 payments, 2 calls, a bucket of all three, 1 save of the job | single and bulk payment, edits, deletions and typed-over costs against each other and the journal |
| `till_sales` | 1 sale of up to 3 units of a part, 2 credit notes, 2 payments, 2 calls | selling, editing, recalculating, deleting, crediting, paying |
| `till_returns` | 1 sale of up to 2 units, 1 credit note, 3 payments or refunds, 2 calls | the three ways to refund, returns and receiving back |
| `invoicing_invoices` | 1 invoice of one product sold by halves of a sale unit of three base units, 2 base units in stock, 2 edits, 2 payments or refunds, 2 calls, 1 amendment per row | goods, paid state and books through overlapping edits, voids, receipts, refunds |
| `recurring_schedules` | real month lengths over 16 months from January, schedules starting on the 28th or 31st, clock at the end of January or February, 1 fault, 1 touched expense; cron and one button; fairness | once a period, no month left out, catches up |
| `outbox_delivery` | a caller and the cron, 2 messages (one scheduled ahead that cannot be rendered), 2 attempts, sweeps of two, 1 crash, settings stay | nothing undisturbed is sent twice; SENT was taken |
| `outbox_sweep` | the cron alone, 2 nudges, sweeps of one row, 1 crash, settings that come and go, fairness | verdicts are final; rows beyond the sweep's limit settle too |
| `subscription_payments` | 2 orders, 3 calls with the cron, month 2, trial 1, clock to 5, 3 applications, 2 edits, fairness | application, time, and that a lapse is noticed |
| `recurring_weekly` | as `recurring_schedules` | *violated*, see below |

### What the code does not keep

`recurring_weekly` checks `EachOccurrenceIssued`, which is what
`lib/commercial/recurring-schedule.ts:38` says of its period key, and finds a
weekly schedule of which only the first occurrence of a month is issued: the key
is year and month. It is quoted under `findings`.

Further properties that comments or pages of the repository state are defined in
the modules and do *not* hold of them. No run is spent on them; the properties
above are worded to be true beside them.

| Property | What the code does instead |
|---|---|
| `PartStock!EveryMutationAppends` (`lib/inventory-service.ts:2` and `:13`) | creating a part again under a deleted part's SKU overwrites its total and appends no row |
| `PartStock!BackfillOnlyUnattributed` | two first reservations at different locations both copy the part's totals into a row |
| `PartStock!CompletionTakesQuotedParts` | consuming any reservation of a job makes its completion skip the quoted parts |
| `GoodsReceipt!RefusedReversalTakesNothing` | a reversal refused for one location has taken back earlier lines, and the part's total, for good |
| `Payables!BillsArePostedInBase` (`inventory/supplier-bills/actions.ts:299`) | a foreign bill paid out of a bucket is posted unconverted |
| `Payables!ExpensePaymentsArePosted` | an expense paid from the payables page is never posted |
| `Till!NoRefundWithoutPayment` | a partly returned sale counts as settled, so return-and-refund may hand back money never taken |
| `Invoicing!VoidsRestoreTheSame` (`prisma/schema.prisma:2479`) | a void restores rounded quantities, and an edit loses the line's factor |
| `Invoicing!RepairPartsStayConsumed` | lines of a repair are tagged "Part" like goods, so a void puts back what the repair used |
| `Outbox!DiscardedNotRetried` | a message discarded while being sent is reopened by that send's failure |
| `Subscription!EachOrderAppliedOnce` | an older order confirmed again after a newer one extends again |

The models also contain:

* *Stock.* A reservation settled after its location was switched off is taken off
  another location's row; deleting a job leaves its live reservations' quantity
  reserved for nobody (`stranded`); a downward correction is logged without its
  sign (`signLost`).
* *Payables.* A technician's cost and flag are typed over what was paid; a payout
  recorded by a cost read before it was changed sets the flag by the old one.
* *Orders.* A reversed note can be billed; two receipts clamped by each other may leave a note without lines; a
  status button or a deletion passes over a receipt that came behind its check.
* *Till.* Two deletions, or two clicks on received-back, restore goods twice
  (`stale`); refunds from the documents pages overlap.
* *Invoicing.* Deleting a receipt whose amount was changed reverses only the
  first entry; a payment recorded against a job is accepted on a void invoice;
  amending a refund posts its difference with a payment's sign; an edit reads the
  old lines outside its transaction; void invoices count overlapping voids twice.
* *Recurring.* Two executions at once issue a period twice; a schedule from the
  29th to the 31st drifts over a short month, which is why `MonthsCovered` is
  about days every month has, or its ends.
* *Outbox.* A row whose rendering throws blocks the sweep for rows behind it.
* *Subscription.* Two orders confirmed at once compute the same renewal date, so
  one of the two periods is lost; the sweep marks an organisation that paid after
  it was listed, and the downgrade erases a payment applied while a page was
  rendering; an organisation back on STARTER can start the growth trial again.

### Bounds, and why they are enough

* Operations touch one part, sale, order or invoice (counts and notes have
  several lines, which are independent), so one of each shows every interaction
  of operations; two calls show every overlap of a read with another's write. Three
  are only needed where two reads must precede a write that precedes both
  others, and the history variables treat that as two overlaps.
* Quantity 2 tells "some" from "all" where partial amounts matter (payments,
  returns, edits of lines); quantity 1 is enough where only presence does.
* Two notes of one order, two bills of one note, two payments of one document
  are needed for the sums; a third refund row in `till_returns` lets a refund
  meet a return of each kind.
* `PartStock`: two locations for transfers and for a switched page; two requests
  for the backfill race; two updates so that a late one meets what an early one
  did. `MaxEdits` bounds adjustments, receipts, issues and quotes.
* `GoodsReceipt`: with one unit of each part ordered and an order worth one bill, a
  second bill is one too many, as a bill of one and one of any other amount would be.
  `MaxMoves` bounds bill forms, and sales and moves away, which count twice. Orders
  without prices, bills that name nothing and other amounts are in the theorem.
* `Payables`: bills, expenses and jobs meet in nothing but a bucket, so at most two
  of them are in play at once (`TwoInPlay`). `SettledRates` holds the bill's rate
  only; other rates, and bills without one, are in the theorem. `MaxUpdates` lets a
  cost be changed once: either to none from 2 or to 2 from none.
* `Till`: three units in `till_sales`, so that lines can be taken off a sale paid in
  part until it is paid in full; two in `till_returns`, where a return must be able to
  be partial.
* `Invoicing`: a sale unit of three base units sold by halves makes every factor and
  rounding visible: half a sale unit is one and a half base units, which a void
  rounds up, and as plain units half of one. `MaxRewrites` of 2 reaches an edit of
  lines that had lost their factor.
* `Recurring`: things happen on the last days of January and of February, so a
  schedule meets a month longer and one shorter than the one before; sixteen
  months leave room for the next date of an annual one. `MaxFaults` and
  `MaxTouched` bound failed issues and rewritten expenses.
* `Outbox`: what goes wrong with a row takes its holder and one who read before
  or comes after, so two workers show it. Two attempts give a failure before the
  last. Two rows and a sweep of one give a row kept out by the limit. One crash
  may fall at any step; a sweep killed for ever would deliver nothing.
* `Subscription`: two orders are needed for "last applied"; a month of two ticks
  lets a payment fall inside, at the end of and after a period; the clock runs
  past a full period. Three applications allow the A, B, A repetition.
* Deadlock checking is off in every cfg: each model is bounded, and the system
  really stops when nobody uses it.

The proofs lift the bounds for what they cover.

## 5. Fairness

* `PartStock`, `GoodsReceipt`, `Payables`, `Till` and `Invoicing` assume none:
  nobody has to press a button.
* `Recurring` `FairSpec`: the daily execution starts (`vercel.json:24`), for an
  organisation with an active administrator or finance user
  (`payables-digest.ts:36-51` passes over schedules otherwise), and an execution
  that is alive goes on. The button is not fair.
* `Outbox` `FairSpec`: the schedule keeps starting sweeps (weak fairness of
  `Sweep(Cron)`), an execution that is alive goes on (`Deliver`), and time passes
  (`BecomeDue`, `LockExpires`). No button, no caller and no particular answer of
  the provider is fair.
* `Subscription` `FairSubscriptionSpec`: the daily sweep starts and ends. The model does not
  kill the scheduled execution; an execution killed every day notices nothing.

## 6. Proofs

All are safety results, for any sets of parts, locations, jobs, orders, sales,
notes, schedules, messages, workers and calls, under the named assumptions on
constants in the modules: sets not empty where the code needs an element, limits
positive, the rows sums are taken over finite, and a calendar of months of 28 to 31
days. Every invariant, action property and refinement that a passing run checks is
the conclusion of a theorem; `theorems` in `PROJECT.json` pairs them.

Sums over rows are what most of these properties are about, and induction over
data is out of the prover's reach. `UnitTotals` therefore defines a sum as the
cardinality of a set of units, and a sum of quantities of either sign
(`SignedTotal`) as the units they add less the units they take. What is needed of
both (a row that joins adds its quantity, a row that changes changes the sum by
as much, untouched rows add the same, a row is within the total, no rows add
nothing) then follows from the library's theorems on finite sets, in
`UnitTotals_proofs`. Every sum a property speaks of is one of the two.

* **`PartStock`.** `TypeCorrect` has one lemma per group of handlers.
  `LedgerCorrect` is about *steps*: `LedgerStep(p)` says that in every step the
  total changes by the logged quantity, less the lost sign, plus the change of
  goods in transit and of what re-creations overwrote. It is proved per group of handlers and added up.
  `BookImplemented` takes the same step equation further: a step that ships
  goods (`RoadStep`), one that books (`BookedStep`) and the overwrite are the three
  steps `StockBook` allows, so every step of the detailed specification is a step or a
  stutter of the abstract one. `ReservedCorrect` needs to know that a stranded
  reservation is no longer live, so that no id is used twice.
  `ConsumedOnce` needs `ConsumedKnown`: a job whose quote was consumed has the
  row that says so, or is deleted with its rows. `LocationsCorrect` is an action
  property, proved per group of handlers: each upsert of a location row changes
  the rows' sum by its delta, and its handler changes total or road by as much.
  `RowsCorrect` needs `PanelKnown`: while no location can be closed the job page
  always offers the same one, and until that row exists the part has nothing
  reserved, nor has the request about to make the row. Without it a racing
  backfill could copy a reservation that no row holds.
* **`GoodsReceipt`.** `OverCorrect` is not inductive alone: a receipt writes
  quantities clamped to what its own transaction reads, and `WantsWithinOrder`
  bounds what calls in flight still want. `ClosedCorrect` needs `SeenEmpty`: a
  handler about to close an order has seen it without goods, or somebody raced
  it. `BilledCorrect` holds by a condition inside the posting transaction.
  `BookImplemented` is the refinement to `StockBook`, from one equation per step.
  `ReceivedCorrect` and `BillsWithinOrder` rest on `NoteInv`, what notes, orders
  and requests know of each other: notes are of orders that were created, an
  order that was not has no goods, and only a note that was written is billed,
  about to be billed or reversed. The first is then about sums over the posted
  notes: a receipt adds its note, a reversal takes it away, and every other step
  leaves notes and quantities alone. The second needs `PendingFits`: unless two
  requests were about to bill an order at once, what the one that is about to
  adds still fits.
* **`Payables`.** `Typed` is `TypeOK` with two things it rests on: amounts are not
  negative and no bill is paid beyond its total. A step's effect on the sums is
  said once (a payment comes to life, goes, or neither) and used by every
  property. `BillsCorrect` is then one lemma per way to pay. `TechniciansCorrect`
  needs `CallsKnow`: the cost a request read is the cost there is, and what a payout
  read as due is due by now, unless the request's record says that cost or payouts
  changed since. `ExpensesCorrect` strengthens its
  property: a deleted or unused expense has no payments and one that is there is
  of some amount. `BooksCorrect` needs to know of every payment what the journal *can*
  hold: nothing before it exists, no reversal before it goes, what it is worth
  or nothing while it is live.
* **`Till`.** The proof works sale by sale. `WritesOn(s)` says what every writing
  handler has in common: it touches one sale, leaves rows, notes and money of all
  others alone (`Untouched`), and makes every other request on that sale stale.
  `RowsBelong` and `CallsBelong` tie rows to their sale: refunds are on the sale
  of their note, goods that came back have a note that was received. On them
  rests `CallsKnow`: what a request read still holds as long as it is not stale.
  With these, each property is one lemma for the sale that is written on:
  - `NothingOversold` from the conditional decrement;
  - `GoodsAccounted` from one equation per movement: the lines a deletion read are
    the lines there are, and the note that is received was not received before,
    or the handler was stale;
  - `MoneyFollowed`: `syncSalePaymentState` sets both halves, after every change of
    lines as of money, and what writes without it leaves the rows' sums alone;
  - `CreditsWithin` needs `Orderly(s)`: an open sale has no notes, a settled one
    was paid in full, its refunds are of notes, and whoever is about to write a
    note saw it settled with the total it has. That is why a line cannot be taken
    away under a credit note;
  - `RefundsWithin` and `RefundsPaidFor`: what each of the three ways to refund
    asks again beside the write, and what it knows unless stale.

  `BookImplemented` sums what each sale took: a step moves one sale's goods, and
  the shelf by as much.
* **`Invoicing`.** As in `Till`, `Works(i)` says what every writing handler has in
  common: it touches one invoice and what others had read of it no longer stands.
  `Known` is what a request in flight still knows: an edit and a void know status
  and lines unless the invoice changed since, an amendment knows that its row is
  a payment of its invoice or gone, and its amount unless the invoice changed.
  With it:
  - `GoodsCorrect`: an edit puts back the lines there are and a void restores
    once, or they wrote over a change they had not seen. The first edit puts back
    by the factor the lines still have, and rounding loses at most half a unit;
  - `StatusCorrect`: whatever writes money or lines syncs the invoice in the same
    transaction, over the rows as written;
  - `RefundsCorrect` (action): a refund is asked again of the synced invoice, and
    one on the job page of the sum beside its write;
  - `BooksCorrect` needs `Booked`, what the books hold of each row of money.
    Changes are posted under 1, 2, ... without a gap, so the number after the
    count of them is free; a plain payment's journal is its amount, and an
    amendment that knows the amount it replaces moves both by the same; a row that
    is gone has a reversed first entry or none;
  - `BookImplemented` as in `Till`.
* **`Recurring`.** All three theorems rest on lemmas about the calendar, which is any
  sequence of firsts 28 to 31 days apart. That later months begin later, and that
  every day has one month, would be inductions; they are proved by the least
  counterexample instead (`LeastNumber`). Then:
  - `TypeCorrect` says that no schedule is moved off the calendar. It needs
    `CallsInTime`: the date an execution advances from, stale or not, was due by a
    day on the clock, and so `HorizonAssumption` leaves room for what comes after;
  - `OnceCorrect` needs `OneIssue(t, period)`: an unexcused period has at most one
    expense, which still carries its reference, and at most one execution about to
    issue it, and that only while it has none. The second look, `HasExpense`, is
    what makes the next execution pass over;
  - `CoveredCorrect` needs the property in two forms: for the date a schedule stands
    at (`NextCovered`), and for the date every execution in flight holds
    (`DueCovered`), since a stale one may set the schedule back. An execution that
    only advances saw an expense, which was issued (`ExpensesIssued`), even if it
    has been deleted since. `OneMonthMore` is the step: a monthly schedule on one of
    the first 28 days, or at month's end, goes to the next month and stays on its
    day. Past the 28th it does not, and the property leaves those out.
* **`Outbox`.** The inductive invariant is `GuardedUnlessDisturbed`: for a row
  not disturbed, at most one worker is past the lock; while one is, the lock is
  fresh; and the provider has taken the message only if the row is sent or its
  holder is about to say so. "Taken at most once" alone says nothing of a worker
  that holds a stale read. `SentCorrect`: a worker about to mark a row sent has had
  it taken by the provider, and that does not become untrue.
* **`Subscription`.** `PaymentInv` is `SubscriptionTypeOK`,
  `AppliedAgainOnlyAfterAnother` in the form that also says which order was last,
  `NoUnappliedTime`, and `PromisesOnePeriod`: the date a call in flight will write is
  at most one period beyond what is bought, however old its read.

Only model-checked is liveness (`CatchesUp`, `QueuedRowsSettle`, `LapseIsNoticed`):
properties that follow from weak fairness need to know when an action is enabled,
and `ENABLED` is beyond the proof system. The properties in the table
under "What the code does not keep" are not proved, as they do not hold.

## 7. Plan

What is left, in order of what it would add:

1. `JobWorkflow`: status transitions under stale forms, timeline and warranty.
2. `Reminders`: dunning and statements, with their check-then-send.
3. `DocumentNumbers`: counters, collisions, the loop that gives up.

## 8. Running it

    tlc -config PartStock_completion.cfg MCPartStock
    tlapm GoodsReceipt_proofs.tla

`PROJECT.json` names module, configuration and expected result of every run.

## 9. Not modelled

* Within the modelled components: `reconcilePartTotals` (no caller), costs and
  average prices, transfer fees, landed cost, the approval of purchase requests,
  invoice-sourced credit notes, the PDF generator's rewriting of an invoice's total
  and status from its lines (it ends in the sync that is modelled),
  recurring invoices (no scheduled execution reads their automatic flag), quotations
  without a job (they never move stock), switching a part off during a return, trial
  reminders, price verification of an order, billing events, and the message rows
  described in section 2.
* Job workflow, reminders and statements, document numbers: see the plan.
* Bank reconciliation: one form at a time over rows nothing else writes.
* The background queue (its retries are its library's), permissions, tenancy and
  sessions (checks at the head of a request), rate limiting (one atomic statement),
  backups and data healing (idempotent repairs that touch no total of a modelled
  component), and rendering, e-mail wording, artificial intelligence features,
  currency display and the user interface (no state).
