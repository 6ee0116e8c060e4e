# Salimvand: TLA+ models, model checking and proofs

Salimvand is the shop system of an auto-parts dealer: a NestJS API over
PostgreSQL (Prisma), a BullMQ worker, an admin panel, an Android client that
works offline and synchronises, and a public website. This directory holds TLA+
models of the parts of the API in which several requests change the same rows,
the TLC configurations that check them, and TLAPS proofs about them.
`PROJECT.json` is the index: components, runs, the source lines of every
definition, the hazards of the code, the findings and the theorems.

Contents: [System](#the-system) · [Common modelling decisions](#common-modelling-decisions) ·
[StockLedger](#stockledger) · [InvoiceSettlement](#invoicesettlement) ·
[SyncOperations](#syncoperations) · [Further services](#further-services) ·
[Further workers](#further-workers) · [Fairness](#fairness) · [Runs](#runs-and-bounds) ·
[Findings](#findings) · [Proofs](#proofs) · [Not modelled](#not-modelled) · [Plan](#plan)

## The system

All paths below are under `apps/api/src` unless they say otherwise.

| Part | State it keeps | Operations | Interacts with |
|---|---|---|---|
| Stock and ledger, `modules/inventory` | `inventory_items` (cached quantity, isActive, prices, shelf), `inventory_transactions` (ledger) | create, adjust, receive, transfer, removeItem, updateItem, updateMetadata, bulkUpdatePrices, reconciliation | invoices, purchases and the sync applier change the same rows |
| Invoices, `modules/invoice` | `invoices` (status, total, paidAmount, paymentStatus), `invoice_items`, `payments`, `payment_checks`, `return_records`, `counters` | create, pay, returnItems, void, rotateLink, resendSms, updateCheckStatus | stock, customers, notifications, sync feed |
| Customers, `modules/customers` | `customers`, `customer_payments`, vehicles | payment (allocates over invoices), CRUD | invoices |
| Purchases, `modules/suppliers` | `purchase_invoices`, `supplier_payments` | create, pay, updateCheckStatus | stock |
| Mobile synchronisation, `modules/sync` | `sync_operations`, `sync_conflicts`, `sync_changes`, devices | queueOperation(s), recoverPending (timer), resolveConflict, pull, bootstrap | applies operations through the other services |
| Audit and change feed, `common/audit` | `audit_logs`, `sync_changes` (one live row per entity) | writeAudit, writeSyncChange | called in every mutating transaction |
| Locations, `modules/inventory/location.service.ts`, `common/inventory/placement.ts` | shelves and baskets | create, move, resolvePlacement | items |
| Catalogue, `modules/catalog`, `modules/media` | products, brands, cars, compatibilities, images, `product_operations` | product CRUD, images, backup and restore | a restore writes stock, prices and the feed, an image request the feed |
| Notifications, `modules/notifications` | BullMQ jobs with the channels already done | enqueue, process with retries, bot commands | invoices enqueue; sms.ir, Bale, Telegram |
| Backup scheduler, `modules/github-backup` | `running` flag, settings row, `backup_jobs` | tick loop, saveConfig, runManual | catalogue backup, GitHub |
| Sessions, `modules/auth` | refresh tokens, reset tokens, in-memory login window | login, refresh, logout, reset | all controllers |
| Settings, media, users, reports, dashboard, search, audit reading | single rows or nothing | CRUD, read-only queries | |
| Admin panel, website, `scripts/deploy.sh` | none shared | user interface, deployment | API |

What makes it hard: requests run concurrently at READ COMMITTED and the code
mixes relative writes (`increment`, guarded `updateMany`) with absolute ones
(read, compute, store); only `returnItems` takes a row lock by itself
(`SELECT ... FOR UPDATE`). Mobile clients retry with operation ids. The
application of a mobile operation spans several separate commits, and a crash
or the recovery timer may come between any two. The properties that make each
part correct:

- stock: never negative; a sale is atomic; the cached quantity equals the sum of
  the ledger and the newest row states it; a retried request applies once;
  invoice numbers are gapless; every request ends;
- money: nothing paid beyond the total, or beyond the net amount after returns;
  every recorded amount backed by payment rows; no line over-returned; nothing
  returned on a voided invoice; the payment status follows from paid and net;
- synchronisation: an effect at most once, outcomes reported truthfully,
  nothing pending forever, conflicts decided by operators only; one live row per
  entity in the change feed, and nothing skipped by a client that follows it;
- warehouse and prices: no location inside itself, a line's basket in the line's
  shelf, a price history that leads to the price;
- catalogue and archive: codes that never collide, deletions that hold, a restore
  that puts every line back where it lay;
- links, messages, backups, sessions: a retired link stays retired, a message goes out
  once unless an answer is lost, every job ends, an archive that is due is made,
  saved settings are not lost, a renewed session keeps a live cookie.

| Module | Models |
|---|---|
| `StockLedger` | every writer of a stock quantity, the restore of an archive among them |
| `InvoiceSettlement` | payments, settlements, returns and voids of invoices |
| `SyncOperations` | the lifecycle of a mobile operation, with crashes |
| `OperationOutcome` | the promise about an operation that SyncOperations implements |
| `SyncFeed` | the change feed and the devices that follow it |
| `Warehouse` | the tree of locations and the addresses of stock lines |
| `Prices` | sale prices and their history |
| `Catalogue` | products, codes, deletion and restore |
| `ProductsBackup` | export and import of the catalogue |
| `Purchases` | purchase invoices, payments of suppliers |
| `PanelSession` | refresh and access tokens of the panel |
| `InvoiceDelivery` | public links, the message queue and its worker |
| `BackupScheduler` | the timer and the settings of the GitHub backup |
| `MCServices`, `MCWorkers` | suites that check several of these side by side |
| `MCStatements`, `MCSyncFeed` | what the documents say of the services and of the feed, to be refuted |
| `MCStockLedger`, `MCInvoiceSettlement`, `MCSyncOperations` | one module with its symmetry set |
| `*_proofs` | the theorems |

## Common modelling decisions

**Steps.** In the two transaction modules one step is one SQL statement on a
shared row. PostgreSQL at READ COMMITTED, which the code uses throughout (no
`isolationLevel` is set), behaves as follows, and so do the models: a plain
SELECT sees the last committed rows and takes no lock; an UPDATE waits until no
other transaction holds the row, evaluates WHERE and increments on the row as it
then is, and keeps the lock until the transaction ends; the commit publishes all
writes at once; an exception, a timeout or a crash undoes them all (`Abort`).
Statements that touch only rows the transaction has created or locked itself
are merged with the commit: no other transaction can tell when in between they
ran. Where there is no surrounding transaction a step is one Prisma call, and in
`BackupScheduler` what runs between two awaits.

**Suites.** Components that share no row are checked side by side in one run:
`MCServices` and `MCWorkers` instantiate their modules, `part` says which of them a
behaviour belongs to, and the variables of the others stay at `Unused`. The state
space is the sum of the parts', not their product; a property of a part is stated
with `part = ... =>` before it. Where two modules call a variable by one name, one
variable of the suite stands for both.

**Data.** Items, invoices, requests and operation ids are model values;
quantities and money are small integers; names, prices of items, texts, audit
rows and payload shapes are left out. Sums over ledger, payments and return rows
are kept as running totals, which is all the code ever asks of these rows.
Quantities and money are unbounded integers: the columns are `Int` and `BIGINT`,
far above what a shop reaches, and PostgreSQL raises an error instead of wrapping.

**Requests are finite.** Each element of `Txns` or `Requests` is one request that
is handled once. When all are done the behaviour stops, which is why every
configuration says `CHECK_DEADLOCK FALSE`; that nobody is stuck before is checked
as liveness (`RequestsEnd`, `PendingIsResolved`, `JobsEnd`, `DueIsArchived`).

**Faults.** Definitions whose comment begins with "Fault:" are plausible mistakes in
the definition that follows them. They are used by no specification. Each property
was run once with the fault put in place of the real definition, and TLC must then
find it violated: the property depends on what the code does.

## StockLedger

*Code:* `InvoiceService.create`, `returnItems`, `void`; `InventoryService.create`,
`adjust` and `receive` (both are `mutate`), `transfer`, `removeItem`, `updateItem`;
`PurchaseService.create`; `calculateNextQuantity`; the inventory items of
`ProductsBackupService.restoreProducts`.

*State.* The committed rows: `quantity`, `active`, `ledgerSum` (sum of
quantityChange, what `reconciliation()` aggregates), `lastRow` (newest ledger
row), `counter`, `voided`. The locks: `rowLock` per item and `counterLock`. Per
request: what it asks (`kind`, `op`, `ref`, `change` per item) and what its handler
holds (`pc`, `next` and `left` lines, `seen`, `pend`, `number`).

*Actions.* `Begin*` is the arrival of a request with the checks that precede its
transaction and the lookup of its operationId. `TakeNumber` is the counter's
upsert. `DecrementLine` is the sale's guarded `updateMany`; `IncrementLine` the
increments of return and void; `ReadLine` and `WriteLine` the SELECT and the later
absolute UPDATE of mutate and purchase (for transfer: an UPDATE that leaves the
quantity alone, logged with the quantity read before). `RefuseLine` is
INSUFFICIENT_STOCK from either guard, `RefuseDuplicate` the UNIQUE operationId.
`Commit` publishes; `DeadlockVictim` is PostgreSQL's detector; `SetActive` is
removal and reactivation. `RestoreProduct` is the restore of a product of an archive:
it sets quantity and activity of the archived lines (`Archived`, of the items) to what
the archive says, whatever they are, and writes no ledger row; `restored` records which
items that concerns since their newest row and decides nothing. Its transaction
looks its lines up and writes each absolutely; here it is one step, which can only
hide states that no property looks into, for its writes do not depend on what it read.
How many units a line may still return is not repeated
here: it is guarded under the invoice lock and belongs to `InvoiceSettlement`.
So a return takes back at most the units of its line in one request, and
several returns of one line, or a return and a void, restore more than was sold:
more behaviours than the code has for returns, exactly the code's for voids.
Nor is the invoice's own lock here: a void may commit between a return's check and
its commit, which the code excludes (`NoReturnAfterVoid`). Every property that
holds of these additional behaviours holds of the code's.

*Properties.* `NonNegative`, `LastRowTruthful`, `NumbersGapless`, `AppliedOnce`
(invariants); `DriftHasTwoCauses`, `NoSaleOfRemovedItem`, `SaleIsAtomic` (steps);
`RequestsEnd` (liveness). `DriftHasTwoCauses` says that the quantity leaves the sum of its
ledger by two kinds of steps only: a commit over a change made since its read, and a
restore. `RelativeReconciles`, which follows from it, is only proved.
That the ledger explains the stock, the documents' claim, is refuted for either cause
(`SomeLedgersMatch`, see Findings).

`LastRowTruthful` leaves out items that an archive has been restored over, and rows with quantityChange 0: `transfer` logs the
quantity it read before its update, and a change committed in between makes that
row state an old quantity.

## InvoiceSettlement

*Code:* `InvoiceService.pay`, `returnItems`, `void`; `CustomersService.payment`;
`calculateCustomerDebt`.

*State.* Per invoice of one customer: `status`, `paid`, `paymentStatus`, and the
sums of its rows: `received` (payments), of these `allocated` through receipts,
`refunded` and, per line, `returned` (return records); `receipts` for the customer;
`lock`. Per request its input and what it has read: `snap`, `seenPaid`,
`seenRefunded`, and `share`, what it will add to each invoice.

*Actions.* `LockInvoice` is the `FOR UPDATE` of returnItems; `ReadLocked`,
`ReadInvoice`, `ReadCustomer` the first SELECT of return, pay or void, and customer
payment; `ReadRefunds` the second SELECT (the aggregate of pay, the nested
`returns` of payment, which Prisma loads by a query of its own) with the checks
that follow it. The allocation loop of customers.payment is given by its
result: `Allocates` says that the shares sum to the amount, none exceeds what its
invoice owes, and a younger invoice gets something only when the older ones are
full. At least one split satisfies it exactly when the loop does not throw.
`CommitPayment`, `CommitReturn` and `CommitVoid` are the writes; an UPDATE of
an invoice locked by a return waits for it. `Refuse` collects the exceptions.

Invoices of a customer that settle in one request are updated in one step with the
commit. No handler reads after its first UPDATE, so the only thing the merge hides is a
deadlock of two settlements; both lock in the order of issuedAt, so there is none.

*Properties.* `ReturnsWithinSold`, `PaidWithinTotal`, `ReceiptsAllocated`,
`PaidOncePerOperation` (invariants); `NoReturnAfterVoid`, `LostOnlyByStaleRead`,
`FreshCommitSettles` (steps). `PaidBacked` is only proved. `PaymentCappedAtNet` is
refuted (see Findings).

## SyncOperations

*Code:* `SyncService.queueOperation`, `applyAndRecord`, `claimOperation`,
`recoverPending` and its timer, `resolveConflict`.

*State.* Per operation: `status`, `attempt` (the age of lastAttemptAt, by the two
windows the code compares it with), `effects` (commits of its domain handler),
`openId` and `resolvedId` (its rows in sync_conflicts, at most one per status by the
UNIQUE index). Per worker, a request or a run of the timer: where it is and what
it holds.

*Actions.* `Post`, `Create`, `Claim` are queueOperation; `Scan`, `PickCandidate`,
`Claim` recoverPending; `LookUpEffect`, `ApplyEffect`, `Record`, `RecordFails`,
`OpenConflict` applyAndRecord; `Decide`, `Resolve`, `ActOnDecision`
resolveConflict, with `retry` and one representative (`reject`) of the three
decisions that fail the operation. The domain handler is one transaction that
begins with the lookup of its operationId and whose insert has a UNIQUE operationId,
as in StockLedger and InvoiceSettlement; it may commit, raise a ConflictException
or fail. This holds for the operation types of `RECOVERABLE_OPERATION_TYPES`.
`Age` lets time pass, `Crash` kills the process, `CallFails` loses one call.

*Properties.* `EffectAtMostOnce`, `AppliedIsTrue`, `ConflictsAreDecidable`
(invariants), `RevivedOnlyByDecision` (steps), `PendingIsResolved` (liveness).
`AppliedIsFinal` and `DecisionsAreTaken` are refuted (see Findings).

The lifecycle implements `OperationOutcome`, which has neither workers nor claims: an
operation is received, takes effect at most once, gets a verdict that says 'applied'
only of an effect, and is taken up again only from failed or conflict
(`ImplementsOutcome`; the mapping is in SyncOperations: the standing is `status`, the
effects are `effects`, and a client is told when its request is answered).

## Further services

These are checked together in `MCServices`.

### SyncFeed

*Code:* `writeAudit` and `writeSyncChange` of `common/audit/audit-log.ts`;
`SyncService.bootstrap`, `pull`, `ackChanges`; and the publishers, by what they lock:
transactions that have updated the row they publish; `CustomersService.payment`, whose
transaction only reads the customer it publishes; `bulkUpdatePrices`, customers and
locations, which publish without a transaction; `publishProductImageChange`. Sales,
returns and purchases change lines and publish nothing of them.

*State.* `state` of an entity is the set of changes committed to it, a row's payload
and a device's `cache` are the changes they include, so that "stale" means "lacks some".
`rows` is sync_changes, `nextRev` its sequence, which advances when a row is inserted
and not when it is committed. Per change: its route, where it is, the snapshot it
publishes, the revision it has drawn, the rows it has deleted or waits to delete. Per
device: cursor, cache, and what its bootstrap has still to read.

*Actions.* `Change`, `Publish`, `Commit`, `RollBack` are a transaction that holds the row
of its entity; `View` begins one that does not. `ChangeInBulk`, `ChangeImage`,
`ReadBack`, `DeleteRows`, `InsertRow` are autocommitted statements, `ChangeUnpublished` the
transaction of a sale. A deleteMany that meets a row another open transaction has deleted
waits (`Wait`) and then deletes what is left of the rows it saw when it began, not those
inserted meanwhile. `ReadTable`, `ReadWatermark` are bootstrap's queries, `Pull` one page
together with the client that stores it, `Acknowledge` the cursor that an applied
operation hands to the client. No caller of writeSyncChange passes an operationId, so
`ackChanges` always finds nothing and answers with the watermark.

*Properties.* `OneRowTellsAll`: an entity that is published only under the lock of its row
has one live row with all its changes. `MissedInFourWays`: compaction and paging lose
nothing; a device comes to miss the last row of an entity only by the end of a
bootstrap, an acknowledgement, a commit whose revision its cursor has passed, or a
deleteMany that had to wait. `ReplacedByHigher`: by whatever routes, a row goes only for one
with a higher revision, or between the two statements of an autocommitted publisher.
What audit-log.ts and sync.service.ts say without these exceptions (`OneLiveRow`,
`FeedTellsLatest`, and no `BootstrapMisses`, `CommitIsPassed` or `AcknowledgementMisses`)
is refuted by the run feed (see Findings). `ReplacedByHigher` is only proved.

### Warehouse

*Code:* `LocationService`, `common/inventory/placement.ts` and its callers.

*State.* `type` and `parent` of every location, `shelf` and `basket` of every stock line;
per request what it asks and the row it has read. *Actions.* Each SELECT of a
handler (`Begin*`, `ReadParent`, `ReadChildren`, `ReadBasket`) is a step, the write
another: nothing locks what was read. *Properties.* `TreeBrokenOnlyByOverlap`: a location
gets into itself or into a basket only by a write whose checks another request has
overtaken. `MisfiledOnlyByMove`: a line's basket leaves the line's shelf only when the
basket is moved, for the code does not take the lines along, or when an edit of the line is
written that would be refused or completed otherwise by now (`~Resolved`): a basket without
a shelf takes any address, and it may get one between the SELECT and the write. That a
basket is always one of the line's shelf, as the schema says (`BasketOnItsShelf`), is
refuted (see Findings).

### Prices

*Code:* every writer of salePrice and `recordSalePriceChange`. *State.* `price`,
`history`, per request the prices it has read. *Actions.* An edit is a read and a
transaction; a bulk change reads all lines first and then writes price and row of each by
separate statements, and may die between them; an import writes no row.
*Property.* `HistoryTells`: the rows of a line lead, one to the next, to its price, except
after a write from a price that has changed since, or a bulk change interrupted between
its statements, or an import. That every change has its row, as the schema says
(`RowPerChange`), is refuted (see Findings).

### Catalogue

*Code:* `CatalogAdminService.create`, `update`, `softDelete`, `restore`, `nextCodeInTx`;
`InventoryService.create`, `removeItem`, `updateItem`; the image handlers of `MediaService` with
`publishProductImageChange`; `ProductsBackupService.restoreProducts`.

*State.* The products with their codes, the counter, the stock lines with product, brand
and isActive, what was last published of each (`told`), the rows that bear the
operationId. A code is the number it was written from; `Odd` codes have letters. *Actions.*
`Mint` takes the counter's row. If the code it draws is in use, `NextCode` goes on behind the
code that is last in the order of texts: `SortsBefore` compares the first five digits
before the sixth, so 100000 (`Wide`) sorts before 99999; an odd code sorts last and counts as
0; the result is not looked up. `CommitCreate` writes product, lines and
counter at once or a unique column refuses it (`CodeTaken`, `OperationTaken`); `Deactivate` and
`CommitDelete` are the two halves of a deletion, between which a line may be added.
`CommitImage` publishes the product after any change of its images, without a look at
deletedAt; remove of an image does not look at it before either (`unpicture`).
`RestoreProduct` sets a product and its lines to what an archive says, deleted or not, or creates
them, and publishes the product in any case. *Properties.* `NoCodeCollision`: as long as the
codes in use are numbers of five digits, a creation runs into a used one only by a
restoration during it. `DeletionHolds`: a deleted product and its lines come back, short of
restore, in four ways: a request that overlapped the deletion, a reactivated line, the
removal of an image, the restoration of a backup. `overtaken` records the overlaps and
decides nothing. `LoneCreateSucceeds`, `StaleCounterNeverFails` and that no `ImageReturns`
are refuted (see Findings).

### ProductsBackup

*Code:* `ProductsBackupService.buildBackup`, `restoreReferences`, `restoreProducts`.

*State.* The location tree, the lines, the images and files; the archive; the
export's and import's progress, with the map from keys to new ids. *Actions.* The SELECTs of
the export run side by side (`ReadLines`, `ReadPlaces`); `RestoreReferences` is one
transaction that folds `Ensure` over the archived paths; each product is one
transaction that commits or is skipped. One that commits may have passed over files
that could not be written, lines whose brand was not restored and lines whose barcode is
another product's; all of these, and skipped products, are named in the summary
(`noted`). The panel may change tree and lines
at any time, and the server may be lost in between. *Property.* `RestoredAsArchived`:
a restored product has its archived images, and, but for what is noted, their files and
its lines, each under the same path of codes as in the archive, however often codes repeat,
unless the tree was changed during export or import.

### Purchases

*Code:* `PurchaseService.create`, `pay`; `SuppliersService.update`, `remove`.
*Property.* `SupplierPaidExactly`: the guarded update makes overlapping and retried
payments exact; what an invoice says is paid is the sum of its payments and within its total.

### PanelSession

*Code:* `AuthController`, the token rows of `AuthService`, `api()` of the panel.
*State.* The live refresh tokens, the browser's cookie and access token, and each
call of the panel. Every call that finds the access token expired does a refresh of its
own. *Property.* `CookieLives`: whatever the order of answers, the cookie is a live token
unless logout, reset or age ended it or the answer that replaces it is under way or lost.

## Further workers

Checked together in `MCWorkers`, with the recovery of SyncOperations, under fairness.

### InvoiceDelivery

*Code:* the link in `InvoiceService.create`, `resendSms`, `rotateLink`, `void`, `getPublic`;
`NotificationsService.enqueue`, `process`, `retry`.

*State.* Per invoice the code it bears and all it ever bore; per request its handler
and its job: state, attempts, `channelsDone`, what its worker has in hand; per
provider how many messages it accepted (`sent`) and of how many of these the job does
not know (`unsure`). *Actions.* `Deliver` and `Save` are two steps, between which the
process may die; `Failure` includes the timeout after which the provider may have
accepted; BullMQ repeats failed attempts up to `MaxAttempts` and stalled jobs always.
*Properties.* `DuplicateOnlyAfterLostAnswer`, `RetiredForGood`, `JobsEnd`.
`MessageLinkWasBorne` does not hold: a replayed create sends a link that was never stored.
It is listed as a hazard.

### BackupScheduler

*Code:* `GithubBackupService` without the archive itself.

*State.* The one settings row as it is read and written back whole, the flags `ticking`
and `running`, the activities (timer, boot, requests) with the copy of the settings each
has read. *Actions.* What runs between two awaits; every database call may fail, the
process may restart. *Properties.* `SavedSettingsHold`: a save that met no other activity
stays stored. `DueIsArchived`: an archive that is due is made or tried, whatever
failed before, except after the failed insert of a job row, which leaves `running`
set until a restart (`leaked`, a record of exactly that call). `overlapped` records that a
save met somebody; both decide nothing. That the
schedule is never `Stopped` and that no `DiagnosticsTouch` a save, the comments without
these exceptions, are refuted (see Findings).

## Fairness

`StockLedger`: `WF(Work(t))`, the database executes the statements it is sent, and
`WF(DeadlockVictim(t))`, its detector runs. Recovery: `WF(Step(w))`, a running handler
goes on to its next call unless the process dies; `WF(Scan(w))`, setInterval fires
every minute; `WF(Age(o))`, time passes. Delivery: `WF(Work(r))`, the worker takes
waiting jobs and every provider call ends within its timeout. Backup: `WF(Step(a))`,
every await ends; `SF(BeginTick("timer"))`: the timer is armed anew every 30 seconds and
finds the flag free at times, though not always, because manual checks take it. Nothing
is assumed of clients and operators, nor that a fault ever happens.

## Runs and bounds

| Run | Module, configuration | Checks | Distinct states |
|---|---|---|---|
| stock_ledger | `MCStockLedger`, `StockLedger.cfg` | no negative stock, gapless numbers, retries, whole sales; three requests, one operationId | @1 |
| stock_archive | `MCStockLedger`, `StockLedgerArchive.cfg` | what rows and quantities tell, removal, liveness; two requests beside restores | @2 |
| settlement | `MCInvoiceSettlement`, `InvoiceSettlement.cfg` | payments, returns, voids and receipts | @3 |
| sync | `MCSyncOperations`, `SyncOperations.cfg` | the lifecycle, refinement of OperationOutcome | @4 |
| services | `MCServices`, `Services.cfg` | seven services side by side | @5 |
| workers | `MCWorkers`, `Workers.cfg` | three workers, liveness under the fairness of each | @6 |
| stock_drift | `StockLedger`, `StockLedgerDrift.cfg` | refutes `SomeLedgersMatch` | stops |
| settlement_cap | `InvoiceSettlement`, `InvoiceSettlementCap.cfg` | refutes `PaymentCappedAtNet` | stops |
| sync_final, sync_decisions | `SyncOperations`, `SyncOperationsFinal.cfg`, `...Decisions.cfg` | refute `AppliedIsFinal`, `DecisionsAreTaken` | stop |
| feed | `MCSyncFeed`, `SyncFeed.cfg` | refutes `SomeFeedStatementHolds` | stops |
| statements | `MCStatements`, `Statements.cfg` | refutes `SomeStatementHolds` | stops |

*Stock.* Two items, requests with one or two lines (so that lines interleave and
two sales can lock in opposite orders), one unit per line, zero or one unit in stock
(so that every guard is met both ways), three requests: a sale, something about that
sale, and a third that interferes. A restore may come at any moment and any number of times,
so beside it two requests are enough: the one that drifts and the one it overtakes, or the two
that lock in opposite orders. Symmetry is not used there because liveness is checked.

*Settlement.* Two invoices of one customer, so that an amount is split and credit on
one counts against the other; the older has two units at price 2 and a discount of
1, so a full return refunds more than the total and the net amount becomes negative;
payments of 1 to 3; three requests, one operationId.

*Sync.* Operations do not interact, except in the timer's list of candidates, so one
operation, three requests and one timer run, one crash or lost call. Three
requests are needed for the second decision on a second conflict.

*Services.* Two overlapping requests of any kind in warehouse, catalogue and prices, three
in purchases and sessions; two changes, two entities and one device with pages of one row
in the feed; one fault. The warehouse starts from a hall, a rack and perhaps a box with the
line in it (`Built`), from which two requests reach cycles, baskets with children and
misfiled lines; the catalogue from at most one product and one line (`Stocked`), so that
there are ids for new ones, with a counter that lags, leads or fits, and codes below
`Wide`; the archive from a tree
in which two places have the same code below parents of the same code (`Repeated`).

*Workers.* One operation with two requests and one timer run; one invoice with two
requests and two attempts (`Issuing`: one of them issues the invoice or is a message to the
channels); one request beside the timer of the backup, an interval of one tick, a clock of
two. One fault each. No symmetry: liveness is checked.

*Violations.* As small as shows them. The last three refute several statements at once.
Their property is the weakest: that at least one of the statements holds (of the items that
an archive holds, or of the others; of the feed; of the services). Its
counterexample breaks every one of them, so each is refuted by the one trace. For the feed and
the services `broken` records which statements the behaviour has made false so far, and
decides nothing of the feed; `Breaks` says what makes them false.

*feed* has one customer, whom edits and payments publish by two routes; three changes are needed
for two rows and one change that a device passes by; one device.

*statements* lets the services take their steps one after another, each until what is said of it
is broken (`Turn`). They share no row, so such a behaviour is one of the system. The catalogue takes
three turns: with one product and two lines, with three products and their codes, and with one
product and two requests; between them `Becomes` replaces products and requests by others.
In the second, numbers have two digits for ten (`Radix`) and 4 is the first that is a
digit longer (`Wide`), so 3 and 4 stand for 99999 and 100000.

Symmetry sets permute requests, transactions and items, which no specification
distinguishes; only safety and step properties are checked with them.

## Findings

Statements of the repository that the code's behaviour contradicts. Each is checked by a run
that expects the violation; `PROJECT.json` quotes the lines.

1. *The ledger explains the stock*, over stale writes (stock_drift; docs/architecture.md:16,
   docs/implementation-audit.md:69). adjust, receive and purchase.create store a quantity
   computed from an unlocked read, over a change committed in between.
2. *The same*, over a restore (stock_drift). The restore of a products archive sets the
   quantity without a ledger row. `DriftHasTwoCauses` shows that these two are all,
   `RelativeReconciles` that sales, returns and voids are not affected.
3. *Payments are capped at the net amount* (settlement_cap; comment at invoice.service.ts:914,
   docs/acceptance-matrix.md:51). pay does not take the lock that returnItems takes.
   `PaidWithinTotal` shows that the gross total does hold.
4. *One worker at a time applies an operation* (sync_final; comments at sync.service.ts:94
   and :477). A new row is pending with a null lastAttemptAt while its creator applies
   it, and null may be claimed: in the trace the timer does. The effect stays single.
5. *Terminal states are read-only* (sync_final; comment at sync.service.ts:259). The slower of
   these two workers overwrites 'applied'. The next replay repairs it: the domain handler
   returns the stored result.
6. *A repeated conflict can be decided again* (sync_decisions; comment at sync.service.ts:801,
   docs/android-api-catalog.md:706). The UNIQUE (operationId, status) admits one
   resolved conflict per operation.
7. *Every entity keeps at most one live row* (feed; comment at audit-log.ts:89). A payment of
   a customer publishes the customer without locking the row, and autocommitted
   publishers give the lock up before: two of them leave two rows. `OneRowTellsAll` shows
   that under the lock it holds.
8. *The row tells the latest state* (feed; comment at audit-log.ts:90). Of two autocommitted edits
   the one that has read first may insert last. A sale publishes nothing of its lines.
9. *Any device still pulls it* after a bootstrap (feed; audit-log.ts:90). A change that commits
   between the queries of the bootstrap is in neither of them.
10. *The same* after a pull (feed). A revision drawn early and committed late is passed by.
    `MissedInFourWays` shows that pulls themselves lose nothing.
11. *An acknowledged client needs no pull* (feed; comment at sync.service.ts:459). The cursor that
    it is told to store is the watermark, beyond the changes of everyone else.
12. *A product of several brands is created at once* (statements, `LoneCreateSucceeds`;
    docs/android-api-catalog.md:486, comment at schema.prisma:157). Every priced line records
    its opening price, and every stocked line its opening stock, under the one operationId of
    the request, in tables where it is UNIQUE: the creation always fails. Without an
    operationId, as from the panel, it works.
13. *A stale counter never fails a creation* (statements, `StaleCounterNeverFails`; comment at
    catalog-admin.service.ts:882). The code that is last as a text need not be the highest, and
    the new one is not looked up: with PRD-99999 and PRD-100000 in use and the counter behind
    them the creation fails. `NoCodeCollision` shows that five-digit codes are safe.
14. *A deleted product is dropped by the clients* (statements, `ImageReturns`; comment at
    catalog-admin.service.ts:520, docs/android-offline-first-integration.md:297). Removing one of
    its images afterwards publishes it as updated. `DeletionHolds` names the other ways back.
15. *A basket is always one of the line's shelf* (statements, `BasketOnItsShelf`;
    schema.prisma:256). Moving the basket, or making it a shelf, leaves its lines on the old
    shelf; nothing needs to overlap.
16. *One row per price change* (statements, `RowPerChange`; schema.prisma:277). A restore, or a
    bulk change interrupted between its two statements, changes the price without one.
17. *A single bad tick never stops the schedule* (statements, `Stopped`; comment at
    github-backup.service.ts:104). A failed insert of the job row leaves the flag `running`
    set; only a restart helps (`OnlyRestartHelps`). `DueIsArchived` shows that no other
    failure does this.
18. *Diagnostics leave the settings alone* (statements, `DiagnosticsTouch`; comment at
    github-backup.service.ts:156). They read and write back the whole row; a save in between
    is lost.

## Proofs

Every safety and step property of the passing runs is a theorem for all values of the
constants; liveness alone is model-checked only.

| Module | About |
|---|---|
| `StockLedger_proofs`, `InvoiceSettlement_proofs`, `SyncOperations_proofs` | the specification of that name |
| `Clients_proofs` | the parts SyncFeed and PanelSession of `MCServices` |
| `Catalogue_proofs` | the parts Warehouse and Catalogue |
| `Services_proofs` | the parts Purchases, Prices and ProductsBackup, and all seven together |
| `MCWorkers_proofs` | the parts InvoiceDelivery and BackupScheduler of `MCWorkers` |
| `FiniteLemmas` | finite sets and sums, for the others |

Each module proves `Init => Inv`, `Inv /\ [Next]_vars => Inv'`, one lemma per action, and
derives its theorems from the invariant; the invariant was first checked by TLC. The
modules about parts do this for the part's own specification (the theorems named
`...Alone`) and then for the suite in which the run checks it: a step of another part
leaves `part` alone, so `part = "..." => Inv` is inductive there.

*Assumptions.* `ConstantsAssumption` of the first three modules: the null values differ from
the real ones, bounds are natural numbers, sets whose size or sum is taken are finite. In
`MCServices`: a page has a natural length (`LimitAssumption`), null is no place, item or
product (`NoneAssumption`, `RowsAssumption`), there are finitely many products and their ids
differ from those of lines (`RowsAssumption`; ids are UUIDs), codes are natural
numbers in some radix, or odd and no numbers (`CodesAssumption`), there are finitely many sites and null is no site, no code and
no row (`SitesAssumption`, `NullIsNoRow`). In `MCWorkers`: the interval of the backup is a natural
number. Nothing is assumed of how many requests, places, products, changes, devices or
faults there are. TLC evaluates all of them on the runs.

*Stock.* `NonNegative` is not inductive: a commit publishes what was computed
earlier. `IInv` therefore says what an open transaction will publish
(`PendingIsRight`): never below zero, and for increments exactly the committed
quantity plus the line, because the row is locked (`LocksHeldByOpen`) and nobody else
can commit to it. The read of an absolute writer is only known to lead to a
natural number (`ReadIsUsable`), which is why non-negativity survives its stale
write and the ledger sum does not. `SaleLocks`, a second inductive invariant, gives
atomicity and that a locked item stays active. A restore needs the lock of the row too, so
`PendingIsRight` survives it; `LastRowTruthful` is claimed, and `RelativeReconciles` proved, of
the items it leaves alone. `NumbersGapless` rests on the lock of the
counter: who has drawn a number holds it, and the number is the next after those committed
(`NumberIsNext`), so a commit extends 1..n by n + 1 and a rollback leaves no gap.

*Settlement.* A return's checks stay true from its lock to its commit
(`ReturnsHoldLock`, `ReturnsStayValid`); a payment's sum is within the total
whatever happened since its read (`SharesFit`: refunds only grow, and the sum
checked is the sum stored); each paidAmount ever read was backed, and rows are never
deleted (`SeenBacked`). `ReceiptsAllocated` compares two sums over all invoices: a receipt
that is ready to be written has been allocated to the last unit (`SettlesInFull`), and the sum
of what two functions take together is the sum of their sums (`SumOfBoth`).

*Sync.* A worker claims only what it has seen neither applied nor in conflict
(`SeenIsUnsettled`), is about to record 'applied' only when the effect exists
(`OutcomeIsTrue`), and only requests decide (`RolesAreKept`).

`ImplementsThePromise` is the refinement for any number of workers, claims and crashes:
Init maps to `Outcome!Init`, and every action to a step of OperationOutcome or a stutter.

*Feed.* At most one open transaction that has updated an entity holds it (`OneHolder`). If an
entity has no other publishers, none of them waits, and what it has read and deleted is still
what is there when it commits (`SnapshotsStayTrue`): `OneRowTellsAll`. A payment is a
publisher that holds nothing, so of customers the theorem says nothing, nor does it hold.
For `MissedInFourWays` a revision names one row, drawn once (`RevisionsAreDrawn`), and
no cursor is ahead of the revisions drawn (`CursorsAreBehind`); a pull takes the least
revisions after its cursor, so it brings the last row of whatever it passes
(`PullMissesNothing`), and no publisher but those named hides a row from a device
(`PublishersHideNothing`). `LaterRowsReplace` rests on `RevisionsAreDrawn` too: what a
commit inserts was drawn after all it has deleted.

*Session.* A token in an answer on its way is known to nobody else (`AnswersAreFresh`), so no
other renewal can have ended it when it arrives: `CookieLives`.

*Purchases.* The total that a payment has read is the total as it is (`WritesAsRead`), so
the guard of its UPDATE bounds paidAmount by it: `SupplierPaidExactly`.

*Prices.* `HistoryTells` follows from what a handler knows of its own request
(`HandlersKnow`) and from one lemma per writer about `Traced`, whether the rows lead to the
price or to the price that an interrupted bulk change has yet to record.

*Warehouse.* The invariant is what requests have read (`ReadersKnow`) and that parents exist
(`ParentsExist`). `FittingKeepsForest` is the argument behind the checks: a location that gets
a new parent has no children, or its new parent has no parent, so no group of locations
closes upon itself. Each write keeps the forest when its checks would still hold
(`StillFits`), which is what the property says.

*Catalogue.* Among codes of five digits the last as a text is the highest
(`LastIsHighest`), for only there the order of texts is the order of numbers; so the code behind it is
free (`NextCodeIsFree`). The counter's row is locked from the draw to the commit
(`OneDraws`), so only a restoration can use the code up meanwhile, and a code that makes
them longer stays in use (`CodesStayUsed`). For `DeletionHolds` each request past its
read knows what its product was unless it is `overtaken` (`LookersKnow`, `DeletersKnow`), but for
the removal of an image, which is one of the four ways.

*Archive.* `RestoredAsArchived` needs three things. A place has a path: in a tree no group of
places closes upon itself, so a largest group for which `PathOf` is defined is the whole
(`WalksExist`, `PathSteps`). An import lays out every path below its parent's: by a smallest
set of paths for which it does not, since the longest is restored last and the paths of
parents are archived too (`ImportIsDone`, `LaidIsPath`). And `ArchiveInv` says that the
places of archived lines are among those archived unless the tree was changed between the
two SELECTs (`KnownPlaces`), and that restored paths lead where they say until the tree is
changed again (`Imported`).

*All parts.* `ServicesInv` joins the invariants of the seven parts: `TypesAreKept`.

*Delivery.* A worker knows what its job has stored and at most one message more
(`AttemptsFollowTheJob`); a request that has not committed has given its code to no
invoice (`CodesAreNew`). *Backup.* Whoever is about to write the settings back has read the
last save that ran into nobody (`CopiesAgree`). `OnlyRestartHelps`: while the flag is set and nobody
archives, every activity finds it set, and only who sets it lowers it (`StopStays`).

*Sums and finite sets.* The library's induction theorems take an operator and cannot be
used, but a smallest counterexample can: a strict subset ordering on finite sets is well
founded, so a set of bad subsets has a least one (`SmallestSubset`). With it `FiniteLemmas`
shows that the fold behind `SumFunction` has the equations of a sum (`SumFunctionSums`) and
that a finite set of numbers has a greatest (`FiniteHasMax`); `Services_proofs` does the same
for the paths of a tree and the fold of an import.

*What the proofs found.* `MisfiledOnlyByMove` was stated with the guard of the write alone; the
proof did not go through because three requests, one more than the run has, can misfile a
line with that guard intact (see Warehouse). `SUBSET S \ {{}}` is written `(SUBSET S) \ {{}}` everywhere: the
prover reads the first as the subsets of `S \ {{}}`, which made `Forest` false and a proof from
it worthless. In ProductsBackup an import that finds no id left would not have been well
defined; such an import, which the bounds alone can cause, is now left out by `room`.

Proved only, in no run: `RelativeReconciles` (any relative writer keeps the sum of the
ledger) and `PaidBacked` (recorded payments have rows), parts of the inductive invariants;
`LaterRowsReplace` and `OnlyRestartHelps`.

Model-checked only: liveness (`RequestsEnd`, `PendingIsResolved`, `JobsEnd`,
`DueIsArchived`), which the prover cannot treat.

## Not modelled

Formatting, validation of input shapes, role checks, audit rows, PDF and QR code and
read-only queries change no shared state. The pages of the admin panel and the website,
by far the largest part of the repository, hold forms and tables over the API; of the
panel only what it shares with the server, its session, is modelled. Status
columns that one request writes without reading anything (cheques, customers, vehicles,
settings, users, brands, categories), the login rate limit and password recovery codes,
bot commands and deployment are left out: see the notes in `PROJECT.json`.

Of codes, those with six digits at most are in their order of texts (a seventh would need the
same again), and letters are read as 0 and sort last, as they do after digits. In `StockLedger`
a restore is one step that waits for free rows, so `RequestsEnd` does not look into cycles of
waits that a restore is part of: the deadlock detector resolves them like any other, and a product
that is its victim is noted and skipped (`SkipProduct` of ProductsBackup).

Restoring a voided invoice's units twice, or once more after a healthy return,
is reachable in the model as in the code; no statement of the repository says what
void must restore, so it is listed as a hazard without a property. The same holds for a
payment that commits on an invoice voided after its check, and for the link in the message of a
replayed create.

## Plan

1. `InvoiceLife`: StockLedger's units with InvoiceSettlement's returns and voids over one
   invoice, to bound what is restored.
2. The allocation loop as a recursive function checked against `Allocates`.
3. Larger instances of the suites' parts, one by one.
