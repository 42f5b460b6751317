# Formal model of antd-platform

antd-platform (product name Coneeko) is a multi-tenant restaurant platform: a
NestJS backend over Postgres, Redis/BullMQ and MQTT (`src/apps/backend`), an
offline-first tablet register (`src/apps/pos`) and a Next.js dashboard
(`src/apps/frontend`). This directory holds TLA+ models of the parts in which an
order, money or a kitchen ticket can go wrong between two steps, the TLC
configurations that check them on small instances, and TLAPS proofs of the
properties that matter most.

Abbreviations for source files used below: **OS** `orders/orders.service.ts`,
**OP** `orders/order-payment.service.ts`, **PR** `orders/order-pricing.service.ts`,
**HB** `printers/heartbeat.service.ts`, **PJ** `printers/print-jobs.service.ts`,
**PP** `printers/processors/print-queue.processor.ts`, **MQ**
`printers/mqtt.service.ts`, **MS** `menus/menus.service.ts`, **PV**
`provisioning/provisioning.processor.ts`, **RP**
`recordings/recordings.processor.ts`, **CS** `conversations/conversations.service.ts` (all in `src/apps/backend/src`); **SE**
`sync/syncEngine.ts` and the repositories `db/*Repo.ts` (in `src/apps/pos/src`). Other
files are named without their directory; `PROJECT.json` has the full paths.

## 1. Inventory

### How the parts interact

```
 register (apps/pos)                       backend (apps/backend)            outside
 ───────────────────                       ──────────────────────            ───────
 CART, TABS, SPLIT ─> SQLite ─┬─> KITCHEN QUEUE ─ Bluetooth ─> printer
        │                     ├─> drawer, business day
        │                     v
        │                  OUTBOX ─ syncEngine ─ HTTP ─┐
 dashboard ── HTTP ────────────────────────────────────┤
 voice agent ── webhook ── VOICE ORDERS ── BullMQ ─────┤
 marketplaces ─ webhook ── MARKETPLACE IMPORT ─ BullMQ ┤
                                                       v
                                          ORDER INTAKE  orders.service
                                                │  insert, commit
                                                ├── side effects: print, events
                                                v
                   REFUND KEYS (cache) ─> ORDER LEDGER  orders + payments rows
                                          COURSE FIRING order_items
                                                │ 'paid', 'order_saved', 'course'
                                                v
                                          PRINT PIPELINE print_jobs ─ BullMQ ─ MQTT ─> printer
                                                ^                                      │
                                                └──────── status reports ──────────────┘
 Stripe ── webhook ── STRIPE EVENTS ── subscriptions rows
 staff, import ── MENU PUBLISHING ── cache ── BullMQ ── the agent's knowledge (Telnyx)
 operator ── TENANT PROVISIONING ── BullMQ ── numbers and assistants (Telnyx)
 calls, syncs ── RECORDINGS ── BullMQ ── audio (Telnyx) ── object storage
```

The parts of the backend share the database and, for the refund keys and the
marks of voice orders, the cache; Postgres runs READ COMMITTED, so between two
statements of a handler any other handler may commit. The parts of the register
share one SQLite file, whose calls are synchronous: two of them interleave only
where the code awaits, renders or is killed. The register talks to the backend through
the order API only, and goes on while the backend is out of reach.

### Components with a model

| component | state | operations | what is hard | what must hold |
|---|---|---|---|---|
| Order ledger (OS, OP, `order-status.ts`) | `orders` rows, `payments` rows, `order_mutations` claims, the advisory lock per order | pay, refund, partial refund, adjust, append, edit, status change, the creations | interleaving of handlers, writes from stale reads, handlers that die, retried appends | refunds within payments; money held within the bill; a paid order is covered; the bill matches the lines; an append counts once |
| Order intake (OS, PR) | `orders` rows with their unique client key, ticket numbers, `customers`, loyalty points, requested print jobs | look up, resolve the customer, take a number, insert, replay, dispatch, print; a payment meanwhile | retries racing their original, crashes after the commit, check-then-insert | one order per key; ticket numbers identify; the answer is the client's own order; a ticket prints once; every request ends |
| POS outbox and sync engine (SE, `tabsRepo`, `ordersRepo`, `mutationsRepo`) | local order rows, outbox, parked mutations, the run under way, requests in flight and abandoned; the server's orders and claims | sell, open, load, append, settle, fire, retry; start, push, accept, refuse, time out, finish; serve now or late | taps during an await, lost answers, late requests, kills | a paid order has every line; retries add nothing; synced means settled; creates land first; the outbox drains |
| Print pipeline (PJ, PP, MQ, HB) | `print_jobs` rows, queue tasks, broker connection, in-memory buffer, packets and reports under way | create, requeue, add, start, publish, record, connect and flush, the printer's reports, crash | the worker's record racing the printer's report, the buffer's cap, crashes | a job being retried has a task; a job shown as sent is accounted for; every job ends |
| Course firing (OS:1520-1600, `order-print.service.ts`) | the order's lines with their course and stamp, claimed taps, handlers in flight | create, fire, append, edit, pay, status change, die | a ticket is read back and queued after the commit that stamped its lines | a tap prints once; what is fired is printed; a payment stops the fires |
| Refund keys (`idempotency.service.ts`, OP:362) | cache entries, requests | replay, begin, refund, complete, drop, expire | a reservation that is a read and a write; a cache that fails after the refund | one refund per key; one holder; success is real; no reservation without a holder |
| Voice orders (`webhooks.controller.ts`, `webhook-queue.processor.ts`) | webhook events, jobs, cache marks, orders | reserve, enqueue, release; check, mark, create, complete, fail | retries of the agent against retries of the queue | one order per call; a confirmed call is ordered; a duplicate is covered; jobs end |
| Marketplace import (`aggregator/`) | the marketplace's order, events, jobs, raw and native order, staff requests | reserve, record, enqueue; fetch, upsert, create, link, accept, write a status, fail; staff accept, cancel, move | events out of order, two imports at once, failures half way | accepted means imported; linked means imported; a cancellation stops; reserved events are worked; jobs end |
| Stripe events (`stripe-webhook.service.ts`) | subscriptions rows, webhook events, handlers; Stripe's side | claim, retrieve, find, write, finish, fail | repeated, reordered and failed deliveries | nobody is cut off while paying; a plan was bought; in order, the row mirrors Stripe |
| Menu publishing (MS, `import-queue.processor.ts`, `menu-ai-sync.processor.ts`) | menu rows, the version stamp, cached menus, the delayed upload job, the uploaded and the embedded menu | edit, flush, bump the stamp; get, remove, add the job; import, clear; look, query, store; upload, embed, link | a stamp read before the rows, two edits in one millisecond, a job at work that cannot be removed, two publishers | readers are shown what is due; an edit reaches the agent |
| Tenant provisioning (PV, `provisioning.service.ts`, `cron.service.ts`) | organization, location and step rows, jobs, the attempt under way, what the vendor holds | the eight steps, fail, activate; retry, retry or skip a step, deprovision, set the status; sweep | attempts repeated after lost answers and deaths, the operator's writes meanwhile | nothing is bought twice; an archive releases; an active location is equipped; a set-up settles |
| Recordings (RP, CS, `recordings.service.ts`, `cron.service.ts`) | per id of a call its `recordings` row, its audio in storage, usage events; `conversations` rows, import jobs | event, import on request, sync with the vendor; take, fetch, save, charge, fail; delete, retention sweep | an import queued four ways, retried, taken from a dead worker; a sync that writes over the import's row | the minutes are billed once; a sync skips what is uploaded |
| Kitchen queue of the register (`printQueueService.ts`, `printQueueRepo.ts`) | print jobs, the drain in flight, the note left for it, the badge | enqueue, drain, retry all, kill, launch | callers during an await, kills at the printer | one ticket at the printer; none left behind; the badge is true; a dish is cooked once |
| Customers (`customersRepo.ts`, `CustomersScreen.tsx`, SE, `customers.service.ts`) | the register's customers table, the list on screen, the id in the cart and in the orders; the run under way; profiles and requests at the server | enter, pick, hold, sell, resume, retry, kill; push a customer, swap its id, push an order, merge the server's list; look up, insert | ids that are swapped under a cart that holds them, customers entered in the middle of a run, an upsert without a key | an order goes to the guest it was rung in for; no order is refused for its customer but for a known cause; nobody is lost; one profile per phone |
| Cart and tabs (`cartOps.ts`, `CartContext.tsx`, `CartPanel.tsx`, `tabsRepo.ts`) | the cart, its baseline, the draft, the order rows, what was queued | add, edit, merge, hold, send, save to a tab, pay, resume, kill | two taps in one frame, drafts that come back | tabs agree with what the server was told; no line below what was fired; sent once; paid stays paid |
| Split checks (`cartOps.ts:480`, `PaymentScreen.tsx`) | the check on screen, those that wait, the whole cart, the paid rows | start, pay, cancel, clear, load | cents and plates that do not divide | no cent and no plate lost; each check is an order |
| Cash drawer and business day (`drawerRepo.ts`, `businessDayRepo.ts`) | days, sessions, orders with their day | start and end a day, open and close a drawer, sell, save, settle | four screens over two tables, a kill between | one drawer; never expects more than it was given; a day counts its sales |

### Components without one

`PROJECT.json` lists all of them with their sources and the reason. In short:

- *Order pricing*: a pure computation on one request (validation, tax, service
  charge); what its lock and its ticket number promise is in `OrderIntake`.
- *Configuration and reference data* (locations, tables, discounts,
  organizations, API keys, invitations): rows written one at a time
  and read elsewhere; no protocol.
- *External calls* (telephony, voice agents, storage, mail, marketplace
  clients): the behaviour is the vendor's; what the code does around the calls is in
  the models of its workers.
- *Read-only* (analytics, exports, end-of-day reports, health, audit log) and
  *user interface* (dashboard, POS screens): no state the order path
  depends on; the taps of the POS screens are inputs of `PosSync`.
- *Authentication, users, billing*: independent of the order path.

### What is hard to test here

The 40 entries of `hazards` in `PROJECT.json` name the line each one bites at.
They fall into six groups: two writers of one row (OP:65, OS:1243, OS:1378,
OS:1588, `provisioning.service.ts:610`, MS:328); a retry of what was done or is still running
(OS:1120, OS:1388, OS:1791, SE:224, `webhooks.controller.ts:161`, PV:241, CS:257, `customers.service.ts:101`); a crash or a failure
between a commit and what follows it (PP:28, SE:91, OP:380,
`order-normalization.service.ts:138`, `cron.service.ts:62`); a queue or buffer at its
limit or with an entry that never succeeds (MQ:223, SE:138, `queues.module.ts:69`);
answers, events or values that arrive out of order (SE:192, MS:110,
`aggregator-webhook.processor.ts:197`, `stripe-webhook.service.ts:36`); and, on the register,
taps that land between a read and a render (`CartPanel.tsx:59`, `CartContext.tsx:256`,
`printQueueService.ts:80`) or during a sync (SE:266, `customersRepo.ts:105`). Each has a property that some run checks. Two more have none,
because the code keeps none, and are in section 5: status writers that check the transition
on a row read earlier (OS:1643), and a printer's report that meets the worker's own record
(HB:94).

## 2. Modules

| module | models | role |
|---|---|---|
| `OrderLedger` | OS, OP, `order-status.ts` | the detailed specification of an order's money and status |
| `Till` | - | what the ledger promises: a bill and money held per order |
| `OrderLedgerMC` | - | endpoint sets for TLC |
| `OrderLedgerProofs` | - | type correctness, refunds within payments, an append counts once; held within bill, paid is covered, bill matches lines, refinement of `Till` |
| `OrderIntake` | OS, PR | creation of an order, from request to answer |
| `OrderBook` | - | what creation promises: one order per key, increasing numbers |
| `OrderIntakeMC` | - | attempt symmetry |
| `OrderIntakeProofs` | - | one order per key, ticket numbers, own answers, one ticket, points add up, refinement of `OrderBook` |
| `Sums` | - | what holds of every sum over a finite set, for the proofs |
| `PosSync` | SE, `tabsRepo`, `ordersRepo`, `mutationsRepo`, and the server as far as the register sees it | the outbox and its draining |
| `GuestBill` | - | what the outbox promises a guest: a bill that follows what is rung in |
| `PrintQueue` | PJ, PP, MQ, HB; BullMQ and the printer as the code uses them | the life of a print job |
| `PrintQueueProofs` | - | a job being retried has a task, a job shown as sent is accounted for, the buffer keeps its cap |
| `CourseFire` | OS, `order-print.service.ts` | one coursed order and its kitchen tickets |
| `RefundKeys` | `idempotency.service.ts`, OP | the Idempotency-Key of a partial refund |
| `VoiceOrders` | `webhooks.controller.ts`, `webhook-queue.processor.ts`, BullMQ | a call, its jobs and its order |
| `MarketplaceImport` | `aggregator/`, BullMQ, the marketplace | one marketplace order and its events |
| `StripeEvents` | `stripe-webhook.service.ts`, Stripe | the subscriptions rows of one organization |
| `MenuPublish` | MS, `import-queue.processor.ts`, `menu-ai-sync.processor.ts`, BullMQ, the cache | one organization's menu, cached and published |
| `Provisioning` | PV, `provisioning.service.ts`, `cron.service.ts`, BullMQ, the vendor | the set-up of one organization |
| `Recordings` | RP, CS, `webhooks.controller.ts`, `recordings.service.ts`, `cron.service.ts`, BullMQ | the recording of one call |
| `KitchenQueue` | `printQueueService.ts`, `printQueueRepo.ts` | the register's Bluetooth tickets |
| `CustomerSync` | `customersRepo.ts`, `CustomersScreen.tsx`, SE, `customers.service.ts`, PR | the customers of one register and their profiles on the server |
| `TabCart` | `cartOps.ts`, `CartContext.tsx`, `CartPanel.tsx`, `tabsRepo.ts` | the cart, drafts, held orders and tabs |
| `SplitChecks` | `cartOps.ts`, `CartContext.tsx`, `PaymentScreen.tsx` | a cart divided into checks |
| `CashDrawer` | `drawerRepo.ts`, `businessDayRepo.ts` and their screens | cash custody and the takings of a day |
| `RegisterMC` | - | `KitchenQueue`, `CustomerSync`, `TabCart`, `SplitChecks` and `CashDrawer` side by side, for TLC |
| `BackendMC` | - | `VoiceOrders`, `MarketplaceImport`, `StripeEvents`, `RefundKeys` and `CourseFire` side by side |
| `WorkersMC` | - | `PosSync`, `Provisioning`, `MenuPublish` and `Recordings` side by side |
| `QueuesMC` | - | the six parts that promise liveness beside the intake and the print queue, each with its fairness |
| `RegisterProofs` | - | every property of `register`: served, tabs stay true, splits add up, custody holds, orders follow, the types |
| `BackendProofs` | - | every property of `backend`, and the types of its five parts |
| `SyncProofs` | - | of `workers`: a retry adds nothing, the server hears in order, refinement of `GuestBill` |
| `WorkersProofs` | - | every other property of `workers`, and the types of its four parts |

### OrderLedger

One row of `orders` per order; the positive and the negative rows of `payments`
as two sums (`taken`, `refunded`); the claims of `order_mutations`; and per
handler in flight (`req`) what it read. A handler is two actions: `...Read` is
the read with its guards and, for the five operations that call `lockOrderRow`,
the taking of the advisory lock; `...Commit` is the write. `Abort` is a handler
that dies or a transaction that rolls back between the two. Every write uses the
values the code uses: `q.row` where the code uses the row it read, `@` where the
SQL statement leaves the column alone.

| action | code |
|---|---|
| `CreateRemoteOrder`, `CreateMarketplaceOrder`, `CreatePosTab`, `CreatePosSale`, `CreateAutoStarted` | `createOrderForOrg`, `createMarketplaceOrder`, `createPosOrder` unpaid and paid, `handleOrderIncomingEvent` |
| `PayRead`, `PayCommit` | `recordPayment`, `payOrder` |
| `RefundRead`, `RefundCommit` | `refundPaidOrder` |
| `PartialRead`, `PartialCommit` | `refundPartialOrder` |
| `AdjustRead`, `AdjustCommit` | `adjustOrderItems` |
| `AppendRead`, `AppendCommit` | `appendOrderItems` |
| `EditRead`, `EditCommit` | `updateOrderItems` (no lock) |
| `StatusRead`, `StatusWrite` | `updateOrderStatus`, `updateStatusForAggregator` (no lock) |

Money is in whole cents. Lines, discount and tax are one number, the value of the
lines; tip and service charge are columns of their own, because handlers treat
them differently. `Endpoints` says which operations the clients of a deployment
use; it is how the runs and theorems say "without the item edit".

### OrderIntake

An *attempt* is one transmission of a request; retries are further attempts with
the same key. Each action is one database round trip of the handler, in the order
of the code: `Receive` (the lookup by client order id and the loyalty check),
`FindProfile` and `InsertProfile` (`resolveCustomerIdByPhone`), `TakeNumber`
(the advisory lock and `nextTicketNumber`), `InsertOrder` or, on the unique index,
`LoseInsert` and `Replay` (`replayOnClientOrderIdConflict`), `Dispatch` (the read-back
of `dispatchOrderSideEffects`), `PrintDocuments` (`printForEvents`, which swallows
failures). `Pay` is a tender by another client; `Crash` may come between any two.

### PosSync

The register's actions are taps (`Sell`, `OpenTab`, `LoadTab`, `AppendToTab`,
`Settle`, `FireCourse`, `RetrySync`), each with all its local writes; the engine's
are `StartRun` (the snapshot), `Push` (one request), `Accept`, `Refuse`, `TimeOut`
and `FinishRun`. A request that timed out stays in `strays` and may be served at
any later time (`ServeStray`), or never. `Perform` is the order API as the register
sees it: idempotent creates, claims for appends and fires, no key for a settle.
A tap torn in two by a kill (`"tear" \in Faults`) is in the model.

### PrintQueue

A job is a row and one or more BullMQ tasks. `Start`, `Publish` and `Record` are
the three database or network steps of the worker. `Publish` has the five outcomes of
`MqttService.publish`. `Deliver` is the printer (external): it prints a ticket once,
discards a duplicate, or reports a trouble. `ReportFailure` and `WriteFailure` are the
read and the write of `handlePrintStatus`. `Crash` empties what was in memory and
puts tasks at work back to waiting, as BullMQ's stalled sweep does.

### CourseFire

`FireBegin` takes the advisory lock and claims the tap, `FireStamp` stamps the unfired lines
of the course and commits, `ReadBack` and `PrintCourse` are the read of the order after the
commit and the ticket with every line of the course. `Create` fires the first course.
`AppendLines`, `EditRead` and `EditCommit` (without the lock, as in the code), `Pay` and `Shut`
are what a fire can meet. `Die` ends a handler anywhere, `PrintFails` is a ticket that
could not be queued and was logged.

### RefundKeys

Each await of `withIdempotency` is a step: `Replay`, `Begin` (SET NX) or `BeginRead` and
`BeginWrite` (a cache without a raw client), `Refund` or `Refused`, `Complete` or `Drop`;
`CacheFails` at any of them, `Die`, `Expire`. `spoiled` records, per key, which of the
five mishaps has befallen it, so that a property can name its exceptions and
nothing else is excepted.

### VoiceOrders

`Reserve`, `Enqueue`, `EnqueueFails` and `Release` are the handler; `Take`, `Check`, `Mark`,
`CreateOrder`, `Complete`, `Reject` the worker; `AttemptFails` and `WorkerDies` its retries and
stalls as BullMQ counts them; `CacheFails` and `Evict` the cache.

### MarketplaceImport

`Tell` is the marketplace. `Reserve`, `Record`, `Enqueue` and `EnqueueFails` are the ingest
request: an enqueue that throws is taken not to have added the job. The worker runs
`Take`, `Fetch`, `Upsert`, `CreateNative`, `Link`, `AutoAccept`, or `ReadStatus` and `JobWrites`, then
`MarkCompleted`; `StepFails`, `ImportFails`, `MarkImportFailed` and `MarkFailed` are its error
paths. `Ask`, `ClerkReads` and `ClerkWrites` are the staff, who act on a row read earlier.

### StripeEvents

`Buy`, `Change`, `End` and `AddLocation` are the environment and number their events.
`Claim` inserts the event row, `Duplicate` answers one that is there. `Retrieve`, `FindOrg`
and `FindRow` are reads, `WriteCheckout`, `WriteUpdated` and `WriteDeleted` the updates,
`Conflict` is the unique index on the subscription, `Fail` and `Die` the ends without success.

### MenuPublish

A menu is the number of edits it contains. `Commit` is any of the handlers that write the
menu; `Bump` sets the version stamp, to a time between the write and now; `GetJob`,
`RemoveJob` and `AddJob` are the three calls that re-arm the delayed job. `Flush` is the
clear-cache button. `ImportCommit` and `ImportClear` are the import job, which clears the
whole cache and schedules nothing. A reader (`Ask`, `Press`, `JobReads`) takes the stamp, then
`Look`, `Query`, `Store`; a publisher goes on with `Upload`, `Embed`, `Linked`. `due` is what a
reader from now on must be shown; `dropped` collects, at the step that loses it, an edit
nobody will bring to the agent, so that every way of losing one is named.

### Provisioning

`Begin` reads the steps for the whole attempt, `NextStep` picks the next open one; a step that
buys or clones is two actions, the vendor's and the row's, and `AnswerLost` or `WorkerDies`
may come between. `StepFails` and `FailLocation` are the catch clause, `ActivateLocation` and
`ActivateOrg` the end. A retry is its six statements (`RetryCheck` to `RetryAdd`), a
deprovisioning its five (`Deprovision` to `ArchiveLocation`). What is written into a row with
no metadata is not seen in memory by the steps that follow, as in the code. `loose` records
what the vendor holds and no row shows, at the step that loses it.

### Recordings

A call has two ids, the session the event names and the conversation the sync names; each has
a row, an object and jobs of its own. `Saved` and `SavedAdds` are the two steps of the webhook
handler, `Ask` is the import on request. A sync is `SyncStart`, `SyncThread`, `SyncLook`,
`SyncUpdate` or `SyncInsert`, and `SyncAttach`, which asks by the row as it was found. A job is
`Take`, `Fetch`, `TranscriptFails`, `Save`, `Finish` and, in its catch, `Fail`; the insert of the
minutes is fired and not awaited, so `Charge` is a step of its own and dies with the process.
`Delete` hides a row; `Age`, `Sweep`, `SweepObject`, `SweepRow` and `SweepThread` are the nightly
retention. `lifted` counts, at the step that does it, how often 'uploaded' was taken from a row.

### KitchenQueue

A drain is an invocation of `process`: `"looping"` while it holds the JavaScript turn,
`"printer"` while it awaits `printLines`. `Process` is the guard of the service with its note
for the drain in flight; `Enqueue`, `RetryAllFailed` and `Launch` write the table and then
call it. `Step` is a turn of the loop over the jobs as they were selected, `EndPass` its end.
`PrintFails` may have put the ticket out; `Kill` may come at any time.

### CustomerSync

`AddCustomer`, `SelectCustomer` and `SaveOrder` are the taps of the customers screen and of the
cart, on the list as it was last read (`listed`); `Resume` takes the customer back from the row of
the order, which a run may have swapped meanwhile. A run is `StartRun` (the list of dirty
customers), `PushCustomer` and `Resolve` for each, `CustomersPushed`, `PushOrder` for each order
that waits, `Pull`. A request is `LookUp` and `WriteProfile`, the two statements of
`upsertCustomer`; one that timed out is served all the same, or is not. `CallerOrders` is an order by phone
or from a marketplace, which resolves its customer with the same two. `late`, `stale`, `missed` and `raced`
record, at the step that does it, why a property's exception applies.

### TabCart

A press is handled against the cart as last rendered: `pressed` says that a submit was
handled and its clear not yet rendered. `base` is the quantity each line of a tab was loaded
with; `told` what was queued for the server. Units per variant are compared, so a
merge of equal lines is the identity on what the kitchen cooks and is checked to be.

### SplitChecks

`Part` and `Share` are `splitLines`: units by largest remainder, or cents when there are fewer
units than checks. `Start` is any assignment of lines to checks. `PayCheck` saves the check on
the screen under the id of the resumed order or a new one and brings up the next.

### CashDrawer

Days and sessions are two tables written by four screens. Time is counted in sessions
opened, which is all `salesSince` can tell apart. Every order costs one unit.

### RegisterMC, BackendMC, WorkersMC, QueuesMC

`PosSync` and the modules from `CourseFire` on share no state as modelled: what flows between them
(a ticket, an order, a queued mutation) is an input of the one and a history of the other. The
composites instantiate them side by side. `part` is chosen in the initial state, `Runs(p)` says
that it is `p`, and a behaviour is one of the part while the others stand still: so one
TLC run explores the union, not the product, of their state spaces, and their
properties are checked under the names they have in their modules. The bounds a proof needs of
the parts' constants are named there (`DrawerBounds`, `CourseBounds`, ...) and assumed, so that TLC
evaluates them on each run.

## 3. Runs

A *pass* run explores every reachable state of its instance.

| run | what it asks | instance |
|---|---|---|
| `ledger_locked` | With every writer that shares the lock, and the status writers that do not: `HeldWithinBill`, `PaidIsCovered`, `BillMatchesLines`, and does the ledger implement `Till`? | 1 order, 2 handlers, carts of 1 or 2, tips 0 or 1, 1 mutation id |
| `ledger_all` | What survives when the unlocked edit and orders paid on creation are added: `TypeOK`, `RefundsWithinPayments`, `AppendedOnce` | the same, all endpoints |
| `ledger_edit_race` | *violation*: `HeldWithinBill` with the edit | 1 order, 2 handlers |
| `intake_rush` | Three attempts, keyed or not, AI channel and register, crashes anywhere: `OneOrderPerKey`, `TicketsIdentify`, `AnswersAreOwn`, refinement of `OrderBook` | 3 attempts, 1 key and none, 1 location |
| `intake_retry` | Three transmissions of one keyed sale: `TicketPrintedOnce`, `PointsAddUp`, and does each end (`RequestsEnd`)? | 3 attempts, 1 key, fair |
| `print_ends` | Print jobs under every trouble of broker and printer: the buffer keeps to its cap (`TypeOK`), a job being retried has a task (`RetryingIsWorked`), and until the backend crashes nothing shown as sent is lost (`SentIsAccountedFor`) and every job ends (`JobsEnd`) | 2 jobs, 1 slot, 2 attempts, buffer of 1, 1 requeue, 1 crash, fair |
| `workers` | The register's outbox under all taps, refusals, timeouts, late requests and kills (`HeardInOrder`, `RetryAddsNothing`, and does it implement `GuestBill`?); the vendor's resources through retries, deaths and an operator (`SetupHolds`); the menu through edits, clears and two publishers (`ReadsAreFresh`, `EditsReachTheAgent`); the minutes of a call through imports, a sync, a deletion and the retention (`BilledOnce`) | sync: 1 order, 2 lines, a refusable append; tenant: 2 jobs, 3 attempts, 1 stall, 1 request of the operator, 1 mishap; menu: 2 editors, 1 guest, 2 edits, 2 milliseconds, 1 press, 1 mishap; call: 2 jobs in the queue, 1 worker, 2 attempts, 1 sync, 1 import on request, 1 deletion, 1 death |
| `register` | The kitchen is served (`KitchenIsServed`), tabs stay true to the server and to what was paid (`TabsStayTrue`), a split adds up (`SplitAddsUp`), the drawer's custody holds (`CustodyHolds`), an order follows its customer through the swap of ids (`CustomersFollow`) | kitchen queue: 3 tickets, 2 drains, 2 attempts, 2 taps, 1 kill; cart: 2 lines in 2 variants, quantities to 2, 1 tab, 3 carts; split: 2 plates, 2 or 3 checks, quantities to 3, prices 5 and 7, 3 orders; drawer: 2 sales, 2 dates, 3 sessions, 3 day starts; customers: 2 guests, 2 entries, 3 profiles, 1 order, 1 lost answer or kill, 1 order by phone |
| `backend` | Calls become orders, the register hears the marketplace, the plan follows Stripe, a refund key is honoured, fires are kept | voice: 2 requests of a call, 2 attempts, 1 stall; marketplace: 2 events, 1 clerk, 1 move; Stripe: 2 subscriptions, 2 plans, 1 row, 3 events; refunds: 3 requests on 1 key, both kinds of cache; courses: 3 lines, 2 courses, 2 handlers, 1 tap |
| `queues` | Do the outbox, the kitchen queue, the voice jobs, the marketplace jobs and the set-up of a tenant come to an end: `OutboxDrains`, `QueuedJobsEnd` | sync: 2 tabs of 1 line, a refusable create, timeouts; kitchen: 2 tickets, 1 kill; voice: 1 request; marketplace: 2 events, automatic acceptance, no stall, no staff; tenant: 1 job, 3 mishaps, no operator; customers: 1 guest without a phone, 1 order, 1 timeout; fair |
| `voice_skipped` | *violation*: `SkippedWasProcessed` | 1 request, 2 attempts |
| `customer_refused` | *violation*: `OnlyKnownIds` | 1 guest, 1 order, no faults |

In these runs a property is the conjunction of what its component promises.
The conjuncts have names and comments of their own in the component's module:

| property | conjuncts |
|---|---|
| `KitchenIsServed` | `OneAtATime`, `NoneLeftBehind`, `BadgeIsTrue`, `CookedOnce` |
| `TabsStayTrue` | `ServerIsTold` (`RegisterAgrees`, `NeverBelowFired`, `SentOnce`), *`PaidStaysPaid`* |
| `SplitAddsUp` | `CentsAddUp`, `PlatesKept`, `ChecksAreBilled` |
| `CustodyHolds` | `OneDrawer`, `NeverExpectsMore`, `DayCountsItsSales` |
| `CallsBecomeOrders` | `OneOrderPerCall`, `ConfirmedIsOrdered`, `DuplicateIsCovered` |
| `RegisterHears` | `AcceptedIsImported`, `LinkedIsImported`, `CompletedIsOnRegister`, `CancelStops`, `ReservedIsWorked` |
| `PlanFollowsStripe` | `NeverCutOff`, `PlanIsBought`, `InOrderMirrors` |
| `KeyIsHonoured` | `RefundedOnce`, `OneHolder`, `SuccessIsReal`, `ReservationIsHeld` |
| `FiresAreKept` | `KitchenFollowsFires` (`TapPrintsOnce`, `FiredIsPrinted`, `NoReprint`), and nothing is fired once the order is paid |
| `CustomersFollow` | `NothingDangles`, `GuestIsBilled`, `RefusalIsKnown`, `NobodyIsLost`, `ProfilesAreFew` |
| `HeardInOrder` | `LandsInOrder` (`NothingLeftUnbilled`, `CreateLandsFirst`), `ShownIsHeard` (`SyncedIsSettled`, `ServerWillHear`) |
| `SetupHolds` | `ResourcesAreKnown` (`NothingBoughtTwice`, `ArchiveReleases`), `ActiveIsEquipped` |
| `OutboxDrains` | `OutboxDrains` (sync), `OrdersGetThrough` (customers) |
| `QueuedJobsEnd` | `EveryTicketIsTried` (kitchen), `JobsEnd` (voice, marketplace), `SetupSettles` (tenant) |

Why the bounds are enough for the cases in question:

- *Ledger.* Rows of different orders never meet except in `claims`, and every race
  in the code is between two handlers of one order; two handlers that start again
  as often as they like give all sequences as well as all pairs. Two cart values give
  re-pricing up and down; `MaxTaken = 3` admits split tenders that cover the largest
  bill, tip included; `MaxGoods` and `MaxTip` bound growth only. A
  mutation id shared by two *orders* needs a second order: that case is covered by the
  proof of `AppendedOnce`.
- *Intake.* A race on a key is between two attempts; the third is the retry that
  arrives after either of them died. One location is the worst case for numbers.
- *Sync.* Mutations of different orders meet in the blocking rule and in the order of
  the queue: `queues` has two orders. A create is refused there, an append in
  `workers`; the theorems cover both at once. Two lines tell "created with" from "appended".
- *Print.* Two jobs share the buffer of one place; one requeue and one retry give a job a second
  task and a task a second attempt. One slot is one task at a time, as the single worker of the code
  has it; the theorems cover any number of each.
- *Kitchen queue.* The guard admits one drain, so a second is the one that may slip
  in; three tickets are one printing, one waiting and one enqueued meanwhile; one kill
  with two attempts is a ticket that is tried again after it. `KitchenIsServed` is proved for any.
- *Customers.* Two entries are the same guest twice, or one entered while the other is pushed; the
  guests are one with a phone number and one with a mail address the server refuses, and in `queues`
  one without a phone; the third profile is the one a repeated insert makes. `CustomersFollow` is
  proved for any guests, so for those without a phone too.
- *Cart.* Two taps in one frame need two lines to differ; a merge needs a variant equal
  and one not; three carts are the tab, another sale and the tab again.
- *Split.* 5 and 7 leave a remainder by 2 and by 3, and three plates on two checks
  or two on three take the unit branch and the cent branch.
- *Drawer.* The second day and the third session are the first that can be
  confused with an earlier one; proved for any number.
- *Voice, refunds.* The races are between two requests on one key; the third refund is the
  retry after a mishap. Two attempts give one retry of the queue, one stall one redelivery.
- *Marketplace.* Two events are every pair that can be reordered or run at once.
- *Stripe.* Three events are a purchase, a change and an end, or a second subscription
  bought while the first one's events are still on their way.
- *Courses.* Three lines are two on one course and one on the other; one tap shared by two
  handlers is the retry.
- *Tenant.* One mishap with three attempts is a step that runs again after any of the ways to
  fail; one request of the operator falls between any two steps of it. Two jobs are the first
  and the one a retry adds. `queues` has three mishaps, which exhaust the attempts.
- *Call.* Two jobs under one id are the pair of which the second must find the first one's row; a
  death with two attempts is a job that runs again after each of its steps.
- *Menu.* Two edits are the pair that can share a millisecond, or a job; the press is the second
  publisher. `ReadsAreFresh` is proved for any number of them.

`CHECK_DEADLOCK FALSE` stands where every request, order or job of a bounded
instance ends; the ledger runs check deadlock. Symmetry is used in runs without
liveness properties and for sets whose members the module only compares.

### Fairness

- *Intake*: `WF_vars(Handle(a))`. The Node event loop resumes a handler whose query
  has returned. Nothing is assumed of clients, cashiers or crashes. A handler waiting
  for the advisory lock needs weak fairness only, since each instance has
  finitely many attempts and the lock is released at commit or death.
- *Sync* (in `queues`): weak fairness of `StartRun`, `Push`, `FinishRun`: the timer (`state/AppContext.tsx:146`) keeps
  starting runs and a run awaits one request after another. Strong fairness, per order,
  of `Serve` and of `Accept` or `Refuse`: requests of an order are not lost for ever.
  Weak fairness would not do, since a timeout disables both again and again.
- *Print*: weak fairness of the backend's own steps (`AddTask`, `Work`, `Report`,
  `WriteFailure`). Nothing is asked of the broker, of `Connect` or of the printer:
  a publish to a broker that is away is over at once.
- *Kitchen queue* (in `queues`): weak fairness of each drain's own steps and of `Launch`, which
  stands for the application being opened again after it was killed. A print call
  ends, with the ticket or with an error.
- *Customers* (in `queues`): weak fairness of the engine as a whole, which has one thing to do at a
  time, and of the server's two statements. Nothing is asked of the staff.
- *Voice, marketplace* (in `queues`): weak fairness of each job's worker. BullMQ hands out a job that
  waits and takes back one whose worker died; failures are bounded by its own counts of
  attempts and stalls. Nothing is asked of the agent, the marketplace or the staff.
- *Tenant* (in `queues`): weak fairness of the worker and of the sweep, which the scheduler runs
  every midnight. Nothing is asked of the operator or of the vendor.

`register`, `backend` and `workers` ask safety only and assume nothing.

## 4. Proofs

TLAPS checks these for every value of the constants that satisfies the stated
assumptions: any number of orders, handlers, attempts, keys, jobs, slots and any
amounts.

| theorem | says |
|---|---|
| `LedgerTypeOK`, `LedgerRefundsWithinPayments`, `LedgerAppendedOnce` | for all endpoints, aborts included |
| `LedgerHeldWithinBill` | if no client uses the item edit |
| `LedgerPaidIsCovered` | if, besides, no order is paid on creation |
| `LedgerBillMatchesLines` | if no client uses the edit and no order carries a service charge |
| `LedgerImplementsTill` | if no client uses the edit: `Spec => ImplementsTill` |
| `IntakeTypeOK`, `IntakeOneOrderPerKey`, `IntakeTicketsIdentify`, `IntakeAnswersAreOwn`, `IntakeTicketPrintedOnce` | for any attempts, keys, locations |
| `IntakePointsAddUp` | for any finite set of attempts, if they are of one keyed sale or redeem nothing |
| `IntakeImplementsOrderBook` | `Spec => ImplementsOrderBook` |
| `PrintRetryingIsWorked` | for any jobs, requeues, crashes and buffer |
| `PrintSentIsAccountedFor` | for any jobs, requeues and buffer |
| `PrintTypeOK` | for any finite set of jobs and any cap, crashes included |
| `RefundTypeOK`, `RefundKeyIsHonoured`, `KeyIsHonouredAll` | for any requests, keys, caches and failures |
| `FiresAreKeptAll` | for any lines, courses, handlers, taps and failures |
| `CallsBecomeOrdersAll` | for any requests, keys, attempts, stalls and failures |
| `PlanFollowsStripeAll` | for any subscriptions, plans, rows, events and failures |
| `RegisterHearsAll` | for any events, clerks, attempts, stalls and moves |
| `BackendTypeOK` | the types of all five parts of the back end |
| `KitchenQueueIsServed`, `KitchenIsServedAll` | for any tickets, drains, attempts, taps, kills and failures |
| `DrawerCustodyHolds`, `CustodyHoldsAll` | for any finite set of orders, any dates after the first, any number of sessions and day starts |
| `CustomersAreFollowed`, `CustomersFollowAll` | for any guests, orders and finite sets of ids, any calls, kills and lost answers |
| `CartTellsTheServer`, `CartPaidStaysPaid`, `TabsStayTrueAll` | for any tabs, variants, quantities and carts, any finite set of lines |
| `SplitKeepsTheBill`, `SplitAddsUpAll` | for any finite sets of lines and of checks, any counts and prices |
| `RegisterTypeOK` | the types of all five parts of the register |
| `SyncRetryAddsNothing`, `RetryAddsNothingAll` | for any orders, lines, taps and troubles |
| `SyncIsHeardInOrder`, `HeardInOrderAll` | the same, if no kill falls between a row and its mutation (`"tear"`) |
| `GuestBillImplemented` | under the same hypothesis: `Spec => ImplementsGuestBill` |
| `MenuReadsAreFresh`, `ReadsAreFreshAll` | for any editors, guests, edits, milliseconds, mishaps |
| `MenuEditsReachTheAgent`, `EditsReachTheAgentAll` | the same, with the publisher's jobs and presses |
| `CallIsBilledOnce`, `BilledOnceAll` | for any finite queue, attempts, syncs, deletions and deaths, if there is one worker |
| `TenantIsSetUp`, `SetupHoldsAll` | for any finite set of jobs, any attempts, stalls, requests of the operator and mishaps |
| `WorkersTypeOK` | the types of all four parts of the workers, for any number of workers |

The hypotheses on `Endpoints` and `Surcharges`, and `crashes = 0` in `SentIsAccountedFor`, are not conveniences: without them
the formulas are false of the code (section 5), which is what the run
with a violation and the counterexamples show. So with two hypotheses on the workers:
`"tear" \notin Faults` in `HeardInOrderAll` and `GuestBillImplemented`, since the row of an order and its mutation are two
statements and a kill between them leaves a row the server is never told of
(`ServerWillHear`, section 5); and `Workers = 1` in `BilledOnceAll`, since two workers may both look
at the row before either has written it (`BilledOnce` (calls), section 5). The code starts one
worker per backend. `workers` runs under both. And so with `OneSale` in `IntakePointsAddUp`: two
sales that redeem the same points at once would drive the balance below zero, and the floor of OS:1000 hides it
(section 5). `intake_retry` runs under it, with three transmissions that may redeem. The sets that are
said to be finite (attempts, jobs, lines, checks, orders, ids) are those over which something is summed or counted;
a table holds finitely many rows.

A theorem named `...All` states a property of a composite, of every behaviour of the composition,
as the run checks it on an instance; the one without is the same of the component alone, under its
own specification. The theorems about `PrintQueue` state what `print_ends` checks of it.

*Assumptions.* `MoneyAssumption` (amounts are natural numbers of cents),
`MutationAssumption` (a missing mutation id is not one of them),
`IntakeAssumption` and `NoOrderAssumption`, `PrintAssumption` and `NoneAssumption`
(placeholders are not rows or tasks). Of the composites:

| assumption | says |
|---|---|
| `KitchenBounds` | the tickets are finitely many; what is counted is a natural number |
| `DrawerBounds` | the orders are finitely many, so that their takings can be counted; 1 is a date and 0 is not |
| `CartBounds` | the lines are finitely many, the placeholder is no order, and there is a first cart |
| `SplitBounds` | lines and orders are finitely many, a split is into at least one check, prices are numbers of cents, and the placeholder is no order and no check |
| `CustomerBounds` | the ids are finitely many, no id of the register is one of the server's, and none is the placeholder; those with a phone number are guests |
| `CourseBounds` | the missing mutation id is not a tap; the first course is a course |
| `VoiceBounds`, `MarketBounds` | a missing key is no key; a job has at least one attempt; stalls, moves are counted |
| `StripeBounds` | no subscription is a placeholder; events are counted |
| `MenuBounds` | there is a first millisecond and an attempt; no guest is a publisher; what is counted is a natural number |
| `SyncBounds` | the placeholder is no row, request, order or sale |
| `CallBounds` | a job has an attempt; the placeholder is no row or task; the queue is finite |
| `TenantBounds` | the job that is there from the start is one of the queue's, which are finitely many; a job has an attempt; stalls, requests and mishaps are counted |

TLC evaluates each of them in the runs.

*The inductive invariants.*

- `OrderLedgerProofs!IInv`. `RefundsWithinPayments` is not inductive: a refund
  in flight will give back what it *read*. `OneHolder` says the lock excludes;
  `SeenBalance` that a lock holder's balance is still the balance and its amount was
  checked against it; `InFlightExists` that no handler is in flight on an order that
  is not there. `OneHolder` is what carries `SeenBalance` over a rival's commit.
- `OrderLedgerProofs!TInv` adds that the *row* the holder read still stands
  but for its status (`Seen`), and the accounts themselves (`Books`). The status is
  left out because status writers do not take the lock; that nothing about money
  depends on it is what the proof shows. `Kept`, `Tendered`, `GivenBack` and `Rebilled`
  classify what a commit does to its order, and serve both the invariant and the
  refinement: a tender is `Till!Receive`, a refund `Till!GiveBack`, an adjustment, an
  append or a creation `Till!Bill`, and everything else a stutter.
- `OrderIntakeProofs!IInv`. Uniqueness of keys is the index (`KeysIdentify`);
  uniqueness of numbers needs that one attempt per location is between taking a
  number and committing it (`OneAtATime`) and that its number is above all committed
  ones (`NumberIsNext`); `RowsAreCommitted` that no attempt inserts twice.
- `PrintQueueProofs!IInv`. `RetryingIsWorked` needs that whatever still carries a
  job (a task, a packet, a report, a pending write) carries one that has a row
  (`PendingHaveRows`). `SentIsAccountedFor` needs that whoever will write `sent` (a worker
  that has published, a report that the ticket is done) speaks of a ticket that has
  arrived or is under way (`ClaimsArrive`).
- `OrderIntakeProofs!PointsInv`. The balance is the stake, plus the sum of what the orders earned, less
  the sum of what they redeemed. The floor at zero keeps it only if it is never reached: `Covered` says that
  whoever is yet to insert an order that is not there asked for no more than there is.
- `PrintQueueProofs!Kept`. A publish adds one packet, and only with room; a flush that fails keeps at most
  what it found; so the sum over the jobs stays within `offlineQueueMaxSize`.
- `AppendedOnce` rests on `CountsAreClaimed` (lines and claim are one transaction),
  `TicketPrintedOnce` on `PrintsOnce` (only an attempt that is over has printed).
- `RefundIInv`. That a key refunds once is not inductive. `RefundHeld`: a key that was
  neither raced for nor expired has one holder, whose reservation stands. `RefundCounted`: if no
  answer of it was lost either, an empty key has refunded nothing, and neither has a
  holder that has not run. `RefundReal`: a success, and a record of one, stand for a refund.
  `RefundBlame` says which mishaps can befall which cache, so that the exceptions stay narrow.
- `CourseIInv`. That a tap prints once needs the lock and the claim together: `CourseLock` (the
  lock has one holder, on an unpaid order, with a tap nobody has claimed) and `CourseTaps` (a
  claimed tap has its ticket or is in the hands of one handler). `CourseLines` keeps what a handler
  read true until it prints; `CourseOnce` says that a stamped course to which nothing was
  added is printed, or is one handler's to print.
- `VoiceIInv`. `VoiceOnce`: a clean key without a mark has no job past the check, and with a mark it has at
  most one, which makes no second order. `VoiceFates` says what became of a job that ended, and
  `VoiceCover` who answers for a duplicate. `VoiceCounts` charges every order but the last to an attempt
  or a stall, so that the exceptions stay bounded.
- `StripeIInv`. An event carries what Stripe knew when it was sent (`StripeTold`), a handler
  what it was handed or fetched (`StripeHands`), a row a plan its subscription has had (`StripeRows`).
  That rows mirror Stripe when events come in order needs that an event is begun when those before
  it are done (`StripeOrder`), and speaks of the last event of each subscription (`StripeMirrors`).
- `MarketIInv`. `MarketStages` reads off a job how far its order is: row, native order, link,
  accept. `MarketImports` says that while imports do not overlap one is under way at most, of a
  row that is not linked. `MarketDone` and `MarketStops` are what a done event has left behind.
- `KitchenIInv`. One flag (`running`) stands for the drain in flight: at most one drain is at work
  and the flag tells which; a queued ticket is in its snapshot, or the note is left for it; the
  printer has the ticket the row says; copies are bounded by the attempts that were cut.
- `KitchenCapped` and `DrawerCapped` add to them what the counters are bounded by, for the types.
- `DrawerIInv`. `DrawerLatest`: only the last session can be open, on an open day, and no
  order is of a later one. `DrawerCovered`: what the open drawer will be said to have sold is at
  most what it took. `DrawerDated`: a paid order is of the day that was open when it was paid.
- `CartIInv`. `CartTab`: a tab in the cart is above what its row has, line by line, and its baseline is that row, until
  it is saved; `CartDelta` shows that what is then queued is the difference, dish by dish, also when lines
  of one variant were merged. `CartUnsent`: a cart that can be pressed was not sent, and the held order it came
  from is still held, so that the next save is the first to tell the server of it. `CartTold`: what is
  not placed was not told, and what is, was told as it is.
- `SplitIInv`. `SplitPriced`: until a cart is split a line costs its units at one price, so the unit branch
  gives away whole prices and the cent branch what largest remainders make of the total. Each check's part of a line is known
  by its rank, and the parts of every line add up to the line (`SplitCashKept`, `SplitUnitsKept`);
  rows and columns of the table of lines by checks are then exchanged. `SplitBilled`: the money of the
  orders, on the device and on the server, is that of the checks paid.
- `CustIInv`. A request is for the guest its customer stands for and what it found is his
  (`CustCallsTrue`); the engine awaits one (`CustOneAwaited`), and a row that waits is in the list of the
  run or came after it (`CustDirtyOnes`); an order names whom it was meant for (`CustSomeone`). That profiles
  are few is an account (`CustUnphoned`): the profiles of a guest, the requests that may make one
  more and the rows still to be pushed are at most the times he was entered and the answers lost.
  A step moves one unit of it from the one to the other, or pays for it. With a phone number,
  one request at most has looked and missed (`CustPhoned`).
- `MenuIInv`. That a hit is fresh rests on what is stored: `MenuEntriesServe` says
  that an entry under a stamp set once is as new as what is due, while that stamp is current,
  and as what any reader with that stamp was owed; `MenuStoresWillServe` says it of the entry a
  reader is about to store. A bump keeps both because a stamp that was used before is now tied
  (`MenuStampsAreSet`), a clear because what is on its way will be late.
- `MenuAgentInv`. An edit whose request is over is due to every reader, or was dropped with its stamp
  (`MenuHeardOf`); so what a publisher's reader is shown has all edits that its job or press is for, and
  a job that is at work is the one that reads (`MenuJobReads`). `MenuTight` bounds what a reader can hold by what has been written, and is
  what keeps the counters and caches within their types.
- `SyncIInv`. That a retry adds nothing needs two facts about the whole system: no line is in two appends, wherever they
  are (outbox, snapshot of the run, flight, strays, claims: `SyncDisjoint`), and a line counts as often as the
  append with it was claimed (`SyncCounted`). `SyncQueue` and `SyncRunInOrder` say in which order a run can
  meet the mutations of an order; `SyncLanded` that nothing but a create goes out
  for an order the server does not have. `SyncHeard`, on top of it, follows each line and each payment to the server: billed, or queued,
  or in every create there is. `SyncNothingMadeUp` is the converse, for the refinement of `GuestBill`: no row on its way,
  and no order of the server, has a line the register has not. Every step is then a tap
  (`GuestBill!Ring`), a request that reaches the server (`Hear`, or a stutter when it is a replay or refused), or
  leaves both accounts as they are (`SyncStepsAre`).
- `CallIInv`. The worker took its job because the recording was not uploaded and nobody else
  can upload it meanwhile (`CallWorkIsDue`); so what is billed and what is owed is at most one, plus one
  for each time the row was taken back (`CallCharged`). Both say so if there is one worker; the types, which are in
  the same invariant, hold for any number.
- `TenantIInv`. `TenantBuys`: what is being bought has a number of its own and is for a location that has
  none. `TenantArchives`: an archive releases what it read, or what was written since is noted as missed.
  `TenantEquips`: a step shown as over, or behind the attempt in hand, has left what it was to leave,
  or the operator skipped it.
  `TenantFirst`: without the operator there is one job.
- `TenantCapped`, for the types: an attempt at a job buys, clones and mails once at most. What has been done, and what
  the attempt at work may still do, is at most the attempts begun, which sum up over the jobs; and
  `TenantWorks` says that each job has at most as many as its tries and its stalls allow.

Each component's proof begins with what a step makes of each variable (`MenuMoves`,
`TenantMoves` and the like); invariants that read a few variables are then carried over all
the steps that leave those alone at once.

*Sums.* What the models add up over a set (points, packets, cents, units, attempts) is a fold of the
community modules, which is a function chosen to satisfy a recursion. `Sums` proves what the proofs need of it:
such a function exists and its value does not depend on the choice (`AddsExists`, `AddsAgree`), a sum changes by what one element
changes by (`SumChange`), it is monotone, additive and can be taken in either order. Each is by
induction over the subsets of the set, whose strict inclusion is well founded: the facts of the library that take a
relation can be cited, where those that take an operator cannot.

*Only model-checked.* Every invariant and every action property that a passing run checks is proved, and so are the three
refinements. Left to TLC is liveness (`RequestsEnd`, `JobsEnd`, the whole of `queues`): fairness and ENABLED
are outside the prover.

## 5. Where code and documentation part

Three runs show a disagreement between the code and what a comment in it says; each
is a finding in `PROJECT.json`.

| run | in short |
|---|---|
| `ledger_edit_race` | OS:1243: the item edit checks paid, status and balance outside the lock; a tender in between leaves more money held than the new bill. |
| `voice_skipped` | `webhook-queue.processor.ts:94`: the mark that an event was seen is written before the work, so the retry of an attempt that failed is skipped as a duplicate and the call never becomes an order. |
| `customer_refused` | SE:266, `customersRepo.ts:105`: a customer entered in the middle of a run, or still in the cart when its id is swapped, gives the order an id the server does not know; it is refused, in the second case at every retry. |

The modules state more properties that the code does not keep. They have no run of
their own. To reproduce one, take the named run's cfg or module, give the constants
the values below, check the property alone, under `Spec` and without deadlock
(names in italics are action properties).

| property | counterexample | constants |
|---|---|---|
| `CoveredIsPaid` | OP:569: a part-paid order adjusted down to what is paid stays unpaid, and no tender can close it | `ledger_locked`, `Endpoints = {"remote", "pay", "adjust"}` |
| `PaidIsCovered` | OS:1081: a register sale is paid on insert and has no payments row | `ledger_locked`, `Endpoints = {"posPaid"}` |
| `BillMatchesLines` | OS:1466: an append to a tab with a service charge drops it from the total | `ledger_locked`, `Endpoints = {"pos", "append"}`, `Surcharges = {0, 1}` |
| *`CancelledTakesNoMoney`* | OS:1643: a cancellation between a tender's guard and its write | `ledger_locked`, `Endpoints = {"remote", "pay", "status"}` |
| *`TerminalStatusIsFinal`* | OS:1643: two status writers, the second overwrites `cancelled` | `ledger_locked`, `Endpoints = {"remote", "status"}` |
| *`StatusMovesAreLegal`* | OP:313: refunding a completed order cancels it | `ledger_locked`, `Endpoints = {"remote", "pay", "refund", "status"}` |
| `AnsweredIsPrinted` | OS:1791: crash or print failure after the commit; the retry is answered with the order and prints nothing | `intake_retry`, `Attempts = {a1, a2}` |
| `PointsAddUp` | OS:1000: two sales under two keys redeem the same points; the floor at zero hides it | the same, `Keys = {k1, k2}` |
| `OneProfilePerPhone` | PR:456: two first orders of one number make two profiles | the same, `Channels = {"market"}`, `Keys = {k1, k2}` |
| `OrdersAreProfiled` | OS:756: the AI channel never resolves a customer | `intake_retry`, `Attempts = {a1, a2}`, `Channels = {"ai"}`, `Keys = {NoKey}` |
| `ReceiptPrintedOnce` | OS:1828: a tender between the commit and the read-back | `intake_retry`, `Attempts = {a1, a2}` |
| `BilledOnce` | SE:182: the create is sent with the row as it is *now*, with lines whose append is still queued; they are billed twice | *sync*: `PosSync` with `Orders = {o1}`, `Items = {i1, i2}`, `Faults = {"timeout", "kill"}`, all `Taps`, `Refusable = {"create", "append"}` |
| `RefusalIsReal` | SE:247: a settle has no key; its retry is refused as already paid | *sync*, `Taps = {"open", "settle"}` |
| `ClosedIsPaid` | ordersRepo:226: the retry of a refused tab brings it back as `pending_sync`, and its create closes it unpaid | *sync*, `Taps = {"open", "retry"}` |
| `ParkedIsShown` | tabsRepo:41: a tab on screen is saved over the failure that its create met meanwhile | *sync* |
| `ServerWillHear` | tabsRepo:21: a kill between the row and its mutation | *sync*, `Faults = {"tear"}` |
| `SentIsPrinted` | HB:94: a job is `sent` once published, so the printer's error report is dropped as if it were a duplicate's | `print_ends`, `MaxCrashes = 0`, `MaxRequeues = 0` |
| *`NeverDowngraded`* | HB:94: the failure report reads the row before the worker writes `sent` | `print_ends`, `MaxCrashes = 0`, `Troubles = {}` |
| `FailedIsDeadLetter` | PP:88: an unsent packet is not an exception, so it is never tried again | `print_ends`, `MaxCrashes = 0`, `BufferSize = 0`, `MaxAttempts = 3`, `Troubles = {"offline"}` |
| `SentIsAccountedFor` without `crashes = 0` | MQ:21: the buffer dies with the process; its packets are recorded as sent | `print_ends`, `Troubles = {"offline"}` |
| `JobsEnd` without `crashes > 0` | PJ:54: a crash after the row is committed (PJ:35) and before its task is queued leaves the row `queued`, and nothing looks for it | `print_ends`, `Troubles = {}` |
| `PaidIsFired` | an order paid on creation leaves the later courses unfired for ever | `CourseFire`: `Lines = {l1, l2, l3}`, `Courses = {1, 2}`, `FirstCourse = 1`, `Handlers = {h1, h2}`, `Taps = {t1}`, `Faults = {"die", "queue"}`, `MaxPrints = 2` |
| `CookedOnce` | a line appended to a fired course and fired again prints the whole course | the same |
| *`CancelledStays`* | a staff write, on a row read earlier, over a cancellation | `MarketplaceImport`: `Events = {e1, e2}`, `Clerks = {c1}`, `Faults = {}`, `MaxAttempts = 2`, `MaxStalls = 0`, `MaxMoves = 1` |
| `CancelIsHeard` | a cancellation handled while the import is still before the link is dropped | the same |
| `AnsweredIsProcessed` | a redelivery is answered as a duplicate while, or after, the first one fails | `StripeEvents`: `Subs = {s1, s2}`, `Plans = {"growth", "enterprise"}`, `Rows = {i1, i2}`, `MaxEvents = 3`, `Faults = {"throw"}` |
| `PaidIsServed` | only one of two location rows gets the plan | the same |
| `RoutedToAgent` | PV:80, PV:363: what a step writes into a row without metadata is not in the steps already read, so the first attempt routes the number through the fallback connection and not through the app of its own assistant | `Provisioning`: `Jobs = {j1, j2}`, `FirstJob = j1`, `Faults = {}`, `MaxAttempts = 3`, `MaxStalls = 0`, `MaxDemands = 0`, `MaxMishaps = 0` |
| `AdminIsInvited` | a job added by a retry has no address; the step completes without an invitation | the same, `Faults = {"vendor", "lost", "mail", "delete", "queue", "die"}`, `MaxStalls = 1`, `MaxDemands = 1`, `MaxMishaps = 1` |
| `PaidOnce` | PV:241: the answer to a number order is lost, and the next attempt places another | the same |
| *`ArchivedStays`* | a retry, or `setStatus`, brings an archived organization back | `Provisioning`, the first constants with `MaxDemands = 2` |
| *`ActiveJobSuffices`* | MS:330: the job at work has read the menu before the edit; the edit's add is ignored | `MenuPublish`: `Editors = {e1, e2}`, `Guests = {g1}`, `Faults = {}`, `MaxEdits = 2`, `MaxClock = 2`, `MaxAsked = 0`, `MaxMishaps = 0`, `MaxAttempts = 2`, `MaxStalls = 1` |
| `ImportsShow` | `import-queue.processor.ts:308`: a reader from before the clear stores the old menu after it | the same, `MaxAsked = 2` |
| `UploadedPlays` | `cron.service.ts:121`: the sweep deletes the object between an import's upload and its upsert, so the row shows audio that is gone | *call*: `Recordings` with `Syncs = {s1}`, `Slots = {1, 2}`, `Workers = 1`, `MaxAttempts = 2`, `MaxSyncs = 3`, `MaxAsked = 1`, `MaxDeletes = 1`, `MaxDeaths = 0`, `Faults = {}` |
| `StoredIsNamed` | RP:126: the transcript fails after the upload; the audio stays in storage and no row names it, so no retention deletes it | *call*, `Faults = {"transcript"}` |
| `DeletedForGood` | CS:243, RP:173: a sync or an import after the sweep inserts the recording again | *call*, `Syncs = {s1, s2}`, `MaxSyncs = 2`, `MaxDeaths = 1` |
| `OneThread` | CS:192: two syncs find no conversation, and no unique index stops the second insert | the same |
| `BilledOnce` (calls) | RP:78: two workers (two backends) look at the row before either has written it | the same, `Workers = 2` |
| *`SyncSkipsUploaded`* | CS:237: a sync sets the status of an uploaded recording back to 'completed', and the sync after next imports it again "ONLY if not already uploaded" (CS:256) and bills the call again | *call*, `Slots = {1}`, `MaxAsked = 0`, `MaxDeletes = 0` |
| `OrdersGetThrough` | SE:266: one customer whose mail address the server refuses ends every run before the first order; under `FairSpec` | `CustomerSync`: `Guests = {g1}`, `Phoned = {g1}`, `Malformed = {g1}`, `Locals = {l1}`, `Profiles = {s1, s2}`, `Orders = {o1}`, `MaxLost = 1`, `MaxCallers = 0`, `Faults = {"timeout"}` |
| `StuckIsLoud` | `printQueueService.ts:98`: a ticket retried with its attempts used up stays `queued`, and the badge (`TopBar.tsx:28`) is silent | `KitchenQueue`: `Jobs = {1, 2}`, `Drains = {d1, d2}`, `MaxAttempts = 2`, `MaxTaps = 2`, `MaxKills = 1`, `Faults = {"printer"}` |
| `KitchenKnows` | the edit of a fired line of a tab is not told to the server | `TabCart`: `Lines = {1, 2}`, `Variants = {"plain", "spicy"}`, `Orders = {o1}`, `MaxQty = 2`, `MaxCarts = 3`, `Faults = {}` |
| `ResumedIsBilled` | the checks of a resumed order overwrite each other under its one id | `SplitChecks`: `Lines = {p1, p2}`, `Counts = {2}`, `MaxQty = 2`, `Prices = {5, 7}`, `Orders = {o1, o2, o3}` |
| `NothingPaidTwice` | `PaymentScreen.tsx:183`: cancelling after a paid check brings the whole cart back | the same |
| `DrawerBalances` | `drawerRepo.ts:77`: an order created before the session and paid in it | `CashDrawer`: `Orders = {o1}`, `Dates = {1}`, `MaxOpens = 2`, `MaxDays = 2` |

## 6. What the models leave out

- *Ledger*: how a cart is priced (its value is a parameter), the discount column
  apart from its effect on the total, menu stock, drawers and reports, caches. A
  transaction's writes are one step, as READ COMMITTED makes them for everyone else.
- *Intake*: cart validation, drawer attribution, events. The handler's side effects
  after the commit are awaited by its answer, as in the code.
- *Sync*: held drafts (local only), the catalog pull, a
  second register, and what staff do to the order on the server meanwhile (that is
  `Refusable`, a refusal for reasons of the server's own). A held-up first request
  and its retry are never served at the same instant: the claim and the unique
  index, which `OrderLedger` and `OrderIntake` model, serialise them.
- *Print*: the heartbeat sweep, ticket bytes, the printer registry, several backends.
- *Courses*: the number of copies and the stations a course ticket goes to.
- *Voice*: the search for the menu items a caller names (found or not is a fault).
- *Marketplace*: the lifecycle events of a store, denial reasons, delivery details.
- *Stripe*: periods and `cancel_at_period_end`, which decide what is shown and not the plan.
- *Menu*: what an edit changes, the crawling and extraction of an import, several locations,
  and the expiry of cache entries, which bounds how long a stale one is shown.
- *Tenant*: further locations, the key `register_webhook` gives the assistant, a missing
  telephony connection, and the sweep's read before its write.
- *Recordings*: the columns of a conversation, transcripts, the two ids of one call being told
  apart from those of another, several calls, several backends.
- *Kitchen queue*: `retryJob`, which nothing calls (`printQueueService.ts:132`), and the layout of a ticket.
- *Cart*: prices, discounts, modifiers beyond telling lines apart.
- *Customers*: names, notes and points of a profile, tabs, and the outbox beyond one push per order.
- *Split*: tax and tips, which the payment screen computes from the check's cents.
- *Drawer*: takings by other means than cash, and the day's printed report.

## 7. Not modelled

What remains has no protocol that a model could get wrong, or none that is this code's:

- *Order pricing and cart validation* are one pure computation on one request; a model would
  repeat its arithmetic. What its result must satisfy later on is in `OrderLedger`.
- *Reference data* (locations and hours, tables and floor plan, discounts,
  organizations, API keys, invitations) is written one row per request and read elsewhere.
- *Authentication, sessions, PIN lockout, plan limits and usage* do not touch orders; their
  state is a token or a counter with an expiry.
- *Vendor clients* (telephony, storage, mail, marketplace adapters, the extraction of menus by a
  language model) and the *outbound webhooks* they resemble are input and output: one request, one
  answer, logged.
- *Analytics, exports, reports, audit log, health* only read or only append.
- *Screens* of the dashboard and of the register, which make up most of the repository's lines:
  their taps are the inputs of `PosSync`, `TabCart`, `CustomerSync`, `SplitChecks` and `KitchenQueue`. Controllers and transfer
  objects only hand requests on. This is why the definitions in `PROJECT.json` stand for a small
  share of the repository's lines, and for most of those that change an order, a payment or a ticket.
