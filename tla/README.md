# ChainOS: specifications, model checking and proofs

ChainOS is a multi-tenant supply chain application: a NestJS API over
PostgreSQL (`apps/api`, `packages/database`), a Next.js front end (`apps/web`)
and a seed. This directory holds TLA+ modules for the parts of it whose correctness
depends on what happens when requests, event handlers, tabs and failures
overlap, and for the read side, where the same figure is computed in several
places; the TLC configurations that check them; and theorems with proofs for
TLAPS. Paths below are relative to `src/`; `.../` stands for
`apps/api/src/modules/`.

## 1. Inventory of the system

| Component | State | Operations | Interacts with |
|---|---|---|---|
| Tenant transactions: `withTenant` (`packages/database/src/index.ts`) | the rows of PostgreSQL | run a callback in one READ COMMITTED transaction, 30 s at most | everything |
| Sales orders (`.../fulfillment/sales-orders.service.ts`, `sales-order-lifecycle.ts`) | `SalesOrder.status`, `SalesOrderLine.qtyReserved/qtyFulfilled` | create, confirm, allocate, cancel, fulfill | calls Inventory in its own transaction; emits `sales-order.allocated`, `sales-order.fulfilled` |
| Inventory (`.../inventory/inventory.service.ts`) | `StockLevel`, `InventoryReservation`, `StockMovement`, `ProcessedEvent` | reserve, release, handlers of `po.received` and `sales-order.fulfilled` | emits `stock.changed`, `stock.low` |
| Domain events (`apps/api/src/common/events`) | none that lasts: an in-process emitter | emit after commit, handlers claim the event id | joins the modules |
| Purchase orders (`.../procurement/purchase-orders.service.ts`) | `PurchaseOrder.status`, `qtyReceived`, `GoodsReceipt` | create, approve, cancel, receive, react to `shipment.created` | emits `po.approved`, `po.received` |
| Shipments (`.../logistics/shipments.service.ts`, `shipment-lifecycle.ts`) | `Shipment`, `ShipmentEvent`, `ShipmentException` | create, book, dispatch, arrive, deliver, cancel, manual events, ETA; every change and every page load evaluates the delay exceptions | reads orders, emits `shipment.*` |
| Sessions (`.../iam/auth/auth.service.ts`, `apps/web/middleware.ts`, `apps/web/lib/actions/auth.ts`) | `RefreshToken`, the browser's cookies | login, refresh by the middleware, logout | joins the web application and the API |
| Document numbers (`apps/api/src/common/numbering.ts`) | `NumberSequence` | next number, in the transaction of the insert | create operations |
| Analytics (`.../analytics`) | none | summaries, trends, supplier performance, inventory risk, Exception Center | reads all tables |
| Permissions (`packages/database/prisma/seed.ts`, the controllers' `@RequirePermissions`) | `Role.permissions`, copied into each access token | allow or refuse a route; show or hide a button | API and pages |
| Web pages (`apps/web/app`) | what a page has seen, what is typed into its forms | buttons, forms, lists, dashboard | the API, by server actions |
| Seed (`packages/database/prisma/seed.ts`) | every table | run on an empty database, or on one in use | - |
| Master data: products, suppliers, customers, warehouses | single rows | create, read, update | - |
| Audit log; tenant isolation | `AuditLog`; row level security | append; filter | all writes |

**What makes this code hard.** A request is a callback of several database
statements, and two callbacks run at once. READ COMMITTED lets a callback
decide on rows that others change before it writes. Locks are taken one row
after the other, so callbacks can deadlock. What must happen after a commit is
carried by an event that exists in memory only; a handler is a transaction of
its own that may fail, run twice, or run after the order has moved on. What a
browser shows, and the permissions and tokens it carries, are older than what
the server has; and figures that should agree are computed apart, from stored
exceptions that only a change or a page load brings up to date.

**What makes each component correct.**

* *Sales orders and inventory*: reserved stock never exceeds stock on hand; an
  order is reserved completely or not at all; a line never ships more than was
  ordered; every fulfilment is taken off the shelves exactly once; reserved
  stock equals what the open reservations still have to ship; the status tells
  what the lines say, and follows the lifecycle; nothing waits for ever.
* *Purchase orders*: a line never receives more than was ordered; the status is
  derived from the lines; a receipt is posted exactly once; there is one stock
  row per product and warehouse.
* *Shipments*: whatever requests overlap, a status is backed by its timestamps,
  and no two wait for each other in a circle; requests that take turns follow the
  lifecycle and leave at most one open exception of a kind, none on a closed
  shipment; an undisturbed evaluation closes what is no longer wanted, brings one
  exception of a wanted kind to its level and adds no duplicate to those of a race.
* *Sessions*: racing tabs never leave the browser with a revoked token; a login is
  continued by one token at a time; a page let through is served; a change of the
  role takes effect when its old tokens have expired; a logout ends its session.
* *Document numbers*: the orders created are numbered without a gap; creation stops
  for two reasons only, a fixture's number and a counter the seed has set back.
* *Analytics*: figures computed in different places agree; delays that are counted
  are real; the shelves are what the ledger says; work that was planned does not
  move the forecast.
* *Seed*: a second run takes nothing away, and changes nothing if nothing was done.
* *Permissions and pages*: a page that shows what is there offers nothing that is
  refused; an order is never stuck between the roles.

## 2. Plan

1. **Outbound core** (done): `ReadCommitted`, `Inventory`, `SalesOrders`,
   `Outbound`, the abstract `AtomicOutbound`, and `OutboundProofs`.
2. **Inbound** (done): `Procurement` - purchase orders, receipts, `po.received`,
   the creation of a missing stock row and what `stock_levels`' unique index
   really excludes - `Inbound`, and the abstract `AtomicInbound`.
3. **Shipments** (done): `Lifecycles`, `Delays`, `Shipments`, and `ShipmentsProofs`.
4. **Sessions** (done): `Sessions`.
5. **The read side** (done): `Seed`, `Analytics`, `Views`, and `ControlTower`, which
   composes both flows, shipments, document numbers and the seed at the grain of
   a request.
6. **Permissions and pages** (done): `Access`, `Pages`.
7. **Proofs** (section 6). Done: every safety and action property the passing runs
   check, both refinements included.
8. **Modelling still open**: the network map, the forms that create documents, and
   pages beyond the first.

Modules are written so that they can be proved about: parameters are CONSTANTS
with named assumptions, every operation is an action of its own, invariants are
conjunctions of named parts, and no module declares a RECURSIVE operator.

## 3. Modules and how they correspond to the code

**`ReadCommitted`** - one row of a table as callbacks see it. `com` is the
committed version, `cur` the one its writer has written, `by` the writer.
`Sees` is what a statement reads (own write, else last commit); `Free` says a
write or a `FOR UPDATE` need not wait; `Put` writes and keeps the row locked;
`CommitAll`/`RollbackAll` end a transaction on a table; `Deadlocked` is
PostgreSQL's criterion for a victim. Isolation, locks and the detector are
PostgreSQL's, not this repository's; the module says what the code relies on.

**`Callbacks`** - what a connection has read and still has to do in the
transaction it has open: the local variables of the callback of `withTenant`
(`tx`). A loop over rows or items takes one step per item.

**`Inventory`** - `InventoryService` for outbound goods. `stock`, `resv`, `claim` are
the tables `stock_levels`, `inventory_reservations` and `processed_events`; the last
two have a row for every line and event, with `NoResv` and FALSE for a row that is not
there. `reserveForSalesOrder` and `releaseReservationsForSalesOrder` run in the
caller's transaction and are operators (`CanReserve`, `Reserve`; `ActiveReservations`,
`Release`). `handleSalesOrderFulfilled` is the actions `Claim`, `PostLine` (once per
line), `PostCommit`. `sent` is the payload of every event that was emitted, `bus` the
deliveries still to come.

**`Lifecycles`** - the transitions that `sales-order-lifecycle.ts`,
`purchase-order-lifecycle.ts` and `shipment-lifecycle.ts` allow, for every module.

**`SalesOrders`** - `SalesOrdersService` on top of it. Each operation is cut at
the statements between which another transaction can commit or take a row:

| operation | actions |
|---|---|
| `create` | `Create` |
| `confirm` | `ConfirmRead`, `ConfirmCommit` |
| `allocate` | `AllocateRead`, `AllocateLine` per line, `AllocateReject`, `AllocateCommit` |
| `cancel` | `CancelRead`, `CancelFind`, `CancelLine` per reservation, `CancelLines`, `CancelCommit` |
| `fulfill` | `FulfillRead`, `FulfillLine` per requested line, `FulfillReject`, `FulfillDecide`, `FulfillCommit` |

Reading the order and the guard on its status are the `...Read` action; a
request the guard refuses changes nothing and is no action. The status is
written right before the commit, with no step in between at which somebody
could wait for it: `status` is a plain variable. `FulfillCommit` commits and
emits; a crash right after it forgets the event, as a crash between the two
would. `DeadlockVictim`, `Abort` and `Crash` are the failures. `Restock` is a
goods receipt of one unit, so that waiting for stock is not for ever.

**`AtomicOutbound`** - the abstract specification: the same requests as
indivisible steps, without transactions, locks, claims or failures.

**`Outbound`** - the properties, the assumption on clients (`TakeTurns`), the
fairness, and the refinement mapping to `AtomicOutbound` (committed rows, and the
claimed events as the posted ones).

**`Procurement`** - `PurchaseOrdersService` with the two handlers that the inbound
flow runs through, cut into statements in the same way:

| operation | actions |
|---|---|
| `create` | `Create` |
| `approve`, `cancel` | `ApproveRead`, `ApproveCommit`; `CancelRead`, `CancelCommit` |
| `ShipmentsService.create` (inbound) | `ShipRead`, `ShipCommit`, `ShipReject` (the unique index on `purchaseOrderId`) |
| `handleShipmentCreated` | `ShippedRead` (claim, read), `ShippedCommit` |
| `receive` | `ReceiveRead` (status and every item), `ReceiveLine` per item, `ReceiveDecide`, `ReceiveCommit` |
| `handlePoReceived` | `Claim`, then per line `PostFind` and `PostUpdate` or `PostInsert`; `PostCommit` |

`stock` has a row for every product and connection, the one that connection may
insert: the unique index contains the nullable `locationId` and does not keep
two transactions from inserting one each. `told` and `bus` are the deliveries to
come of `shipment.created` and `po.received`, `heard` and `claim` the rows of
`processed_events`, `found` what `findFirst` returned.

**`AtomicInbound`** - the same requests as indivisible steps; receipts never go
beyond what was ordered and are posted at most once. **`Inbound`** - the
properties of `Procurement`, the assumption on clients, fairness, and the
refinement mapping (the stock of a product is the sum of its rows).

**`Delays`** - what `evaluateExceptions` wants for a shipment at a time: no exception,
a warning or a critical one, for each kind (late, silent).

**`Shipments`** - `ShipmentsService`, cut into statements. `ship` and `exc` are
`shipments` and `shipment_exceptions`; an exception row sits in a slot, because
nothing in the schema makes the open one of a kind unique.

| code | actions |
|---|---|
| `create` | `Create` |
| `book`, `dispatch`, `arrive`, `deliver`, `cancel`; `createManualEvent`; `updateEta` | `Transition`, `TrackingEvent`, `UpdateEta` read and check; `Write` |
| `list`, `get`, `exceptions` | `Load`, then `EvaluateNext` for each further shipment |
| `evaluateExceptions`, `openException`, `resolveOpenException`, for either kind | `Resolve` (`updateMany`), or `Insert`, or `Find` and `Mend` |
| end of the transaction | `Commit`, `Abort` |

`Tick` lets time pass, also inside a transaction. `calm` and `alone` are history:
they say that no two transactions overlapped on a shipment, and that nothing
overlapped with a transaction.

**`Sessions`** - one user's browser with tabs. `token` is `refresh_tokens`, `jar` the
cookies, `call` what each request in flight carries. `Send` is the middleware's
decision; `RefreshRead`, `Consume` (revoke and read the role, one transaction) and
`Issue` (the next pair, another) are `AuthService.refresh`; `Serve` the page's calls
of the API; `Logout`, `LogoutUnheard`, `Login` the auth actions; `Answer` applies the
cookies, `AnswerLost` and `RefreshFails` are the failures. A request takes `Slow` at
most, which `Tick` enforces: the code has a 30 s transaction limit and a 60 s margin.

**`Seed`** - the tables as one record, and `Seeded(db, now)`: what the seed's upserts
make of them, on an empty database or on one in use. **`Analytics`** - every figure
of the read model as a function of the tables, a filter and the time: date ranges
and buckets of `analytics.util.ts`, the five summaries, four trends, supplier
performance, inventory risk, the Exception Center and its severity order.
**`Views`** - the figures that pages add up on their own. **`Tables`** - the notation
for tables as functions from keys to rows (`:>`, `@@`), as definitions that proofs
can use.

**`ControlTower`** - the seeded database in use. A request is one step, its handlers
included: `turns` and `inbound_turns` show that this is what the services implement
when requests for an order take turns. `CreatePO`, `Approve`, `CancelPO`, `Ship`,
`Receive`; `Confirm`, `Allocate`, `CancelSO`, `Fulfill`, `Dispatch`; `Advance`,
`UpdateEta`, `View` (a page of the shipment is opened, which evaluates it);
`RunSeed`; `Pass` (hours). `Progressed` is the row a transition of a shipment writes;
`Numbered` is the unique index behind `nextDocumentNumber`, and `NewPO` the order
that is created.

**`Access`** - roles, the permission each route asks for, and what each page offers a
role and submits (`Offers`, `Submitted`). **`Pages`** - users of the four roles take one
order to its end. `tab` is a page that may lag behind: `Open`, `Refresh`, `Type`,
`Click`; `Visit` is anybody else, on a page just loaded; `ShipmentCreated` the handler
that moves the order later; `StockMoves` other orders.

**`MCOutbound`**, **`MCInbound`**, **`MCShipments`**, **`MCSessions`**, **`MCControlTower`**,
**`MCPages`** - the instances for TLC; `MCControlTower` also states the golden
figures of the documents and tests (OTIF 33.33 %, the two supplier scores, two
projections, one overdue order) as assumptions that TLC evaluates.
**`ReadCommittedProofs`** and **`Sums`** - lemmas about rows, and about sums and counts.
**`OutboundProofs`**, **`InboundProofs`**, **`ShipmentsProofs`**, **`SessionsProofs`**,
**`PagesProofs`**, **`TowerProofs`** - the theorems of one component each, with their
lemmas and proofs.

What is abstracted: one tenant and one warehouse (`ControlTower` keeps which
documents carry a warehouse); notes, users, names, places, the audit row; in the two
flows also prices, dates, order numbers, the `StockMovement` rows (one is written
with each change of `onHand`, which stands for their sum) and `GoodsReceipt` rows (one
with each payload), all of which `ControlTower` has; events nobody reacts to with a
change of state. A definition named after a "Mutant" comment is not part
of the specification: it is a plausible mistake that the properties must catch.

## 4. Runs

**Outbound** (`MCOutbound`). Two orders compete for two products. `OA` has lines
`A1` (one unit of product 2) and `A2` (two units of product 1, so that it can be
fulfilled in parts); `OB` has `B1` (product 1) and in the *wide* instance also `B2`
(product 2). Two connections are open at a time.

**Inbound** (`MCInbound`). `PA` has lines for two units of `X` and one of `Y`, and is
received in parts; `PB` has a line for one of them, or in the *wide* instance for
both, in the opposite order. Two connections are open at a time.

| run | specification | checks | shows |
|---|---|---|---|
| `interleavings` (`MCOutbound.cfg`) | `Spec`: anything overlaps, anything fails, each event delivered up to twice | `TypeOK`, `NoOversell`, `LineBudget`, `PostedExactlyOnce`, `AllOrNothing`, `AllocationsNeverDeadlock` | what holds whatever clients do |
| `turns` (`MCOutboundSerial.cfg`) | `SerialSpec`: as above, but requests for one order take turns | `ReservedIsOutstanding`, `NeverNegative`, `StatusTellsLines`, `ActsAtomically` | with disciplined clients the code implements `AtomicOutbound` |
| `live` (`OutboundLive.cfg`) | `LiveSpec`, one-line orders | `TransactionsEnd`, `LedgerCatchesUp` | no transaction stays open for ever and every fulfilment reaches the ledger when no deadlock is possible, races included |
| `cancelled_holds` (`OutboundCancelled.cfg`) | `FaultFreeSpec` | `CancelledHoldsNothing` | violated, see section 5 |
| `inbound_interleavings` (`MCInbound.cfg`) | `Spec`, `PA` alone | `TypeOK`, `ReceiptsPostedOnce`, `ReceivedOnlyIfShipped` | what holds whatever clients do |
| `inbound_turns` (`MCInboundSerial.cfg`) | `SerialSpec`, wide | `NeverOverReceived`, `StatusTellsLines`, `ActsAtomically` | with disciplined clients the code implements `AtomicInbound` |
| `inbound_live` (`InboundLive.cfg`) | `LiveSerialSpec`, one product | `ReceiptsReachStock`, `ShipmentMovesOrder` | receipts reach the shelves, shipments move their order |
| `shipments` (`MCShipments.cfg`) | `Spec` | `TypeOK`, `StatusBacked`, `TurnsLeaveOrder`, `LoadsNeverDeadlock`, `LegalTransitions`, `EvaluationSettles` | what holds however requests and page loads overlap, and what holds when they take turns |
| `sessions` (`MCSessions.cfg`) | `Spec` | `TypeOK`, `JarIsLive`, `OneTokenPerSession`, `PagesAreServed`, `PermissionsCatchUp`, `LogoutIsFinal` | two tabs, expiring tokens, lost answers and refreshes that fail half-way |
| `control_tower` (`MCControlTower.cfg`) | `Spec` | `Reconciled`, `DelaysAreReal`, `LedgerBacksShelves`, `NumbersRunOn`, `ForecastSurvivesWork`, `ReseedConverges` | the figures agree in every state of a database in use, and the seed can be run again |
| `pages` (`MCPages.cfg`) | `Spec` | `OffersAreHonoured`, `HandedOver` | pages and API agree on who may do what when |
| `shared_home_page` (`PagesTower.cfg`) | `Spec` | `EveryRoleSeesTheTower` | violated, see section 5 |

**Bounds.** `MaxEvents` outbound is at least the number of fulfilments the instance
can commit (`LineBudget` bounds it by the units ordered), so it cuts nothing off;
inbound the same is true while clients take turns (`NeverOverReceived`), and in
`inbound_interleavings`, where racing receipts have no bound, it stops a behaviour at
the third receipt. `MaxDeliveries` 2 makes every handler run twice, also at the same
time; more deliveries find the same claim. `MaxReceived` bounds goods receipts of the
outbound model. Two connections are the smallest number at which anything overlaps;
the deadlocks and races found need two. What the two `interleavings` runs check is
also proved for any number of connections, orders, lines, products, events and
deliveries (section 6). `PA` alone in `inbound_interleavings` has two lines and two
products, so that receipts, and their handlers, of one order can deadlock; two orders
together are in `inbound_turns`. Symmetry is used between the connections, and only in
runs without liveness. The other instances:

* `shipments` (1.6 million states): one shipment that goes through its lifecycle while
  its ETA changes, or while it gets dated and undated events and may be cancelled, or
  that is cancelled before it leaves; or two, of which the first is created, booked or
  cancelled and shares lists with the second; two transactions; an ETA that is in the
  past at once; thresholds of one and two hours and a clock that reaches the second,
  so that both kinds of exception appear, grow worse and go away.
* `sessions` (3.5 million): two requests in flight, four tokens, times that keep the
  code's order (`Slow` < `Margin` <= `AccessTtl` < `RefreshTtl`), a clock that outlives
  the tokens of an early login, one change of the role.
* `control_tower` (9,863, each compared under seven filters): the whole seed; a
  behaviour is about one of eight groups of documents and operations that touch
  each other (an order and its shipment, an inbound and an outbound order of one
  product, creation and seed), because the figures of untouched documents do not
  change; six days in two steps, which pass due dates and the staleness threshold;
  partial quantities of 600. In one group orders are created until the counter meets
  the first fixture, PO-2026-000090, with the seed run again at any time; the plan
  allows two numbers more, which the code never reaches. Only there no days pass, which
  would multiply 89 orders by the days on which they may be created.
* `pages` (140,622): an order of two units, so that it can be received and fulfilled
  in parts; zero to two units in stock; one tab that lags.

Deadlock is checked in `pages`, where stock and pages always move. Elsewhere it is
off: when all orders are finished, or the clock, the tokens or the plan are used up,
and nothing may fail any more, there is nothing left to do. What must not stop there is stated by
`TransactionsEnd`, `LoadsNeverDeadlock` and `AllocationsNeverDeadlock` instead.

**Fairness.** `Fairness` is strong fairness of each connection (`Proceed(t)`)
and of the delivery of each event. PostgreSQL queues the waiters of a row, so
one whose row becomes free again and again does get it: weak fairness would be
too little, for the row may be taken in between. A callback that can go on does:
nothing in the code blocks it but a row. A commit calls its handler in the same
process. Clients are under no fairness: nobody has to send a request. The live
specifications leave out `Crash` and `Abort`, and keep the deadlock detector. The other
modules state no liveness: users and time are under no fairness, and what a shipment,
a session or a page waits for is one of them.

## 5. Where documents and code disagree

Two disagreements have a run of their own:

* **A cancelled order keeps its stock** (`cancelled_holds`). `outbound-fulfillment.md:28`
  says that cancelling releases whatever remains reserved. `hadAllocation`
  (`sales-orders.service.ts:198`) comes from a status read before a concurrent
  allocation committed.
* **The shared home page is not shared** (`shared_home_page`). `analytics.md:43` calls
  the Control Tower everyone's operational home page. The page fetches the summary
  and three trends in one `Promise.all`, and the trends ask for permissions of
  three domains; no role but Admin has all of them.

The others met while modelling are described here; the properties are worded, or
the runs bounded, so that they do not depend on them.

*Orders and stock, when requests overlap*

* Units are released twice: the amounts come from an unlocked `findMany`
  (`inventory.service.ts:134`); two cancellations subtract both (ADR 0006:51).
* A cancellation between a fulfilment and its posting releases units that are
  about to leave, because `fulfilledQuantity` is only updated by the handler
  (ADR 0005:37). This needs no overlapping requests.
* The ledger loses a fulfilment when its handler is a deadlock victim: the event is
  never delivered again (ADR 0005:50, `domain-events.ts:12`).
* A receipt that names a line twice, or two at once, receives more than was
  ordered: every item is compared with the lines as read before any is written
  (`purchase-orders.service.ts:160`, ADR 0004:77).
* Two first receipts of a product create two stock rows: the unique index has a
  NULL `locationId` in each (`inventory.service.ts:287`).
* Two changes of a purchase order, or of a shipment, start from the same status and
  both succeed, for it is read without a lock (`purchase-orders.service.ts:113`,
  `shipments.service.ts:301`): a cancelled order becomes APPROVED again, or SHIPPED
  by the handler of `shipment.created` (`purchase-orders.service.ts:265`); a cancelled
  shipment is delivered. Two deliveries that overlap set `deliveredAt` twice (ADR 0010:17).
* Two partial fulfilments that overlap each see the other's lines as open and leave
  the order PARTIALLY_FULFILLED (`sales-orders.service.ts:271`).
* Two evaluations that both find no open exception of a kind open one each
  (`shipments.service.ts:417`). The duplicate stays: later evaluations bring the one
  that `findFirst` returns to its level (`:421-429`), so a stale WARNING may stand
  beside a CRITICAL for as long as one of the kind is wanted. They are closed together
  when none is (`:437`).

*Sessions*

* Two tabs that refresh one token at the same time both succeed, although tokens
  are called single-use; each tab's pair is good, and the browser keeps one.

* A refresh that fails after its first transaction has revoked the old token
  (`auth.service.ts:86`), or whose answer is lost, leaves a browser that has to log in
  again.
* The answer of a refresh that was under way when the user logged out sets its cookies
  after the logout has cleared them (`middleware.ts:47-49`, `actions/auth.ts:69-71`).

*Seed and numbers*

* Running the seed over a database in use sets the sequences back, and the stock
  rows of the fixtures, against `seed.ts:10-11`. The next purchase order then takes
  a number that exists; the failed insert rolls the increment back, and creation
  stays stuck. `LedgerBacksShelves` speaks of databases on which this has not happened.
* `seed.ts:59-63` says the fixtures' high numbers "must never collide" with those of
  orders created later, and `seed.ts:430-432` sets the counter to avoid a "colliding
  PO-2026-000001". Both collisions happen: with the order PO-2026-000089 the counter
  comes to the fixture PO-2026-000090, and creation stops there for good.
  `NumbersRunOn` says where creation stops, and that it does nowhere else.
* Comments: `seed.ts:751` names SUP-002 where the code has SUP-003; `seed.ts:906`
  speaks of three RECEIVED orders, one is PARTIALLY_RECEIVED.
* The seeded shipment has no warehouse and disappears under every warehouse filter.

*The read side*

* The inventory risk model subtracts allocated units from what is available and
  counts them in the demand again (ADR 0011); `ForecastSurvivesWork` says what this
  leaves invariant.
* Procurement and fulfilment exceptions ignore the date range that the tiles obey;
  the overdue tile counts within the period, the list it links to counts all.
* Delay exceptions are stored and refreshed only when a page of shipments is
  opened: a late shipment nobody looked at is not counted (the converse of
  `DelaysAreReal`).
* The parts of one Control Tower answer come from parallel transactions and may
  show different instants; ties in the exception list have no order.

*Pages*

* The button that creates an inbound shipment is shown for `po:create`, the route
  asks for `shipment:create` (`WrongPermission` in `Pages`).
* The navigation shows every link to every role; the inventory page links to the
  risk page, which is an error for Procurement and Sales.
* The fulfilment form keeps what was typed when its page is rendered again.
* The network map links with `warehouse=`, pages and API read `warehouseId`.

The `turns` and `inbound_turns` runs show the other side: when nobody sends a
request for an order before the previous one and its handlers are done, and each
receipt names a line once, the code implements its abstract specifications; a
lost event only leaves the ledger behind, and a second stock row changes where
the units are counted, not how many there are. What they assume
matters beyond the runs listed here: no operation locks or re-checks the order
row it has read (`sales-orders.service.ts:115-117`,
`purchase-orders.service.ts:109-113` and `:265-267`), so that a request, or the
handler of `shipment.created`, that read an earlier status writes its own over
a terminal one.

## 6. Proofs

The theorems below hold for every value of the constants that satisfies the named
assumptions of the modules. Each rests on an inductive invariant, which TLC checked
on the instances of section 4 before it was proved; the proof that a step keeps it
has one lemma or one case per action.

**Assumptions.** Those on constants say what the schema or the code guarantees: order
lines have an order, a product and a positive quantity; a request is not empty and
its quantities are positive (the DTOs' validation); shipments are numbered in the
order of their creation; the lifetimes of tokens are ordered as the code's
(`TimesAssumption` of `Sessions`). A browser has finitely many tabs
(`CallsAssumption`) and the connection pool is finite (`TxsAssumption` of
`Procurement`), without which sums over open requests or over stock rows would
not be defined. The clock of `ControlTower` starts late enough for the fixtures, whose
dates reach 31 days back, to have positive times. Three theorems have a hypothesis of
their own, named with them. Those of the flows in turns assume `TakeTurns`: a client
sends a request for an order only when none is being worked on and none of its events
is on the way. The code does not enforce it; section 5 lists what happens without.

**`ReadCommittedProofs`** - reading, writing, committing and rolling back keep a table
well typed, and leave the rows of other transactions alone. **`Sums`** - what
`SumFunctionOnSet` adds up to over a finite set: one value changed, one element more,
term by term, split, partitioned into parts, summed by rows or by columns; and counts,
as sums of ones. The
provers cannot instantiate an induction theorem; the induction here is over the
number of elements in the form "no set with the least number of elements is an
exception".

### Outbound (`OutboundProofs`)

* `Typing`: `TypeOK`. It is inductive. Its parts beyond plain types are what makes it
  so: a transaction at `"work"` has an item at `next`, one that fulfils or posts has
  something to do, an event on the bus has a payload, and only operations on an order
  have one.
* `NeverOversold`: `NoOversell`. It speaks of `com` and of `cur` of every stock row;
  that is the strengthening: a committed `cur` becomes `com`, a rolled back one is
  replaced by `com`. Only `AllocateLine` can raise `reserved` against `onHand`, and its
  guard is evaluated on the row it has just locked; a release lowers `reserved`, a
  posting lowers both alike, a receipt raises `onHand`. Positive quantities are
  needed, and the order of steps is not: this is why the property survives every race
  of section 5.
* `Disciplined`: the invariant `Discipline`, on which the next ones rest. Nothing is
  written without its lock, reservation or claim: a row a transaction has written is
  locked by it and belongs to its order; an allocation works through lines in the
  order of their products and has locked the smaller ones; a handler posts what it
  has claimed; an announced event is one whose units have been fulfilled.
* `AllocationsFinish`: `AllocationsNeverDeadlock`. An allocation that waits for a
  product holds smaller ones only, so of a circle of them the one that waits for the
  least product would have to be held by one that waits for a larger and holds a
  smaller: there is none.
* `LinesInBudget`: `LineBudget`. `Budgets` says of both versions of a line that what is
  reserved and shipped stays within what was ordered; the increments are computed
  on the row as locked, so it survives all races.
* `ReservedAsAWhole`: `AllOrNothing`. The reservations of an order are inserted by one
  transaction and exist, at a commit, all or none; a status that promises them is
  only written where they are.
* `LedgerAgrees`: `PostedExactlyOnce`. `Ledger` states the same agreement between
  claims and events, stock, reservations and lines, with the part each open
  transaction has done so far: for each of them what the handler has yet to post of
  its event, and what a fulfilment has yet to commit. A commit moves a part from one
  side to the other, a roll-back drops it, and a second delivery finds the claim. The
  stock of a product is a sum over lines of a sum over events; a posting is added up
  in the other order.

The next four are about `SerialSpec`: clients take turns, while everything else still
overlaps, fails and repeats. They rest on two invariants more (183,940 states of
`turns`).

* `Turns`, what taking turns means for the state: no two transactions work for one order,
  and none while a fulfilment of it is on its way to the shelves (`Alone`); so the
  status that a request has read still lets it through (`Allowed`), it holds rows of
  its order only, each as its loop has left it (`Holds`), a cancellation has found
  exactly what is outstanding (`Releases`), and the status a fulfilment has decided on
  is the one its lines ask for (`Decided`). For each order, the status tells what lines
  and reservations are (`Tells`): a reservation is that of the whole line, and
  ACTIVE until all of it has shipped. `StatusTells`: `StatusTellsLines`. The property is
  a part of `Tells`; it is not inductive without the rest, because a status is written
  from what has been read long before.
* `Outstanding`: reserved stock is the sum, over the lines of a product, of what the
  reservations still have to ship, in the committed rows and in what each open
  transaction sees of the rows it holds. The second half is what makes it inductive: a
  commit replaces the first by it. Lines of other orders do not disturb it, because
  whoever holds a reservation of a product holds its stock row.
  `ReservedExactly`: `ReservedIsOutstanding`. `NothingNegative`: `NeverNegative`, since
  a sum of natural numbers is one, and there is no oversell.
* `OutboundIsAtomic`: `ActsAtomically`, the refinement. Every step that is not a commit of
  an order's request or of a handler changes no committed row. A commit is one step of
  `AtomicOutbound`, conjunct by conjunct: `Turns` says that its guard holds of the
  committed rows, although it was evaluated when the request began, and `Outstanding`
  that the stock levels change by the sum of what the loop has done line by line.

### Inbound (`InboundProofs`)

* `Typing`: `TypeOK`; `Disciplined`: as above; nobody else can write the stock row that a
  connection is about to insert.
* `ShippedBeforeReceived`: `ReceivedOnlyIfShipped`. A receipt in progress was let
  through by a committed status, and the claim of `shipment.created` commits with the
  first status that lets one through; neither is taken back.
* `ReceiptsAgree`: `ReceiptsPostedOnce`. `Ledger` again carries the part of each open
  transaction: received lines agree with the payloads, and the stock of a product,
  added up over however many rows it has come to have, agrees with the claimed events.

TLC checked these invariants on 224,233 states of `inbound_interleavings` and 207,489
of `inbound_turns`. The next three are about `SerialSpec`, and rest on two more, which
TLC checked on `inbound_turns`.

* `Turns`, as above; the handler of `shipment.created` is not a client and waits for
  nobody, and it is the absence of a request until it is done that keeps it from
  meeting one. `StatusTells`: `StatusTellsLines`.
* `Fitting`: what an open receipt has written, and what it has yet to add to each line,
  stays within what was ordered. This needs the hypothesis `LinesNamedOnce`, and
  without it the theorem is false: every item is compared with the line as it was
  read before any is written, and a receipt that names a line twice goes beyond
  (section 5). `NothingOverReceived`: `LinesNamedOnce => (SerialSpec => []NeverOverReceived)`.
* `InboundIsAtomic`: `ActsAtomically`, under the same hypothesis, since `AtomicInbound`
  refuses a receipt that does not fit. The shelf of a product is the sum over its
  stock rows, of which a handler changes or inserts one per line.

### Shipments (`ShipmentsProofs`)

* `Typing`: `TypeOK`. What a transaction works through exists, and it never runs past
  its last shipment.
* `AlwaysBacked`: `StatusBacked`. The property alone is not inductive: a request that
  is to arrive or deliver a shipment writes a status for which the departure must be
  set, in a row others may have written since it was read. `IInv` adds that a write
  takes nothing away (`Grows`: what has departed stays departed) and that such a
  request was let through only because the shipment had departed (`Ready`). Both last,
  whatever commits in between.
* `NeverDeadlocked`: `LoadsNeverDeadlock`. `Left` measures how far a transaction still
  is from the end of its way down: from the newest shipment to the oldest, and on each
  from its row to its delays and silences. `LInv` says that every row it has locked
  lies above. Whoever it waits for is further down, so a circle of waiting
  transactions would have no lowest member. This is where `orderBy: createdAt` of
  `list` matters.
* `InTurn`: the invariant `TInv` behind the next three (checked on 1,599,839 states).
  It is about ownership: a transaction that shares a shipment with no other owns its row and its
  exceptions. What it has read stays true, what it has settled stays settled, the
  exceptions it has not come to yet are as the last commit left them; and a shipment
  nobody works on is in order.
* `TurnsKeepOrder`: `TurnsLeaveOrder`. `AlongTheLifecycle`: the action property
  `LegalTransitions`. `AloneSettles`: `EvaluationSettles`, what one undisturbed evaluation
  makes of any state, those that racing ones have left included: a kind it has settled
  has at most one row other than before, a kind it has not come to is as it was.

An attempt at these proofs found a mistake in the model: two arms of a `CASE` in
`Delays.Wanted` overlapped, and TLC takes the first while the semantics leaves the
choice open. They exclude each other now, as the `if`s in the code do.

### Sessions (`SessionsProofs`)

`InCustody` proves `Custody` (3,536,350 states). Tokens are issued in order, so the
issued ones are `1 .. n`. An issued pair is in the hands of the one request that asked
for it until its answer reaches the browser; a token in the jar is alive unless the
request that revoked it is still on its way back with other cookies, or the answer was
lost; sessions begin with a login that is older than their tokens; and what each
request carries bounds the time it has been under way. From it, for any number of
tabs, tokens and changes of the role:

* `Typing`: `TypeOK`. `BrowserNotLockedOut`: `JarIsLive`. `SingleUse`:
  `OneTokenPerSession`. `NoPageRefused`: `PagesAreServed`, where `Slow < Margin` is used.
* The action properties: `StalePermissionsEnd` (`PermissionsCatchUp`), and
  `LoggedOutForGood` (`LogoutIsFinal`).

### Pages (`PagesProofs`)

For any quantity ordered and any stock. `StatusTells` proves `PInv`: the status of an
order tells what is open and reserved of it and whether there is a shipment, and a tab
never shows what has not been (140,622 states). `Honoured` (`OffersAreHonoured`) and
`NeverStuck` (`HandedOver`) follow from it case by case: each status has a role whose
page offers the next step.

### The read side (`TowerProofs`)

For any plan, waits, partial quantities and clock. The rows of each table have types
that say more than their shape (no more received than ordered, none reserved before
an order is allocated), the fixtures stay in the tables, and what each request does to
them is one lemma per request. All invariants were checked on the 9,686 states of
`control_tower`.

* `SeedsAgain`: `ReseedConverges`. The seed's upserts leave a row alone that exists;
  that an untouched database does not change needs that all it would write is there
  already (`Pristine`).
* `DelaysReal`: `DelaysAreReal`. An evaluation closes what is no longer so, and what
  has been late stays late until the estimate or the status changes, which evaluates.
* `NumbersKept`: `NumbersRunOn`. The orders are always the fixtures and those from 2 to
  some n, and the counter stands at n, or at 1 where the seed has set it: creation goes
  on from n only, and from 89 it would take a fixture's number. Nothing is assumed of
  how many orders are created, or when the seed is run.
* `ForecastSurvives`: `ForecastSurvivesWork`. A receipt moves a quantity from what is
  to come to the shelf, a fulfilment takes it from the shelf and from what is to go;
  each is a sum over the orders in which one row has changed. What remains is the
  change of the reserved units, which the code subtracts twice.
* `LedgerBacked`: `MaxTime <= SeedTime + 90 * Day => (Spec => []LedgerBacksShelves)`.
  Receipt and delivery numbers are counted up, so that the ledger's next key is a new
  one and an entry is never replaced (`Accounts`); then the shelves are the sum of the
  entries (`Backed`). The movement trend is that of the last quarter: it adds up to the
  shelves if the quarter covers every entry, which is the hypothesis; its buckets
  partition the entries.
* `FiguresAgree`: `Reconciled`. The inductive invariant is `Readable`: the types, what
  `DelaysReal` rests on, and `Dealt`: orders were placed between the oldest fixture and
  now, and one that is received is received whole. It is needed where two pages
  ask differently: the dashboard takes every order and the tower those of a period,
  which agree because the widest period has them all; the page of a supplier counts a
  received order among what is outstanding, which is right because nothing of it is.
  The rest follows for any tables of these types and, but for the pages, any filter.
  A figure and the parts it is shown by are a set and its partition, by bucket, by
  supplier or by customer, and no document is twice in the Exception Center, so that
  items can be counted for documents. For the page of shipments, which evaluates every
  shipment before it counts, the same is shown to last from shipment to shipment
  (`Listing`): only exceptions change, those that are open are about shipments
  under way, and no delay is taken for resolved.

### Only model-checked

* `TransactionsEnd`, `LedgerCatchesUp`, `ReceiptsReachStock` and `ShipmentMovesOrder`:
  liveness under fairness and ENABLED are out of TLAPS' reach.
* The two properties that are violated (section 5).

## 7. Not modelled

* Master data (products, suppliers, customers, warehouses): create, read and update
  of single rows; nothing relates two of their states. The figures their pages add
  up are in `Views`.
* The audit log: a row appended in the caller's transaction, read by nothing.
* Row level security: policies PostgreSQL evaluates per statement. One tenant.
* The error filter, build and deployment: no state.
* Of analytics: the network map, pages beyond the first, sort orders and searches.
* Of the web application: layout, charts, maps, and the forms that create orders or
  maintain master data.
* Of the seed: users, addresses and the tracking events of the seeded shipment.
* Of sessions: passwords, tenants' slugs, signatures.
* The flows meet in the stock row: `Restock` stands for the handler of `po.received`
  in `SalesOrders`, where every product has its row; `ControlTower` has both.
* A retry of a fulfilment whose answer was lost is a second fulfilment; the code has
  no key to tell them apart, and no property says what should happen.
