---------------------------- MODULE ControlTower ----------------------------
(***************************************************************************)
(* The Control Tower over a database in use.  The development seed fills   *)
(* it, documents advance, days pass, the seed is run again; the figures of *)
(* Analytics are read off the tables at any time.                          *)
(*                                                                         *)
(* A request is one step here, its event handlers included: AtomicInbound  *)
(* and AtomicOutbound are what the services implement when requests for an *)
(* order take turns, Shipments is how a shipment does.                     *)
(***************************************************************************)
EXTENDS Views, Delays

CONSTANTS
    SeedTime,   \* when the seed is first run
    Waits,      \* the hours that may pass at once
    MaxTime,    \* bound: the clock stops there
    Postponed,  \* the days a carrier may still ask for
    Lots,       \* quantities received or fulfilled, when not the whole rest
    Plans       \* bound: the work of a behaviour, on the documents <<"PO", n>>,
                \* <<"SO", n>> and <<"SHP", n>>; <<"create", n>>: orders up to
                \* PO n are created; <<"seed", 0>>; <<"days", 0>>: time passes

ASSUME TimesAssumption ==
    /\ SeedTime \in Nat /\ MaxTime \in Nat /\ Waits \subseteq Nat \ {0}
    /\ 40 * Day <= SeedTime     \* the fixtures begin 31 days before
ASSUME BoundsAssumption ==
    Postponed \subseteq Nat /\ Lots \subseteq Nat \ {0}

VARIABLES
    db,             \* the tables
    now,            \* the clock
    plan,           \* the plan of this behaviour: never changes
    touched,        \* history: a request has changed a table
    overwritten     \* history: the seed was run after that

vars == <<db, now, plan, touched, overwritten>>

\* A request leaves the tables as d.
Commits(d) ==
    /\ db' = d
    /\ touched' = TRUE
    /\ UNCHANGED <<now, plan, overwritten>>

Works(kind, n) == <<kind, n>> \in plan
HasShipment(direction, n) ==
    \E s \in DOMAIN db.shipments : db.shipments[s].direction = direction /\ db.shipments[s].of = n

\* nextDocumentNumber: the transaction that takes a number which a document
\* already has is rolled back, and the counter with it.
NextNumber(key) == db.seq[key] + 1
Numbered(key, table) == NextNumber(key) \notin DOMAIN table

\* Some of r units, or all of them.
Some(r) == {q \in Lots : q < r} \cup {r}

Moved(p, units) == [db.stock EXCEPT ![p].onHand = @ + units]
\* Mutant: the handler posts to the shelves but not to the ledger.
EnteredNothing(key, type, p, units) == db.movements

Entered(key, type, p, units) ==
    (key :> [type |-> type, product |-> p, delta |-> units, at |-> now]) @@ db.movements

-----------------------------------------------------------------------------
(* Purchase orders.                                                        *)

NewPO == PO("SUP-003", "DRAFT", now, now + Day, Never, "ELEC-002", 600, 0, 45)
Creates(n) == \E work \in plan : work[1] = "create" /\ n <= work[2]

\* Mutant: the counter is not part of the transaction, as a sequence of the
\* database is not: a refused creation has used its number up.
CreatePOCountingAlone ==
    LET n == NextNumber("PO")
    IN  /\ Creates(n)
        /\ Commits(IF Numbered("PO", db.pos)
                   THEN [db EXCEPT !.seq["PO"] = n, !.pos = (n :> NewPO) @@ @]
                   ELSE [db EXCEPT !.seq["PO"] = n])

CreatePO ==
    LET n == NextNumber("PO")
    IN  /\ Creates(n)
        /\ Numbered("PO", db.pos)
        /\ Commits([db EXCEPT !.seq["PO"] = n, !.pos = (n :> NewPO) @@ @])

MovePO(n, status, approved) ==
    /\ Works("PO", n)
    /\ <<db.pos[n].status, status>> \in PurchaseTransitions
    /\ Commits([db EXCEPT !.pos[n].status = status, !.pos[n].approved = approved])

Approve(n) == MovePO(n, "APPROVED", now)
CancelPO(n) == MovePO(n, "CANCELLED", db.pos[n].approved)

\* shipments.create, and handleShipmentCreated in procurement.
Ship(n) ==
    LET s == NextNumber("SHP")
    IN  /\ Works("PO", n)
        /\ db.pos[n].status = "APPROVED" /\ ~ HasShipment("INBOUND", n)
        /\ Numbered("SHP", db.shipments)
        /\ Commits([db EXCEPT
               !.seq["SHP"] = s,
               !.pos[n].status = "SHIPPED",
               !.shipments = (s :> [direction |-> "INBOUND", status |-> "CREATED", of |-> n,
                                    sited |-> TRUE, eta |-> Never, last |-> now, departed |-> Never,
                                    arrived |-> Never, delivered |-> Never]) @@ @])

\* receive, and handlePoReceived in inventory.
Receive(n, q) ==
    LET po == db.pos[n]
        k == Count({r \in DOMAIN db.receipts : r[1] = n}) + 1
    IN  /\ Works("PO", n)
        /\ po.status \in RECEIVABLE_STATUSES
        /\ Commits([db EXCEPT
               !.receipts = (<<n, k>> :> now) @@ @,
               !.pos[n].got = @ + q,
               !.pos[n].status = IF po.got + q >= po.qty THEN "RECEIVED" ELSE "PARTIALLY_RECEIVED",
               !.stock = Moved(po.product, q),
               !.movements = Entered(<<"PO", n, k>>, "RECEIPT", po.product, q)])

-----------------------------------------------------------------------------
(* Sales orders.                                                           *)

Confirm(n) ==
    /\ Works("SO", n)
    /\ <<db.sos[n].status, "CONFIRMED">> \in SalesTransitions
    /\ Commits([db EXCEPT !.sos[n].status = "CONFIRMED"])

Allocate(n) ==
    LET so == db.sos[n]
        row == db.stock[so.product]
    IN  /\ Works("SO", n)
        /\ <<so.status, "ALLOCATED">> \in SalesTransitions
        /\ so.qty <= row.onHand - row.reserved
        /\ Commits([db EXCEPT !.sos[n].status = "ALLOCATED", !.sos[n].reserved = so.qty,
                              !.stock[so.product].reserved = @ + so.qty])

CancelSO(n) ==
    LET so == db.sos[n]
    IN  /\ Works("SO", n)
        /\ <<so.status, "CANCELLED">> \in SalesTransitions
        /\ Commits([db EXCEPT !.sos[n].status = "CANCELLED", !.sos[n].reserved = 0,
                              !.stock[so.product].reserved = @ - so.reserved])

\* fulfill, and handleSalesOrderFulfilled in inventory.
Fulfill(n, q) ==
    LET so == db.sos[n]
        k == Count({m \in DOMAIN db.movements : m[1] = "SO" /\ m[2] = n}) + 1
        done == so.fulfilled + q
    IN  /\ Works("SO", n)
        /\ so.status \in FULFILLABLE_STATUSES /\ 0 < q /\ q <= so.reserved
        /\ Commits([db EXCEPT
               !.sos[n].fulfilled = done,
               !.sos[n].reserved = @ - q,
               !.sos[n].status = IF done >= so.qty THEN "FULFILLED" ELSE "PARTIALLY_FULFILLED",
               !.stock = [Moved(so.product, -q) EXCEPT ![so.product].reserved = @ - q],
               !.movements = Entered(<<"SO", n, k>>, "FULFILLMENT", so.product, -q)])

\* An outbound shipment, of an order that has been allocated.
Dispatch(n) ==
    LET s == NextNumber("SHP")
    IN  /\ Works("SO", n)
        /\ db.sos[n].status \in FULFILLABLE_STATUSES \cup {"FULFILLED"}
        /\ ~ HasShipment("OUTBOUND", n)
        /\ Numbered("SHP", db.shipments)
        /\ Commits([db EXCEPT
               !.seq["SHP"] = s,
               !.shipments = (s :> [direction |-> "OUTBOUND", status |-> "CREATED", of |-> n,
                                    sited |-> TRUE, eta |-> Never, last |-> now, departed |-> Never,
                                    arrived |-> Never, delivered |-> Never]) @@ @])

-----------------------------------------------------------------------------
(* Shipments.                                                              *)

\* Mutant: what is no longer wrong is not resolved.
EvaluatedOpenOnly(d, s) ==
    LET want == Wanted(d.shipments[s], now)
        due == {<<s, k>> : k \in {k \in Kinds : want[k] # "NONE"}}
        row(x) == IF x \in OpenExceptions(d)
                  THEN [d.exceptions[x] EXCEPT !.severity = want[x[2]]]
                  ELSE [severity |-> want[x[2]], open |-> TRUE, at |-> now]
    IN  [d EXCEPT !.exceptions = [x \in due |-> row(x)] @@ @]

\* evaluateExceptions on one shipment of the tables d.
Evaluated(d, s) ==
    LET want == Wanted(d.shipments[s], now)
        due == {<<s, k>> : k \in {k \in Kinds : want[k] # "NONE"}}
        row(x) == IF x \in OpenExceptions(d)
                  THEN [d.exceptions[x] EXCEPT !.severity = want[x[2]]]
                  ELSE [severity |-> want[x[2]], open |-> TRUE, at |-> now]
        kept == [x \in DOMAIN d.exceptions |->
                   [d.exceptions[x] EXCEPT !.open = @ /\ x[1] # s]]
    IN  [d EXCEPT !.exceptions = [x \in due |-> row(x)] @@ kept]

\* list evaluates every shipment it is asked for.
Listed(d) == FoldSet(LAMBDA s, e : Evaluated(e, s), d, DOMAIN d.shipments)

Or(time, default) == IF time = Never THEN default ELSE time

\* The row of a shipment that moves to a status.
Progressed(v, to) ==
    [v EXCEPT !.status = to, !.last = now,
              !.departed = IF to = "IN_TRANSIT" THEN Or(@, now) ELSE @,
              !.arrived = IF to \in {"ARRIVED", "DELIVERED"} THEN Or(@, now) ELSE @,
              !.delivered = IF to = "DELIVERED" THEN now ELSE @]

\* The transition of a shipment, with its tracking event.
Advance(s, to) ==
    /\ Works("SHP", s)
    /\ <<db.shipments[s].status, to>> \in ShipmentTransitions
    /\ Commits(Evaluated([db EXCEPT !.shipments[s] = Progressed(@, to)], s))

\* updateEta, with its tracking event.
UpdateEta(s, eta) ==
    /\ Works("SHP", s)
    /\ Commits(Evaluated([db EXCEPT !.shipments[s].eta = eta, !.shipments[s].last = now], s))

\* The page of a shipment is opened.
View(s) ==
    /\ Works("SHP", s)
    /\ Evaluated(db, s) # db
    /\ Commits(Evaluated(db, s))

-----------------------------------------------------------------------------
\* The seed is run again.
RunSeed ==
    /\ Works("seed", 0)
    /\ db' = Seeded(db, now)
    /\ overwritten' = (overwritten \/ touched)
    /\ UNCHANGED <<now, plan, touched>>

Pass(hours) ==
    /\ Works("days", 0)
    /\ now + hours <= MaxTime
    /\ now' = now + hours
    /\ UNCHANGED <<db, plan, touched, overwritten>>

Init ==
    /\ plan \in Plans
    /\ now = SeedTime
    /\ db = Seeded(EmptyDb, now)
    /\ touched = FALSE
    /\ overwritten = FALSE

Next ==
    \/ CreatePO
    \/ \E n \in DOMAIN db.pos :
          \/ Approve(n) \/ CancelPO(n) \/ Ship(n)
          \/ \E q \in Some(db.pos[n].qty - db.pos[n].got) : Receive(n, q)
    \/ \E n \in DOMAIN db.sos :
          \/ Confirm(n) \/ Allocate(n) \/ CancelSO(n) \/ Dispatch(n)
          \/ \E q \in Some(db.sos[n].reserved) : Fulfill(n, q)
    \/ \E s \in DOMAIN db.shipments :
          \/ View(s)
          \/ \E days \in Postponed : UpdateEta(s, now + days * Day)
          \/ \E to \in ACTIVE_STATUSES \cup {"DELIVERED", "CANCELLED"} : Advance(s, to)
    \/ RunSeed
    \/ \E hours \in Waits : Pass(hours)

Spec == Init /\ [][Next]_vars
-----------------------------------------------------------------------------
(* Properties.                                                             *)

\* The filters tried: every preset, a range of more than 180 days, and the
\* supplier, customer and warehouse selectors.
FilterBy(range, supplier, customer, warehouse) ==
    range @@ [supplier |-> supplier, customer |-> customer, warehouse |-> warehouse]

Everything == FilterBy(Custom(SeedTime - 190 * Day, now), All, All, All)

Filters ==
    {FilterBy(Preset(name, now), All, All, All) : name \in {"today", "7d", "30d", "90d"}}
        \cup {Everything, FilterBy(Custom(SeedTime - 190 * Day, now), All, "CUS-90", All),
              FilterBy(Preset("90d", now), "SUP-001", All, "BKK-DC-01")}

\* The sum of a trend's points.
SumOf(trend, Of(_)) == Total(DOMAIN trend, LAMBDA b : Of(trend[b]))

ProcurementAgrees(f, tower, items) ==
    LET rows == SupplierRows(db, f)
    IN  /\ SumOf(ValueTrend(db, f), LAMBDA v : v) = SumOf(rows, LAMBDA r : r.spend)
        /\ SumOf(rows, LAMBDA r : r.open) = tower.procurement.open
        /\ tower.procurement.overdue = Count({i \in items : i.domain = "PROCUREMENT"
                                                          /\ i.of[2] \in PosIn(db, f)})

FulfillmentAgrees(f, tower) ==
    LET trend == OtifTrend(db, f)
        otif == tower.fulfillment.otif
    IN  /\ SumOf(trend, LAMBDA p : p.eligible) = otif.eligible
        /\ SumOf(trend, LAMBDA p : p.successful) = otif.successful

LogisticsAgrees(tower, items) ==
    LET ships == tower.logistics
    IN  /\ ships.delayed <= ships.attention /\ ships.inbound + ships.outbound = ships.active
        /\ ships.attention = Count({i.of[2] : i \in {i \in items : i.domain = "LOGISTICS"}})

InventoryAgrees(tower, items) ==
    tower.inventory.atRisk = Count({i \in items : i.domain = "INVENTORY"})

\* The counts speak of the same list as the five worst.
TopAgrees(tower, items) ==
    /\ tower.critical + tower.warning = Count(items)
    /\ \A page \in tower.top : Count(Severe(page, "CRITICAL")) = Min({5, tower.critical})

\* The pages a tile leads to, for a filter that lets everything in.
PagesAgree(f, tower) ==
    LET dashboard == Dashboard(db)
        list == Listed(db)
        seen == ShipmentsPage(list)
        suppliers == [s \in SupplierCodes |-> SupplierPage(db, s)]
        customers == [c \in Customers |-> CustomerPage(db, c)]
    IN  /\ dashboard.openPOs = tower.procurement.open
        /\ dashboard.openSOs = tower.fulfillment.open
        /\ dashboard.awaiting = Count(SalesOrdersPage(db, "CONFIRMED", All))
        /\ dashboard.inbound = tower.logistics.inbound
        /\ dashboard.outbound = tower.logistics.outbound
        /\ dashboard.value = tower.inventory.value /\ dashboard.value = InventoryPage(db)
        /\ tower.procurement.overdue = Count(PurchaseOrdersPage(db, All, All, TRUE, now))
        /\ SumOf(suppliers, LAMBDA r : r.outstanding) =
               Total(POs(db, OPEN_PO_STATUSES),
                     LAMBDA n : PurchaseOrderPage(db, n).ordered - PurchaseOrderPage(db, n).received)
        /\ SumOf(customers, LAMBDA r : r.open) = tower.fulfillment.open
        /\ seen.active = tower.logistics.active
        /\ tower.logistics.delayed <= seen.delayed
        /\ seen.delayed = LogisticsSummary(list, f).delayed
        /\ seen.attention = LogisticsSummary(list, f).attention
        /\ \A n \in SalesOrdersPage(db, "CONFIRMED", All) :
               Insufficient(db, n) <=> db.sos[n].qty > InventoryRow(db, db.sos[n].product).available

\* Figures that come from different queries, on different pages, agree: the
\* value trend with the spend of the suppliers, the OTIF trend with the OTIF
\* summary, the tiles of the Control Tower with the Exception Center, and
\* with the dashboard and the lists they lead to, which add up documents on
\* their own: what a supplier still owes is what is open on the orders.
Reconciled ==
    \A f \in Filters :
        LET tower == ControlTowerSummary(db, f, now)
            items == Exceptions(db, f, now)
        IN  /\ ProcurementAgrees(f, tower, items) /\ FulfillmentAgrees(f, tower)
            /\ LogisticsAgrees(tower, items) /\ InventoryAgrees(tower, items)
            /\ TopAgrees(tower, items)
            /\ f = Everything => PagesAgree(f, tower)

\* The exceptions are stored, and a shipment's change: what is counted as
\* delayed is really past the estimate it has now.  (The converse fails: a
\* delay is not counted until somebody opens a page of shipments.)
DelaysAreReal ==
    \A x \in OpenExceptions(db) :
        /\ db.shipments[x[1]].status \in ACTIVE_STATUSES
        /\ x[2] = "ETA_EXCEEDED" => PastDue(db.shipments[x[1]].eta, now)

\* The shelves hold what the ledger says, product by product, and the
\* movement trend of a period that covers everything adds up to them, as
\* long as the seed was not run over a database in use.
LedgerBacksShelves ==
    LET everything == FilterBy(Preset("90d", now), All, All, All)
    IN  ~ overwritten =>
            /\ \A p \in Products :
                  db.stock[p].onHand =
                      Total({m \in DOMAIN db.movements : db.movements[m].product = p},
                            LAMBDA m : db.movements[m].delta)
            /\ SumOf(MovementTrend(db, everything), LAMBDA m : m.inbound - m.outbound)
                   = Total(Products, LAMBDA p : db.stock[p].onHand)

\* Receiving what was to come and fulfilling what was asked for are already
\* in the projection: neither moves it, but for units that were reserved.
Balance(p) == InventoryRow(db, p).projected + db.stock[p].reserved
ForecastSurvivesWork ==
    [][DOMAIN db'.movements # DOMAIN db.movements =>
          \A p \in Products : Balance(p)' = Balance(p)]_vars

\* Running the seed again leaves every document as it is, and a database
\* that was only looked at altogether.
Keeps(old, new) == \A n \in DOMAIN old : new[n] = old[n]
ReseedConverges ==
    [][RunSeed =>
          /\ Keeps(db.pos, db'.pos) /\ Keeps(db.sos, db'.sos)
          /\ Keeps(db.shipments, db'.shipments) /\ Keeps(db.receipts, db'.receipts)
          /\ Keeps(db.movements, db'.movements) /\ Keeps(db.exceptions, db'.exceptions)
          /\ ~ touched => db' = db]_vars

\* The orders created are numbered from 2 on, without a gap or a number
\* twice: a refused creation rolls its number back, and the seed run again
\* creates and removes nothing.  What the comments of the seed promise of the
\* counter ("must never collide", "not a colliding PO-2026-000001") fails in
\* two ways, and no others: creation is refused once the counter has come to
\* the number before the first fixture's, PO-2026-000090, and once the seed
\* has set it back under an order already created.
FirstFixture == 90
NumbersRunOn ==
    \E n \in 1 .. FirstFixture - 1 :
        /\ DOMAIN db.pos \ DOMAIN SeedPOs(SeedTime) = 2 .. n
        /\ db.seq["PO"] \in {1, n}
        /\ Numbered("PO", db.pos) <=> db.seq["PO"] = n /\ n < FirstFixture - 1
=============================================================================
