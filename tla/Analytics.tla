----------------------------- MODULE Analytics -----------------------------
(***************************************************************************)
(* The read model: every figure of the Control Tower and of its            *)
(* drill-down pages, as a function of the database's tables (see Seed), of *)
(* a filter and of the time.                                               *)
(*                                                                         *)
(* A filter is a record of an interval, "from" and "to", and of the        *)
(* supplier, customer and warehouse asked for, All when none is.  A        *)
(* percentage is counted in hundredths of a percent, as it is rounded.     *)
(***************************************************************************)
EXTENDS Integers, FiniteSetsExt, Functions, Seed, Lifecycles

CONSTANTS
    MonthStarts     \* the days on which a month begins, up to the last one modelled

ASSUME MonthStartsAssumption == MonthStarts \subseteq Nat /\ 0 \in MonthStarts

All == "all"
NA == -1        \* null: rendered "N/A"

Count(S) == Cardinality(S)
Total(S, Of(_)) == SumFunctionOnSet([x \in S |-> Of(x)], S)
Asked(choice, value) == choice \in {All, value}

-----------------------------------------------------------------------------
(* analytics.util.ts                                                       *)

StartOfDay(t) == (t \div Day) * Day
EndOfDay(t) == StartOfDay(t) + Day - 1

\* The interval of a preset, and of two dates entered by hand.
Preset(name, now) ==
    [from |-> StartOfDay(CASE name = "today" -> now
                           [] name = "7d" -> now - 7 * Day
                           [] name = "90d" -> now - 90 * Day
                           [] OTHER -> now - 30 * Day),
     to |-> now]
Custom(from, to) == [from |-> StartOfDay(from), to |-> EndOfDay(to)]

\* Rounded to the nearest, halves upwards.
RoundDiv(a, b) == (2 * a + b) \div (2 * b)
safePercent(n, d) == IF d = 0 THEN NA ELSE RoundDiv(10000 * n, d)

\* The last hour of an interval that ends with a day counts as a whole one.
DaysIn(f) == Max({1, (f.to - f.from + Day) \div Day})
TrendBucket(f) ==
    IF DaysIn(f) <= 31 THEN "day" ELSE IF DaysIn(f) <= 180 THEN "week" ELSE "month"

\* The day with which the bucket of a time begins.  Day 0 is a Monday.
BucketOf(t, size) ==
    CASE size = "day" -> t \div Day
      [] size = "week" -> (t \div Day) - ((t \div Day) % 7)
      [] size = "month" -> Max({d \in MonthStarts : d <= t \div Day})

classifyInventoryRisk(available, projected) ==
    IF available <= 0 THEN "STOCKOUT"
    ELSE IF projected < 0 THEN "PROJECTED_STOCKOUT" ELSE "HEALTHY"

isOtifSuccess(so, at) == so.status = "FULFILLED" /\ at <= so.requested

\* A trend: the documents in S by the bucket of their time.
Trend(S, At(_), f, Point(_)) ==
    LET bucket(x) == BucketOf(At(x), TrendBucket(f))
    IN  [b \in {bucket(x) : x \in S} |-> Point({x \in S : bucket(x) = b})]

-----------------------------------------------------------------------------
(* Which documents a filter lets in.                                       *)

InRange(f, t) == t # Never /\ f.from <= t /\ t <= f.to
PastDue(date, now) == date # Never /\ date < now

PosIn(db, f) ==
    {n \in DOMAIN db.pos : InRange(f, db.pos[n].ordered) /\ Asked(f.supplier, db.pos[n].supplier)}
SosOf(db, f) == {n \in DOMAIN db.sos : Asked(f.customer, db.sos[n].customer)}
SosIn(db, f) == {n \in SosOf(db, f) : InRange(f, db.sos[n].ordered)}

\* Only shipments that have a warehouse match one.
warehouseScoped(db, f) ==
    {s \in DOMAIN db.shipments : f.warehouse # All => db.shipments[s].sited}

ValueOf(db, n) == db.pos[n].qty * db.pos[n].cost

-----------------------------------------------------------------------------
(* Procurement and its suppliers.                                          *)

\* Mutant: only what is incoming can be overdue.
OverdueIncoming(db, f, now) ==
    {n \in PosIn(db, f) : /\ db.pos[n].status \in INCOMING_PO_STATUSES
                          /\ PastDue(db.pos[n].expected, now)}

OverduePos(db, f, now) ==
    {n \in PosIn(db, f) : /\ db.pos[n].status \in OPEN_PO_STATUSES
                          /\ PastDue(db.pos[n].expected, now)}

ProcurementSummary(db, f, now) ==
    LET open == {n \in PosIn(db, f) : db.pos[n].status \in OPEN_PO_STATUSES}
    IN  [open |-> Count(open),
         value |-> Total(open, LAMBDA n : ValueOf(db, n)),
         overdue |-> Count(OverduePos(db, f, now)),
         partial |-> Count({n \in PosIn(db, f) : db.pos[n].status = "PARTIALLY_RECEIVED"})]

ValueTrend(db, f) ==
    Trend(PosIn(db, f), LAMBDA n : db.pos[n].ordered, f,
          LAMBDA S : Total(S, LAMBDA n : ValueOf(db, n)))

\* The time of the last goods receipt of a purchase order, Never if it has none.
LastReceipt(db, n) ==
    Max({Never} \cup {db.receipts[r] : r \in {r \in DOMAIN db.receipts : r[1] = n}})

SupplierRow(db, f, s) ==
    LET pos == {n \in PosIn(db, f) : db.pos[n].supplier = s}
        scored == {n \in pos : /\ db.pos[n].status = "RECEIVED"
                               /\ db.pos[n].expected # Never
                               /\ LastReceipt(db, n) # Never}
        onTime == {n \in scored : LastReceipt(db, n) <= db.pos[n].expected}
        timed == {n \in scored : db.pos[n].approved # Never}
        lead == Total(timed, LAMBDA n : LastReceipt(db, n) - db.pos[n].approved)
    IN  [count |-> Count(pos),
         spend |-> Total(pos, LAMBDA n : ValueOf(db, n)),
         open |-> Count({n \in pos : db.pos[n].status \in OPEN_PO_STATUSES}),
         late |-> Count(scored \ onTime),
         leadTime |-> IF timed = {} THEN NA ELSE RoundDiv(100 * lead, Day * Count(timed)),
         onTime |-> safePercent(Count(onTime), Count(scored))]

SupplierRows(db, f) ==
    [s \in {s \in SupplierCodes : Asked(f.supplier, s)} |-> SupplierRow(db, f, s)]

-----------------------------------------------------------------------------
(* Inventory.                                                              *)

\* Mutant: all that was ordered is still to come.
IncomingAsOrdered(db, p) ==
    Total({n \in DOMAIN db.pos : /\ db.pos[n].product = p
                                 /\ db.pos[n].status \in INCOMING_PO_STATUSES},
          LAMBDA n : db.pos[n].qty)

Incoming(db, p) ==
    Total({n \in DOMAIN db.pos : /\ db.pos[n].product = p
                                 /\ db.pos[n].status \in INCOMING_PO_STATUSES},
          LAMBDA n : db.pos[n].qty - db.pos[n].got)

Demand(db, p) ==
    Total({n \in DOMAIN db.sos : /\ db.sos[n].product = p
                                 /\ db.sos[n].status \in OPEN_DEMAND_SO_STATUSES},
          LAMBDA n : db.sos[n].qty - db.sos[n].fulfilled)

InventoryRow(db, p) ==
    LET available == db.stock[p].onHand - db.stock[p].reserved
        projected == available + Incoming(db, p) - Demand(db, p)
    IN  [available |-> available, incoming |-> Incoming(db, p), demand |-> Demand(db, p),
         projected |-> projected, risk |-> classifyInventoryRisk(available, projected)]

InventoryRiskRows(db) == [p \in DOMAIN db.stock |-> InventoryRow(db, p)]

InventorySummary(db) ==
    LET rows == InventoryRiskRows(db)
    IN  [value |-> Total(DOMAIN rows, LAMBDA p : db.stock[p].onHand * costPrice[p]),
         missingCost |-> Count({p \in DOMAIN rows : costPrice[p] = 0}),
         zero |-> Count({p \in DOMAIN rows : rows[p].available <= 0}),
         atRisk |-> Count({p \in DOMAIN rows : rows[p].risk # "HEALTHY"})]

MovementTrend(db, f) ==
    LET units(S, type) == Total({m \in S : db.movements[m].type = type},
                                LAMBDA m : db.movements[m].delta)
    IN  Trend({m \in DOMAIN db.movements : InRange(f, db.movements[m].at)},
              LAMBDA m : db.movements[m].at, f,
              LAMBDA S : [inbound |-> units(S, "RECEIPT"), outbound |-> -units(S, "FULFILLMENT")])

-----------------------------------------------------------------------------
(* Fulfilment.                                                             *)

\* The delivered outbound shipments of the orders of a filter, delivered in
\* its range: salesOrder.shipment is unique.
DeliveriesIn(db, f) ==
    {s \in DOMAIN db.shipments :
        /\ db.shipments[s].direction = "OUTBOUND"
        /\ db.shipments[s].status = "DELIVERED"
        /\ db.shipments[s].of \in SosOf(db, f)
        /\ InRange(f, db.shipments[s].delivered)}
Dated(db, S) == {s \in S : db.sos[db.shipments[s].of].requested # Never}
Successful(db, S) ==
    {s \in S : isOtifSuccess(db.sos[db.shipments[s].of], db.shipments[s].delivered)}

Otif(db, S) ==
    [eligible |-> Count(S), successful |-> Count(Successful(db, S)),
     percent |-> safePercent(Count(Successful(db, S)), Count(S))]

FulfillmentSummary(db, f) ==
    LET in(statuses) == Count({n \in SosIn(db, f) : db.sos[n].status \in statuses})
        deliveries == DeliveriesIn(db, f)
    IN  [open |-> in(OPEN_SO_STATUSES), awaiting |-> in({"CONFIRMED"}),
         partial |-> in({"PARTIALLY_FULFILLED"}), fulfilled |-> in({"FULFILLED"}),
         otif |-> Otif(db, Dated(db, deliveries)),
         missing |-> Count(deliveries \ Dated(db, deliveries))]

OtifTrend(db, f) ==
    Trend(Dated(db, DeliveriesIn(db, f)), LAMBDA s : db.shipments[s].delivered, f,
          LAMBDA S : Otif(db, S))

-----------------------------------------------------------------------------
(* Logistics.                                                              *)

OpenExceptions(db) == {x \in DOMAIN db.exceptions : db.exceptions[x].open}

LogisticsSummary(db, f) ==
    LET scoped == warehouseScoped(db, f)
        ships == db.shipments
        active == {s \in scoped : ships[s].status \in ACTIVE_STATUSES}
        completed == {s \in scoped : ships[s].status = "DELIVERED" /\ InRange(f, ships[s].delivered)}
        timed == {s \in completed : ships[s].departed # Never /\ ships[s].arrived # Never}
        estimated == {s \in completed : ships[s].eta # Never}
        onTime == {s \in estimated : ships[s].delivered <= ships[s].eta}
    IN  [active |-> Count(active),
         inbound |-> Count({s \in active : ships[s].direction = "INBOUND"}),
         outbound |-> Count({s \in active : ships[s].direction = "OUTBOUND"}),
         delayed |-> Count({s \in active : <<s, "ETA_EXCEEDED">> \in OpenExceptions(db)}),
         attention |-> Count({s \in active : \E x \in OpenExceptions(db) : x[1] = s}),
         transit |-> IF timed = {} THEN NA
                     ELSE RoundDiv(100 * Total(timed, LAMBDA s : ships[s].arrived - ships[s].departed),
                                   Count(timed)),
         onTime |-> safePercent(Count(onTime), Count(estimated))]

-----------------------------------------------------------------------------
(* The Exception Center.                                                   *)

Item(domain, of, severity, at) ==
    [domain |-> domain, of |-> of, severity |-> severity, at |-> at]

\* What is wrong now, whatever period the filter asks for.
Exceptions(db, f, now) ==
    LET rows == InventoryRiskRows(db)
    IN  {Item("LOGISTICS", <<"SHP", x[1], x[2]>>, db.exceptions[x].severity, db.exceptions[x].at) :
            x \in {x \in OpenExceptions(db) : x[1] \in warehouseScoped(db, f)}}
        \cup
        {Item("PROCUREMENT", <<"PO", n>>, "WARNING", db.pos[n].expected) :
            n \in {n \in DOMAIN db.pos : /\ db.pos[n].status \in OPEN_PO_STATUSES
                                         /\ PastDue(db.pos[n].expected, now)}}
        \cup
        {Item("FULFILLMENT", <<"SO", n>>, "WARNING", db.sos[n].requested) :
            n \in {n \in SosOf(db, f) : /\ db.sos[n].status \in OPEN_SO_STATUSES
                                        /\ PastDue(db.sos[n].requested, now)}}
        \cup
        {Item("INVENTORY", <<"SKU", p>>,
              IF rows[p].risk = "STOCKOUT" /\ rows[p].demand > 0 THEN "CRITICAL" ELSE "WARNING",
              now) :
            p \in {p \in DOMAIN rows : rows[p].risk # "HEALTHY"}}

Severe(items, severity) == {i \in items : i.severity = severity}

severityRank(severity) == CASE severity = "CRITICAL" -> 2 [] severity = "WARNING" -> 1 [] OTHER -> 0
Worse(a, b) ==
    \/ severityRank(a.severity) > severityRank(b.severity)
    \/ severityRank(a.severity) = severityRank(b.severity) /\ a.at > b.at

\* The pages that may come first: the worst n items, ties going either way.
FirstPages(items, n) ==
    {page \in kSubset(Min({n, Count(items)}), items) :
        \A i \in page, j \in items \ page : ~ Worse(j, i)}

-----------------------------------------------------------------------------
\* The Control Tower: every part is read in a transaction of its own.
ControlTowerSummary(db, f, now) ==
    LET inventory == InventorySummary(db)
        fulfillment == FulfillmentSummary(db, f)
        items == Exceptions(db, f, now)
    IN  [procurement |-> ProcurementSummary(db, f, now),
         inventory |-> inventory,
         fulfillment |-> fulfillment,
         logistics |-> LogisticsSummary(db, f),
         otif |-> fulfillment.otif.percent,
         critical |-> Count(Severe(items, "CRITICAL")),
         warning |-> Count(Severe(items, "WARNING")),
         top |-> FirstPages(items, 5),
         dataQuality |-> inventory.missingCost + fulfillment.missing]
=============================================================================
