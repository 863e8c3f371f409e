-------------------------------- MODULE Seed --------------------------------
(***************************************************************************)
(* The development seed: the tables it fills, and what running it does to  *)
(* a database that may already be in use.                                  *)
(*                                                                         *)
(* Time is counted in hours.  Documents are known by their numbers: 90 is  *)
(* PO-2026-000090.  Every seeded document has one line, so the line's      *)
(* product and quantities are fields of the document.  There is one        *)
(* warehouse; money is in whole baht.                                      *)
(***************************************************************************)
EXTENDS Integers, Tables, Lifecycles

Day == 24

Products == {"ELEC-001", "ELEC-002", "ELEC-003"}
costPrice == [p \in Products |->
                CASE p = "ELEC-001" -> 85 [] p = "ELEC-002" -> 45 [] OTHER -> 260]
SupplierCodes == {"SUP-001", "SUP-003"}
Customers == {"CUS-1", "CUS-90"}

\* An upsert with "update: {}" keeps the rows that are there.
Upsert(table, rows) == table @@ rows

-----------------------------------------------------------------------------
PO(supplier, status, ordered, expected, approved, product, qty, got, cost) ==
    [supplier |-> supplier, status |-> status, ordered |-> ordered,
     expected |-> expected, approved |-> approved, product |-> product,
     qty |-> qty, got |-> got, cost |-> cost]

\* The purchase orders, for a first run at time t: one to walk through, one
\* under way, those of the supplier and overdue fixtures, and the supply of
\* the inventory-risk fixture.
DemoPO(t) == 1 :> PO("SUP-001", "DRAFT", t, Never, Never, "ELEC-001", 1000, 0, 85)

VisibilityPO(t) == 90 :> PO("SUP-001", "SHIPPED", t, Never, t - 3 * Day, "ELEC-001", 500, 0, 85)

FixturePOs(t) ==
    LET ago(d) == t - d * Day
    IN     100 :> PO("SUP-001", "RECEIVED", ago(26), ago(20), ago(25), "ELEC-001", 200, 200, 85)
        @@ 101 :> PO("SUP-001", "APPROVED", ago(12), ago(5), ago(11), "ELEC-001", 150, 0, 85)
        @@ 102 :> PO("SUP-001", "PARTIALLY_RECEIVED", ago(8), ago(-5), ago(7),
                     "ELEC-001", 300, 150, 85)
        @@ 103 :> PO("SUP-003", "RECEIVED", ago(31), ago(20), ago(30), "ELEC-001", 100, 100, 88)

RiskPO(t) ==
    104 :> PO("SUP-001", "APPROVED", t - 4 * Day, t + 10 * Day, t - 3 * Day, "ELEC-003", 500, 0, 220)

SeedPOs(t) == DemoPO(t) @@ VisibilityPO(t) @@ FixturePOs(t) @@ RiskPO(t)

\* Goods receipts by purchase order, the first one of each.
SeedReceipts(t) ==
    LET at(d) == t - d * Day
    IN  <<100, 1>> :> at(21) @@ <<102, 1>> :> at(2) @@ <<103, 1>> :> at(15)

SO(customer, status, ordered, requested, product, qty, fulfilled) ==
    [customer |-> customer, status |-> status, ordered |-> ordered,
     requested |-> requested, product |-> product, qty |-> qty,
     reserved |-> 0, fulfilled |-> fulfilled]

\* The sales orders: one to walk through, the three of the OTIF fixture, and
\* the demand of the inventory-risk fixture.
DemoSO(t) == 1 :> SO("CUS-1", "DRAFT", t, Never, "ELEC-001", 300, 0)

OtifSOs(t) ==
    LET ago(d) == t - d * Day
    IN     100 :> SO("CUS-90", "FULFILLED", ago(15), ago(10), "ELEC-001", 100, 100)
        @@ 101 :> SO("CUS-90", "PARTIALLY_FULFILLED", ago(15), ago(10), "ELEC-001", 100, 80)
        @@ 102 :> SO("CUS-90", "FULFILLED", ago(15), ago(10), "ELEC-001", 100, 100)

RiskSO(t, product, qty) == SO("CUS-1", "CONFIRMED", t - 3 * Day, Never, product, qty, 0)

SeedSOs(t) ==
    DemoSO(t) @@ OtifSOs(t)
        @@ 103 :> RiskSO(t, "ELEC-002", 800) @@ 104 :> RiskSO(t, "ELEC-003", 1200)

-----------------------------------------------------------------------------
\* The shipment under way has no warehouse of its own ("sited").
VisibilityShipment(t) ==
    90 :> [direction |-> "INBOUND", status |-> "IN_TRANSIT", of |-> 90, sited |-> FALSE,
           eta |-> t - 30, last |-> t - 40, departed |-> t - 68, arrived |-> Never,
           delivered |-> Never]

\* An outbound shipment of the OTIF fixture, delivered at a time.
Delivered(so, requested, at) ==
    [direction |-> "OUTBOUND", status |-> "DELIVERED", of |-> so, sited |-> TRUE,
     eta |-> requested, last |-> at, departed |-> at - 2 * Day, arrived |-> at,
     delivered |-> at]

SeedShipments(t) ==
    LET ago(d) == t - d * Day
    IN  VisibilityShipment(t)
        @@ 100 :> Delivered(100, ago(10), ago(11))
        @@ 101 :> Delivered(101, ago(10), ago(11))
        @@ 102 :> Delivered(102, ago(10), ago(8))

\* The exceptions open on shipment 90, which is late and silent.
SeedExceptions(t) ==
       <<90, "ETA_EXCEEDED">> :> [severity |-> "CRITICAL", open |-> TRUE, at |-> t - 30]
    @@ <<90, "TRACKING_STALE">> :> [severity |-> "WARNING", open |-> TRUE, at |-> t - 16]

\* The ledger of the received and fulfilled documents, dated by the run.
Entry(type, p, units, t) == [type |-> type, product |-> p, delta |-> units, at |-> t]

ReceiptEntries(t) ==
    LET Receipt(n) == Entry("RECEIPT", "ELEC-001", n, t)
    IN  <<"PO", 100, 1>> :> Receipt(200) @@ <<"PO", 102, 1>> :> Receipt(150)
            @@ <<"PO", 103, 1>> :> Receipt(100)

FulfillmentEntries(t) ==
    LET Fulfillment(n) == Entry("FULFILLMENT", "ELEC-001", -n, t)
    IN  <<"SO", 100, 1>> :> Fulfillment(100) @@ <<"SO", 101, 1>> :> Fulfillment(80)
            @@ <<"SO", 102, 1>> :> Fulfillment(100)

SeedMovements(t) ==
    ReceiptEntries(t) @@ FulfillmentEntries(t)
        @@ <<"RISK", 1, 1>> :> Entry("RECEIPT", "ELEC-002", 300, t)
        @@ <<"RISK", 2, 1>> :> Entry("RECEIPT", "ELEC-003", 1000, t)

\* Stock rows are overwritten; that of ELEC-001 keeps what is reserved.
SeedStock(stock) ==
       "ELEC-001" :> [onHand |-> 200 + 150 + 100 - (100 + 80 + 100),
                      reserved |-> IF "ELEC-001" \in DOMAIN stock
                                   THEN stock["ELEC-001"].reserved ELSE 0]
    @@ "ELEC-002" :> [onHand |-> 300, reserved |-> 0]
    @@ "ELEC-003" :> [onHand |-> 1000, reserved |-> 0]

\* So are the number sequences; that of shipments is left alone.
SeedSequences(seq) == [k \in {"PO", "SO", "CUS"} |-> 1] @@ seq

-----------------------------------------------------------------------------
EmptyDb ==
    [pos |-> <<>>, receipts |-> <<>>, sos |-> <<>>, shipments |-> <<>>,
     exceptions |-> <<>>, movements |-> <<>>, stock |-> <<>>,
     seq |-> "SHP" :> 0]

\* Mutant: the seed writes its documents over the ones that are there.
SeededAfresh(db, t) ==
    [pos |-> SeedPOs(t) @@ db.pos,
     receipts |-> SeedReceipts(t) @@ db.receipts,
     sos |-> SeedSOs(t) @@ db.sos,
     shipments |-> SeedShipments(t) @@ db.shipments,
     exceptions |-> SeedExceptions(t) @@ db.exceptions,
     movements |-> SeedMovements(t) @@ db.movements,
     stock |-> SeedStock(db.stock), seq |-> SeedSequences(db.seq)]

\* The seed's transaction on a database, at time t.
Seeded(db, t) ==
    [pos |-> Upsert(db.pos, SeedPOs(t)),
     receipts |-> Upsert(db.receipts, SeedReceipts(t)),
     sos |-> Upsert(db.sos, SeedSOs(t)),
     shipments |-> Upsert(db.shipments, SeedShipments(t)),
     exceptions |-> Upsert(db.exceptions, SeedExceptions(t)),
     movements |-> Upsert(db.movements, SeedMovements(t)),
     stock |-> SeedStock(db.stock),
     seq |-> SeedSequences(db.seq)]
=============================================================================
