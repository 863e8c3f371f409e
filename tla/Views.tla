------------------------------- MODULE Views -------------------------------
(***************************************************************************)
(* The pages that compute figures of their own: the dashboard and the      *)
(* lists and details the Control Tower's tiles lead to.  They do not read  *)
(* the read model of Analytics, they add up what the lists of the API      *)
(* return, so the same figure is computed in two places.                   *)
(***************************************************************************)
EXTENDS Analytics

POs(db, statuses) == {n \in DOMAIN db.pos : db.pos[n].status \in statuses}
SOs(db, statuses) == {n \in DOMAIN db.sos : db.sos[n].status \in statuses}

AvailableQuantity(db, p) == db.stock[p].onHand - db.stock[p].reserved

Dashboard(db) ==
    LET active(direction) ==
            {s \in DOMAIN db.shipments : /\ db.shipments[s].status \in ACTIVE_STATUSES
                                         /\ db.shipments[s].direction = direction}
    IN  [openPOs |-> Count(POs(db, {"DRAFT", "APPROVED", "SHIPPED", "PARTIALLY_RECEIVED"})),
         openSOs |-> Count(SOs(db, {"DRAFT", "CONFIRMED", "ALLOCATED", "PARTIALLY_FULFILLED"})),
         awaiting |-> Count(SOs(db, {"CONFIRMED"})),
         inbound |-> Count(active("INBOUND")),
         outbound |-> Count(active("OUTBOUND")),
         value |-> Total(DOMAIN db.stock, LAMBDA p : db.stock[p].onHand * costPrice[p]),
         available |-> Total(DOMAIN db.stock, LAMBDA p : Max({AvailableQuantity(db, p), 0}))]

\* list of the purchase orders; a status is not looked at if overdue is.
PurchaseOrdersPage(db, status, supplier, overdue, now) ==
    {n \in DOMAIN db.pos :
        /\ IF overdue THEN db.pos[n].status \in OPEN_PO_STATUSES
                      ELSE Asked(status, db.pos[n].status)
        /\ Asked(supplier, db.pos[n].supplier)
        /\ overdue => PastDue(db.pos[n].expected, now)}

\* The page has all orders, and filters them itself.
SalesOrdersPage(db, status, customer) ==
    {n \in DOMAIN db.sos : Asked(status, db.sos[n].status) /\ Asked(customer, db.sos[n].customer)}

\* The red line under a product of a confirmed order: it cannot be allocated.
Insufficient(db, n) ==
    db.sos[n].status = "CONFIRMED" /\ AvailableQuantity(db, db.sos[n].product) < db.sos[n].qty

\* suppliers.get, on the page of a supplier.
SupplierPage(db, s) ==
    LET pos == {n \in DOMAIN db.pos : db.pos[n].supplier = s}
    IN  [outstanding |-> Total({n \in pos : db.pos[n].status # "CANCELLED"},
                               LAMBDA n : (db.pos[n].qty - db.pos[n].got) * db.pos[n].cost),
         orders |-> Count(pos)]

CustomerPage(db, c) ==
    LET orders == {n \in DOMAIN db.sos : db.sos[n].customer = c}
    IN  [orders |-> Count(orders),
         open |-> Count({n \in orders : db.sos[n].status \notin {"FULFILLED", "CANCELLED"}})]

InventoryPage(db) == Total(DOMAIN db.stock, LAMBDA p : db.stock[p].onHand * costPrice[p])

\* The page of a purchase order: what was ordered, and what is there of it.
PurchaseOrderPage(db, n) ==
    [ordered |-> ValueOf(db, n), received |-> db.pos[n].got * db.pos[n].cost]

\* The rows of the shipments page for its delayed and attention selectors;
\* `db' is what the list leaves, its exceptions evaluated.
Delayed(db) == {s \in DOMAIN db.shipments : <<s, "ETA_EXCEEDED">> \in OpenExceptions(db)}
NeedsAttention(db) == {s \in DOMAIN db.shipments : \E x \in OpenExceptions(db) : x[1] = s}

ShipmentsPage(db) ==
    LET towards(direction) == {s \in DOMAIN db.shipments : db.shipments[s].direction = direction}
    IN  [active |-> Count({s \in DOMAIN db.shipments : db.shipments[s].status \in ACTIVE_STATUSES}),
         inbound |-> Count(towards("INBOUND")), outbound |-> Count(towards("OUTBOUND")),
         delayed |-> Count(Delayed(db)), attention |-> Count(NeedsAttention(db))]

=============================================================================
