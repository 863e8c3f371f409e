------------------------------- MODULE Access -------------------------------
(***************************************************************************)
(* Who may do what: the four seeded roles, the permission each endpoint    *)
(* asks for, and what the pages of the web application offer a role.  A    *)
(* page decides from the permissions in the user's cookie, the API from    *)
(* those in the access token; both are those of the role (Sessions).       *)
(***************************************************************************)
EXTENDS Integers, Lifecycles

Roles == {"Admin", "Procurement Manager", "Warehouse Manager", "Sales Manager"}

AnalyticsReads ==
    {"analytics:control-tower:read", "analytics:procurement:read", "analytics:inventory:read",
     "analytics:fulfillment:read", "analytics:logistics:read", "analytics:suppliers:read",
     "exceptions:read"}

ALL_PERMISSIONS ==
    {"catalog:write", "procurement:write", "po:create", "po:approve", "po:receive",
     "inventory:write", "customer:write", "sales-order:create", "sales-order:confirm",
     "sales-order:cancel", "sales-order:allocate", "sales-order:fulfill", "shipment:create",
     "shipment:update", "shipment:tracking:create", "shipment:eta:update",
     "shipment:exceptions:read"} \cup AnalyticsReads

PROCUREMENT_PERMISSIONS ==
    {"procurement:write", "po:create", "po:approve", "po:receive", "catalog:write",
     "analytics:control-tower:read", "analytics:procurement:read", "analytics:suppliers:read",
     "exceptions:read"}

WAREHOUSE_PERMISSIONS ==
    {"inventory:write", "po:receive", "sales-order:allocate", "sales-order:fulfill",
     "shipment:create", "shipment:update", "shipment:tracking:create", "shipment:eta:update",
     "shipment:exceptions:read", "analytics:control-tower:read", "analytics:inventory:read",
     "analytics:logistics:read", "exceptions:read"}

SALES_PERMISSIONS ==
    {"customer:write", "sales-order:create", "sales-order:confirm", "sales-order:cancel",
     "analytics:control-tower:read", "analytics:fulfillment:read", "exceptions:read"}

Permissions(role) ==
    CASE role = "Admin" -> ALL_PERMISSIONS
      [] role = "Procurement Manager" -> PROCUREMENT_PERMISSIONS
      [] role = "Warehouse Manager" -> WAREHOUSE_PERMISSIONS
      [] role = "Sales Manager" -> SALES_PERMISSIONS

May(role, permission) == permission \in Permissions(role)

-----------------------------------------------------------------------------
(* The API: what @RequirePermissions asks for, per route.                  *)

SalesOrderRoute(op) ==
    CASE op = "confirm" -> "sales-order:confirm"
      [] op = "allocate" -> "sales-order:allocate"
      [] op = "fulfill" -> "sales-order:fulfill"
      [] op = "cancel" -> "sales-order:cancel"

PurchaseOrderRoute(op) ==
    CASE op = "approve" -> "po:approve"
      [] op = "receive" -> "po:receive"
      [] op = "cancel" -> "po:create"

ShipmentRoute(op) ==
    CASE op = "create" -> "shipment:create"
      [] op \in {"book", "dispatch", "arrive", "deliver", "cancel"} -> "shipment:update"
      [] op = "events" -> "shipment:tracking:create"
      [] op = "eta" -> "shipment:eta:update"

\* The guard, for a button pressed on an order or on its shipment.
Guard(role, table, op) ==
    May(role, CASE table = "PO" -> PurchaseOrderRoute(op)
                [] table = "SO" -> SalesOrderRoute(op)
                [] table = "SHP" -> ShipmentRoute(op))

\* The permissions of the analytics endpoints.
AnalyticsRoute(path) ==
    CASE path = "control-tower" -> "analytics:control-tower:read"
      [] path \in {"procurement", "procurement/po-value-trend"} -> "analytics:procurement:read"
      [] path \in {"inventory", "inventory/risk", "inventory/movement-trend"} ->
             "analytics:inventory:read"
      [] path \in {"fulfillment", "fulfillment/otif-trend"} -> "analytics:fulfillment:read"
      [] path = "logistics" -> "analytics:logistics:read"
      [] path = "suppliers" -> "analytics:suppliers:read"
      [] path = "exceptions" -> "exceptions:read"

-----------------------------------------------------------------------------
(* The web application: what a page fetches, and what it offers.  Below    *)
(* `seen' is the order and the shipment as the page has loaded them.       *)

\* The guarded endpoints a page cannot do without: one refused read and it
\* shows an error.
ControlTowerPage ==
    {"control-tower", "fulfillment/otif-trend", "procurement/po-value-trend",
     "inventory/movement-trend"}
InventoryRiskPage == {"inventory/risk"}
SuppliersPage == {"suppliers"}
ExceptionsPage == {"exceptions"}

Fetched(page) ==
    CASE page = "/control-tower" -> ControlTowerPage
      [] page = "/inventory/risk" -> InventoryRiskPage
      [] page = "/analytics/suppliers" -> SuppliersPage
      [] page = "/exceptions" -> ExceptionsPage
      [] OTHER -> {}

Shows(role, page) == \A path \in Fetched(page) : May(role, AnalyticsRoute(path))

\* What a set of buttons offers if a condition holds.
If(condition, buttons) == IF condition THEN buttons ELSE {}

PurchaseOrderOffers(role, seen) ==
    LET status == seen.order.status
    IN  If(status = "DRAFT" /\ May(role, "po:approve"), {<<"PO", "approve">>})
        \cup If(status = "APPROVED" /\ seen.shipment = "NONE" /\ May(role, "po:create"),
                {<<"SHP", "create">>})
        \cup If(status \notin {"RECEIVED", "CANCELLED"} /\ May(role, "po:create"),
                {<<"PO", "cancel">>})
        \cup If(status \in RECEIVABLE_STATUSES /\ May(role, "po:receive"), {<<"PO", "receive">>})

\* Mutant: the form is gone after the first partial fulfilment.
SalesOrderOffersOnce(role, seen) ==
    LET status == seen.order.status
    IN  If(status = "DRAFT" /\ May(role, "sales-order:confirm"), {<<"SO", "confirm">>})
        \cup If(status = "CONFIRMED" /\ May(role, "sales-order:allocate"), {<<"SO", "allocate">>})
        \cup If(/\ status = "ALLOCATED" /\ May(role, "sales-order:fulfill")
                /\ seen.order.reserved > 0, {<<"SO", "fulfill">>})
        \cup If(/\ status \in FULFILLABLE_STATUSES \cup {"FULFILLED"} /\ seen.shipment = "NONE"
                /\ May(role, "shipment:create"), {<<"SHP", "create">>})
        \cup If(status \notin {"FULFILLED", "CANCELLED"} /\ May(role, "sales-order:cancel"),
                {<<"SO", "cancel">>})

SalesOrderOffers(role, seen) ==
    LET status == seen.order.status
    IN  If(status = "DRAFT" /\ May(role, "sales-order:confirm"), {<<"SO", "confirm">>})
        \cup If(status = "CONFIRMED" /\ May(role, "sales-order:allocate"), {<<"SO", "allocate">>})
        \cup If(/\ status \in FULFILLABLE_STATUSES /\ May(role, "sales-order:fulfill")
                /\ seen.order.reserved > 0, {<<"SO", "fulfill">>})
        \cup If(/\ status \in FULFILLABLE_STATUSES \cup {"FULFILLED"} /\ seen.shipment = "NONE"
                /\ May(role, "shipment:create"), {<<"SHP", "create">>})
        \cup If(status \notin {"FULFILLED", "CANCELLED"} /\ May(role, "sales-order:cancel"),
                {<<"SO", "cancel">>})

NEXT_ACTION ==
    [CREATED |-> "book", BOOKED |-> "dispatch", IN_TRANSIT |-> "arrive", ARRIVED |-> "deliver"]
CANCELLABLE == {"CREATED", "BOOKED", "IN_TRANSIT"}

ShipmentOffers(role, seen) ==
    If(seen.shipment \in DOMAIN NEXT_ACTION /\ May(role, "shipment:update"),
       {<<"SHP", NEXT_ACTION[seen.shipment]>>})
    \cup If(seen.shipment \in CANCELLABLE /\ May(role, "shipment:update"), {<<"SHP", "cancel">>})
    \cup If(May(role, "shipment:tracking:create"), {<<"SHP", "events">>})
    \cup If(May(role, "shipment:eta:update"), {<<"SHP", "eta">>})

\* The tracking form offers any shipment an event, and ETA any estimate.
Offers(role, page, seen) ==
    CASE page = "order" /\ seen.order.table = "PO" -> PurchaseOrderOffers(role, seen)
      [] page = "order" /\ seen.order.table = "SO" -> SalesOrderOffers(role, seen)
      [] page = "shipment" -> ShipmentOffers(role, seen)
      [] OTHER -> {}

-----------------------------------------------------------------------------
(* The two forms that ask for a quantity; 0 is a form that submits nothing. *)

\* ReceiveForm: what is typed is cut down to what the page shows remaining.
Receipt(typed, seen) == IF typed <= seen.order.open THEN typed ELSE seen.order.open

\* Mutant: the form relies on the max of its input.
FulfilmentUnchecked(typed, seen) == typed

\* FulfillSalesOrderForm: more than the page shows reserved is an error.
Fulfilment(typed, seen) == IF typed <= seen.order.reserved THEN typed ELSE 0

Submitted(button, typed, seen) ==
    CASE button = <<"PO", "receive">> -> Receipt(typed, seen)
      [] button = <<"SO", "fulfill">> -> Fulfilment(typed, seen)
      [] OTHER -> 0
=============================================================================
