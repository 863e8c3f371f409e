------------------------------- MODULE Pages -------------------------------
(***************************************************************************)
(* Users of the four roles work on one order, and on its shipment, through *)
(* the pages of the web application.  A page is rendered from what the API *)
(* answers and stays as it was while others work: its buttons are decided  *)
(* by what it has `seen', the API decides by what is there when the click  *)
(* arrives.  An accepted click revalidates the page; a refused one puts a  *)
(* banner on it and leaves it as it is.  What has been typed into a form   *)
(* survives both: the form's state is not reset when its page is rendered  *)
(* again.                                                                  *)
(*                                                                         *)
(* One tab may lag behind; everybody else clicks on a page just loaded.    *)
(* The order has one line, of Ordered units.                               *)
(***************************************************************************)
EXTENDS Access

CONSTANTS
    Ordered,    \* units the order is for
    Stock       \* bound: units of its product that may be available

ASSUME QuantitiesAssumption == Ordered \in Nat \ {0} /\ Stock \in Nat

VARIABLES
    order,      \* the order: of table PO or SO, its status and its line
    shipment,   \* the status of its shipment
    available,  \* units of the product that are not reserved
    created,    \* shipment.created has been emitted and not yet handled
    tab         \* the page somebody has open

vars == <<order, shipment, available, created, tab>>

Statuses == {"DRAFT", "APPROVED", "SHIPPED", "PARTIALLY_RECEIVED", "RECEIVED", "CONFIRMED",
             "ALLOCATED", "PARTIALLY_FULFILLED", "FULFILLED", "CANCELLED"}
ShipmentStatuses == ACTIVE_STATUSES \cup {"NONE", "DELIVERED", "CANCELLED"}

\* `open' has not been received or fulfilled yet.
Order == [table : {"PO", "SO"}, status : Statuses, open : 0 .. Ordered, reserved : 0 .. Ordered]

Now == [order |-> order, shipment |-> shipment]

Documents == {"order", "shipment"}
NavigationPages == {"/dashboard", "/control-tower", "/suppliers", "/customers", "/products",
                    "/purchase-orders", "/sales-orders", "/inventory", "/warehouses",
                    "/shipments", "/exceptions"}

-----------------------------------------------------------------------------
(* The API: a request is checked and carried out in one step.  Lifecycles  *)
(* and quantities are those of Procurement, SalesOrders and Shipments.     *)

\* The status a button asks for.
Target(button, q) ==
    CASE button = <<"PO", "approve">> -> "APPROVED"
      [] button = <<"PO", "receive">> -> IF q = order.open THEN "RECEIVED" ELSE "PARTIALLY_RECEIVED"
      [] button = <<"SO", "confirm">> -> "CONFIRMED"
      [] button = <<"SO", "allocate">> -> "ALLOCATED"
      [] button = <<"SO", "fulfill">> -> IF q = order.open THEN "FULFILLED" ELSE "PARTIALLY_FULFILLED"
      [] button = <<"SHP", "book">> -> "BOOKED"
      [] button = <<"SHP", "dispatch">> -> "IN_TRANSIT"
      [] button = <<"SHP", "arrive">> -> "ARRIVED"
      [] button = <<"SHP", "deliver">> -> "DELIVERED"
      [] button[2] = "cancel" -> "CANCELLED"

\* The services' own checks, whoever asks.
Allowed(button, q) ==
    CASE button \in {<<"PO", "approve">>, <<"PO", "cancel">>} ->
             <<order.status, Target(button, q)>> \in PurchaseTransitions
      [] button = <<"PO", "receive">> ->
             order.status \in RECEIVABLE_STATUSES /\ 0 < q /\ q <= order.open
      [] button \in {<<"SO", "confirm">>, <<"SO", "cancel">>} ->
             <<order.status, Target(button, q)>> \in SalesTransitions
      [] button = <<"SO", "allocate">> ->
             <<order.status, "ALLOCATED">> \in SalesTransitions /\ order.open <= available
      [] button = <<"SO", "fulfill">> ->
             order.status \in FULFILLABLE_STATUSES /\ 0 < q /\ q <= order.reserved
      [] button = <<"SHP", "create">> ->
             /\ shipment = "NONE"
             /\ order.status \in IF order.table = "PO" THEN {"APPROVED"}
                                 ELSE FULFILLABLE_STATUSES \cup {"FULFILLED"}
      [] button \in {<<"SHP", "events">>, <<"SHP", "eta">>} -> shipment # "NONE"
      [] OTHER -> <<shipment, Target(button, q)>> \in ShipmentTransitions

Accepts(role, button, q) == Guard(role, button[1], button[2]) /\ Allowed(button, q)

\* What a request does that is accepted.
Carries(button, q) ==
    LET to == Target(button, q)
    IN  CASE button[1] = "PO" ->
                 /\ order' = [order EXCEPT !.status = to, !.open = @ - q]
                 /\ UNCHANGED <<shipment, available, created>>
          [] button[1] = "SO" ->
                 LET reserved == CASE to = "ALLOCATED" -> order.open
                                   [] to = "CANCELLED" -> 0
                                   [] OTHER -> order.reserved - q
                 IN  /\ order' = [order EXCEPT !.status = to, !.open = @ - q, !.reserved = reserved]
                     /\ available' = available + (order.reserved - q) - reserved
                     /\ UNCHANGED <<shipment, created>>
          [] button = <<"SHP", "create">> ->
                 /\ shipment' = "CREATED"
                 /\ created' = (order.table = "PO")
                 /\ UNCHANGED <<order, available>>
          [] button \in {<<"SHP", "events">>, <<"SHP", "eta">>} ->
                 UNCHANGED <<order, shipment, available, created>>
          [] OTHER -> shipment' = to /\ UNCHANGED <<order, available, created>>

\* handleShipmentCreated in procurement: the order moves, if it still may.
ShipmentCreated ==
    /\ created
    /\ created' = FALSE
    /\ order' = IF <<order.status, "SHIPPED">> \in PurchaseTransitions
                THEN [order EXCEPT !.status = "SHIPPED"] ELSE order
    /\ UNCHANGED <<shipment, available, tab>>

\* Other orders reserve, release and receive.
StockMoves ==
    /\ available' \in 0 .. Stock
    /\ UNCHANGED <<order, shipment, created, tab>>

-----------------------------------------------------------------------------
(* The tab.                                                                *)

Forms == {<<"PO", "receive">>, <<"SO", "fulfill">>}
FormShown(role, page, seen) == Offers(role, page, seen) \cap Forms # {}

\* What a form starts with: the fulfilment form with what is reserved.
Initially(seen) == IF seen.order.table = "SO" THEN seen.order.reserved ELSE 0

\* Somebody of a role opens a page.
Open(role, page) ==
    /\ page = "shipment" => shipment # "NONE"
    /\ tab' = [role |-> role, page |-> page, seen |-> Now, typed |-> Initially(Now)]
    /\ UNCHANGED <<order, shipment, available, created>>

\* The tab when its page is rendered again: a form that was there already
\* keeps what was typed.
Rendered(page, seen) ==
    [tab EXCEPT !.page = page, !.seen = seen,
                !.typed = IF FormShown(tab.role, tab.page, tab.seen) THEN @ ELSE Initially(seen)]

Refresh ==
    /\ tab.page \in Documents
    /\ tab' = Rendered(tab.page, Now)
    /\ UNCHANGED <<order, shipment, available, created>>

Type(n) ==
    /\ FormShown(tab.role, tab.page, tab.seen)
    /\ tab' = [tab EXCEPT !.typed = n]
    /\ UNCHANGED <<order, shipment, available, created>>

\* A button of the tab is pressed and accepted; a form that has nothing to
\* submit says so and sends nothing.  Creating a shipment leads to its page.
Click(button) ==
    LET q == Submitted(button, tab.typed, tab.seen)
    IN  /\ button \in Offers(tab.role, tab.page, tab.seen)
        /\ button \in Forms => q > 0
        /\ Accepts(tab.role, button, q)
        /\ Carries(button, q)
        /\ tab' = Rendered(IF button = <<"SHP", "create">> THEN "shipment" ELSE tab.page, Now')

\* Somebody else loads a page and clicks on it before anything changes.
Visit(role, page, button, typed) ==
    LET q == Submitted(button, typed, Now)
    IN  /\ button \in Offers(role, page, Now)
        /\ button \in Forms => q > 0
        /\ Accepts(role, button, q)
        /\ Carries(button, q)
        /\ UNCHANGED tab

Init ==
    /\ order \in [table : {"PO", "SO"}, status : {"DRAFT"}, open : {Ordered}, reserved : {0}]
    /\ shipment = "NONE"
    /\ available \in 0 .. Stock
    /\ created = FALSE
    /\ tab = [role |-> "Admin", page |-> "/dashboard", seen |-> Now, typed |-> 0]

Next ==
    \/ ShipmentCreated
    \/ StockMoves
    \/ \E role \in Roles, page \in NavigationPages \cup Documents : Open(role, page)
    \/ Refresh
    \/ \E n \in 0 .. Ordered : Type(n)
    \/ \E button \in Offers(tab.role, tab.page, tab.seen) : Click(button)
    \/ \E role \in Roles, page \in Documents, typed \in 0 .. Ordered :
          \E button \in Offers(role, page, Now) : Visit(role, page, button, typed)

Spec == Init /\ [][Next]_vars

-----------------------------------------------------------------------------
(* Properties.                                                             *)

LacksStock(button) == button = <<"SO", "allocate">> /\ order.open > available

\* The button on the page of a purchase order asks for po:create, the API
\* for shipment:create.
WrongPermission(role, button) ==
    button = <<"SHP", "create">> /\ order.table = "PO" /\ ~ May(role, "shipment:create")

\* A page that shows the order as it is offers nothing that the API refuses:
\* the role may do it, the lifecycle allows it, and whatever was typed into
\* its form, before or after the order moved on, what is sent still fits.
\* Only a lack of stock, which the page warns of, and the one permission the
\* page and the API disagree on are refused.
OffersAreHonoured ==
    tab.seen = Now =>
        \A button \in Offers(tab.role, tab.page, Now) :
            LET q == Submitted(button, tab.typed, Now)
            IN  \/ button \in Forms /\ q = 0
                \/ LacksStock(button)
                \/ WrongPermission(tab.role, button)
                \/ Accepts(tab.role, button, q)

Finished == order.status \in {"RECEIVED", "FULFILLED", "CANCELLED"}

\* An order is handed from role to role and never stuck between their pages:
\* until it is finished some role's page offers a step that takes it
\* further, other than cancelling it, and that the API accepts from that
\* role; or an event is on its way, or stock is what it waits for.
HandedOver ==
    \/ Finished
    \/ created
    \/ LacksStock(<<"SO", "allocate">>) /\ order.status = "CONFIRMED"
    \/ \E role \in Roles :
          \E button \in Offers(role, "order", Now) :
              /\ button[2] # "cancel"
              /\ button = <<"SHP", "create">> => order.table = "PO"
              /\ Accepts(role, button, Submitted(button, order.open, Now))

\* docs/architecture/analytics.md: the Control Tower is "everyone's shared
\* operational home page", open to all four roles.
EveryRoleSeesTheTower == tab.page = "/control-tower" => Shows(tab.role, tab.page)
=============================================================================
