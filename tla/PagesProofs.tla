----------------------------- MODULE PagesProofs -----------------------------
(***************************************************************************)
(* Theorems about the pages of the web application: for any quantity an    *)
(* order is for, a page that shows things as they are offers what the API  *)
(* accepts, and between the four roles an order is never stuck.            *)
(***************************************************************************)
EXTENDS Pages, TLAPS

PurchaseStatuses ==
    {"DRAFT", "APPROVED", "SHIPPED", "PARTIALLY_RECEIVED", "RECEIVED", "CANCELLED"}
SalesStatuses ==
    {"DRAFT", "CONFIRMED", "ALLOCATED", "PARTIALLY_FULFILLED", "FULFILLED", "CANCELLED"}

(***************************************************************************)
(* The status of an order tells what is open and what is reserved of it,   *)
(* and whether there is a shipment: nothing else is written with it.       *)
(***************************************************************************)

\* A purchase order p, a shipment s and the event on its way, or not.
PurchaseTold(p, s, event) ==
    /\ p.status \in PurchaseStatuses
    /\ p.reserved = 0
    /\ p.open \in 0 .. Ordered
    /\ p.status \in {"DRAFT", "APPROVED", "SHIPPED", "PARTIALLY_RECEIVED"} => p.open > 0
    /\ p.status = "DRAFT" => s = "NONE"
    /\ p.status = "APPROVED" => (s = "NONE" \/ event)

\* A sales order: what is open is reserved, once it is allocated.
SalesTold(p) ==
    /\ p.status \in SalesStatuses
    /\ p.open \in 0 .. Ordered
    /\ p.reserved = IF p.status \in FULFILLABLE_STATUSES THEN p.open ELSE 0
    /\ p.status \in OPEN_SO_STATUSES => p.open > 0

Told(p, s, event) ==
    \/ p.table = "PO" /\ PurchaseTold(p, s, event)
    \/ p.table = "SO" /\ SalesTold(p) /\ ~ event

Tabs == [role : Roles, page : NavigationPages \cup Documents,
         seen : [order : Order, shipment : ShipmentStatuses], typed : Nat]

\* The tab t shows the page of this order, or one of its shipment.
TabInScope(t, p, s) ==
    /\ t \in Tabs
    /\ t.seen.order.table = p.table
    /\ t.page = "shipment" => s # "NONE"

\* What the database has of the order.
Stored ==
    /\ order \in Order
    /\ shipment \in ShipmentStatuses
    /\ available \in Int
    /\ created \in BOOLEAN
    /\ Told(order, shipment, created)

PInv == Stored /\ TabInScope(tab, order, shipment)

-----------------------------------------------------------------------------
(* What a page offers.                                                     *)

PurchaseButtons == {<<"PO", "approve">>, <<"PO", "receive">>, <<"PO", "cancel">>}
SalesButtons ==
    {<<"SO", "confirm">>, <<"SO", "allocate">>, <<"SO", "fulfill">>, <<"SO", "cancel">>}
CarriageButtons ==
    {<<"SHP", "book">>, <<"SHP", "dispatch">>, <<"SHP", "arrive">>, <<"SHP", "deliver">>,
     <<"SHP", "cancel">>}
OtherButtons == {<<"SHP", "events">>, <<"SHP", "eta">>}

LEMMA PurchaseOffered ==
    ASSUME NEW role, NEW seen, NEW button \in PurchaseOrderOffers(role, seen)
    PROVE  \/ /\ button = <<"PO", "approve">> /\ seen.order.status = "DRAFT"
              /\ May(role, "po:approve")
           \/ /\ button = <<"SHP", "create">> /\ seen.order.status = "APPROVED"
              /\ seen.shipment = "NONE" /\ May(role, "po:create")
           \/ /\ button = <<"PO", "cancel">> /\ seen.order.status \notin {"RECEIVED", "CANCELLED"}
              /\ May(role, "po:create")
           \/ /\ button = <<"PO", "receive">> /\ seen.order.status \in RECEIVABLE_STATUSES
              /\ May(role, "po:receive")
BY Zenon DEF PurchaseOrderOffers, If

LEMMA SalesOffered ==
    ASSUME NEW role, NEW seen, NEW button \in SalesOrderOffers(role, seen)
    PROVE  \/ /\ button = <<"SO", "confirm">> /\ seen.order.status = "DRAFT"
              /\ May(role, "sales-order:confirm")
           \/ /\ button = <<"SO", "allocate">> /\ seen.order.status = "CONFIRMED"
              /\ May(role, "sales-order:allocate")
           \/ /\ button = <<"SO", "fulfill">> /\ seen.order.status \in FULFILLABLE_STATUSES
              /\ seen.order.reserved > 0 /\ May(role, "sales-order:fulfill")
           \/ /\ button = <<"SHP", "create">> /\ seen.shipment = "NONE"
              /\ seen.order.status \in FULFILLABLE_STATUSES \cup {"FULFILLED"}
              /\ May(role, "shipment:create")
           \/ /\ button = <<"SO", "cancel">> /\ seen.order.status \notin {"FULFILLED", "CANCELLED"}
              /\ May(role, "sales-order:cancel")
BY Zenon DEF SalesOrderOffers, If

LEMMA CarriageOffered ==
    ASSUME NEW role, NEW seen, NEW button \in ShipmentOffers(role, seen)
    PROVE  \/ /\ seen.shipment \in DOMAIN NEXT_ACTION
              /\ button = <<"SHP", NEXT_ACTION[seen.shipment]>>
              /\ May(role, "shipment:update")
           \/ /\ button = <<"SHP", "cancel">> /\ seen.shipment \in CANCELLABLE
              /\ May(role, "shipment:update")
           \/ button = <<"SHP", "events">> /\ May(role, "shipment:tracking:create")
           \/ button = <<"SHP", "eta">> /\ May(role, "shipment:eta:update")
BY Zenon DEF ShipmentOffers, If

LEMMA Offered ==
    ASSUME NEW role, NEW page, NEW seen, NEW button \in Offers(role, page, seen)
    PROVE  \/ /\ page = "order" /\ seen.order.table = "PO"
              /\ button \in PurchaseOrderOffers(role, seen)
           \/ /\ page = "order" /\ seen.order.table = "SO"
              /\ button \in SalesOrderOffers(role, seen)
           \/ page = "shipment" /\ button \in ShipmentOffers(role, seen)
BY DEF Offers

\* The buttons of an order are for the orders of its table.
LEMMA Buttons ==
    ASSUME NEW role, NEW page, NEW seen, NEW button \in Offers(role, page, seen)
    PROVE  \/ button \in PurchaseButtons /\ seen.order.table = "PO"
           \/ button \in SalesButtons /\ seen.order.table = "SO"
           \/ button \in CarriageButtons \cup OtherButtons \cup {<<"SHP", "create">>}
<1>1. CASE page = "order" /\ seen.order.table = "PO" /\ button \in PurchaseOrderOffers(role, seen)
  BY <1>1, PurchaseOffered DEF PurchaseButtons
<1>2. CASE page = "order" /\ seen.order.table = "SO" /\ button \in SalesOrderOffers(role, seen)
  BY <1>2, SalesOffered DEF SalesButtons
<1>3. CASE page = "shipment" /\ button \in ShipmentOffers(role, seen)
  BY <1>3, CarriageOffered DEF CarriageButtons, OtherButtons, NEXT_ACTION
<1>4. QED
  BY <1>1, <1>2, <1>3, Offered

-----------------------------------------------------------------------------
(* What the API accepts, and what that does.                               *)

\* A purchase order is approved, received of, or cancelled.
LEMMA PurchaseCarried ==
    ASSUME Stored, NEW button \in PurchaseButtons, NEW q \in Nat,
           button \notin Forms => q = 0,
           order.table = "PO", Allowed(button, q), Carries(button, q)
    PROVE  /\ Stored'
           /\ order'.table = order.table
           /\ UNCHANGED <<shipment, created, available>>
<1>1. /\ order' = [order EXCEPT !.status = Target(button, q), !.open = @ - q]
      /\ UNCHANGED <<shipment, available, created>>
  BY DEF Carries, PurchaseButtons
<1>2. \/ /\ order.status = "DRAFT" /\ q = 0
         /\ Target(button, q) \in {"APPROVED", "CANCELLED"}
      \/ /\ order.status \in OPEN_PO_STATUSES /\ q = 0
         /\ Target(button, q) = "CANCELLED"
      \/ /\ order.status \in RECEIVABLE_STATUSES /\ 0 < q /\ q < order.open
         /\ Target(button, q) = "PARTIALLY_RECEIVED"
      \/ /\ order.status \in RECEIVABLE_STATUSES /\ q = order.open
         /\ Target(button, q) = "RECEIVED"
  <2>1. CASE button = <<"PO", "approve">>
    BY <2>1 DEF Target, Allowed, PurchaseTransitions, Forms
  <2>2. CASE button = <<"PO", "cancel">>
    BY <2>2 DEF Target, Allowed, PurchaseTransitions, Forms, OPEN_PO_STATUSES
  <2>3. CASE button = <<"PO", "receive">>
    <3>1. order.open \in Int
      BY QuantitiesAssumption DEF Stored, Order
    <3>2. /\ order.status \in RECEIVABLE_STATUSES /\ 0 < q /\ q <= order.open
          /\ Target(button, q) = IF q = order.open THEN "RECEIVED" ELSE "PARTIALLY_RECEIVED"
      BY <2>3 DEF Target, Allowed
    <3>3. QED
      BY <3>1, <3>2
  <2>4. QED
    BY <2>1, <2>2, <2>3 DEF PurchaseButtons
<1>3. /\ order' \in Order
      /\ PurchaseTold(order', shipment, created)
      /\ order'.table = "PO"
  <2>1. /\ order \in Order /\ PurchaseTold(order, shipment, created)
    BY DEF Stored, Told
  <2>2. order' = [table |-> "PO", status |-> Target(button, q), open |-> order.open - q,
                  reserved |-> order.reserved]
    BY <1>1, <2>1 DEF Order
  <2>3. order.open \in 0 .. Ordered /\ order.reserved \in 0 .. Ordered
    BY <2>1 DEF Order
  <2>4. order.open - q \in 0 .. Ordered
    BY <1>2, <2>1, <2>3, QuantitiesAssumption
       DEF PurchaseTold, OPEN_PO_STATUSES, RECEIVABLE_STATUSES
  <2>5. Target(button, q) \in PurchaseStatuses
    BY <1>2 DEF PurchaseStatuses
  <2>6. order' \in Order
    BY <2>2, <2>3, <2>4, <2>5 DEF Order, Statuses, PurchaseStatuses
  <2>7. Target(button, q) = "PARTIALLY_RECEIVED" => order.open - q > 0
    BY <1>2, <2>3, QuantitiesAssumption
  <2>8. Target(button, q) = "APPROVED" => order.status = "DRAFT" /\ q = 0
    BY <1>2
  <2>9. Target(button, q) \notin {"DRAFT", "SHIPPED"}
    BY <1>2
  <2>10. PurchaseTold(order', shipment, created)
    BY <2>1, <2>2, <2>4, <2>5, <2>7, <2>8, <2>9 DEF PurchaseTold
  <2>11. QED
    BY <2>2, <2>6, <2>10
<1>4. QED
  BY <1>1, <1>3 DEF Stored, Told

\* A sales order is confirmed, allocated, fulfilled of, or cancelled.
LEMMA SalesCarried ==
    ASSUME Stored, NEW button \in SalesButtons, NEW q \in Nat,
           button \notin Forms => q = 0,
           order.table = "SO", Allowed(button, q), Carries(button, q)
    PROVE  /\ Stored'
           /\ order'.table = order.table
           /\ UNCHANGED <<shipment, created>>
<1> DEFINE to == Target(button, q)
           reserved == CASE to = "ALLOCATED" -> order.open
                         [] to = "CANCELLED" -> 0
                         [] OTHER -> order.reserved - q
<1>1. /\ order' = [order EXCEPT !.status = to, !.open = @ - q, !.reserved = reserved]
      /\ available' = available + (order.reserved - q) - reserved
      /\ UNCHANGED <<shipment, created>>
  BY DEF Carries, SalesButtons
<1>2. /\ order \in Order /\ SalesTold(order)
      /\ order.open \in 0 .. Ordered /\ order.reserved \in 0 .. Ordered
      /\ available \in Int /\ ~ created
  BY DEF Stored, Told, Order
<1>3. \/ order.status = "DRAFT" /\ to = "CONFIRMED" /\ q = 0
      \/ order.status = "CONFIRMED" /\ to = "ALLOCATED" /\ q = 0
      \/ order.status \in OPEN_SO_STATUSES /\ to = "CANCELLED" /\ q = 0
      \/ /\ order.status \in FULFILLABLE_STATUSES /\ 0 < q /\ q < order.open
         /\ to = "PARTIALLY_FULFILLED"
      \/ /\ order.status \in FULFILLABLE_STATUSES /\ q = order.open
         /\ to = "FULFILLED"
  <2>1. CASE button = <<"SO", "confirm">>
    BY <2>1 DEF Target, Allowed, SalesTransitions, Forms
  <2>2. CASE button = <<"SO", "allocate">>
    BY <2>2 DEF Target, Allowed, SalesTransitions, Forms
  <2>3. CASE button = <<"SO", "cancel">>
    BY <2>3 DEF Target, Allowed, SalesTransitions, Forms, OPEN_SO_STATUSES
  <2>4. CASE button = <<"SO", "fulfill">>
    <3>1. /\ order.status \in FULFILLABLE_STATUSES /\ 0 < q /\ q <= order.reserved
          /\ to = IF q = order.open THEN "FULFILLED" ELSE "PARTIALLY_FULFILLED"
      BY <2>4 DEF Target, Allowed
    <3>2. order.reserved = order.open
      BY <1>2, <3>1 DEF SalesTold
    <3>3. QED
      BY <1>2, <3>1, <3>2
  <2>5. QED
    BY <2>1, <2>2, <2>3, <2>4 DEF SalesButtons
<1> HIDE DEF to
<1>4. reserved \in 0 .. Ordered /\ available' \in Int
  BY <1>1, <1>2, <1>3, QuantitiesAssumption DEF SalesTold
<1>5. /\ order.open - q \in 0 .. Ordered
      /\ to \in SalesStatuses
      /\ to \in OPEN_SO_STATUSES => order.open - q > 0
  BY <1>2, <1>3, QuantitiesAssumption
     DEF SalesTold, SalesStatuses, OPEN_SO_STATUSES, FULFILLABLE_STATUSES
<1>6. reserved = IF to \in FULFILLABLE_STATUSES THEN order.open - q ELSE 0
  BY <1>2, <1>3, QuantitiesAssumption DEF SalesTold, FULFILLABLE_STATUSES, OPEN_SO_STATUSES
<1> HIDE DEF reserved
<1>7. order' = [table |-> order.table, status |-> to, open |-> order.open - q,
                reserved |-> reserved]
  BY <1>1, <1>2 DEF Order
<1>8. order' \in Order
  BY <1>2, <1>4, <1>5, <1>7 DEF Order, Statuses, SalesStatuses
<1>9. SalesTold(order')
  BY <1>5, <1>6, <1>7 DEF SalesTold
<1>10. order'.table = order.table
  BY <1>7
<1>11. QED
  BY <1>1, <1>2, <1>4, <1>8, <1>9, <1>10 DEF Stored, Told

\* A shipment is created, or moved along, or it is reported on.
LEMMA ShipmentCarried ==
    ASSUME Stored, NEW q \in Nat,
           NEW button \in CarriageButtons \cup OtherButtons \cup {<<"SHP", "create">>},
           Allowed(button, q), Carries(button, q)
    PROVE  /\ Stored'
           /\ order'.table = order.table
           /\ shipment # "NONE" => shipment' # "NONE"
           /\ button = <<"SHP", "create">> => shipment' # "NONE"
<1>1. CASE button = <<"SHP", "create">>
  <2>1. /\ shipment' = "CREATED" /\ created' = (order.table = "PO")
        /\ UNCHANGED <<order, available>>
    BY <1>1 DEF Carries
  <2>2. /\ shipment = "NONE"
        /\ order.status \in IF order.table = "PO" THEN {"APPROVED"}
                            ELSE FULFILLABLE_STATUSES \cup {"FULFILLED"}
    BY <1>1 DEF Allowed
  <2>3. Told(order, shipment', created')
    <3>1. CASE order.table = "PO"
      <4>1. PurchaseTold(order, shipment, created) /\ order.status = "APPROVED" /\ created'
        BY <2>1, <2>2, <3>1 DEF Stored, Told
      <4>2. PurchaseTold(order, shipment', created')
        BY <4>1 DEF PurchaseTold
      <4>3. QED
        BY <3>1, <4>2 DEF Told
    <3>2. CASE order.table = "SO"
      BY <2>1, <3>2 DEF Stored, Told
    <3>3. QED
      BY <3>1, <3>2 DEF Stored, Told
  <2>4. shipment' \in ShipmentStatuses
    BY <2>1 DEF ShipmentStatuses, ACTIVE_STATUSES
  <2>5. Told(order, shipment, created)'
    BY <2>1, <2>3
  <2>6. QED
    BY <2>1, <2>2, <2>4, <2>5 DEF Stored
<1>2. CASE button \in OtherButtons
  <2>1. UNCHANGED <<order, shipment, available, created>>
    BY <1>2 DEF Carries, OtherButtons
  <2>2. QED
    BY <1>2, <2>1 DEF Stored, Told, OtherButtons
<1>3. CASE button \in CarriageButtons
  <2>1. shipment' = Target(button, q) /\ UNCHANGED <<order, available, created>>
    BY <1>3 DEF Carries, CarriageButtons
  <2>2. <<shipment, Target(button, q)>> \in ShipmentTransitions
    BY <1>3 DEF Allowed, CarriageButtons
  <2>3. shipment # "NONE" /\ shipment' # "NONE" /\ shipment' \in ShipmentStatuses
    BY <2>1, <2>2 DEF ShipmentTransitions, ShipmentStatuses, ACTIVE_STATUSES
  <2>4. Told(order, shipment', created)
    BY <2>3 DEF Stored, Told, PurchaseTold
  <2>5. Told(order, shipment, created)'
    BY <2>1, <2>4
  <2>6. QED
    BY <1>3, <2>1, <2>3, <2>5 DEF Stored, CarriageButtons
<1>4. QED
  BY <1>1, <1>2, <1>3

\* A button that is on a page, sent and accepted.
LEMMA Carried ==
    ASSUME Stored, NEW role, NEW page, NEW seen, NEW button \in Offers(role, page, seen),
           seen.order.table = order.table, NEW q \in Nat, button \notin Forms => q = 0,
           Allowed(button, q), Carries(button, q)
    PROVE  /\ Stored'
           /\ order'.table = order.table
           /\ shipment # "NONE" => shipment' # "NONE"
           /\ button = <<"SHP", "create">> => shipment' # "NONE"
<1>1. CASE button \in PurchaseButtons /\ seen.order.table = "PO"
  BY <1>1, PurchaseCarried DEF PurchaseButtons
<1>2. CASE button \in SalesButtons /\ seen.order.table = "SO"
  BY <1>2, SalesCarried DEF SalesButtons
<1>3. CASE button \in CarriageButtons \cup OtherButtons \cup {<<"SHP", "create">>}
  BY <1>3, ShipmentCarried
<1>4. QED
  BY <1>1, <1>2, <1>3, Buttons

LEMMA SubmittedType ==
    ASSUME NEW button, NEW typed \in Nat, NEW seen,
           seen.order.open \in Nat, seen.order.reserved \in Nat
    PROVE  /\ Submitted(button, typed, seen) \in Nat
           /\ button \notin Forms => Submitted(button, typed, seen) = 0
           /\ button = <<"PO", "receive">> => Submitted(button, typed, seen) <= seen.order.open
           /\ button = <<"SO", "fulfill">> => Submitted(button, typed, seen) <= seen.order.reserved
<1>1. CASE button = <<"PO", "receive">>
  BY <1>1 DEF Submitted, Receipt, Forms
<1>2. CASE button = <<"SO", "fulfill">>
  BY <1>2 DEF Submitted, Fulfilment, Forms
<1>3. CASE button \notin Forms
  BY <1>3 DEF Submitted, Forms
<1>4. QED
  BY <1>1, <1>2, <1>3 DEF Forms

\* What a page shows of the order as it is stored.
LEMMA NowInScope ==
    ASSUME Stored
    PROVE  /\ Now.order = order /\ Now.shipment = shipment
           /\ Now \in [order : Order, shipment : ShipmentStatuses]
           /\ order.open \in Nat /\ order.reserved \in Nat
           /\ Initially(Now) \in Nat
BY QuantitiesAssumption DEF Stored, Order, Now, Initially

\* What is sent of a tab.
LEMMA SentOfTab ==
    ASSUME NEW t \in Tabs, NEW button
    PROVE  LET q == Submitted(button, t.typed, t.seen)
           IN  q \in Nat /\ (button \notin Forms => q = 0)
<1>1. t.typed \in Nat /\ t.seen.order.open \in Nat /\ t.seen.order.reserved \in Nat
  BY QuantitiesAssumption DEF Tabs, Order
<1>2. QED
  BY <1>1, SubmittedType

-----------------------------------------------------------------------------
(* The invariant.                                                          *)

LEMMA InitPInv == Init => PInv
<1> SUFFICES ASSUME Init PROVE PInv
  OBVIOUS
<1>1. /\ order.table \in {"PO", "SO"} /\ order.status = "DRAFT"
      /\ order.open = Ordered /\ order.reserved = 0 /\ order \in Order
  BY QuantitiesAssumption DEF Init, Order, Statuses
<1>2. PurchaseTold(order, "NONE", FALSE) /\ SalesTold(order)
  BY <1>1, QuantitiesAssumption
     DEF PurchaseTold, SalesTold, PurchaseStatuses, SalesStatuses, FULFILLABLE_STATUSES
<1>3. Told(order, shipment, created)
  BY <1>1, <1>2 DEF Init, Told
<1>4. Stored
  <2>1. available \in Int
    BY QuantitiesAssumption DEF Init
  <2>2. shipment \in ShipmentStatuses /\ created \in BOOLEAN
    BY DEF Init, ShipmentStatuses
  <2>3. QED
    BY <1>1, <1>3, <2>1, <2>2 DEF Stored
<1>5. TabInScope(tab, order, shipment)
  <2>1. Now \in [order : Order, shipment : ShipmentStatuses] /\ Now.order = order
    BY <1>4, NowInScope
  <2>2. /\ tab = [role |-> "Admin", page |-> "/dashboard", seen |-> Now, typed |-> 0]
        /\ "Admin" \in Roles /\ "/dashboard" \in NavigationPages
    BY DEF Init, Roles, NavigationPages
  <2> HIDE DEF Now
  <2>3. QED
    BY <2>1, <2>2 DEF TabInScope, Tabs
<1>6. QED
  BY <1>4, <1>5 DEF PInv

\* A tab that stays as it is while an accepted request is carried out.
LEMMA TabLeft ==
    ASSUME TabInScope(tab, order, shipment), UNCHANGED tab,
           order'.table = order.table, shipment # "NONE" => shipment' # "NONE"
    PROVE  TabInScope(tab, order, shipment)'
BY DEF TabInScope

\* A tab that is rendered with the order and the shipment as they are then.
LEMMA TabRendered ==
    ASSUME PInv, Stored', NEW page \in NavigationPages \cup Documents,
           page = "shipment" => shipment' # "NONE",
           tab' = Rendered(page, Now')
    PROVE  TabInScope(tab, order, shipment)'
<1>1. /\ Now'.order = order'
      /\ Now' \in [order : Order, shipment : ShipmentStatuses]
      /\ Initially(Now') \in Nat
  BY QuantitiesAssumption DEF Stored, Order, Now, Initially
<1>2. tab \in Tabs
  BY DEF PInv, TabInScope
<1> DEFINE seen == Now'
           typed == IF FormShown(tab.role, tab.page, tab.seen) THEN tab.typed ELSE Initially(seen)
<1>3. tab' = [tab EXCEPT !.page = page, !.seen = seen, !.typed = typed]
  BY DEF Rendered
<1> HIDE DEF seen
<1>4. typed \in Nat
  BY <1>1, <1>2 DEF Tabs, seen
<1> HIDE DEF typed
<1>5. tab' = [role |-> tab.role, page |-> page, seen |-> seen, typed |-> typed]
  BY <1>2, <1>3 DEF Tabs
<1>6. tab' \in Tabs
  BY <1>1, <1>2, <1>4, <1>5 DEF Tabs, seen
<1>7. tab'.seen.order.table = order'.table /\ tab'.page = page
  BY <1>1, <1>5 DEF seen
<1>8. QED
  BY <1>6, <1>7 DEF TabInScope

LEMMA NextPInv == PInv /\ [Next]_vars => PInv'
<1> SUFFICES ASSUME PInv, [Next]_vars PROVE PInv'
  OBVIOUS
<1>0. Stored /\ TabInScope(tab, order, shipment) /\ tab \in Tabs
  BY DEF PInv, TabInScope
<1>1. CASE ShipmentCreated
  <2>1. created /\ order.table = "PO" /\ PurchaseTold(order, shipment, created) /\ order \in Order
    BY <1>0, <1>1 DEF ShipmentCreated, Stored, Told
  <2>2. /\ UNCHANGED <<shipment, available, tab>>
        /\ created' = FALSE
        /\ order' = IF <<order.status, "SHIPPED">> \in PurchaseTransitions
                    THEN [order EXCEPT !.status = "SHIPPED"] ELSE order
    BY <1>1 DEF ShipmentCreated
  <2>3. order' \in Order /\ order'.table = order.table
    BY <2>1, <2>2 DEF Order, Statuses
  <2>4. PurchaseTold(order', shipment, FALSE)
    <3>1. CASE order.status = "APPROVED"
      <4>1. order' = [order EXCEPT !.status = "SHIPPED"]
        BY <2>2, <3>1 DEF PurchaseTransitions
      <4>2. /\ order'.status = "SHIPPED"
            /\ order'.open = order.open /\ order'.reserved = order.reserved
        BY <2>1, <4>1 DEF Order
      <4>3. QED
        BY <2>1, <3>1, <4>2 DEF PurchaseTold, PurchaseStatuses
    <3>2. CASE order.status # "APPROVED"
      <4>1. order' = order
        BY <2>2, <3>2 DEF PurchaseTransitions
      <4>2. QED
        BY <2>1, <3>2, <4>1 DEF PurchaseTold
    <3>3. QED
      BY <3>1, <3>2
  <2>5. Told(order, shipment, created)'
    BY <2>1, <2>2, <2>3, <2>4 DEF Told
  <2>6. Stored'
    BY <1>0, <2>2, <2>3, <2>5 DEF Stored
  <2>7. QED
    BY <1>0, <2>2, <2>3, <2>6, TabLeft DEF PInv
<1>2. CASE StockMoves
  <2>1. available' \in Int /\ UNCHANGED <<order, shipment, created, tab>>
    BY <1>2, QuantitiesAssumption DEF StockMoves
  <2>2. Stored'
    BY <1>0, <2>1 DEF Stored, Told
  <2>3. QED
    BY <1>0, <2>1, <2>2, TabLeft DEF PInv
<1>3. ASSUME NEW role \in Roles, NEW page \in NavigationPages \cup Documents, Open(role, page)
      PROVE  PInv'
  <2>1. /\ UNCHANGED <<order, shipment, available, created>>
        /\ tab' = [role |-> role, page |-> page, seen |-> Now, typed |-> Initially(Now)]
        /\ page = "shipment" => shipment # "NONE"
    BY <1>3 DEF Open
  <2>2. Stored'
    BY <1>0, <2>1 DEF Stored, Told
  <2>3. TabInScope(tab, order, shipment)'
    <3>1. /\ Now \in [order : Order, shipment : ShipmentStatuses] /\ Now.order = order
          /\ Initially(Now) \in Nat
      BY <1>0, NowInScope
    <3> DEFINE seen == Now
    <3>2. tab' = [role |-> role, page |-> page, seen |-> seen, typed |-> Initially(seen)]
      BY <2>1
    <3>3. /\ seen \in [order : Order, shipment : ShipmentStatuses] /\ seen.order = order
          /\ Initially(seen) \in Nat
      BY <3>1
    <3> HIDE DEF seen
    <3>4. tab' \in Tabs
      BY <3>2, <3>3 DEF Tabs
    <3>5. tab'.seen = seen /\ tab'.page = page
      BY <3>2
    <3>6. QED
      BY <2>1, <3>3, <3>4, <3>5 DEF TabInScope
  <2>4. QED
    BY <2>2, <2>3 DEF PInv
<1>4. CASE Refresh
  <2>1. /\ tab.page \in Documents /\ UNCHANGED <<order, shipment, available, created>>
        /\ tab' = Rendered(tab.page, Now)
    BY <1>4 DEF Refresh
  <2>2. Stored' /\ Now' = Now
    BY <1>0, <2>1 DEF Stored, Told, Now
  <2>3. tab' = Rendered(tab.page, Now')
    BY <2>1, <2>2
  <2>4. tab.page = "shipment" => shipment' # "NONE"
    BY <1>0, <2>1 DEF TabInScope
  <2>5. QED
    BY <2>1, <2>2, <2>3, <2>4, TabRendered DEF PInv
<1>5. ASSUME NEW n \in 0 .. Ordered, Type(n) PROVE PInv'
  <2>1. /\ tab' = [tab EXCEPT !.typed = n]
        /\ UNCHANGED <<order, shipment, available, created>>
    BY <1>5 DEF Type
  <2>2. /\ tab' \in Tabs /\ tab'.seen = tab.seen /\ tab'.page = tab.page
    BY <1>0, <2>1, QuantitiesAssumption DEF Tabs
  <2>3. Stored'
    BY <1>0, <2>1 DEF Stored, Told
  <2>4. QED
    BY <1>0, <2>1, <2>2, <2>3 DEF PInv, TabInScope
<1>6. ASSUME NEW button \in Offers(tab.role, tab.page, tab.seen), Click(button)
      PROVE  PInv'
  <2> DEFINE q == Submitted(button, tab.typed, tab.seen)
             page == IF button = <<"SHP", "create">> THEN "shipment" ELSE tab.page
  <2>1. /\ Allowed(button, q) /\ Carries(button, q)
        /\ tab' = Rendered(page, Now')
    BY <1>6 DEF Click, Accepts
  <2>2. q \in Nat /\ (button \notin Forms => q = 0)
    BY <1>0, SentOfTab
  <2>3. tab.seen.order.table = order.table
    BY <1>0 DEF TabInScope
  <2> HIDE DEF q
  <2>4. /\ Stored'
        /\ shipment # "NONE" => shipment' # "NONE"
        /\ button = <<"SHP", "create">> => shipment' # "NONE"
    BY <1>0, <2>1, <2>2, <2>3, Carried
  <2>5. page \in NavigationPages \cup Documents /\ (page = "shipment" => shipment' # "NONE")
    BY <1>0, <2>4 DEF Tabs, Documents, TabInScope
  <2> HIDE DEF page
  <2>6. QED
    BY <2>1, <2>4, <2>5, TabRendered DEF PInv
<1>7. ASSUME NEW role \in Roles, NEW page \in Documents, NEW typed \in 0 .. Ordered,
             NEW button \in Offers(role, page, Now), Visit(role, page, button, typed)
      PROVE  PInv'
  <2> DEFINE q == Submitted(button, typed, Now)
  <2>1. Allowed(button, q) /\ Carries(button, q) /\ UNCHANGED tab
    BY <1>7 DEF Visit, Accepts
  <2>2. q \in Nat /\ (button \notin Forms => q = 0)
    <3>1. Now.order.open \in Nat /\ Now.order.reserved \in Nat /\ typed \in Nat
      BY <1>0, NowInScope, QuantitiesAssumption
    <3> HIDE DEF Now
    <3>2. QED
      BY <3>1, SubmittedType
  <2>3. Now.order.table = order.table
    BY <1>0, NowInScope
  <2> HIDE DEF q
  <2>4. /\ Stored' /\ order'.table = order.table
        /\ shipment # "NONE" => shipment' # "NONE"
    BY <1>0, <2>1, <2>2, <2>3, Carried
  <2>5. QED
    BY <1>0, <2>1, <2>4, TabLeft DEF PInv
<1>8. CASE UNCHANGED vars
  BY <1>0, <1>8 DEF vars, PInv, Stored, Told, TabInScope
<1>9. QED
  BY <1>1, <1>2, <1>3, <1>4, <1>5, <1>6, <1>7, <1>8 DEF Next

\* What the stored status tells, and what a tab shows, in every state that
\* users of the four roles can bring an order to.
THEOREM StatusTells == Spec => []PInv
<1>1. Init => PInv
  BY InitPInv
<1>2. PInv /\ [Next]_vars => PInv'
  BY NextPInv
<1>3. QED
  BY <1>1, <1>2, PTL DEF Spec

-----------------------------------------------------------------------------
(* The properties.                                                         *)

LEMMA OffersFollow == PInv => OffersAreHonoured
<1> SUFFICES ASSUME PInv, tab.seen = Now, NEW button \in Offers(tab.role, tab.page, Now),
                    ~ (button \in Forms /\ Submitted(button, tab.typed, Now) = 0),
                    ~ LacksStock(button), ~ WrongPermission(tab.role, button)
             PROVE  Accepts(tab.role, button, Submitted(button, tab.typed, Now))
  BY DEF OffersAreHonoured
<1> DEFINE q == Submitted(button, tab.typed, Now)
<1>1. /\ Stored /\ tab \in Tabs
      /\ tab.page = "shipment" => shipment # "NONE"
      /\ Now.order = order /\ Now.shipment = shipment
      /\ order.open \in Nat /\ order.reserved \in Nat /\ available \in Int
  BY NowInScope DEF PInv, TabInScope, Stored
<1>2. /\ q \in Nat
      /\ button \notin Forms => q = 0
      /\ button = <<"PO", "receive">> => q <= order.open
      /\ button = <<"SO", "fulfill">> => q <= order.reserved
  BY <1>1, SubmittedType DEF Tabs
<1>3. button \in Forms => q > 0
  BY <1>2
<1> HIDE DEF q
<1>4. CASE order.table = "PO" /\ button \in PurchaseOrderOffers(tab.role, Now)
  <2>0. PurchaseTold(order, shipment, created)
    BY <1>1, <1>4 DEF Stored, Told
  <2>1. CASE button = <<"PO", "approve">>
    <3>1. order.status = "DRAFT" /\ May(tab.role, "po:approve")
      BY <1>1, <1>4, <2>1, PurchaseOffered
    <3>2. Guard(tab.role, button[1], button[2])
      BY <2>1, <3>1 DEF Guard, PurchaseOrderRoute
    <3>3. Allowed(button, q)
      BY <2>1, <3>1 DEF Allowed, Target, PurchaseTransitions
    <3>4. QED
      BY <3>2, <3>3 DEF Accepts, q
  <2>2. CASE button = <<"SHP", "create">>
    <3>1. order.status = "APPROVED" /\ shipment = "NONE"
      BY <1>1, <1>4, <2>2, PurchaseOffered
    <3>2. Guard(tab.role, button[1], button[2])
      BY <1>4, <2>2 DEF Guard, ShipmentRoute, WrongPermission
    <3>3. Allowed(button, q)
      BY <1>4, <2>2, <3>1 DEF Allowed
    <3>4. QED
      BY <3>2, <3>3 DEF Accepts, q
  <2>3. CASE button = <<"PO", "cancel">>
    <3>1. order.status \notin {"RECEIVED", "CANCELLED"} /\ May(tab.role, "po:create")
      BY <1>1, <1>4, <2>3, PurchaseOffered
    <3>2. Guard(tab.role, button[1], button[2])
      BY <2>3, <3>1 DEF Guard, PurchaseOrderRoute
    <3>3. Allowed(button, q)
      BY <2>0, <2>3, <3>1
         DEF Allowed, Target, PurchaseTransitions, PurchaseTold, PurchaseStatuses
    <3>4. QED
      BY <3>2, <3>3 DEF Accepts, q
  <2>4. CASE button = <<"PO", "receive">>
    <3>1. order.status \in RECEIVABLE_STATUSES /\ May(tab.role, "po:receive")
      BY <1>1, <1>4, <2>4, PurchaseOffered
    <3>2. Guard(tab.role, button[1], button[2])
      BY <2>4, <3>1 DEF Guard, PurchaseOrderRoute
    <3>3. Allowed(button, q)
      BY <1>2, <1>3, <2>4, <3>1 DEF Allowed, Forms
    <3>4. QED
      BY <3>2, <3>3 DEF Accepts, q
  <2>5. QED
    BY <1>4, <2>1, <2>2, <2>3, <2>4, PurchaseOffered
<1>5. CASE order.table = "SO" /\ button \in SalesOrderOffers(tab.role, Now)
  <2>0. SalesTold(order)
    BY <1>1, <1>5 DEF Stored, Told
  <2>1. CASE button = <<"SO", "confirm">>
    <3>1. order.status = "DRAFT" /\ May(tab.role, "sales-order:confirm")
      BY <1>1, <1>5, <2>1, SalesOffered
    <3>2. Guard(tab.role, button[1], button[2])
      BY <2>1, <3>1 DEF Guard, SalesOrderRoute
    <3>3. Allowed(button, q)
      BY <2>1, <3>1 DEF Allowed, Target, SalesTransitions
    <3>4. QED
      BY <3>2, <3>3 DEF Accepts, q
  <2>2. CASE button = <<"SO", "allocate">>
    <3>1. order.status = "CONFIRMED" /\ May(tab.role, "sales-order:allocate")
      BY <1>1, <1>5, <2>2, SalesOffered
    <3>2. Guard(tab.role, button[1], button[2])
      BY <2>2, <3>1 DEF Guard, SalesOrderRoute
    <3>3. order.open <= available
      BY <1>1, <2>2 DEF LacksStock
    <3>4. Allowed(button, q)
      BY <2>2, <3>1, <3>3 DEF Allowed, SalesTransitions
    <3>5. QED
      BY <3>2, <3>4 DEF Accepts, q
  <2>3. CASE button = <<"SO", "fulfill">>
    <3>1. order.status \in FULFILLABLE_STATUSES /\ May(tab.role, "sales-order:fulfill")
      BY <1>1, <1>5, <2>3, SalesOffered
    <3>2. Guard(tab.role, button[1], button[2])
      BY <2>3, <3>1 DEF Guard, SalesOrderRoute
    <3>3. Allowed(button, q)
      BY <1>2, <1>3, <2>3, <3>1 DEF Allowed, Forms
    <3>4. QED
      BY <3>2, <3>3 DEF Accepts, q
  <2>4. CASE button = <<"SHP", "create">>
    <3>1. /\ order.status \in FULFILLABLE_STATUSES \cup {"FULFILLED"} /\ shipment = "NONE"
          /\ May(tab.role, "shipment:create")
      BY <1>1, <1>5, <2>4, SalesOffered
    <3>2. Guard(tab.role, button[1], button[2])
      BY <2>4, <3>1 DEF Guard, ShipmentRoute
    <3>3. Allowed(button, q)
      BY <1>5, <2>4, <3>1 DEF Allowed
    <3>4. QED
      BY <3>2, <3>3 DEF Accepts, q
  <2>5. CASE button = <<"SO", "cancel">>
    <3>1. order.status \notin {"FULFILLED", "CANCELLED"} /\ May(tab.role, "sales-order:cancel")
      BY <1>1, <1>5, <2>5, SalesOffered
    <3>2. Guard(tab.role, button[1], button[2])
      BY <2>5, <3>1 DEF Guard, SalesOrderRoute
    <3>3. Allowed(button, q)
      BY <2>0, <2>5, <3>1 DEF Allowed, Target, SalesTransitions, SalesTold, SalesStatuses
    <3>4. QED
      BY <3>2, <3>3 DEF Accepts, q
  <2>6. QED
    BY <1>5, <2>1, <2>2, <2>3, <2>4, <2>5, SalesOffered
<1>6. CASE tab.page = "shipment" /\ button \in ShipmentOffers(tab.role, Now)
  <2>1. CASE button \in CarriageButtons
    <3>1. /\ May(tab.role, "shipment:update")
          /\ <<shipment, Target(button, q)>> \in ShipmentTransitions
      <4>1. CASE /\ shipment \in DOMAIN NEXT_ACTION
                 /\ button = <<"SHP", NEXT_ACTION[shipment]>>
                 /\ May(tab.role, "shipment:update")
        BY <4>1 DEF NEXT_ACTION, Target, ShipmentTransitions
      <4>2. CASE /\ button = <<"SHP", "cancel">> /\ shipment \in CANCELLABLE
                 /\ May(tab.role, "shipment:update")
        BY <4>2 DEF CANCELLABLE, Target, ShipmentTransitions
      <4>3. QED
        BY <1>1, <1>6, <2>1, <4>1, <4>2, CarriageOffered DEF CarriageButtons
    <3>2. Guard(tab.role, button[1], button[2])
      BY <2>1, <3>1 DEF Guard, ShipmentRoute, CarriageButtons
    <3>3. Allowed(button, q)
      BY <2>1, <3>1 DEF Allowed, CarriageButtons
    <3>4. QED
      BY <3>2, <3>3 DEF Accepts, q
  <2>2. CASE button = <<"SHP", "events">>
    <3>1. May(tab.role, "shipment:tracking:create")
      BY <1>6, <2>2, CarriageOffered DEF NEXT_ACTION
    <3>2. QED
      BY <1>1, <1>6, <2>2, <3>1 DEF Accepts, Guard, ShipmentRoute, Allowed, q
  <2>3. CASE button = <<"SHP", "eta">>
    <3>1. May(tab.role, "shipment:eta:update")
      BY <1>6, <2>3, CarriageOffered DEF NEXT_ACTION
    <3>2. QED
      BY <1>1, <1>6, <2>3, <3>1 DEF Accepts, Guard, ShipmentRoute, Allowed, q
  <2>4. QED
    BY <1>1, <1>6, <2>1, <2>2, <2>3, CarriageOffered DEF NEXT_ACTION, CarriageButtons
<1>7. QED
  BY <1>1, <1>4, <1>5, <1>6, Offered

\* OffersAreHonoured, whatever the order is for: a page that shows the order
\* and its shipment as they are offers its user what the services and the
\* permission guard accept.
THEOREM Honoured == Spec => []OffersAreHonoured
<1>1. QED
  BY StatusTells, OffersFollow, PTL

LEMMA AdminMay ==
    ASSUME NEW permission \in ALL_PERMISSIONS
    PROVE  May("Admin", permission)
BY DEF May, Permissions

\* A button that takes the order further, for the administrator at least.
LEMMA Further ==
    ASSUME NEW button \in Offers("Admin", "order", Now),
           button[2] # "cancel", button = <<"SHP", "create">> => order.table = "PO",
           Accepts("Admin", button, Submitted(button, order.open, Now))
    PROVE  HandedOver
BY DEF HandedOver, Roles

LEMMA HandingFollows == PInv => HandedOver
<1> SUFFICES ASSUME PInv, ~ Finished, ~ created,
                    ~ (LacksStock(<<"SO", "allocate">>) /\ order.status = "CONFIRMED")
             PROVE  HandedOver
  BY DEF HandedOver
<1>1. /\ Stored
      /\ Now.order = order /\ Now.shipment = shipment
      /\ order.open \in Nat /\ order.reserved \in Nat /\ available \in Int
      /\ order.status \notin {"RECEIVED", "FULFILLED", "CANCELLED"}
  BY NowInScope DEF PInv, Stored, Finished
<1>2. CASE order.table = "PO" /\ PurchaseTold(order, shipment, created)
  <2>0. Offers("Admin", "order", Now) = PurchaseOrderOffers("Admin", Now)
    BY <1>1, <1>2 DEF Offers
  <2>1. CASE order.status = "DRAFT"
    <3> DEFINE button == <<"PO", "approve">>
    <3>1. May("Admin", "po:approve")
      BY AdminMay DEF ALL_PERMISSIONS
    <3>2. button \in Offers("Admin", "order", Now)
      BY <1>1, <2>0, <2>1, <3>1 DEF PurchaseOrderOffers, If
    <3>3. Guard("Admin", button[1], button[2])
      BY <3>1 DEF Guard, PurchaseOrderRoute
    <3>4. Allowed(button, Submitted(button, order.open, Now))
      BY <2>1 DEF Allowed, Target, PurchaseTransitions
    <3>5. QED
      BY <3>2, <3>3, <3>4, Further DEF Accepts
  <2>2. CASE order.status = "APPROVED"
    <3> DEFINE button == <<"SHP", "create">>
    <3>1. shipment = "NONE"
      BY <1>2, <2>2 DEF PurchaseTold
    <3>2. May("Admin", "po:create") /\ May("Admin", "shipment:create")
      BY AdminMay DEF ALL_PERMISSIONS
    <3>3. button \in Offers("Admin", "order", Now)
      BY <1>1, <2>0, <2>2, <3>1, <3>2 DEF PurchaseOrderOffers, If
    <3>4. Guard("Admin", button[1], button[2])
      BY <3>2 DEF Guard, ShipmentRoute
    <3>5. Allowed(button, Submitted(button, order.open, Now))
      BY <1>2, <2>2, <3>1 DEF Allowed
    <3>6. QED
      BY <1>2, <3>3, <3>4, <3>5, Further DEF Accepts
  <2>3. CASE order.status \in RECEIVABLE_STATUSES
    <3> DEFINE button == <<"PO", "receive">>
    <3>1. order.open > 0
      BY <1>2, <2>3 DEF PurchaseTold, RECEIVABLE_STATUSES
    <3>2. May("Admin", "po:receive")
      BY AdminMay DEF ALL_PERMISSIONS
    <3>3. button \in Offers("Admin", "order", Now)
      BY <1>1, <2>0, <2>3, <3>2 DEF PurchaseOrderOffers, If
    <3>4. Guard("Admin", button[1], button[2])
      BY <3>2 DEF Guard, PurchaseOrderRoute
    <3>5. Submitted(button, order.open, Now) = order.open
      BY <1>1 DEF Submitted, Receipt
    <3>6. Allowed(button, order.open)
      BY <1>1, <2>3, <3>1 DEF Allowed
    <3>7. QED
      BY <3>3, <3>4, <3>5, <3>6, Further DEF Accepts
  <2>4. QED
    BY <1>1, <1>2, <2>1, <2>2, <2>3 DEF PurchaseTold, PurchaseStatuses, RECEIVABLE_STATUSES
<1>3. CASE order.table = "SO" /\ SalesTold(order)
  <2>0. Offers("Admin", "order", Now) = SalesOrderOffers("Admin", Now)
    BY <1>1, <1>3 DEF Offers
  <2>1. CASE order.status = "DRAFT"
    <3> DEFINE button == <<"SO", "confirm">>
    <3>1. May("Admin", "sales-order:confirm")
      BY AdminMay DEF ALL_PERMISSIONS
    <3>2. button \in Offers("Admin", "order", Now)
      BY <1>1, <2>0, <2>1, <3>1 DEF SalesOrderOffers, If
    <3>3. Guard("Admin", button[1], button[2])
      BY <3>1 DEF Guard, SalesOrderRoute
    <3>4. Allowed(button, Submitted(button, order.open, Now))
      BY <2>1 DEF Allowed, Target, SalesTransitions
    <3>5. QED
      BY <3>2, <3>3, <3>4, Further DEF Accepts
  <2>2. CASE order.status = "CONFIRMED"
    <3> DEFINE button == <<"SO", "allocate">>
    <3>1. May("Admin", "sales-order:allocate")
      BY AdminMay DEF ALL_PERMISSIONS
    <3>2. button \in Offers("Admin", "order", Now)
      BY <1>1, <2>0, <2>2, <3>1 DEF SalesOrderOffers, If
    <3>3. Guard("Admin", button[1], button[2])
      BY <3>1 DEF Guard, SalesOrderRoute
    <3>4. order.open <= available
      BY <1>1, <2>2 DEF LacksStock
    <3>5. Allowed(button, Submitted(button, order.open, Now))
      BY <2>2, <3>4 DEF Allowed, SalesTransitions
    <3>6. QED
      BY <3>2, <3>3, <3>5, Further DEF Accepts
  <2>3. CASE order.status \in FULFILLABLE_STATUSES
    <3> DEFINE button == <<"SO", "fulfill">>
    <3>1. order.open > 0 /\ order.reserved = order.open
      BY <1>3, <2>3 DEF SalesTold, FULFILLABLE_STATUSES, OPEN_SO_STATUSES
    <3>2. May("Admin", "sales-order:fulfill")
      BY AdminMay DEF ALL_PERMISSIONS
    <3>3. button \in Offers("Admin", "order", Now)
      BY <1>1, <2>0, <2>3, <3>1, <3>2 DEF SalesOrderOffers, If
    <3>4. Guard("Admin", button[1], button[2])
      BY <3>2 DEF Guard, SalesOrderRoute
    <3>5. Submitted(button, order.open, Now) = order.open
      BY <1>1, <3>1 DEF Submitted, Fulfilment
    <3>6. Allowed(button, order.open)
      BY <1>1, <2>3, <3>1 DEF Allowed
    <3>7. QED
      BY <3>3, <3>4, <3>5, <3>6, Further DEF Accepts
  <2>4. QED
    BY <1>1, <1>3, <2>1, <2>2, <2>3 DEF SalesTold, SalesStatuses, FULFILLABLE_STATUSES
<1>4. QED
  BY <1>1, <1>2, <1>3 DEF Stored, Told

\* HandedOver, whatever the order is for: until it is finished there is a
\* role whose page offers the next step, with a quantity that fits, and the
\* API takes it; or an event is on its way, or stock is what is missing.
THEOREM NeverStuck == Spec => []HandedOver
<1>1. QED
  BY StatusTells, HandingFollows, PTL
=============================================================================
