----------------------------- MODULE Lifecycles -----------------------------
(***************************************************************************)
(* The lifecycles of the three documents, as the pairs of a status and one *)
(* it may move to, and the sets of statuses the services share.            *)
(***************************************************************************)
EXTENDS Integers

Never == -1     \* a timestamp or a date that is not set

SalesTransitions ==
    {<<"DRAFT", "CONFIRMED">>, <<"DRAFT", "CANCELLED">>,
     <<"CONFIRMED", "ALLOCATED">>, <<"CONFIRMED", "CANCELLED">>,
     <<"ALLOCATED", "PARTIALLY_FULFILLED">>, <<"ALLOCATED", "FULFILLED">>,
     <<"ALLOCATED", "CANCELLED">>, <<"PARTIALLY_FULFILLED", "FULFILLED">>,
     <<"PARTIALLY_FULFILLED", "CANCELLED">>}

PurchaseTransitions ==
    {<<"DRAFT", "APPROVED">>, <<"DRAFT", "CANCELLED">>,
     <<"APPROVED", "SHIPPED">>, <<"APPROVED", "CANCELLED">>,
     <<"SHIPPED", "PARTIALLY_RECEIVED">>, <<"SHIPPED", "RECEIVED">>,
     <<"SHIPPED", "CANCELLED">>, <<"PARTIALLY_RECEIVED", "RECEIVED">>,
     <<"PARTIALLY_RECEIVED", "CANCELLED">>}

ShipmentTransitions ==
    {<<"CREATED", "BOOKED">>, <<"CREATED", "CANCELLED">>,
     <<"BOOKED", "IN_TRANSIT">>, <<"BOOKED", "CANCELLED">>,
     <<"IN_TRANSIT", "ARRIVED">>, <<"IN_TRANSIT", "CANCELLED">>,
     <<"ARRIVED", "DELIVERED">>}

FULFILLABLE_STATUSES == {"ALLOCATED", "PARTIALLY_FULFILLED"}
OPEN_SO_STATUSES == {"DRAFT", "CONFIRMED", "ALLOCATED", "PARTIALLY_FULFILLED"}
OPEN_DEMAND_SO_STATUSES == OPEN_SO_STATUSES \ {"DRAFT"}

RECEIVABLE_STATUSES == {"SHIPPED", "PARTIALLY_RECEIVED"}
OPEN_PO_STATUSES == {"DRAFT", "APPROVED", "SHIPPED", "PARTIALLY_RECEIVED"}
INCOMING_PO_STATUSES == OPEN_PO_STATUSES \ {"DRAFT"}

\* ACTIVE_STATUSES of the shipments service.
ACTIVE_STATUSES == {"CREATED", "BOOKED", "IN_TRANSIT", "ARRIVED"}
=============================================================================
