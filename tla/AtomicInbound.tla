---------------------------- MODULE AtomicInbound ----------------------------
(***************************************************************************)
(* What the inbound flow promises to a user who thinks of every request as *)
(* one indivisible step: an order is approved, shipped once, received in   *)
(* parts but never beyond what was ordered, and each receipt is put on the *)
(* shelves at most once, some time after it was recorded.                  *)
(***************************************************************************)
EXTENDS Integers, Sequences, Functions

CONSTANTS Products, Orders, Lines, OrderOf, ProductOf, Ordered, Requests,
          Events, Transitions

VARIABLES
    order,      \* order -> status, "NONE" before it exists
    got,        \* line -> units received
    onHand,     \* product -> units on the shelves
    shipments,  \* orders that have a shipment
    noticed,    \* orders whose shipment procurement has heard of
    announced,  \* event -> what was received, <<>> before it happens
    posted      \* events put on the shelves

state == <<order, got, onHand, shipments, noticed, announced, posted>>

LinesOf(o) == {l \in Lines : OrderOf[l] = o}
SumOver(S, f(_)) == SumFunctionOnSet([x \in S |-> f(x)], S)

\* Units of line l in a sequence of items.
Units(items, l) ==
    SumOver({k \in DOMAIN items : items[k].line = l}, LAMBDA k : items[k].qty)

Moves(o, s) == <<order[o], s>> \in Transitions /\ order' = [order EXCEPT ![o] = s]

-----------------------------------------------------------------------------
Create(o) ==
    /\ order[o] = "NONE"
    /\ order' = [order EXCEPT ![o] = "DRAFT"]
    /\ UNCHANGED <<got, onHand, shipments, noticed, announced, posted>>

Approve(o) ==
    /\ Moves(o, "APPROVED")
    /\ UNCHANGED <<got, onHand, shipments, noticed, announced, posted>>

Cancel(o) ==
    /\ Moves(o, "CANCELLED")
    /\ UNCHANGED <<got, onHand, shipments, noticed, announced, posted>>

Ship(o) ==
    /\ order[o] = "APPROVED" /\ o \notin shipments
    /\ shipments' = shipments \cup {o}
    /\ UNCHANGED <<order, got, onHand, noticed, announced, posted>>

Notice(o) ==
    /\ o \in shipments \ noticed
    /\ noticed' = noticed \cup {o}
    /\ order' = IF order[o] = "APPROVED" THEN [order EXCEPT ![o] = "SHIPPED"] ELSE order
    /\ UNCHANGED <<got, onHand, shipments, announced, posted>>

Receive(o, items, e) ==
    /\ order[o] \in {"SHIPPED", "PARTIALLY_RECEIVED"}
    /\ announced[e] = <<>>
    /\ \A k \in DOMAIN items : OrderOf[items[k].line] = o
    /\ got' = [l \in Lines |-> got[l] + Units(items, l)]
    /\ \A l \in LinesOf(o) : got'[l] <= Ordered[l]
    /\ order' = [order EXCEPT ![o] =
                   IF \A l \in LinesOf(o) : got'[l] >= Ordered[l]
                   THEN "RECEIVED" ELSE "PARTIALLY_RECEIVED"]
    /\ announced' = [announced EXCEPT ![e] = items]
    /\ UNCHANGED <<onHand, shipments, noticed, posted>>

Post(e) ==
    /\ announced[e] # <<>> /\ e \notin posted
    /\ posted' = posted \cup {e}
    /\ onHand' = [p \in Products |->
                    onHand[p] + SumOver({l \in Lines : ProductOf[l] = p},
                                        LAMBDA l : Units(announced[e], l))]
    /\ UNCHANGED <<order, got, shipments, noticed, announced>>

-----------------------------------------------------------------------------
Init ==
    /\ order = [o \in Orders |-> "NONE"]
    /\ got = [l \in Lines |-> 0]
    /\ onHand = [p \in Products |-> 0]
    /\ shipments = {}
    /\ noticed = {}
    /\ announced = [e \in Events |-> <<>>]
    /\ posted = {}

Next ==
    \/ \E o \in Orders : Create(o) \/ Approve(o) \/ Cancel(o) \/ Ship(o) \/ Notice(o)
    \/ \E o \in Orders, r \in Requests, e \in Events : Receive(o, r, e)
    \/ \E e \in Events : Post(e)

Spec == Init /\ [][Next]_state
=============================================================================
