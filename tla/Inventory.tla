----------------------------- MODULE Inventory -----------------------------
(***************************************************************************)
(* InventoryService: the stock rows, the reservations and the idempotent   *)
(* handlers of the two events that move stock.  The operations that run in *)
(* a caller's own transaction (reserve, release) are operators here; the   *)
(* caller, SalesOrders, uses them inside its actions.  The handlers, which *)
(* open a transaction of their own, are actions.                           *)
(*                                                                         *)
(* One warehouse and one tenant: rows of other tenants and warehouses are  *)
(* never touched.  Every product has its one warehouse-level stock row     *)
(* from the start (Procurement looks at how a missing row comes to be).    *)
(***************************************************************************)
EXTENDS FiniteSets, ReadCommitted, Callbacks

CONSTANTS
    Products,        \* product ids; numbers, for allocate() sorts by them
    Orders,          \* sales order ids
    Lines,           \* sales order line ids
    OrderOf,         \* line -> its order
    ProductOf,       \* line -> its product
    Ordered,         \* line -> qtyOrdered
    OnHand,          \* product -> units on hand at the start
    MaxEvents,       \* bound: sales-order.fulfilled events of a behaviour
    MaxDeliveries,   \* bound: deliveries of one event (1 = exactly as emitted)
    MaxReceived      \* bound: units of a product that goods receipts add

ASSUME ProductsAssumption == Products \subseteq Nat
ASSUME LinesAssumption ==
    /\ IsFiniteSet(Lines)
    /\ OrderOf \in [Lines -> Orders]
    /\ ProductOf \in [Lines -> Products]
    /\ Ordered \in [Lines -> Nat \ {0}]       \* @IsInt @IsPositive in the DTO
    /\ \A o \in Orders : \E l \in Lines : OrderOf[l] = o    \* @ArrayMinSize(1)
ASSUME StockAssumption == OnHand \in [Products -> Nat]
ASSUME NullsAssumption == NoTx \notin Txs /\ NoOrder \notin Orders
ASSUME BoundsAssumption ==
    MaxEvents \in Nat /\ MaxDeliveries \in Nat \ {0} /\ MaxReceived \in Nat

VARIABLES
    stock,      \* StockLevel: product -> row of [onHand, reserved]
    resv,       \* InventoryReservation, unique per salesOrderLineId
    claim,      \* ProcessedEvent: event -> row of BOOLEAN
    sent,       \* event -> lines of its payload, <<>> before it is emitted
    bus,        \* event -> deliveries of it still to come, kept in memory
    received    \* product -> units goods receipts have added so far

inventoryVars == <<stock, resv, claim>>
busVars == <<sent, bus>>

Events == 1 .. MaxEvents
LinesOf(o) == {l \in Lines : OrderOf[l] = o}

\* Units of one line, to reserve, to release, to fulfil or to post.
Items == [line : Lines, qty : Int]

-----------------------------------------------------------------------------
(* What is stored.                                                         *)

StockLevels == [onHand : Int, reserved : Int]

NoResv == [qty |-> 0, fulfilled |-> 0, status |-> "NONE"]
Reservations ==
    [qty : Int, fulfilled : Int,
     status : {"NONE", "ACTIVE", "FULFILLED", "CANCELLED"}]

-----------------------------------------------------------------------------
(* Transactions.                                                           *)

Ops == {"idle", "confirm", "allocate", "cancel", "fulfill", "post"}

CommitInventory(t) ==
    /\ stock' = CommitAll(stock, t)
    /\ resv' = CommitAll(resv, t)
    /\ claim' = CommitAll(claim, t)

RollbackInventory(t) ==
    /\ stock' = RollbackAll(stock, t)
    /\ resv' = RollbackAll(resv, t)
    /\ claim' = RollbackAll(claim, t)

-----------------------------------------------------------------------------
(* reserveForSalesOrder.  The FOR UPDATE lock makes the check and the      *)
(* increment one step.  The insert needs no step of its own: whoever       *)
(* inserts a line's reservation holds its product's stock row already.     *)

\* Mutant: availability is taken to be what is on hand.
CanReserveOnHand(t, i) == Sees(stock[ProductOf[i.line]], t).onHand >= i.qty

CanReserve(t, i) ==
    LET level == Sees(stock[ProductOf[i.line]], t)
    IN  level.onHand - level.reserved >= i.qty

\* salesOrderLineId is unique, whatever the status of the row that has it.
AlreadyReserved(t, i) == Sees(resv[i.line], t) # NoResv

ReserveRowsFree(t, i) ==
    Free(stock[ProductOf[i.line]], t) /\ Free(resv[i.line], t)

Reserve(t, i) ==
    LET p == ProductOf[i.line]
        level == Sees(stock[p], t)
    IN  /\ stock' = [stock EXCEPT ![p] =
                        Put(@, t, [level EXCEPT !.reserved = @ + i.qty])]
        /\ resv' = [resv EXCEPT ![i.line] =
                        Put(@, t, [qty |-> i.qty, fulfilled |-> 0,
                                   status |-> "ACTIVE"])]

-----------------------------------------------------------------------------
(* releaseReservationsForSalesOrder.  What it releases is computed from    *)
(* the reservations as findMany returned them, and the rows are written    *)
(* later, one after the other.                                             *)

Active(t, l) == Sees(resv[l], t).status = "ACTIVE"

\* Mutant: what was fulfilled already is not subtracted.
RemainingAll(t, l) == Sees(resv[l], t).qty

Remaining(t, l) == Sees(resv[l], t).qty - Sees(resv[l], t).fulfilled

\* The orders in which findMany may return the members of S.
Arrangements(S) ==
    {s \in [1 .. Cardinality(S) -> S] :
        \A i, j \in DOMAIN s : s[i] = s[j] => i = j}

ActiveReservations(t, o) ==
    {[k \in DOMAIN s |-> [line |-> s[k], qty |-> Remaining(t, s[k])]] :
        s \in Arrangements({l \in LinesOf(o) : Active(t, l)})}

ReleaseRowsFree(t, i) ==
    /\ i.qty > 0 => Free(stock[ProductOf[i.line]], t)
    /\ Free(resv[i.line], t)

Release(t, i) ==
    LET p == ProductOf[i.line]
        level == Sees(stock[p], t)
        r == Sees(resv[i.line], t)
    IN  /\ stock' = IF i.qty > 0
                    THEN [stock EXCEPT ![p] =
                            Put(@, t, [level EXCEPT !.reserved = @ - i.qty])]
                    ELSE stock
        /\ resv' = [resv EXCEPT ![i.line] =
                        Put(@, t, [r EXCEPT !.status = "CANCELLED"])]

-----------------------------------------------------------------------------
(* handleSalesOrderFulfilled: one transaction per delivery.                *)

\* Mutant: the claim does not look whether the event was claimed before.
ClaimAgain(t, e) ==
    /\ tx[t] = Idle
    /\ bus[e] > 0
    /\ Free(claim[e], t)
    /\ bus' = [bus EXCEPT ![e] = @ - 1]
    /\ claim' = [claim EXCEPT ![e] = Put(@, t, TRUE)]
    /\ tx' = [tx EXCEPT ![t] = Begun("post", "work", NoOrder, e, sent[e])]
    /\ UNCHANGED <<stock, resv, sent, received>>

\* Mutant: the claim is committed on its own, before the stock is moved.
ClaimApart(t, e) ==
    /\ tx[t] = Idle
    /\ bus[e] > 0
    /\ bus' = [bus EXCEPT ![e] = @ - 1]
    /\ IF claim[e].com
       THEN UNCHANGED <<claim, tx>>
       ELSE /\ claim' = [claim EXCEPT ![e] = Row(TRUE)]
            /\ tx' = [tx EXCEPT ![t] = Begun("post", "work", NoOrder, e, sent[e])]
    /\ UNCHANGED <<stock, resv, sent, received>>

\* Mutant: the order, not the event, is what can be claimed only once.
ClaimPerOrder(t, e) ==
    LET Same(d) == sent[d] # <<>> /\ OrderOf[sent[d][1].line] = OrderOf[sent[e][1].line]
    IN  /\ tx[t] = Idle
        /\ bus[e] > 0
        /\ \A d \in Events : Same(d) => Free(claim[d], t)
        /\ bus' = [bus EXCEPT ![e] = @ - 1]
        /\ IF \E d \in Events : Same(d) /\ claim[d].com
           THEN UNCHANGED <<claim, tx>>
           ELSE /\ claim' = [claim EXCEPT ![e] = Put(@, t, TRUE)]
                /\ tx' = [tx EXCEPT ![t] = Begun("post", "work", NoOrder, e, sent[e])]
        /\ UNCHANGED <<stock, resv, sent, received>>

\* A delivery opens a transaction and claims the event.  Losing the unique
\* constraint ends it with nothing changed.
Claim(t, e) ==
    /\ tx[t] = Idle
    /\ bus[e] > 0
    /\ Free(claim[e], t)
    /\ bus' = [bus EXCEPT ![e] = @ - 1]
    /\ IF Sees(claim[e], t)
       THEN UNCHANGED <<claim, tx>>
       ELSE /\ claim' = [claim EXCEPT ![e] = Put(@, t, TRUE)]
            /\ tx' = [tx EXCEPT ![t] = Begun("post", "work", NoOrder, e, sent[e])]
    /\ UNCHANGED <<stock, resv, sent, received>>

PostRowsFree(t, i) ==
    Free(stock[ProductOf[i.line]], t) /\ Free(resv[i.line], t)

\* postMovement: both quantities of the stock row move by the same amount.
Shipped(level, q) == [onHand |-> level.onHand - q, reserved |-> level.reserved - q]

\* The reservation after q more units; a full one becomes FULFILLED, whatever
\* its status was.
Consumed(r, q) ==
    [qty |-> r.qty, fulfilled |-> r.fulfilled + q,
     status |-> IF r.fulfilled + q >= r.qty THEN "FULFILLED" ELSE r.status]

PostLine(t) ==
    LET i == Item(t)
        p == ProductOf[i.line]
    IN  /\ At(t, "post", "work")
        /\ PostRowsFree(t, i)
        /\ stock' = [stock EXCEPT ![p] = Put(@, t, Shipped(Sees(@, t), i.qty))]
        /\ resv' = [resv EXCEPT ![i.line] = Put(@, t, Consumed(Sees(@, t), i.qty))]
        /\ tx' = [tx EXCEPT ![t] = Advanced(t, "commit")]
        /\ UNCHANGED <<claim, sent, bus, received>>

PostCommit(t) ==
    /\ At(t, "post", "commit")
    /\ CommitInventory(t)
    /\ Closed(t)
    /\ UNCHANGED <<sent, bus, received>>

(* handlePoReceived for a one-line receipt of a single unit, its event     *)
(* delivered once: the transaction touches one stock row, so it is a step. *)
Receive(p) ==
    /\ stock[p].by = NoTx
    /\ received[p] < MaxReceived
    /\ stock' = [stock EXCEPT ![p] =
                    Row([onHand |-> @.com.onHand + 1, reserved |-> @.com.reserved])]
    /\ received' = [received EXCEPT ![p] = @ + 1]
    /\ UNCHANGED <<resv, claim, sent, bus, tx>>

-----------------------------------------------------------------------------
InventoryInit ==
    /\ stock = [p \in Products |-> Row([onHand |-> OnHand[p], reserved |-> 0])]
    /\ resv = [l \in Lines |-> Row(NoResv)]
    /\ claim = [e \in Events |-> Row(FALSE)]
    /\ sent = [e \in Events |-> <<>>]
    /\ bus = [e \in Events |-> 0]
    /\ received = [p \in Products |-> 0]
    /\ tx = [t \in Txs |-> Idle]

InventoryTypeOK ==
    /\ stock \in [Products -> RowOf(StockLevels, Txs)]
    /\ resv \in [Lines -> RowOf(Reservations, Txs)]
    /\ claim \in [Events -> RowOf(BOOLEAN, Txs)]
    /\ sent \in [Events -> Seq(Items)]
    /\ bus \in [Events -> Nat]
    /\ received \in [Products -> Nat]
=============================================================================
