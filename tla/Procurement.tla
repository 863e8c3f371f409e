---------------------------- MODULE Procurement ----------------------------
(***************************************************************************)
(* PurchaseOrdersService with the two services it talks to by events: the  *)
(* creation of an inbound shipment, whose shipment.created moves the order *)
(* to SHIPPED, and InventoryService's handler of po.received, which puts   *)
(* received goods on the shelves and may have to create the stock row.     *)
(*                                                                         *)
(* As in SalesOrders, no callback locks the order it reads, and the order  *)
(* row is written right before the commit: `status' is a plain variable.   *)
(***************************************************************************)
EXTENDS FiniteSets, ReadCommitted, Callbacks, Lifecycles

CONSTANTS
    Products,        \* product ids
    Orders,          \* purchase order ids
    Lines,           \* purchase order line ids
    OrderOf,         \* line -> its order
    ProductOf,       \* line -> its product
    Ordered,         \* line -> qtyOrdered
    Requests,        \* receive requests: non-empty sequences of Items
    MaxEvents,       \* bound: po.received events of a behaviour
    MaxDeliveries    \* bound: deliveries of one event (1 = exactly as emitted)

Items == [line : Lines, qty : Nat \ {0}]

ASSUME LinesAssumption ==
    /\ IsFiniteSet(Lines)
    /\ OrderOf \in [Lines -> Orders]
    /\ ProductOf \in [Lines -> Products]
    /\ Ordered \in [Lines -> Nat \ {0}]
    /\ \A o \in Orders : \E l \in Lines : OrderOf[l] = o
ASSUME RequestsAssumption == Requests \subseteq {r \in Seq(Items) : r # <<>>}
\* The client keeps a pool of a fixed number of connections.
ASSUME TxsAssumption == IsFiniteSet(Txs)
ASSUME NullsAssumption == NoTx \notin Txs /\ NoOrder \notin Orders
ASSUME BoundsAssumption == MaxEvents \in Nat /\ MaxDeliveries \in Nat \ {0}

VARIABLES
    status,     \* PurchaseOrder.status
    line,       \* PurchaseOrderLine.qtyReceived: line -> row
    shipped,    \* orders that have a Shipment (purchaseOrderId is unique)
    told,       \* order -> deliveries of its shipment.created still to come
    heard,      \* ProcessedEvent of it: order -> row of BOOLEAN
    sent,       \* po.received: event -> lines of its payload, <<>> before it
    bus,        \* event -> deliveries of it still to come
    claim,      \* ProcessedEvent of it: event -> row of BOOLEAN
    stock,      \* StockLevel: the row of a product a transaction inserted
    found       \* the stock row a handler's findFirst returned, if any

tables == <<line, heard, claim, stock>>
busVars == <<told, sent, bus>>
vars == <<status, shipped, tables, busVars, found, tx>>

Events == 1 .. MaxEvents
LinesOf(o) == {l \in Lines : OrderOf[l] = o}

\* A product has no stock row at first, and the unique index on it allows any
\* number of them, for locationId is NULL in all.  A transaction inserts a
\* row only if it sees none: <<p, t>> is the one it may insert for product p.
Rows == Products \X Txs
NoLevel == [there |-> FALSE, onHand |-> 0]
Levels == [there : BOOLEAN, onHand : Nat]

Statuses == {"DRAFT", "APPROVED", "SHIPPED", "PARTIALLY_RECEIVED", "RECEIVED",
             "CANCELLED"}

Transitions == PurchaseTransitions

\* Mutant: goods may come in before the shipment is known.
ReceivableEarly == RECEIVABLE_STATUSES \cup {"APPROVED"}

ReceivableStatuses == RECEIVABLE_STATUSES

Ops == {"idle", "approve", "cancel", "ship", "shipped", "receive", "post"}

Commit(t) ==
    /\ line' = CommitAll(line, t)
    /\ heard' = CommitAll(heard, t)
    /\ claim' = CommitAll(claim, t)
    /\ stock' = CommitAll(stock, t)
    /\ found' = [found EXCEPT ![t] = {}]
    /\ Closed(t)

Rollback(t) ==
    /\ line' = RollbackAll(line, t)
    /\ heard' = RollbackAll(heard, t)
    /\ claim' = RollbackAll(claim, t)
    /\ stock' = RollbackAll(stock, t)
    /\ found' = [found EXCEPT ![t] = {}]
    /\ Closed(t)
    /\ UNCHANGED <<status, shipped, busVars>>

SetsStatus(t, s) == status' = [status EXCEPT ![tx[t].order] = s]

-----------------------------------------------------------------------------
(* create, approve, cancel: an order that does not exist is "NONE".        *)

Create(o) ==
    /\ status[o] = "NONE"
    /\ status' = [status EXCEPT ![o] = "DRAFT"]
    /\ UNCHANGED <<shipped, tables, busVars, found, tx>>

\* The order is read, and is in a state from which it may move to `to'.
Begins(t, o, op, to) ==
    /\ tx[t] = Idle
    /\ <<status[o], to>> \in Transitions
    /\ tx' = [tx EXCEPT ![t] = Begun(op, "commit", o, 0, <<>>)]
    /\ UNCHANGED <<status, shipped, tables, busVars, found>>

ApproveRead(t, o) == Begins(t, o, "approve", "APPROVED")

ApproveCommit(t) ==
    /\ At(t, "approve", "commit")
    /\ SetsStatus(t, "APPROVED")
    /\ Commit(t)
    /\ UNCHANGED <<shipped, busVars>>

CancelRead(t, o) == Begins(t, o, "cancel", "CANCELLED")

CancelCommit(t) ==
    /\ At(t, "cancel", "commit")
    /\ SetsStatus(t, "CANCELLED")
    /\ Commit(t)
    /\ UNCHANGED <<shipped, busVars>>

-----------------------------------------------------------------------------
(* ShipmentsService.create for an inbound shipment, as far as the order    *)
(* can tell, and the handler of the event it emits once it has committed.  *)

ShipRead(t, o) ==
    /\ tx[t] = Idle
    /\ status[o] = "APPROVED"
    /\ tx' = [tx EXCEPT ![t] = Begun("ship", "commit", o, 0, <<>>)]
    /\ UNCHANGED <<status, shipped, tables, busVars, found>>

ShipCommit(t) ==
    /\ At(t, "ship", "commit")
    /\ tx[t].order \notin shipped
    /\ shipped' = shipped \cup {tx[t].order}
    /\ told' = [told EXCEPT ![tx[t].order] = MaxDeliveries]
    /\ Commit(t)
    /\ UNCHANGED <<status, sent, bus>>

\* The order has a shipment already: the insert violates the unique index.
ShipReject(t) ==
    /\ At(t, "ship", "commit")
    /\ tx[t].order \in shipped
    /\ Rollback(t)

\* Mutant: the order is taken to be a draft still.
ShippedReadDraft(t, o) ==
    /\ tx[t] = Idle
    /\ told[o] > 0
    /\ Free(heard[o], t)
    /\ told' = [told EXCEPT ![o] = @ - 1]
    /\ IF Sees(heard[o], t)
       THEN UNCHANGED <<heard, tx>>
       ELSE LET at == IF status[o] = "DRAFT" THEN "write" ELSE "commit"
            IN  /\ heard' = [heard EXCEPT ![o] = Put(@, t, TRUE)]
                /\ tx' = [tx EXCEPT ![t] = Begun("shipped", at, o, 0, <<>>)]
    /\ UNCHANGED <<status, shipped, line, claim, stock, sent, bus, found>>

\* handleShipmentCreated claims the event and reads the order; one that is
\* not APPROVED any more is left alone.
ShippedRead(t, o) ==
    /\ tx[t] = Idle
    /\ told[o] > 0
    /\ Free(heard[o], t)
    /\ told' = [told EXCEPT ![o] = @ - 1]
    /\ IF Sees(heard[o], t)
       THEN UNCHANGED <<heard, tx>>
       ELSE LET at == IF status[o] = "APPROVED" THEN "write" ELSE "commit"
            IN  /\ heard' = [heard EXCEPT ![o] = Put(@, t, TRUE)]
                /\ tx' = [tx EXCEPT ![t] = Begun("shipped", at, o, 0, <<>>)]
    /\ UNCHANGED <<status, shipped, line, claim, stock, sent, bus, found>>

ShippedCommit(t) ==
    /\ tx[t].op = "shipped"
    /\ status' = IF tx[t].at = "write"
                 THEN [status EXCEPT ![tx[t].order] = "SHIPPED"] ELSE status
    /\ Commit(t)
    /\ UNCHANGED <<shipped, busVars>>

-----------------------------------------------------------------------------
(* receive.  Every requested line is checked against the lines as they     *)
(* were read, before any of them is written.                               *)

\* Mutant: a line may be received while anything of it is missing.
FitsPartly(o, i) == OrderOf[i.line] = o /\ line[i.line].com < Ordered[i.line]

Fits(o, i) ==
    /\ OrderOf[i.line] = o
    /\ line[i.line].com + i.qty <= Ordered[i.line]

ReceiveRead(t, o, request) ==
    /\ tx[t] = Idle
    /\ status[o] \in ReceivableStatuses
    /\ \A k \in DOMAIN request : Fits(o, request[k])
    /\ tx' = [tx EXCEPT ![t] = Begun("receive", "work", o, 0, request)]
    /\ UNCHANGED <<status, shipped, tables, busVars, found>>

ReceiveLine(t) ==
    LET i == Item(t)
    IN  /\ At(t, "receive", "work")
        /\ Free(line[i.line], t)
        /\ line' = [line EXCEPT ![i.line] = Put(@, t, Sees(@, t) + i.qty)]
        /\ tx' = [tx EXCEPT ![t] = Advanced(t, "decide")]
        /\ UNCHANGED <<status, shipped, heard, claim, stock, busVars, found>>

\* Mutant: the lines of this request are enough.
PartlyReceived(t, o) ==
    \A k \in DOMAIN tx[t].work :
        LET l == tx[t].work[k].line IN Sees(line[l], t) >= Ordered[l]

FullyReceived(t, o) == \A l \in LinesOf(o) : Sees(line[l], t) >= Ordered[l]

ReceiveDecide(t) ==
    /\ At(t, "receive", "decide")
    /\ tx' = [tx EXCEPT ![t].at = "commit",
                        ![t].to = IF FullyReceived(t, tx[t].order)
                                  THEN "RECEIVED" ELSE "PARTIALLY_RECEIVED"]
    /\ UNCHANGED <<status, shipped, tables, busVars, found>>

\* Mutant: only the first line gets into the payload.
EmitFirst(e, items) ==
    /\ sent[e] = <<>> /\ \A d \in Events : d < e => sent[d] # <<>>
    /\ sent' = [sent EXCEPT ![e] = <<items[1]>>]
    /\ bus' = [bus EXCEPT ![e] = MaxDeliveries]

\* emitAsync with a fresh eventId, once the transaction has committed.
Emit(e, items) ==
    /\ sent[e] = <<>> /\ \A d \in Events : d < e => sent[d] # <<>>
    /\ sent' = [sent EXCEPT ![e] = items]
    /\ bus' = [bus EXCEPT ![e] = MaxDeliveries]

ReceiveCommit(t) ==
    /\ At(t, "receive", "commit")
    /\ SetsStatus(t, tx[t].to)
    /\ Commit(t)
    /\ \E e \in Events : Emit(e, tx[t].work)
    /\ UNCHANGED <<shipped, told>>

-----------------------------------------------------------------------------
(* handlePoReceived: claim the event, then post its lines one by one.      *)

\* Mutant: the claim is committed on its own, before anything is posted.
ClaimApart(t, e) ==
    /\ tx[t] = Idle
    /\ bus[e] > 0
    /\ bus' = [bus EXCEPT ![e] = @ - 1]
    /\ IF claim[e].com
       THEN UNCHANGED <<claim, tx>>
       ELSE /\ claim' = [claim EXCEPT ![e] = Row(TRUE)]
            /\ tx' = [tx EXCEPT ![t] = Begun("post", "work", NoOrder, e, sent[e])]
    /\ UNCHANGED <<status, shipped, line, heard, stock, told, sent, found>>

\* Mutant: the order, not the event, is what can be claimed only once.
ClaimPerOrder(t, e) ==
    LET Same(d) == sent[d] # <<>> /\ OrderOf[sent[d][1].line] = OrderOf[sent[e][1].line]
    IN  /\ tx[t] = Idle
        /\ bus[e] > 0
        /\ \A d \in Events : Same(d) => Free(claim[d], t)
        /\ bus' = [bus EXCEPT ![e] = @ - 1]
        /\ IF \E d \in Events : Same(d) /\ claim[d].com
           THEN UNCHANGED <<claim, tx>>
           ELSE /\ claim' = [claim EXCEPT ![e] = Put(@, t, TRUE)]
                /\ tx' = [tx EXCEPT ![t] = Begun("post", "work", NoOrder, e, sent[e])]
        /\ UNCHANGED <<status, shipped, line, heard, stock, told, sent, found>>

Claim(t, e) ==
    /\ tx[t] = Idle
    /\ bus[e] > 0
    /\ Free(claim[e], t)
    /\ bus' = [bus EXCEPT ![e] = @ - 1]
    /\ IF Sees(claim[e], t)
       THEN UNCHANGED <<claim, tx>>
       ELSE /\ claim' = [claim EXCEPT ![e] = Put(@, t, TRUE)]
            /\ tx' = [tx EXCEPT ![t] = Begun("post", "work", NoOrder, e, sent[e])]
    /\ UNCHANGED <<status, shipped, line, heard, stock, told, sent, found>>

\* findFirst returns any stock row of the product that it sees.
PostFind(t) ==
    LET p == ProductOf[Item(t).line]
        visible == {r \in {p} \X Txs : Sees(stock[r], t).there}
    IN  /\ At(t, "post", "work")
        /\ \E f \in IF visible = {} THEN {{}} ELSE {{r} : r \in visible} :
            found' = [found EXCEPT ![t] = f]
        /\ tx' = [tx EXCEPT ![t].at = "write"]
        /\ UNCHANGED <<status, shipped, tables, busVars>>

Posted(t) ==
    /\ tx' = [tx EXCEPT ![t] = Advanced(t, "commit")]
    /\ UNCHANGED <<status, shipped, line, heard, claim, busVars, found>>

PostUpdate(t) ==
    /\ At(t, "post", "write")
    /\ \E r \in found[t] :
        /\ Free(stock[r], t)
        /\ stock' = [stock EXCEPT ![r] =
               Put(@, t, [there |-> TRUE, onHand |-> Sees(@, t).onHand + Item(t).qty])]
    /\ Posted(t)

PostInsert(t) ==
    /\ At(t, "post", "write")
    /\ found[t] = {}
    /\ stock' = [stock EXCEPT ![<<ProductOf[Item(t).line], t>>] =
                    Put(@, t, [there |-> TRUE, onHand |-> Item(t).qty])]
    /\ Posted(t)

PostCommit(t) ==
    /\ At(t, "post", "commit")
    /\ Commit(t)
    /\ UNCHANGED <<status, shipped, busVars>>

-----------------------------------------------------------------------------
(* Waiting, and what goes wrong.                                           *)

\* The transactions that hold a row the next statement of t needs.
Holders(t) ==
    CASE At(t, "receive", "work") -> {line[Item(t).line].by}
      [] At(t, "post", "write") -> {stock[r].by : r \in found[t]}
      [] OTHER -> {}

WaitsFor(t, u) == u \in Holders(t) \ {t}

DeadlockVictim(t) ==
    /\ \E S \in SUBSET Txs : t \in S /\ Deadlocked(S, WaitsFor)
    /\ Rollback(t)

\* A statement or the 30 s limit of the transaction fails.
Abort(t) ==
    /\ tx[t] # Idle
    /\ Rollback(t)

\* The API process stops: its connections drop and its bus is forgotten.
Crash ==
    /\ \/ \E t \in Txs : tx[t] # Idle
       \/ \E e \in Events : bus[e] > 0
       \/ \E o \in Orders : told[o] > 0
    /\ line' = Restarted(line)
    /\ heard' = Restarted(heard)
    /\ claim' = Restarted(claim)
    /\ stock' = Restarted(stock)
    /\ tx' = [t \in Txs |-> Idle]
    /\ found' = [t \in Txs |-> {}]
    /\ bus' = [e \in Events |-> 0]
    /\ told' = [o \in Orders |-> 0]
    /\ UNCHANGED <<status, shipped, sent>>

-----------------------------------------------------------------------------
Init ==
    /\ status = [o \in Orders |-> "NONE"]
    /\ line = [l \in Lines |-> Row(0)]
    /\ shipped = {}
    /\ told = [o \in Orders |-> 0]
    /\ heard = [o \in Orders |-> Row(FALSE)]
    /\ sent = [e \in Events |-> <<>>]
    /\ bus = [e \in Events |-> 0]
    /\ claim = [e \in Events |-> Row(FALSE)]
    /\ stock = [r \in Rows |-> Row(NoLevel)]
    /\ found = [t \in Txs |-> {}]
    /\ tx = [t \in Txs |-> Idle]

\* A request reaches the API.
Request(t) ==
    \E o \in Orders :
        \/ ApproveRead(t, o)
        \/ CancelRead(t, o)
        \/ ShipRead(t, o)
        \/ \E r \in Requests : ReceiveRead(t, o, r)

\* A delivery of one of the two events begins.
Deliver(t) ==
    \/ \E o \in Orders : ShippedRead(t, o)
    \/ \E e \in Events : Claim(t, e)

\* An open transaction takes its next step, or a delivery begins.
Proceed(t) ==
    \/ ApproveCommit(t) \/ CancelCommit(t)
    \/ ShipCommit(t) \/ ShipReject(t) \/ ShippedCommit(t)
    \/ ReceiveLine(t) \/ ReceiveDecide(t) \/ ReceiveCommit(t)
    \/ PostFind(t) \/ PostUpdate(t) \/ PostInsert(t) \/ PostCommit(t)
    \/ DeadlockVictim(t)
    \/ Deliver(t)

Step ==
    \/ \E o \in Orders : Create(o)
    \/ \E t \in Txs : Request(t) \/ Proceed(t)

Next == Step \/ Crash \/ \E t \in Txs : Abort(t)

Spec == Init /\ [][Next]_vars
=============================================================================
