------------------------------ MODULE Outbound ------------------------------
(***************************************************************************)
(* What the outbound flow promises: the properties of SalesOrders, and the *)
(* assumptions on clients and on the scheduler some of them need.          *)
(***************************************************************************)
EXTENDS SalesOrders, FiniteSetsExt, Functions

SumOver(S, f(_)) == SumFunctionOnSet([x \in S |-> f(x)], S)

\* What a transaction can be doing: it has an order unless it is a handler,
\* what it fulfils or posts is not nothing, and while it works the item it is
\* at is there.
TxFields ==
    [op : Ops, at : {"start", "find", "work", "lines", "decide", "commit"},
     order : Orders \cup {NoOrder}, event : Nat,
     work : Seq(Items), next : Nat \ {0}, to : Statuses \cup {"NONE"}]

TxRecords ==
    {r \in TxFields : /\ r.op \notin {"idle", "post"} => r.order \in Orders
                      /\ r.op \in {"fulfill", "post"} => r.work # <<>>
                      /\ r.at = "find" => r.next = 1
                      /\ r.at = "work" => r.next <= Len(r.work)}

\* Every row and every transaction is of its type, and an event on the bus
\* has a payload.
TypeOK ==
    /\ InventoryTypeOK
    /\ status \in [Orders -> Statuses \cup {"NONE"}]
    /\ line \in [Lines -> RowOf(Quantities, Txs)]
    /\ tx \in [Txs -> TxRecords]
    /\ \A e \in Events : bus[e] > 0 => sent[e] # <<>>

-----------------------------------------------------------------------------
(* Safety under every interleaving, crash, abort and repeated delivery.    *)

\* ADR 0006: quantityReserved never exceeds quantityOnHand, in what is
\* committed and in what any open transaction would commit.
NoOversell ==
    \A p \in Products :
        /\ stock[p].com.reserved <= stock[p].com.onHand
        /\ stock[p].cur.reserved <= stock[p].cur.onHand

\* A line never has more units reserved and fulfilled than were ordered,
\* although fulfil requests, a cancellation and a second allocation may all
\* be under way for it.
LineBudget ==
    \A l \in Lines :
        LET q == line[l].com
        IN  q.reserved >= 0 /\ q.fulfilled >= 0 /\ q.reserved + q.fulfilled <= Ordered[l]

Units(e, l) == SumOver({k \in DOMAIN sent[e] : sent[e][k].line = l},
                       LAMBDA k : sent[e][k].qty)

\* The ledger and the orders agree up to the events that were not handled:
\* what left the shelves, what the reservations say was fulfilled, and the
\* claimed events are the same units, however often an event was delivered.
PostedExactlyOnce ==
    /\ \A l \in Lines :
        /\ resv[l].com.fulfilled = SumOver({e \in Events : claim[e].com}, LAMBDA e : Units(e, l))
        /\ line[l].com.fulfilled = SumOver(Events, LAMBDA e : Units(e, l))
    /\ \A p \in Products :
        OnHand[p] + received[p] - stock[p].com.onHand
            = SumOver({l \in Lines : ProductOf[l] = p}, LAMBDA l : resv[l].com.fulfilled)

\* An order has committed reservations for all of its lines or for none, and
\* is never seen allocated, or further on, without them.
AllOrNothing ==
    \A o \in Orders :
        LET held == {l \in LinesOf(o) : resv[l].com # NoResv}
        IN  /\ held \in {{}, LinesOf(o)}
            /\ status[o] \in {"ALLOCATED", "PARTIALLY_FULFILLED", "FULFILLED"} =>
                held # {}

\* Allocations lock their products in one order, so no set of allocations
\* alone can wait in a circle.
AllocationsNeverDeadlock ==
    \A S \in SUBSET {t \in Txs : tx[t].op = "allocate"} : ~Deadlocked(S, WaitsFor)

-----------------------------------------------------------------------------
(* What holds only while clients take turns: nobody sends a request for an *)
(* order before the previous one has been answered, and it is answered     *)
(* once its event handlers have returned.  Requests for different orders   *)
(* still overlap, and anything may still fail.                             *)

InTransaction(o) == \E t \in Txs : tx[t].order = o

BeingPosted(o) ==
    \/ \E t \in Txs : tx[t].op = "post" /\ OrderOf[tx[t].work[1].line] = o
    \/ \E e \in Events : bus[e] > 0 /\ OrderOf[sent[e][1].line] = o

TakeTurns ==
    \A t \in Txs, o \in Orders :
        tx[t] = Idle /\ tx'[t].order = o => ~InTransaction(o) /\ ~BeingPosted(o)

SerialSpec == Init /\ [][Next /\ TakeTurns]_vars

\* quantityReserved is what the ACTIVE reservations still have to ship: none
\* of it leaks when an order is cancelled half-way or a handler dies.
ReservedIsOutstanding ==
    \A p \in Products :
        stock[p].com.reserved =
            SumOver({l \in Lines : ProductOf[l] = p /\ resv[l].com.status = "ACTIVE"},
                    LAMBDA l : resv[l].com.qty - resv[l].com.fulfilled)

\* No line ships more than is on the shelf, nor more than it had reserved.
NeverNegative ==
    \A p \in Products : stock[p].com.reserved >= 0 /\ stock[p].com.onHand >= 0

\* The status says what the lines say: FULFILLED exactly when all was
\* fulfilled, nothing fulfilled before it is PARTIALLY_FULFILLED, and a
\* CANCELLED order holds no stock.
StatusTellsLines ==
    \A o \in Orders :
        LET Done(l) == line[l].com.fulfilled >= Ordered[l]
        IN  /\ status[o] = "FULFILLED" <=> \A l \in LinesOf(o) : Done(l)
            /\ status[o] \in {"DRAFT", "CONFIRMED", "ALLOCATED"} =>
                \A l \in LinesOf(o) : line[l].com.fulfilled = 0
            /\ status[o] = "CANCELLED" =>
                \A l \in LinesOf(o) : /\ line[l].com.reserved = 0
                                      /\ resv[l].com.status # "ACTIVE"

\* While clients take turns, the committed rows go through the steps of
\* AtomicOutbound: overlapping transactions, aborts, crashes and repeated
\* deliveries cannot be told from one indivisible request after another.
Atomic == INSTANCE AtomicOutbound WITH
    level <- [p \in Products |-> stock[p].com],
    hold <- [l \in Lines |-> resv[l].com],
    order <- status,
    left <- [l \in Lines |-> line[l].com],
    announced <- sent,
    posted <- {e \in Events : claim[e].com}

ActsAtomically == Atomic!Spec

-----------------------------------------------------------------------------
(* Liveness.  A waiter is granted the row in turn (PostgreSQL queues them) *)
(* and a callback that can go on does: strong fairness of each connection, *)
(* for others may take and leave the row while it waits.  A committed      *)
(* fulfill goes on to call the handler.  Nothing fails but the victims of  *)
(* the deadlock detector.                                                  *)

Deliver(e) == \E t \in Txs : Claim(t, e) /\ UNCHANGED <<status, line>>

FaultFreeSpec == Init /\ [][Step]_vars

Fairness ==
    /\ \A t \in Txs : SF_vars(Proceed(t))
    /\ \A e \in Events : SF_vars(Deliver(e))

LiveSpec == FaultFreeSpec /\ Fairness

\* No transaction stays open for ever, whatever rows it has to wait for.
TransactionsEnd == \A t \in Txs : tx[t] # Idle ~> tx[t] = Idle

\* What orders say was fulfilled is also taken off the shelves in the end.
LedgerCatchesUp == \A e \in Events : sent[e] # <<>> ~> claim[e].com

-----------------------------------------------------------------------------
(* What documents and comments say, and the code does not do when requests *)
(* for one order overlap, even with nothing failing (FaultFreeSpec).       *)

\* outbound-fulfillment.md: cancelling "releases whatever remains reserved".
\* Once every request for a cancelled order has been answered, it holds no
\* reservation.
CancelledHoldsNothing ==
    \A o \in Orders :
        status[o] = "CANCELLED" /\ ~InTransaction(o) =>
            \A l \in LinesOf(o) : resv[l].com.status # "ACTIVE"
=============================================================================
