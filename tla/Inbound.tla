------------------------------- MODULE Inbound -------------------------------
(***************************************************************************)
(* What the inbound flow promises: the properties of Procurement, and the  *)
(* assumptions on clients and on the scheduler some of them need.          *)
(***************************************************************************)
EXTENDS Procurement, FiniteSetsExt, Functions

SumOver(S, f(_)) == SumFunctionOnSet([x \in S |-> f(x)], S)

TxFields ==
    [op : Ops, at : {"start", "work", "write", "decide", "commit"},
     order : Orders \cup {NoOrder}, event : Nat,
     work : Seq(Items), next : Nat \ {0}, to : Statuses \cup {"NONE"}]

\* A transaction has an order unless it is a handler of po.received, and
\* while it works the item it is at is there.
TxRecords ==
    {r \in TxFields : /\ r.op \notin {"idle", "post"} => r.order \in Orders
                      /\ r.op \in {"receive", "post"} => r.work # <<>>
                      /\ r.op = "receive" /\ r.at = "commit" => r.to \in Statuses
                      /\ r.op = "post" => r.at \in {"work", "write", "commit"}
                      /\ r.at = "work" \/ (r.op = "post" /\ r.at = "write")
                            => r.next <= Len(r.work)}

\* Every row and every transaction is of its type, and an event on the bus
\* has a payload.
TypeOK ==
    /\ status \in [Orders -> Statuses \cup {"NONE"}]
    /\ line \in [Lines -> RowOf(Nat, Txs)]
    /\ shipped \subseteq Orders
    /\ told \in [Orders -> Nat]
    /\ heard \in [Orders -> RowOf(BOOLEAN, Txs)]
    /\ sent \in [Events -> Seq(Items)]
    /\ bus \in [Events -> Nat]
    /\ claim \in [Events -> RowOf(BOOLEAN, Txs)]
    /\ stock \in [Rows -> RowOf(Levels, Txs)]
    /\ found \in [Txs -> SUBSET Rows]
    /\ tx \in [Txs -> TxRecords]
    /\ \A e \in Events : bus[e] > 0 => sent[e] # <<>>

-----------------------------------------------------------------------------
(* Safety under every interleaving, crash, abort and repeated delivery.    *)

Units(e, l) == SumOver({k \in DOMAIN sent[e] : sent[e][k].line = l},
                       LAMBDA k : sent[e][k].qty)

OnHand(p) == SumOver({p} \X Txs, LAMBDA r : stock[r].com.onHand)

\* po.received is applied exactly once: what the order lines say was received
\* is what the receipts announced, and what is on the shelves, in however
\* many rows, is what the claimed events announced.
ReceiptsPostedOnce ==
    /\ \A l \in Lines : line[l].com = SumOver(Events, LAMBDA e : Units(e, l))
    /\ \A p \in Products :
        OnHand(p) = SumOver({e \in Events : claim[e].com},
                            LAMBDA e : SumOver({l \in Lines : ProductOf[l] = p},
                                               LAMBDA l : Units(e, l)))

\* ADR 0004: only the handler of shipment.created moves an order to SHIPPED,
\* so nothing is ever received, not even by a transaction that is still open,
\* of an order that has no shipment.
ReceivedOnlyIfShipped ==
    /\ \A o \in Orders :
        status[o] \in {"SHIPPED", "PARTIALLY_RECEIVED", "RECEIVED"} =>
            o \in shipped /\ heard[o].com
    /\ \A l \in Lines : line[l].cur > 0 => OrderOf[l] \in shipped

-----------------------------------------------------------------------------
(* What holds only while nobody sends a request for an order before the    *)
(* previous one has been answered, which is after its handlers returned.   *)
(* Requests for different orders still overlap, and anything may fail.     *)

InTransaction(o) == \E t \in Txs : tx[t].order = o

BeingPosted(o) ==
    \/ \E t \in Txs : tx[t].op = "post" /\ OrderOf[tx[t].work[1].line] = o
    \/ \E e \in Events : bus[e] > 0 /\ OrderOf[sent[e][1].line] = o
    \/ told[o] > 0

Requested(t, o) == tx[t] = Idle /\ tx'[t].order = o /\ tx'[t].op # "shipped"

TakeTurns ==
    \A t \in Txs, o \in Orders :
        Requested(t, o) => ~InTransaction(o) /\ ~BeingPosted(o)

SerialSpec == Init /\ [][Next /\ TakeTurns]_vars

\* ADR 0004: total received quantity never exceeds ordered quantity.
NeverOverReceived == \A l \in Lines : line[l].com <= Ordered[l]

\* The status says what the lines say.
StatusTellsLines ==
    \A o \in Orders :
        /\ status[o] = "RECEIVED" <=> \A l \in LinesOf(o) : line[l].com >= Ordered[l]
        /\ status[o] \in {"DRAFT", "APPROVED", "SHIPPED"} =>
            \A l \in LinesOf(o) : line[l].com = 0
        /\ status[o] = "PARTIALLY_RECEIVED" => \E l \in LinesOf(o) : line[l].com > 0

\* While clients take turns, the committed rows go through the steps of
\* AtomicInbound, with the stock of a product being all of its rows.
Atomic == INSTANCE AtomicInbound WITH
    order <- status,
    got <- [l \in Lines |-> line[l].com],
    onHand <- [p \in Products |-> OnHand(p)],
    shipments <- shipped,
    noticed <- {o \in Orders : heard[o].com},
    announced <- sent,
    posted <- {e \in Events : claim[e].com}

ActsAtomically == Atomic!Spec

-----------------------------------------------------------------------------
(* Liveness.  As in Outbound: rows are granted in turn, a callback that can *)
(* go on does, a commit is followed by its handler, nothing else fails.    *)

LiveSerialSpec ==
    /\ Init /\ [][Step /\ TakeTurns]_vars
    /\ \A t \in Txs : SF_vars(Proceed(t))
    /\ \A e \in Events : SF_vars(\E t \in Txs : Claim(t, e))
    /\ \A o \in Orders : SF_vars(\E t \in Txs : ShippedRead(t, o))

\* Every recorded receipt is put on the shelves in the end.
ReceiptsReachStock == \A e \in Events : sent[e] # <<>> ~> claim[e].com

\* An order that has got its one shipment does not stay APPROVED, where
\* nothing could be received for it any more.
ShipmentMovesOrder == \A o \in Orders : o \in shipped ~> status[o] # "APPROVED"
=============================================================================
