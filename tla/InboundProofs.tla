--------------------------- MODULE InboundProofs ---------------------------
(***************************************************************************)
(* Theorems about the inbound flow, for any orders, products, requests,    *)
(* number of connections, deliveries and events.                           *)
(***************************************************************************)
EXTENDS Inbound, ReadCommittedProofs, SequenceTheorems, Sums

-----------------------------------------------------------------------------
(* Transaction records.                                                    *)

LEMMA BegunType ==
    ASSUME NEW op \in Ops, NEW o \in Orders \cup {NoOrder}, NEW e \in Nat,
           op \notin {"idle", "post"} => o \in Orders,
           NEW at \in {"start", "work", "write", "commit"},
           NEW work \in Seq(Items), at = "work" => work # <<>>,
           op \in {"receive", "post"} => work # <<>> /\ at = "work"
    PROVE  Begun(op, at, o, e, work) \in TxRecords
<1>1. work # <<>> => 1 <= Len(work)
  BY EmptySeq
<1>2. QED
  BY <1>1 DEF Begun, TxRecords, TxFields

LEMMA IdleType == Idle \in TxRecords
BY BegunType, EmptySeq DEF Idle, Ops

\* The item at hand is one, and the transaction is well-formed once past it.
LEMMA AdvancedType ==
    ASSUME NEW t \in Txs, tx[t] \in TxRecords,
           At(t, "receive", "work") \/ At(t, "post", "write"),
           NEW then, then = IF tx[t].op = "receive" THEN "decide" ELSE "commit"
    PROVE  /\ Item(t) \in Items
           /\ Advanced(t, then) \in TxRecords
<1>1. /\ tx[t].next \in 1 .. Len(tx[t].work)
      /\ Len(tx[t].work) \in Nat
      /\ tx[t] \in TxFields /\ tx[t].work # <<>> /\ tx[t].work \in Seq(Items)
      /\ tx[t].op \notin {"idle", "post"} => tx[t].order \in Orders
  BY LenProperties DEF TxRecords, TxFields, At
<1>2. Item(t) \in Items
  BY <1>1, ElementOfSeq DEF Item
<1> DEFINE at == IF tx[t].next = Len(tx[t].work) THEN then ELSE "work"
           q == [tx[t] EXCEPT !.next = @ + 1]
           r == [tx[t] EXCEPT !.next = @ + 1, !.at = at]
<1>3. /\ at \in {"work", then}
      /\ at = "work" => tx[t].next + 1 <= Len(tx[t].work)
      /\ tx[t].next + 1 \in Nat \ {0}
  BY <1>1
<1>4. then \in {"decide", "commit"}
  OBVIOUS
<1> HIDE DEF at
<1>5. /\ q \in TxFields
      /\ q.op = tx[t].op /\ q.order = tx[t].order /\ q.work = tx[t].work
      /\ q.next = tx[t].next + 1
  BY <1>1, <1>3 DEF TxFields
<1>6. r = [q EXCEPT !.at = at]
  BY <1>1 DEF TxFields
<1>7. /\ r \in TxFields
      /\ r.op = tx[t].op /\ r.order = tx[t].order /\ r.work = tx[t].work
      /\ r.at = at /\ r.next = tx[t].next + 1
  <2> HIDE DEF q, r
  <2>1. QED
    BY <1>3, <1>4, <1>5, <1>6 DEF TxFields
<1>8. r \in TxRecords
  <2>1. tx[t].op \in {"receive", "post"}
    BY DEF At
  <2> HIDE DEF r
  <2>2. QED
    BY <1>1, <1>3, <1>7, <2>1 DEF TxRecords
<1>9. QED
  BY <1>2, <1>8 DEF Advanced, at

-----------------------------------------------------------------------------
(* The rows, when transaction t ends.                                      *)

LEMMA Tables ==
    ASSUME TypeOK
    PROVE  /\ line \in [Lines -> RowOf(Nat, Txs)]
           /\ heard \in [Orders -> RowOf(BOOLEAN, Txs)]
           /\ claim \in [Events -> RowOf(BOOLEAN, Txs)]
           /\ stock \in [Rows -> RowOf(Levels, Txs)]
           /\ tx \in [Txs -> TxRecords]
BY DEF TypeOK

LEMMA CommitTypes ==
    ASSUME TypeOK, NEW t \in Txs, Commit(t)
    PROVE  /\ line' \in [Lines -> RowOf(Nat, Txs)]
           /\ heard' \in [Orders -> RowOf(BOOLEAN, Txs)]
           /\ claim' \in [Events -> RowOf(BOOLEAN, Txs)]
           /\ stock' \in [Rows -> RowOf(Levels, Txs)]
           /\ found' \in [Txs -> SUBSET Rows]
           /\ tx' \in [Txs -> TxRecords]
<1>1. /\ line' \in [Lines -> RowOf(Nat, Txs)]
      /\ heard' \in [Orders -> RowOf(BOOLEAN, Txs)]
      /\ claim' \in [Events -> RowOf(BOOLEAN, Txs)]
      /\ stock' \in [Rows -> RowOf(Levels, Txs)]
  BY Tables, TableTypes, Zenon DEF Commit
<1>2. found' \in [Txs -> SUBSET Rows]
  BY DEF Commit, TypeOK
<1>3. tx' \in [Txs -> TxRecords]
  BY Tables, IdleType DEF Commit, Closed
<1>4. QED
  BY <1>1, <1>2, <1>3

LEMMA RollbackTypes ==
    ASSUME TypeOK, NEW t \in Txs, Rollback(t)
    PROVE  TypeOK'
<1>1. /\ line' \in [Lines -> RowOf(Nat, Txs)]
      /\ heard' \in [Orders -> RowOf(BOOLEAN, Txs)]
      /\ claim' \in [Events -> RowOf(BOOLEAN, Txs)]
      /\ stock' \in [Rows -> RowOf(Levels, Txs)]
  BY Tables, TableTypes, Zenon DEF Rollback
<1>2. found' \in [Txs -> SUBSET Rows]
  BY DEF Rollback, TypeOK
<1>3. tx' \in [Txs -> TxRecords]
  BY Tables, IdleType DEF Rollback, Closed
<1>4. QED
  BY <1>1, <1>2, <1>3 DEF TypeOK, Rollback, busVars, Events

\* The commits of a request write the status of its order, or none.
LEMMA StatusCommitTypes ==
    ASSUME TypeOK, NEW t \in Txs, NEW s \in Statuses,
           status' = status \/ status' = [status EXCEPT ![tx[t].order] = s],
           Commit(t), UNCHANGED <<shipped, busVars>>
    PROVE  TypeOK'
<1>1. status' \in [Orders -> Statuses \cup {"NONE"}]
  BY DEF TypeOK
<1>2. QED
  BY <1>1, CommitTypes DEF TypeOK, busVars, Events

-----------------------------------------------------------------------------
(* Type correctness.                                                       *)

LEMMA InitTypes == Init => TypeOK
<1>1. SUFFICES ASSUME Init PROVE TypeOK
  OBVIOUS
<1>2. line \in [Lines -> RowOf(Nat, Txs)]
  BY <1>1 DEF Init, RowOf, Row
<1>3. heard \in [Orders -> RowOf(BOOLEAN, Txs)] /\ claim \in [Events -> RowOf(BOOLEAN, Txs)]
  BY <1>1 DEF Init, RowOf, Row
<1>4. stock \in [Rows -> RowOf(Levels, Txs)]
  <2>1. NoLevel \in Levels
    BY DEF NoLevel, Levels
  <2>2. QED
    BY <1>1, <2>1 DEF Init, RowOf, Row
<1>5. sent \in [Events -> Seq(Items)]
  BY <1>1, EmptySeq DEF Init
<1>6. /\ bus \in [Events -> Nat] /\ told \in [Orders -> Nat]
      /\ \A e \in Events : ~(bus[e] > 0)
      /\ found \in [Txs -> SUBSET Rows]
  BY <1>1 DEF Init
<1>7. tx \in [Txs -> TxRecords]
  BY <1>1, IdleType DEF Init
<1>8. QED
  BY <1>1, <1>2, <1>3, <1>4, <1>5, <1>6, <1>7 DEF Init, TypeOK

\* Beginning a callback, which reads and changes no row.
LEMMA ReadTypes ==
    ASSUME TypeOK, NEW t \in Txs, NEW r \in TxRecords,
           tx' = [tx EXCEPT ![t] = r],
           UNCHANGED <<status, shipped, tables, busVars>>,
           found' \in [Txs -> SUBSET Rows]
    PROVE  TypeOK'
BY DEF TypeOK, tables, busVars, Events

LEMMA RequestTypes ==
    ASSUME TypeOK, NEW t \in Txs, Request(t)
    PROVE  TypeOK'
<1>1. PICK o \in Orders : \/ ApproveRead(t, o) \/ CancelRead(t, o) \/ ShipRead(t, o)
                          \/ \E r \in Requests : ReceiveRead(t, o, r)
  BY DEF Request
<1>2. found' = found
  BY <1>1 DEF ApproveRead, CancelRead, Begins, ShipRead, ReceiveRead
<1>3. found' \in [Txs -> SUBSET Rows]
  BY <1>2 DEF TypeOK
<1>4. CASE ApproveRead(t, o) \/ CancelRead(t, o) \/ ShipRead(t, o)
  <2>1. \A op \in {"approve", "cancel", "ship"} :
          Begun(op, "commit", o, 0, <<>>) \in TxRecords
    BY BegunType, EmptySeq DEF Ops
  <2>2. QED
    BY <1>3, <1>4, <2>1, ReadTypes DEF ApproveRead, CancelRead, Begins, ShipRead
<1>5. CASE \E r \in Requests : ReceiveRead(t, o, r)
  <2>1. PICK r \in Requests : ReceiveRead(t, o, r)
    BY <1>5
  <2>2. r \in Seq(Items) /\ r # <<>>
    BY RequestsAssumption
  <2>3. Begun("receive", "work", o, 0, r) \in TxRecords
    BY <2>2, BegunType DEF Ops
  <2>4. QED
    BY <1>3, <2>1, <2>3, ReadTypes DEF ReceiveRead
<1>6. QED
  BY <1>1, <1>4, <1>5

\* The item, the product and the rows of a transaction at work.
LEMMA AtWork ==
    ASSUME TypeOK, NEW t \in Txs, At(t, "receive", "work") \/ At(t, "post", "write")
    PROVE  /\ Item(t).line \in Lines /\ Item(t).qty \in Nat \ {0}
           /\ ProductOf[Item(t).line] \in Products
           /\ At(t, "receive", "work") => Advanced(t, "decide") \in TxRecords
           /\ At(t, "post", "write") => Advanced(t, "commit") \in TxRecords
<1>1. tx[t] \in TxRecords
  BY Tables
<1>2. Item(t) \in Items
  BY <1>1, AdvancedType
<1>3. At(t, "receive", "work") => Advanced(t, "decide") \in TxRecords
  BY <1>1, AdvancedType DEF At
<1>4. At(t, "post", "write") => Advanced(t, "commit") \in TxRecords
  BY <1>1, AdvancedType DEF At
<1>5. QED
  BY <1>2, <1>3, <1>4, LinesAssumption DEF Items

LEMMA ShippedReadTypes ==
    ASSUME TypeOK, NEW t \in Txs, NEW o \in Orders, ShippedRead(t, o)
    PROVE  TypeOK'
<1> DEFINE at == IF status[o] = "APPROVED" THEN "write" ELSE "commit"
<1>1. Begun("shipped", at, o, 0, <<>>) \in TxRecords
  BY BegunType, EmptySeq DEF Ops
<1>2. tx' \in [Txs -> TxRecords]
  BY <1>1, Tables DEF ShippedRead
<1>3. heard' \in [Orders -> RowOf(BOOLEAN, Txs)]
  <2>1. [heard EXCEPT ![o] = Put(@, t, TRUE)] \in [Orders -> RowOf(BOOLEAN, Txs)]
    BY Tables, PutTypes, Zenon
  <2>2. QED
    BY <2>1, Tables DEF ShippedRead
<1>4. told' \in [Orders -> Nat]
  <2>1. told[o] \in Nat
    BY DEF TypeOK
  <2>2. QED
    BY <2>1 DEF ShippedRead, TypeOK
<1>5. QED
  BY <1>2, <1>3, <1>4 DEF ShippedRead, TypeOK, Events

LEMMA ClaimTypes ==
    ASSUME TypeOK, NEW t \in Txs, NEW e \in Events, Claim(t, e)
    PROVE  TypeOK'
<1>1. e \in Nat /\ bus[e] \in Nat /\ sent[e] \in Seq(Items) /\ sent[e] # <<>>
  BY BoundsAssumption DEF Events, Claim, TypeOK
<1>2. Begun("post", "work", NoOrder, e, sent[e]) \in TxRecords
  BY <1>1, BegunType DEF Ops
<1>3. tx' \in [Txs -> TxRecords]
  BY <1>2, Tables DEF Claim
<1>4. claim' \in [Events -> RowOf(BOOLEAN, Txs)]
  <2>1. [claim EXCEPT ![e] = Put(@, t, TRUE)] \in [Events -> RowOf(BOOLEAN, Txs)]
    BY Tables, PutTypes, Zenon
  <2>2. QED
    BY <2>1, Tables DEF Claim
<1>5. bus' \in [Events -> Nat] /\ sent' = sent
  BY <1>1 DEF Claim, TypeOK
<1>6. \A d \in Events : bus'[d] > 0 => bus[d] > 0
  BY <1>1 DEF Claim, TypeOK
<1>7. QED
  BY <1>3, <1>4, <1>5, <1>6 DEF Claim, TypeOK

LEMMA ReceiveLineTypes ==
    ASSUME TypeOK, NEW t \in Txs, ReceiveLine(t)
    PROVE  TypeOK'
<1> DEFINE i == Item(t)
<1>1. /\ i.line \in Lines /\ i.qty \in Nat /\ Advanced(t, "decide") \in TxRecords
  BY AtWork DEF ReceiveLine
<1> HIDE DEF i
<1>2. Sees(line[i.line], t) + i.qty \in Nat
  <2>1. Sees(line[i.line], t) \in Nat
    BY <1>1, Tables, PutTypes
  <2>2. QED
    BY <1>1, <2>1
<1>3. line' \in [Lines -> RowOf(Nat, Txs)]
  <2>1. line' = [line EXCEPT ![i.line] = Put(@, t, Sees(line[i.line], t) + i.qty)]
    BY DEF ReceiveLine, i
  <2> DEFINE v == Sees(line[i.line], t) + i.qty
  <2>2. v \in Nat
    BY <1>2
  <2> HIDE DEF v
  <2>3. [line EXCEPT ![i.line] = Put(@, t, v)] \in [Lines -> RowOf(Nat, Txs)]
    BY <1>1, <2>2, Tables, PutTypes
  <2>4. QED
    BY <2>1, <2>3 DEF v
<1>4. tx' \in [Txs -> TxRecords]
  BY <1>1, Tables DEF ReceiveLine
<1>5. QED
  BY <1>3, <1>4 DEF ReceiveLine, TypeOK, busVars, Events

LEMMA ReceiveDecideTypes ==
    ASSUME TypeOK, NEW t \in Txs, ReceiveDecide(t)
    PROVE  TypeOK'
<1> DEFINE to == IF FullyReceived(t, tx[t].order)
                 THEN "RECEIVED" ELSE "PARTIALLY_RECEIVED"
           r == [tx[t] EXCEPT !.at = "commit", !.to = to]
<1>1. tx[t] \in TxFields /\ tx[t].op = "receive"
      /\ tx[t].order \in Orders /\ tx[t].work # <<>>
  BY DEF ReceiveDecide, At, TypeOK, TxRecords
<1>2. to \in Statuses
  BY DEF Statuses
<1> HIDE DEF to
<1>3. r \in TxRecords
  BY <1>1, <1>2 DEF TxRecords, TxFields
<1>4. tx' = [tx EXCEPT ![t] = r]
  BY DEF ReceiveDecide, TypeOK, to
<1>5. found' \in [Txs -> SUBSET Rows]
  BY DEF ReceiveDecide, TypeOK
<1>6. QED
  BY <1>3, <1>4, <1>5, ReadTypes DEF ReceiveDecide

LEMMA ReceiveCommitTypes ==
    ASSUME TypeOK, NEW t \in Txs, ReceiveCommit(t)
    PROVE  TypeOK'
<1>1. /\ tx[t].order \in Orders /\ tx[t].work \in Seq(Items) /\ tx[t].work # <<>>
      /\ tx[t].to \in Statuses
  BY DEF ReceiveCommit, At, TypeOK, TxRecords, TxFields
<1>2. PICK e \in Events : Emit(e, tx[t].work)
  BY DEF ReceiveCommit
<1>3. sent' \in [Events -> Seq(Items)] /\ bus' \in [Events -> Nat]
  BY <1>1, <1>2, BoundsAssumption DEF Emit, TypeOK
<1>4. \A d \in Events : bus'[d] > 0 => sent'[d] # <<>>
  BY <1>1, <1>2 DEF Emit, TypeOK
<1>5. status' \in [Orders -> Statuses \cup {"NONE"}]
  BY <1>1 DEF ReceiveCommit, SetsStatus, TypeOK
<1>6. Commit(t) /\ UNCHANGED <<shipped, told>>
  BY DEF ReceiveCommit
<1>7. QED
  BY <1>3, <1>4, <1>5, <1>6, CommitTypes DEF TypeOK

\* The rows of a product are rows, and the handler looks at no others.
LEMMA PostFindTypes ==
    ASSUME TypeOK, NEW t \in Txs, PostFind(t)
    PROVE  TypeOK'
<1> DEFINE p == ProductOf[Item(t).line]
           visible == {r \in {p} \X Txs : Sees(stock[r], t).there}
           r == [tx[t] EXCEPT !.at = "write"]
<1>1. tx[t] \in TxFields /\ tx[t] \in TxRecords /\ tx[t].op = "post"
      /\ tx[t].work # <<>> /\ tx[t].work \in Seq(Items)
      /\ tx[t].next \in Nat \ {0} /\ tx[t].next <= Len(tx[t].work)
  BY DEF PostFind, At, TypeOK, TxRecords, TxFields
<1>2. Item(t) \in Items
  <2>1. tx[t].next \in 1 .. Len(tx[t].work)
    BY <1>1, LenProperties
  <2>2. QED
    BY <1>1, <2>1, ElementOfSeq DEF Item
<1>3. p \in Products
  BY <1>2, LinesAssumption DEF Items
<1>4. r \in TxRecords
  BY <1>1 DEF TxRecords, TxFields
<1>5. tx' = [tx EXCEPT ![t] = r]
  BY DEF PostFind, TypeOK
<1>6. PICK f \in IF visible = {} THEN {{}} ELSE {{x} : x \in visible} :
        found' = [found EXCEPT ![t] = f]
  BY DEF PostFind
<1>7. f \in SUBSET Rows
  BY <1>3 DEF Rows
<1>8. found' \in [Txs -> SUBSET Rows]
  BY <1>6, <1>7 DEF TypeOK
<1>9. QED
  BY <1>4, <1>5, <1>8, ReadTypes DEF PostFind

\* Writing a stock row.
LEMMA PostTypes ==
    ASSUME TypeOK, NEW t \in Txs, At(t, "post", "write"), Posted(t), NEW r \in Rows,
           NEW v \in Levels, stock' = [stock EXCEPT ![r] = Put(@, t, v)]
    PROVE  TypeOK'
<1>1. Advanced(t, "commit") \in TxRecords
  BY AtWork
<1>2. tx' \in [Txs -> TxRecords]
  BY <1>1, Tables DEF Posted
<1>3. stock' \in [Rows -> RowOf(Levels, Txs)]
  BY Tables, PutTypes
<1>4. QED
  BY <1>2, <1>3 DEF Posted, TypeOK, busVars, Events

LEMMA PostUpdateWrites ==
    ASSUME TypeOK, NEW t \in Txs, PostUpdate(t)
    PROVE  \E r \in Rows :
              LET v == [there |-> TRUE,
                        onHand |-> Sees(stock[r], t).onHand + Item(t).qty]
              IN  /\ r \in found[t] /\ Free(stock[r], t) /\ v \in Levels
                  /\ stock' = [stock EXCEPT ![r] = Put(@, t, v)]
<1>1. PICK r \in found[t] :
        /\ Free(stock[r], t)
        /\ stock' = [stock EXCEPT ![r] =
               Put(@, t, [there |-> TRUE, onHand |-> Sees(@, t).onHand + Item(t).qty])]
  BY DEF PostUpdate
<1>2. r \in Rows
  BY DEF TypeOK
<1>3. Item(t).qty \in Nat
  BY AtWork DEF PostUpdate
<1>4. Sees(stock[r], t) \in Levels
  BY <1>2, Tables, PutTypes
<1>5. Sees(stock[r], t).onHand + Item(t).qty \in Nat
  BY <1>3, <1>4 DEF Levels
<1>6. [there |-> TRUE, onHand |-> Sees(stock[r], t).onHand + Item(t).qty] \in Levels
  BY <1>5 DEF Levels
<1>7. QED
  BY <1>1, <1>2, <1>6

LEMMA PostInsertWrites ==
    ASSUME TypeOK, NEW t \in Txs, PostInsert(t)
    PROVE  LET r == <<ProductOf[Item(t).line], t>>
               v == [there |-> TRUE, onHand |-> Item(t).qty]
           IN  /\ r \in Rows /\ v \in Levels
               /\ stock' = [stock EXCEPT ![r] = Put(@, t, v)]
<1>1. ProductOf[Item(t).line] \in Products /\ Item(t).qty \in Nat
  BY AtWork DEF PostInsert
<1>2. QED
  BY <1>1 DEF PostInsert, Rows, Levels

LEMMA ProceedTypes ==
    ASSUME TypeOK, NEW t \in Txs, Proceed(t)
    PROVE  TypeOK'
<1>1. CASE ApproveCommit(t) \/ CancelCommit(t) \/ ShippedCommit(t) \/ PostCommit(t)
  BY <1>1, StatusCommitTypes
     DEF ApproveCommit, CancelCommit, ShippedCommit, PostCommit, SetsStatus, Statuses
<1>2. CASE ShipCommit(t)
  <2>1. tx[t].order \in Orders
    BY <1>2 DEF ShipCommit, At, TypeOK, TxRecords
  <2>2. shipped' \subseteq Orders /\ told' \in [Orders -> Nat]
    BY <1>2, <2>1, BoundsAssumption DEF ShipCommit, TypeOK
  <2>3. Commit(t) /\ UNCHANGED <<status, sent, bus>>
    BY <1>2 DEF ShipCommit
  <2>4. /\ (status \in [Orders -> Statuses \cup {"NONE"}])'
        /\ (sent \in [Events -> Seq(Items)] /\ bus \in [Events -> Nat])'
        /\ (\A e \in Events : bus[e] > 0 => sent[e] # <<>>)'
    BY <2>3 DEF TypeOK, Events
  <2>5. /\ line' \in [Lines -> RowOf(Nat, Txs)] /\ heard' \in [Orders -> RowOf(BOOLEAN, Txs)]
        /\ claim' \in [Events -> RowOf(BOOLEAN, Txs)] /\ stock' \in [Rows -> RowOf(Levels, Txs)]
        /\ found' \in [Txs -> SUBSET Rows] /\ tx' \in [Txs -> TxRecords]
    BY <2>3, CommitTypes
  <2>6. QED
    BY <2>2, <2>4, <2>5 DEF TypeOK, Events
<1>3. CASE ShipReject(t) \/ DeadlockVictim(t)
  BY <1>3, RollbackTypes DEF ShipReject, DeadlockVictim
<1>4. CASE Deliver(t)
  BY <1>4, ShippedReadTypes, ClaimTypes DEF Deliver
<1>5. CASE PostUpdate(t)
  <2>1. PICK r \in Rows, v \in Levels : stock' = [stock EXCEPT ![r] = Put(@, t, v)]
    <3>1. PICK r \in Rows :
            LET v == [there |-> TRUE,
                      onHand |-> Sees(stock[r], t).onHand + Item(t).qty]
            IN  v \in Levels /\ stock' = [stock EXCEPT ![r] = Put(@, t, v)]
      BY <1>5, PostUpdateWrites
    <3> DEFINE v == [there |-> TRUE, onHand |-> Sees(stock[r], t).onHand + Item(t).qty]
    <3>2. v \in Levels /\ stock' = [stock EXCEPT ![r] = Put(@, t, v)]
      BY <3>1
    <3> HIDE DEF v
    <3>3. QED
      BY <3>2
  <2>2. At(t, "post", "write") /\ Posted(t)
    BY <1>5 DEF PostUpdate
  <2>3. QED
    BY <2>1, <2>2, PostTypes
<1>6. CASE PostInsert(t)
  BY <1>6, PostInsertWrites, PostTypes DEF PostInsert
<1>7. QED
  BY <1>1, <1>2, <1>3, <1>4, <1>5, <1>6, ReceiveLineTypes, ReceiveDecideTypes,
     ReceiveCommitTypes, PostFindTypes DEF Proceed

\* Every behaviour of the inbound flow stays within its types: whatever the
\* interleaving, received quantities and stock never go below zero, a handler
\* looks only at stock rows there are, and a delivery finds a payload.
THEOREM Typing == Spec => []TypeOK
<1>1. ASSUME TypeOK, [Next]_vars PROVE TypeOK'
  <2>1. CASE UNCHANGED vars
    BY <1>1, <2>1 DEF TypeOK, vars, tables, busVars, Events
  <2>2. ASSUME NEW o \in Orders, Create(o) PROVE TypeOK'
    BY <1>1, <2>2 DEF Create, TypeOK, tables, busVars, Statuses, Events
  <2>3. CASE Crash
    <3>1. /\ line' \in [Lines -> RowOf(Nat, Txs)]
          /\ heard' \in [Orders -> RowOf(BOOLEAN, Txs)]
          /\ claim' \in [Events -> RowOf(BOOLEAN, Txs)]
          /\ stock' \in [Rows -> RowOf(Levels, Txs)]
      BY <1>1, <2>3, Tables, RestartedTypes, Zenon DEF Crash
    <3>2. tx' \in [Txs -> TxRecords]
      BY <2>3, IdleType DEF Crash
    <3>3. /\ bus' \in [Events -> Nat] /\ \A e \in Events : ~(bus'[e] > 0)
          /\ told' \in [Orders -> Nat] /\ found' \in [Txs -> SUBSET Rows]
      BY <2>3 DEF Crash
    <3>4. QED
      BY <1>1, <2>3, <3>1, <3>2, <3>3 DEF Crash, TypeOK
  <2>4. ASSUME NEW t \in Txs, Request(t) \/ Proceed(t) \/ Abort(t) PROVE TypeOK'
    BY <1>1, <2>4, RequestTypes, ProceedTypes, RollbackTypes DEF Abort
  <2>5. QED
    BY <1>1, <2>1, <2>2, <2>3, <2>4 DEF Next, Step
<1>2. QED
  BY <1>1, InitTypes, PTL DEF Spec

-----------------------------------------------------------------------------
(* A step ends a transaction, which lets go of its rows, or is one of its  *)
(* work, which takes rows that nobody else holds; else it is the creation  *)
(* of an order or a crash.                                                 *)

Ended(t, ok) ==
    /\ tx'[t] = Idle /\ found'[t] = {}
    /\ \A u \in Txs \ {t} : tx'[u] = tx[u] /\ found'[u] = found[u]
    /\ \A l \in Lines : EndedRow(line[l], line'[l], t, ok)
    /\ \A o \in Orders : EndedRow(heard[o], heard'[o], t, ok)
    /\ \A e \in Events : EndedRow(claim[e], claim'[e], t, ok)
    /\ \A r \in Rows : EndedRow(stock[r], stock'[r], t, ok)

\* A row that t wrote, or that nobody did.
WrittenRow(old, new, t) ==
    \/ new = old
    \/ old.by \in {NoTx, t} /\ new.by = t /\ new.com = old.com

Worked(t) ==
    /\ \A u \in Txs \ {t} : tx'[u] = tx[u] /\ found'[u] = found[u]
    /\ \A l \in Lines : WrittenRow(line[l], line'[l], t)
    /\ \A o \in Orders : WrittenRow(heard[o], heard'[o], t)
    /\ \A e \in Events : WrittenRow(claim[e], claim'[e], t)
    /\ \A r \in Rows : WrittenRow(stock[r], stock'[r], t)
    /\ sent' = sent

LEMMA RollbackEnds ==
    ASSUME TypeOK, NEW t \in Txs, Rollback(t)
    PROVE  Ended(t, FALSE)
<1>0. /\ line' = RollbackAll(line, t) /\ heard' = RollbackAll(heard, t)
      /\ claim' = RollbackAll(claim, t) /\ stock' = RollbackAll(stock, t)
      /\ tx' = [tx EXCEPT ![t] = Idle] /\ found' = [found EXCEPT ![t] = {}]
  BY DEF Rollback, Closed
<1>1. \A l \in Lines : EndedRow(line[l], line'[l], t, FALSE)
  BY <1>0, Tables, Released
<1>2. \A o \in Orders : EndedRow(heard[o], heard'[o], t, FALSE)
  BY <1>0, Tables, Released
<1>3. \A e \in Events : EndedRow(claim[e], claim'[e], t, FALSE)
  BY <1>0, Tables, Released
<1>4. \A r \in Rows : EndedRow(stock[r], stock'[r], t, FALSE)
  BY <1>0, Tables, Released
<1>5. found \in [Txs -> SUBSET Rows]
  BY DEF TypeOK
<1>6. QED
  BY <1>0, <1>1, <1>2, <1>3, <1>4, <1>5, Tables DEF Ended

LEMMA CommitEnds ==
    ASSUME TypeOK, NEW t \in Txs, Commit(t)
    PROVE  Ended(t, TRUE)
<1>0. /\ line' = CommitAll(line, t) /\ heard' = CommitAll(heard, t)
      /\ claim' = CommitAll(claim, t) /\ stock' = CommitAll(stock, t)
      /\ tx' = [tx EXCEPT ![t] = Idle] /\ found' = [found EXCEPT ![t] = {}]
  BY DEF Commit, Closed
<1>1. \A l \in Lines : EndedRow(line[l], line'[l], t, TRUE)
  BY <1>0, Tables, Released
<1>2. \A o \in Orders : EndedRow(heard[o], heard'[o], t, TRUE)
  BY <1>0, Tables, Released
<1>3. \A e \in Events : EndedRow(claim[e], claim'[e], t, TRUE)
  BY <1>0, Tables, Released
<1>4. \A r \in Rows : EndedRow(stock[r], stock'[r], t, TRUE)
  BY <1>0, Tables, Released
<1>5. found \in [Txs -> SUBSET Rows]
  BY DEF TypeOK
<1>6. QED
  BY <1>0, <1>1, <1>2, <1>3, <1>4, <1>5, Tables DEF Ended

-----------------------------------------------------------------------------
(* Nothing is received before the shipment is known.  Once the event of a  *)
(* shipment is claimed the shipment is there, the claim stays, and only    *)
(* the handler that made it moves the order to SHIPPED.                    *)

Known ==
    /\ \A o \in Orders :
        /\ heard[o].com => heard[o].cur
        /\ heard[o].cur \/ told[o] > 0 => o \in shipped
    /\ \A l \in Lines : line[l].com > 0 \/ line[l].cur > 0 => OrderOf[l] \in shipped

Receives(t) ==
    tx[t].op = "receive" =>
        /\ tx[t].order \in shipped /\ heard[tx[t].order].com
        /\ \A k \in DOMAIN tx[t].work : OrderOf[tx[t].work[k].line] = tx[t].order

Hears(t) ==
    tx[t].op = "shipped" => heard[tx[t].order].by = t /\ heard[tx[t].order].cur

ShipmentFirst ==
    ReceivedOnlyIfShipped /\ Known /\ \A t \in Txs : Receives(t) /\ Hears(t)

AfterShipped == {"SHIPPED", "PARTIALLY_RECEIVED", "RECEIVED"}

LEMMA EndKeepsFirst ==
    ASSUME TypeOK, ShipmentFirst, NEW t \in Txs, NEW ok \in BOOLEAN, Ended(t, ok),
           shipped \subseteq shipped',
           \A o \in Orders : told'[o] > 0 => told[o] > 0 \/ o \in shipped',
           \A o \in Orders : status'[o] \in AfterShipped =>
               status[o] \in AfterShipped \/ (o \in shipped' /\ heard'[o].com)
    PROVE  ShipmentFirst'
<1>1. NoTx \notin Txs /\ tx'[t].op = "idle"
  BY NullsAssumption DEF Ended, Idle, Begun
<1>2. ASSUME NEW o \in Orders
      PROVE  /\ heard[o].com => heard'[o].com
             /\ heard'[o].com => heard'[o].cur
             /\ heard'[o].cur => o \in shipped'
  <2>1. EndedRow(heard[o], heard'[o], t, ok)
    BY DEF Ended
  <2>2. (heard[o].com => heard[o].cur) /\ (heard[o].cur => o \in shipped)
    BY DEF ShipmentFirst, Known
  <2>3. QED
    BY <2>1, <2>2 DEF EndedRow
<1>3. ASSUME NEW l \in Lines
      PROVE  line'[l].com > 0 \/ line'[l].cur > 0 => OrderOf[l] \in shipped'
  <2>1. EndedRow(line[l], line'[l], t, ok)
    BY DEF Ended
  <2>2. line[l].com > 0 \/ line[l].cur > 0 => OrderOf[l] \in shipped
    BY DEF ShipmentFirst, Known
  <2>3. QED
    BY <2>1, <2>2 DEF EndedRow
<1>4. Known'
  BY <1>2, <1>3 DEF ShipmentFirst, Known
<1>5. ReceivedOnlyIfShipped'
  BY <1>2, <1>3 DEF ShipmentFirst, ReceivedOnlyIfShipped, AfterShipped
<1>6. ASSUME NEW u \in Txs
      PROVE  Receives(u)' /\ Hears(u)'
  <2>1. CASE u = t
    BY <1>1, <2>1 DEF Receives, Hears
  <2>2. CASE u # t
    <3>1. tx'[u] = tx[u] /\ tx[u] \in TxRecords /\ Receives(u) /\ Hears(u)
      BY <2>2, Tables DEF Ended, ShipmentFirst
    <3>2. tx[u].op \in {"receive", "shipped"} => tx[u].order \in Orders
      BY <3>1 DEF TxRecords
    <3>3. Receives(u)'
      BY <1>2, <3>1, <3>2 DEF Receives
    <3>4. ASSUME tx[u].op = "shipped"
          PROVE  heard'[tx[u].order] = heard[tx[u].order]
      BY <2>2, <3>1, <3>2, <3>4 DEF Hears, Ended, EndedRow
    <3>5. Hears(u)'
      BY <3>1, <3>4 DEF Hears
    <3>6. QED
      BY <3>3, <3>5
  <2>3. QED
    BY <2>1, <2>2
<1>7. QED
  BY <1>4, <1>5, <1>6 DEF ShipmentFirst

LEMMA WorkKeepsFirst ==
    ASSUME TypeOK, ShipmentFirst, NEW t \in Txs, Worked(t), UNCHANGED <<status, shipped>>,
           \A o \in Orders : told'[o] > 0 => told[o] > 0,
           \A o \in Orders : heard'[o] = heard[o] \/ (heard'[o].cur /\ o \in shipped),
           \A l \in Lines : line'[l] = line[l] \/ OrderOf[l] \in shipped,
           Receives(t)', Hears(t)'
    PROVE  ShipmentFirst'
<1>1. NoTx \notin Txs
  BY NullsAssumption
<1>2. ASSUME NEW o \in Orders
      PROVE  /\ heard[o].com => heard'[o].com
             /\ heard'[o].com => heard'[o].cur
             /\ heard'[o].cur => o \in shipped
  <2>1. WrittenRow(heard[o], heard'[o], t)
    BY DEF Worked
  <2>2. (heard[o].com => heard[o].cur) /\ (heard[o].cur => o \in shipped)
    BY DEF ShipmentFirst, Known
  <2>3. QED
    BY <2>1, <2>2 DEF WrittenRow
<1>3. ASSUME NEW l \in Lines
      PROVE  line'[l].com > 0 \/ line'[l].cur > 0 => OrderOf[l] \in shipped
  BY DEF ShipmentFirst, Known
<1>4. Known'
  BY <1>2, <1>3 DEF ShipmentFirst, Known
<1>5. ReceivedOnlyIfShipped'
  BY <1>2, <1>3 DEF ShipmentFirst, ReceivedOnlyIfShipped
<1>6. ASSUME NEW u \in Txs
      PROVE  Receives(u)' /\ Hears(u)'
  <2>1. CASE u = t
    BY <2>1
  <2>2. CASE u # t
    <3>1. tx'[u] = tx[u] /\ tx[u] \in TxRecords /\ Receives(u) /\ Hears(u)
      BY <2>2, Tables DEF Worked, ShipmentFirst
    <3>2. tx[u].op \in {"receive", "shipped"} => tx[u].order \in Orders
      BY <3>1 DEF TxRecords
    <3>3. Receives(u)'
      BY <1>2, <3>1, <3>2 DEF Receives
    <3>4. ASSUME tx[u].op = "shipped"
          PROVE  heard'[tx[u].order] = heard[tx[u].order]
      BY <1>1, <2>2, <3>1, <3>2, <3>4 DEF Hears, Worked, WrittenRow
    <3>5. Hears(u)'
      BY <3>1, <3>4 DEF Hears
    <3>6. QED
      BY <3>3, <3>5
  <2>3. QED
    BY <2>1, <2>2
<1>7. QED
  BY <1>4, <1>5, <1>6 DEF ShipmentFirst

\* A step that reads and writes no row.
LEMMA ReadsOnly ==
    ASSUME TypeOK, NEW t \in Txs, NEW r, tx' = [tx EXCEPT ![t] = r],
           \A u \in Txs \ {t} : found'[u] = found[u],
           UNCHANGED <<line, heard, claim, stock, sent>>
    PROVE  Worked(t) /\ tx'[t] = r
BY Tables DEF Worked, WrittenRow

\* A row that t may write, and did.
LEMMA RowWritten ==
    ASSUME NEW K, NEW V, NEW table \in [K -> RowOf(V, Txs)], NEW k \in K,
           NEW t \in Txs, NEW v, Free(table[k], t)
    PROVE  LET new == [table EXCEPT ![k] = Put(@, t, v)]
           IN  /\ \A j \in K : WrittenRow(table[j], new[j], t)
               /\ Wrote(table, new, K, k, v, t)
<1> DEFINE new == [table EXCEPT ![k] = Put(@, t, v)]
<1>1. Wrote(table, new, K, k, v, t)
  BY Written
<1>2. \A j \in K : j # k => WrittenRow(table[j], new[j], t)
  BY <1>1 DEF Wrote, WrittenRow
<1>3. WrittenRow(table[k], new[k], t)
  BY <1>1 DEF Wrote, WrittenRow, Free
<1>4. QED
  BY <1>1, <1>2, <1>3

LEMMA RequestKeepsFirst ==
    ASSUME TypeOK, ShipmentFirst, NEW t \in Txs, Request(t)
    PROVE  ShipmentFirst'
<1>1. UNCHANGED <<status, shipped, line, heard, claim, stock, told, sent, found>>
  BY DEF Request, ApproveRead, CancelRead, Begins, ShipRead, ReceiveRead, tables, busVars
<1>2. PICK o \in Orders : \/ ApproveRead(t, o) \/ CancelRead(t, o) \/ ShipRead(t, o)
                          \/ \E r \in Requests : ReceiveRead(t, o, r)
  BY DEF Request
<1>3. CASE ApproveRead(t, o) \/ CancelRead(t, o) \/ ShipRead(t, o)
  <2>1. PICK op \in {"approve", "cancel", "ship"} :
          tx' = [tx EXCEPT ![t] = Begun(op, "commit", o, 0, <<>>)]
    BY <1>3 DEF ApproveRead, CancelRead, Begins, ShipRead
  <2>2. Worked(t) /\ tx'[t] = Begun(op, "commit", o, 0, <<>>)
    BY <1>1, <2>1, ReadsOnly
  <2>3. Receives(t)' /\ Hears(t)'
    BY <2>2 DEF Receives, Hears, Begun
  <2>4. QED
    BY <1>1, <2>2, <2>3, WorkKeepsFirst
<1>4. CASE \E r \in Requests : ReceiveRead(t, o, r)
  <2>1. PICK r \in Requests : ReceiveRead(t, o, r)
    BY <1>4
  <2>2. Worked(t) /\ tx'[t] = Begun("receive", "work", o, 0, r)
    BY <1>1, <2>1, ReadsOnly DEF ReceiveRead
  <2>3. status[o] \in {"SHIPPED", "PARTIALLY_RECEIVED"}
    BY <2>1 DEF ReceiveRead, ReceivableStatuses, RECEIVABLE_STATUSES
  <2>4. o \in shipped /\ heard[o].com
    BY <2>3 DEF ShipmentFirst, ReceivedOnlyIfShipped
  <2>5. \A k \in DOMAIN r : OrderOf[r[k].line] = o
    BY <2>1 DEF ReceiveRead, Fits
  <2>6. Receives(t)' /\ Hears(t)'
    BY <1>1, <2>2, <2>4, <2>5 DEF Receives, Hears, Begun
  <2>7. QED
    BY <1>1, <2>2, <2>6, WorkKeepsFirst
<1>5. QED
  BY <1>2, <1>3, <1>4

LEMMA ShippedReadKeepsFirst ==
    ASSUME TypeOK, ShipmentFirst, NEW t \in Txs, NEW o \in Orders, ShippedRead(t, o)
    PROVE  ShipmentFirst'
<1>1. UNCHANGED <<status, shipped, line, claim, stock, sent, found>> /\ tx[t] = Idle
  BY DEF ShippedRead
<1>2. told[o] \in Nat /\ told' = [told EXCEPT ![o] = @ - 1] /\ told \in [Orders -> Nat]
  BY DEF ShippedRead, TypeOK
<1>3. (\A q \in Orders : told'[q] > 0 => told[q] > 0) /\ o \in shipped
  <2>1. told[o] > 0 => o \in shipped
    BY DEF ShipmentFirst, Known
  <2>2. told[o] > 0
    BY DEF ShippedRead
  <2>3. QED
    BY <1>2, <2>1, <2>2
<1>4. CASE Sees(heard[o], t)
  <2>1. UNCHANGED <<heard, tx>>
    BY <1>4 DEF ShippedRead
  <2>2. Worked(t)
    BY <1>1, <2>1 DEF Worked, WrittenRow
  <2>3. Receives(t)' /\ Hears(t)'
    BY <1>1, <2>1 DEF Receives, Hears, Idle, Begun
  <2>4. QED
    BY <1>1, <1>3, <2>1, <2>2, <2>3, WorkKeepsFirst
<1>5. CASE ~Sees(heard[o], t)
  <2>1. PICK at : tx' = [tx EXCEPT ![t] = Begun("shipped", at, o, 0, <<>>)]
    BY <1>5 DEF ShippedRead
  <2>2. heard' = [heard EXCEPT ![o] = Put(@, t, TRUE)] /\ Free(heard[o], t)
    BY <1>5 DEF ShippedRead
  <2>3. /\ \A q \in Orders : WrittenRow(heard[q], heard'[q], t)
        /\ Wrote(heard, heard', Orders, o, TRUE, t)
    BY <2>2, Tables, RowWritten
  <2>4. tx'[t] = Begun("shipped", at, o, 0, <<>>) /\ \A u \in Txs \ {t} : tx'[u] = tx[u]
    BY <2>1, Tables
  <2>5. Worked(t)
    BY <1>1, <2>3, <2>4 DEF Worked, WrittenRow
  <2>6. heard'[o].by = t /\ heard'[o].cur
    BY <2>3, Zenon DEF Wrote
  <2>7. \A q \in Orders : heard'[q] = heard[q] \/ (heard'[q].cur /\ q \in shipped)
    BY <1>3, <2>3, <2>6, Zenon DEF Wrote
  <2>8. tx'[t].op = "shipped" /\ tx'[t].order = o
    BY <2>4 DEF Begun
  <2>9. Receives(t)' /\ Hears(t)'
    BY <2>6, <2>8 DEF Receives, Hears
  <2>10. QED
    BY <1>1, <1>3, <2>5, <2>7, <2>9, WorkKeepsFirst
<1>6. QED
  BY <1>4, <1>5

LEMMA ClaimKeepsFirst ==
    ASSUME TypeOK, ShipmentFirst, NEW t \in Txs, NEW e \in Events, Claim(t, e)
    PROVE  ShipmentFirst'
<1>1. UNCHANGED <<status, shipped, line, heard, stock, told, sent, found>> /\ tx[t] = Idle
  BY DEF Claim
<1>2. CASE Sees(claim[e], t)
  <2>1. UNCHANGED <<claim, tx>>
    BY <1>2 DEF Claim
  <2>2. Worked(t)
    BY <1>1, <2>1 DEF Worked, WrittenRow
  <2>3. Receives(t)' /\ Hears(t)'
    BY <1>1, <2>1 DEF Receives, Hears, Idle, Begun
  <2>4. QED
    BY <1>1, <2>2, <2>3, WorkKeepsFirst
<1>3. CASE ~Sees(claim[e], t)
  <2>1. /\ tx' = [tx EXCEPT ![t] = Begun("post", "work", NoOrder, e, sent[e])]
        /\ claim' = [claim EXCEPT ![e] = Put(@, t, TRUE)] /\ Free(claim[e], t)
    BY <1>3 DEF Claim
  <2>2. \A d \in Events : WrittenRow(claim[d], claim'[d], t)
    BY <2>1, Tables, RowWritten
  <2>3. tx'[t].op = "post" /\ \A u \in Txs \ {t} : tx'[u] = tx[u]
    BY <2>1, Tables DEF Begun
  <2>4. Worked(t)
    BY <1>1, <2>2, <2>3 DEF Worked, WrittenRow
  <2>5. Receives(t)' /\ Hears(t)'
    BY <2>3 DEF Receives, Hears
  <2>6. QED
    BY <1>1, <2>4, <2>5, WorkKeepsFirst
<1>4. QED
  BY <1>2, <1>3

\* A step of t that changes neither what it is nor what it works through.
SameTask(t) ==
    /\ tx'[t].op = tx[t].op /\ tx'[t].order = tx[t].order
    /\ tx'[t].event = tx[t].event /\ tx'[t].work = tx[t].work

LEMMA AdvancesTask ==
    ASSUME TypeOK, NEW t \in Txs, NEW then, tx' = [tx EXCEPT ![t] = Advanced(t, then)]
    PROVE  /\ SameTask(t) /\ \A u \in Txs \ {t} : tx'[u] = tx[u]
           /\ tx'[t].next = tx[t].next + 1
           /\ tx'[t].at = IF tx[t].next = Len(tx[t].work) THEN then ELSE "work"
           /\ tx[t].work \in Seq(Items) /\ tx[t].next \in Nat \ {0}
<1>1. tx[t] \in TxFields /\ tx'[t] = Advanced(t, then) /\ \A u \in Txs \ {t} : tx'[u] = tx[u]
  BY Tables DEF TxRecords
<1> DEFINE at == IF tx[t].next = Len(tx[t].work) THEN then ELSE "work"
           q == [tx[t] EXCEPT !.next = @ + 1]
<1>2. tx'[t] = [tx[t] EXCEPT !.next = @ + 1, !.at = at]
  BY <1>1 DEF Advanced
<1> HIDE DEF at
<1>3. /\ q.op = tx[t].op /\ q.order = tx[t].order /\ q.event = tx[t].event
      /\ q.work = tx[t].work /\ q.next = tx[t].next + 1
      /\ tx[t].work \in Seq(Items) /\ tx[t].next \in Nat \ {0}
  BY <1>1 DEF TxFields
<1>4. tx'[t] = [q EXCEPT !.at = at]
  BY <1>1, <1>2 DEF TxFields
<1>5. tx'[t].at = at /\ tx'[t].op = q.op /\ tx'[t].order = q.order
      /\ tx'[t].event = q.event /\ tx'[t].work = q.work /\ tx'[t].next = q.next
  <2>1. DOMAIN q = DOMAIN tx[t] /\ DOMAIN tx[t] = {"op", "at", "order", "event", "work", "next", "to"}
    BY <1>1 DEF TxFields
  <2> HIDE DEF q
  <2>2. QED
    BY <1>4, <2>1
<1>6. QED
  BY <1>1, <1>3, <1>5 DEF SameTask, at

LEMMA TaskKeepsFirst ==
    ASSUME TypeOK, ShipmentFirst, NEW t \in Txs, Worked(t), SameTask(t), tx[t].op # "shipped",
           UNCHANGED <<status, shipped, told, heard>>,
           \A l \in Lines : line'[l] = line[l] \/ OrderOf[l] \in shipped
    PROVE  ShipmentFirst'
<1>1. Receives(t)' /\ Hears(t)'
  BY DEF ShipmentFirst, Receives, Hears, SameTask
<1>2. QED
  BY <1>1, WorkKeepsFirst

LEMMA ReceiveLineWorks ==
    ASSUME TypeOK, NEW t \in Txs, ReceiveLine(t)
    PROVE  /\ Worked(t) /\ SameTask(t) /\ Item(t).line \in Lines
           /\ Wrote(line, line', Lines, Item(t).line,
                    Sees(line[Item(t).line], t) + Item(t).qty, t)
           /\ UNCHANGED <<status, shipped, told, heard, claim, stock, sent, found>>
<1>1. Item(t).line \in Lines
  BY AtWork DEF ReceiveLine
<1> DEFINE l == Item(t).line
           v == Sees(line[l], t) + Item(t).qty
<1>2. line' = [line EXCEPT ![l] = Put(@, t, v)] /\ Free(line[l], t)
  BY DEF ReceiveLine
<1> HIDE DEF v
<1>3. (\A j \in Lines : WrittenRow(line[j], line'[j], t)) /\ Wrote(line, line', Lines, l, v, t)
  BY <1>1, <1>2, Tables, RowWritten
<1>4. SameTask(t) /\ \A u \in Txs \ {t} : tx'[u] = tx[u]
  BY AdvancesTask DEF ReceiveLine
<1>5. UNCHANGED <<status, shipped, told, heard, claim, stock, sent, found>>
  BY DEF ReceiveLine, busVars
<1>6. Worked(t)
  BY <1>3, <1>4, <1>5 DEF Worked, WrittenRow
<1>7. QED
  BY <1>1, <1>3, <1>4, <1>5, <1>6 DEF v

LEMMA ReceiveLineKeepsFirst ==
    ASSUME TypeOK, ShipmentFirst, NEW t \in Txs, ReceiveLine(t)
    PROVE  ShipmentFirst'
<1>1. tx[t].op = "receive" /\ tx[t].next \in DOMAIN tx[t].work
  <2>1. tx[t].op = "receive" /\ tx[t].at = "work" /\ tx[t] \in TxRecords
    BY Tables DEF ReceiveLine, At
  <2>2. tx[t].next \in 1 .. Len(tx[t].work) /\ tx[t].work \in Seq(Items)
    BY <2>1, LenProperties DEF TxRecords, TxFields
  <2>3. QED
    BY <2>1, <2>2, LenProperties
<1>2. OrderOf[Item(t).line] \in shipped
  BY <1>1 DEF ShipmentFirst, Receives, Item
<1>3. /\ Worked(t) /\ SameTask(t) /\ UNCHANGED <<status, shipped, told, heard>>
      /\ \A l \in Lines : l # Item(t).line => line'[l] = line[l]
  BY ReceiveLineWorks DEF Wrote
<1>4. QED
  BY <1>1, <1>2, <1>3, TaskKeepsFirst

LEMMA ReceiveDecideWorks ==
    ASSUME TypeOK, NEW t \in Txs, ReceiveDecide(t)
    PROVE  /\ Worked(t) /\ SameTask(t)
           /\ tx'[t].at = "commit" /\ tx'[t].next = tx[t].next
           /\ UNCHANGED <<status, shipped, told, line, heard, claim, stock, sent, found>>
<1>1. UNCHANGED <<status, shipped, told, line, heard, claim, stock, sent, found>>
  BY DEF ReceiveDecide, tables, busVars
<1>2. tx[t] \in TxFields
  BY Tables DEF TxRecords
<1>3. PICK to : tx' = [tx EXCEPT ![t] = [tx[t] EXCEPT !.at = "commit", !.to = to]]
  BY Tables DEF ReceiveDecide
<1>4. Worked(t) /\ tx'[t] = [tx[t] EXCEPT !.at = "commit", !.to = to]
  BY <1>1, <1>3, ReadsOnly
<1>5. QED
  BY <1>1, <1>2, <1>4 DEF SameTask, TxFields

\* What the handler of po.received finds, ...
LEMMA PostFindWorks ==
    ASSUME TypeOK, NEW t \in Txs, PostFind(t)
    PROVE  /\ Worked(t) /\ SameTask(t) /\ tx'[t].at = "write"
           /\ tx'[t].next = tx[t].next /\ Item(t)' = Item(t)
           /\ UNCHANGED <<status, shipped, told, line, heard, claim, stock, sent>>
           /\ \A r \in found'[t] : r[1] = ProductOf[Item(t).line] /\ Sees(stock[r], t).there
           /\ found'[t] = {} =>
                 \A u \in Txs : ~Sees(stock[<<ProductOf[Item(t).line], u>>], t).there
<1> DEFINE p == ProductOf[Item(t).line]
           visible == {r \in {p} \X Txs : Sees(stock[r], t).there}
<1>1. UNCHANGED <<status, shipped, told, line, heard, claim, stock, sent>>
  BY DEF PostFind, tables, busVars
<1>2. tx[t] \in TxFields
  BY Tables DEF TxRecords
<1>3. tx' = [tx EXCEPT ![t] = [tx[t] EXCEPT !.at = "write"]]
  BY Tables DEF PostFind
<1>4. PICK f \in IF visible = {} THEN {{}} ELSE {{x} : x \in visible} :
        found' = [found EXCEPT ![t] = f]
  BY DEF PostFind
<1>5. found'[t] = f /\ \A u \in Txs \ {t} : found'[u] = found[u]
  BY <1>4 DEF TypeOK
<1>6. Worked(t) /\ tx'[t] = [tx[t] EXCEPT !.at = "write"]
  BY <1>1, <1>3, <1>5, ReadsOnly
<1>7. /\ SameTask(t) /\ tx'[t].at = "write" /\ tx'[t].next = tx[t].next
      /\ Item(t)' = Item(t)
  BY <1>2, <1>6 DEF SameTask, TxFields, Item
<1>8. \A r \in f : r \in visible
  BY <1>4
<1>9. f = {} => visible = {}
  BY <1>4
<1>10. \A r \in found'[t] : r[1] = p /\ Sees(stock[r], t).there
  BY <1>5, <1>8
<1>11. found'[t] = {} => \A u \in Txs : ~Sees(stock[<<p, u>>], t).there
  BY <1>5, <1>9
<1>12. QED
  BY <1>1, <1>6, <1>7, <1>10, <1>11

-----------------------------------------------------------------------------
(* The discipline by which transactions take rows.  A handler has claimed  *)
(* the event whose payload it posts; it finds a stock row that is there    *)
(* and stays, or inserts the one of the product that only it can insert.   *)

Locks(t) ==
    /\ \A l \in Lines : line[l].by = t => tx[t].op = "receive"
    /\ \A r \in Rows : stock[r].by = t => tx[t].op = "post"
    /\ \A e \in Events : claim[e].by = t => tx[t].op = "post" /\ tx[t].event = e

Finishes(t) ==
    /\ tx[t].op = "receive" => tx[t].at \in {"work", "decide", "commit"}
    /\ tx[t].op \in {"receive", "post"} /\ tx[t].at \in {"decide", "commit"} =>
           tx[t].next = Len(tx[t].work) + 1

Posts(t) ==
    tx[t].op = "post" =>
        /\ tx[t].event \in Events /\ tx[t].work = sent[tx[t].event]
        /\ claim[tx[t].event].by = t
        /\ claim[tx[t].event].cur /\ ~claim[tx[t].event].com

OwnRow(t) == <<ProductOf[Item(t).line], t>>

Finds(t) ==
    /\ \A r \in found[t] : Sees(stock[r], t).there
    /\ At(t, "post", "write") =>
        /\ \A r \in found[t] : r[1] = ProductOf[Item(t).line]
        /\ found[t] = {} => ~Sees(stock[OwnRow(t)], t).there

Claimed == {e \in Events : claim[e].com}

StockRows ==
    \A r \in Rows :
        /\ stock[r].com.there => stock[r].cur.there
        /\ stock[r].by # NoTx => stock[r].cur.there
        /\ ~stock[r].com.there => stock[r].com.onHand = 0 /\ stock[r].by \in {NoTx, r[2]}

Own(t) == Locks(t) /\ Finishes(t) /\ Posts(t) /\ Finds(t)

Discipline ==
    StockRows /\ (\A e \in Claimed : sent[e] # <<>>) /\ \A t \in Txs : Own(t)

KeptFor(u) ==
    /\ tx'[u] = tx[u] /\ found'[u] = found[u]
    /\ \A l \in Lines : line[l].by = u \/ line'[l].by = u => line'[l] = line[l]
    /\ \A e \in Events : claim[e].by = u \/ claim'[e].by = u => claim'[e] = claim[e]
    /\ \A r \in Rows : /\ stock[r].by = u \/ stock'[r].by = u => stock'[r] = stock[r]
                       /\ stock[r].com.there => stock'[r].com.there
                       /\ r[2] = u /\ ~stock[r].com.there => stock'[r] = stock[r]
    /\ \A e \in Events : sent[e] # <<>> => sent'[e] = sent[e]

\* What a handler that is to write works on.
LEMMA AtWrite ==
    ASSUME TypeOK, NEW u \in Txs, At(u, "post", "write")
    PROVE  OwnRow(u) \in Rows /\ OwnRow(u)[2] = u
BY AtWork DEF OwnRow, Rows

LEMMA OwnIsKept ==
    ASSUME TypeOK, NEW u \in Txs, Own(u), KeptFor(u)
    PROVE  Own(u)'
<1>1. tx'[u] = tx[u] /\ found'[u] = found[u] /\ found[u] \subseteq Rows
  BY DEF KeptFor, TypeOK
<1>2. Locks(u)'
  BY DEF Own, Locks, KeptFor, Events, Rows
<1>3. Finishes(u)'
  BY <1>1 DEF Own, Finishes
<1>4. ASSUME tx[u].op = "post"
      PROVE  Posts(u)'
  <2>1. /\ tx[u].event \in Events /\ tx[u].work = sent[tx[u].event] /\ tx[u].work # <<>>
        /\ claim[tx[u].event].by = u
    BY <1>4, Tables DEF Own, Posts, TxRecords
  <2>2. claim[tx[u].event].cur /\ ~claim[tx[u].event].com
    BY <1>4, Zenon DEF Own, Posts
  <2>3. claim'[tx[u].event] = claim[tx[u].event] /\ sent'[tx[u].event] = sent[tx[u].event]
    BY <2>1 DEF KeptFor
  <2>4. tx'[u].event \in Events' /\ tx'[u].work = sent'[tx'[u].event] /\ claim'[tx'[u].event].by = u
    BY <1>1, <2>1, <2>3 DEF Events
  <2>5. claim'[tx'[u].event].cur /\ ~claim'[tx'[u].event].com
    BY <1>1, <2>2, <2>3, Zenon
  <2>6. QED
    BY <2>4, <2>5, Zenon DEF Posts
<1>5. Posts(u)'
  BY <1>1, <1>4 DEF Posts
<1>6. ASSUME NEW r \in Rows
      PROVE  /\ Sees(stock[r], u).there => Sees(stock'[r], u).there
             /\ r[2] = u /\ ~Sees(stock[r], u).there => ~Sees(stock'[r], u).there
  <2>1. /\ stock[r].by = u \/ stock'[r].by = u => stock'[r] = stock[r]
        /\ stock[r].com.there => stock'[r].com.there
        /\ r[2] = u /\ ~stock[r].com.there => stock'[r] = stock[r]
    BY DEF KeptFor
  <2>2. CASE stock'[r] = stock[r]
    BY <2>2
  <2>3. CASE stock[r].by # u /\ stock'[r].by # u
    BY <2>1, <2>3 DEF Sees
  <2>4. QED
    BY <2>1, <2>2, <2>3
<1>7. Finds(u)'
  <2>1. \A r \in found'[u] : Sees(stock'[r], u).there
    BY <1>1, <1>6 DEF Own, Finds
  <2>2. ASSUME At(u, "post", "write")'
        PROVE  /\ \A r \in found'[u] : r[1] = ProductOf[Item(u)'.line]
               /\ found'[u] = {} => ~Sees(stock'[OwnRow(u)'], u).there
    <3>1. At(u, "post", "write") /\ Item(u)' = Item(u) /\ OwnRow(u)' = OwnRow(u)
      BY <1>1, <2>2 DEF At, Item, OwnRow
    <3>2. OwnRow(u) \in Rows /\ OwnRow(u)[2] = u
      BY <3>1, AtWrite
    <3>3. /\ \A r \in found[u] : r[1] = ProductOf[Item(u).line]
          /\ found[u] = {} => ~Sees(stock[OwnRow(u)], u).there
      BY <3>1 DEF Own, Finds
    <3>4. QED
      BY <1>1, <1>6, <3>1, <3>2, <3>3
  <2>3. QED
    BY <2>1, <2>2 DEF Finds
<1>8. QED
  BY <1>2, <1>3, <1>5, <1>7 DEF Own

\* The payloads once t has ended: as before, or one more, with t's work.
Told(t, ok) ==
    \A e \in Events :
        \/ sent'[e] = sent[e]
        \/ /\ ok /\ tx[t].op = "receive" /\ tx[t].at = "commit"
           /\ sent[e] = <<>> /\ sent'[e] = tx[t].work

LEMMA EndKeepsDiscipline ==
    ASSUME TypeOK, Discipline, NEW t \in Txs, NEW ok \in BOOLEAN, Ended(t, ok), Told(t, ok)
    PROVE  Discipline'
<1>1. /\ NoTx \notin Txs
      /\ tx'[t].op = "idle" /\ found'[t] = {}
      /\ Own(t)
  BY NullsAssumption DEF Ended, Idle, Begun, Discipline
<1>2. ASSUME NEW r \in Rows
      PROVE  /\ EndedRow(stock[r], stock'[r], t, ok)
             /\ stock[r].com.there => stock[r].cur.there
             /\ stock[r].by # NoTx => stock[r].cur.there
             /\ ~stock[r].com.there => stock[r].com.onHand = 0 /\ stock[r].by \in {NoTx, r[2]}
  BY DEF Ended, Discipline, StockRows
<1>3. StockRows'
  <2>1. ASSUME NEW r \in Rows
        PROVE  /\ stock'[r].com.there => stock'[r].cur.there
               /\ stock'[r].by # NoTx => stock'[r].cur.there
               /\ ~stock'[r].com.there =>
                      stock'[r].com.onHand = 0 /\ stock'[r].by \in {NoTx, r[2]}
    <3>1. CASE stock[r].by # t
      BY <1>2, <3>1 DEF EndedRow
    <3>2. CASE stock[r].by = t
      <4>1. /\ stock'[r].by = NoTx /\ stock'[r].cur = stock'[r].com
            /\ stock'[r].com = IF ok THEN stock[r].cur ELSE stock[r].com
        BY <1>2, <3>2 DEF EndedRow
      <4>2. CASE ok
        BY <1>1, <1>2, <3>2, <4>1, <4>2
      <4>3. CASE ~ok
        BY <1>2, <4>1, <4>3
      <4>4. QED
        BY <4>2, <4>3
    <3>3. QED
      BY <3>1, <3>2
  <2>2. QED
    BY <2>1 DEF StockRows, Rows
<1>4. ASSUME NEW r \in Rows, stock[r].com.there
      PROVE  stock'[r].com.there
  BY <1>2, <1>4 DEF EndedRow
<1>5. ASSUME NEW u \in Txs
      PROVE  Own(u)'
  <2>1. CASE u = t
    <3>1. /\ \A l \in Lines : line'[l].by # t
          /\ \A e \in Events' : claim'[e].by # t
          /\ \A r \in Rows' : stock'[r].by # t
      BY <1>1 DEF Ended, EndedRow, Events, Rows
    <3>2. QED
      BY <1>1, <2>1, <3>1 DEF Own, Locks, Finishes, Posts, Finds, At
  <2>2. CASE u # t
    <3>1. ASSUME NEW r \in Rows, r[2] = u, ~stock[r].com.there
          PROVE  stock'[r] = stock[r]
      BY <1>1, <1>2, <2>2, <3>1 DEF EndedRow
    <3>2. KeptFor(u)
      BY <1>1, <1>4, <2>2, <3>1 DEF Ended, EndedRow, Told, KeptFor
    <3>3. QED
      BY <3>2, OwnIsKept DEF Discipline
  <2>3. QED
    BY <2>1, <2>2
<1>6. ASSUME NEW e \in Events, claim'[e].com
      PROVE  sent'[e] # <<>>
  <2>1. EndedRow(claim[e], claim'[e], t, ok)
    BY DEF Ended
  <2>2. claim[e].com \/ claim[e].by = t
    BY <1>6, <2>1, Zenon DEF EndedRow
  <2>3. claim[e].com => sent[e] # <<>>
    BY DEF Discipline, Claimed
  <2>4. claim[e].by = t => sent[e] # <<>>
    <3>1. claim[e].by = t => tx[t].op = "post" /\ tx[t].event = e
      BY <1>1 DEF Own, Locks
    <3>2. tx[t].op = "post" => tx[t].work = sent[tx[t].event] /\ tx[t].work # <<>>
      BY <1>1, Tables DEF Own, Posts, TxRecords
    <3>3. QED
      BY <3>1, <3>2
  <2>5. sent[e] # <<>>
    BY <2>2, <2>3, <2>4
  <2>6. QED
    BY <2>5 DEF Told
<1>7. \A e \in Claimed' : sent'[e] # <<>>
  BY <1>6 DEF Claimed, Events
<1>8. QED
  BY <1>3, <1>5, <1>7 DEF Discipline

LEMMA WorkKeepsDiscipline ==
    ASSUME TypeOK, Discipline, NEW t \in Txs, Worked(t), StockRows', Own(t)'
    PROVE  Discipline'
<1>1. NoTx \notin Txs
  BY NullsAssumption
<1>2. ASSUME NEW u \in Txs
      PROVE  Own(u)'
  <2>1. CASE u = t
    BY <2>1
  <2>2. CASE u # t
    <3>1. ASSUME NEW r \in Rows
          PROVE  /\ stock[r].by = u \/ stock'[r].by = u => stock'[r] = stock[r]
                 /\ stock[r].com.there => stock'[r].com.there
                 /\ r[2] = u /\ ~stock[r].com.there => stock'[r] = stock[r]
      <4>1. WrittenRow(stock[r], stock'[r], t)
        BY DEF Worked
      <4>2. ~stock'[r].com.there => stock'[r].by \in {NoTx, r[2]}
        BY DEF StockRows, Rows
      <4>3. QED
        BY <1>1, <2>2, <4>1, <4>2 DEF WrittenRow
    <3>2. KeptFor(u)
      BY <1>1, <2>2, <3>1 DEF Worked, WrittenRow, KeptFor
    <3>3. QED
      BY <3>2, OwnIsKept DEF Discipline
  <2>3. QED
    BY <2>1, <2>2
<1>3. \A e \in Events : claim'[e].com = claim[e].com
  BY DEF Worked, WrittenRow
<1>4. \A e \in Claimed' : sent'[e] # <<>>
  BY <1>3 DEF Claimed, Events, Worked, Discipline
<1>5. QED
  BY <1>2, <1>4 DEF Discipline

LEMMA StockRowsStay ==
    ASSUME Discipline, UNCHANGED stock
    PROVE  StockRows'
BY DEF Discipline, StockRows, Rows

LEMMA OwnStays ==
    ASSUME NEW t \in Txs, Own(t), UNCHANGED <<line, claim, stock, sent, tx, found>>
    PROVE  Own(t)'
<1>1. Locks(t)'
  BY DEF Own, Locks, Events, Rows
<1>2. Finishes(t)'
  BY DEF Own, Finishes
<1>3. Posts(t)'
  BY DEF Own, Posts, Events
<1>4. Finds(t)'
  BY DEF Own, Finds, At, Item, OwnRow, Rows
<1>5. QED
  BY <1>1, <1>2, <1>3, <1>4 DEF Own

\* A transaction that has just begun, for another purpose than to post.
LEMMA BeginsOwn ==
    ASSUME TypeOK, Discipline, NEW t \in Txs, tx[t] = Idle,
           tx'[t].op # "post", tx'[t].at \in {"work", "write", "commit"},
           tx'[t].op = "receive" => tx'[t].at = "work",
           UNCHANGED <<line, claim, stock, found>>
    PROVE  Own(t)'
<1>1. /\ \A l \in Lines : line'[l].by # t
      /\ \A e \in Events' : claim'[e].by # t
      /\ \A r \in Rows' : stock'[r].by # t
  BY DEF Discipline, Own, Locks, Idle, Begun, Events, Rows
<1>2. Finishes(t)' /\ Posts(t)'
  BY DEF Finishes, Posts
<1>3. Locks(t)'
  BY <1>1 DEF Locks
<1>4. Finds(t)'
  BY DEF Discipline, Own, Finds, At
<1>5. QED
  BY <1>2, <1>3, <1>4 DEF Own

LEMMA RequestKeepsDiscipline ==
    ASSUME TypeOK, Discipline, NEW t \in Txs, Request(t)
    PROVE  Worked(t) /\ Discipline'
<1>1. UNCHANGED <<line, heard, claim, stock, sent, found>> /\ tx[t] = Idle
  BY DEF Request, ApproveRead, CancelRead, Begins, ShipRead, ReceiveRead, tables, busVars
<1>0. PICK op \in {"approve", "cancel", "ship", "receive"} :
        LET at == IF op = "receive" THEN "work" ELSE "commit"
        IN  \E o, w : tx' = [tx EXCEPT ![t] = Begun(op, at, o, 0, w)]
  <2>1. PICK o \in Orders : \/ ApproveRead(t, o) \/ CancelRead(t, o) \/ ShipRead(t, o)
                            \/ \E r \in Requests : ReceiveRead(t, o, r)
    BY DEF Request
  <2>2. CASE ApproveRead(t, o) \/ CancelRead(t, o) \/ ShipRead(t, o)
    BY <2>2 DEF ApproveRead, CancelRead, Begins, ShipRead
  <2>3. CASE \E r \in Requests : ReceiveRead(t, o, r)
    BY <2>3 DEF ReceiveRead
  <2>4. QED
    BY <2>1, <2>2, <2>3
<1> DEFINE at == IF op = "receive" THEN "work" ELSE "commit"
<1>2. PICK o, w : tx' = [tx EXCEPT ![t] = Begun(op, at, o, 0, w)]
  BY <1>0
<1>3. Worked(t) /\ tx'[t] = Begun(op, at, o, 0, w)
  BY <1>1, <1>2, ReadsOnly
<1>4. Own(t)'
  <2>1. tx'[t].op = op /\ tx'[t].at = at
    BY <1>3 DEF Begun
  <2>2. QED
    BY <1>1, <1>2, <2>1, BeginsOwn
<1>5. QED
  BY <1>1, <1>3, <1>4, StockRowsStay, WorkKeepsDiscipline

LEMMA ShippedReadKeepsDiscipline ==
    ASSUME TypeOK, Discipline, NEW t \in Txs, NEW o \in Orders, ShippedRead(t, o)
    PROVE  Worked(t) /\ Discipline'
<1>1. UNCHANGED <<line, claim, stock, sent, found>> /\ tx[t] = Idle /\ Free(heard[o], t)
  BY DEF ShippedRead
<1>2. CASE UNCHANGED <<heard, tx>>
  <2>1. Worked(t)
    BY <1>1, <1>2 DEF Worked, WrittenRow
  <2>2. Own(t)'
    BY <1>1, <1>2, OwnStays DEF Discipline
  <2>3. QED
    BY <1>1, <2>1, <2>2, StockRowsStay, WorkKeepsDiscipline
<1>3. CASE /\ heard' = [heard EXCEPT ![o] = Put(@, t, TRUE)]
           /\ \E at \in {"write", "commit"} :
                tx' = [tx EXCEPT ![t] = Begun("shipped", at, o, 0, <<>>)]
  <2>1. PICK at \in {"write", "commit"} :
          tx' = [tx EXCEPT ![t] = Begun("shipped", at, o, 0, <<>>)]
    BY <1>3
  <2>2. \A q \in Orders : WrittenRow(heard[q], heard'[q], t)
    BY <1>1, <1>3, Tables, RowWritten
  <2>3. tx'[t] = Begun("shipped", at, o, 0, <<>>) /\ \A u \in Txs \ {t} : tx'[u] = tx[u]
    BY <2>1, Tables
  <2>4. Worked(t)
    BY <1>1, <2>2, <2>3 DEF Worked, WrittenRow
  <2>5. tx'[t].op = "shipped" /\ tx'[t].at = at
    BY <2>3 DEF Begun
  <2>6. Own(t)'
    BY <1>1, <2>5, BeginsOwn
  <2>7. QED
    BY <1>1, <2>4, <2>6, StockRowsStay, WorkKeepsDiscipline
<1>4. QED
  BY <1>2, <1>3 DEF ShippedRead

LEMMA ClaimKeepsDiscipline ==
    ASSUME TypeOK, Discipline, NEW t \in Txs, NEW e \in Events, Claim(t, e)
    PROVE  Worked(t) /\ Discipline'
<1>1. UNCHANGED <<line, heard, stock, sent, found>> /\ tx[t] = Idle /\ Free(claim[e], t)
  BY DEF Claim
<1>2. CASE UNCHANGED <<claim, tx>>
  <2>1. Worked(t)
    BY <1>1, <1>2 DEF Worked, WrittenRow
  <2>2. Own(t)'
    BY <1>1, <1>2, OwnStays DEF Discipline
  <2>3. QED
    BY <1>1, <2>1, <2>2, StockRowsStay, WorkKeepsDiscipline
<1>3. CASE /\ ~Sees(claim[e], t)
           /\ claim' = [claim EXCEPT ![e] = Put(@, t, TRUE)]
           /\ tx' = [tx EXCEPT ![t] = Begun("post", "work", NoOrder, e, sent[e])]
  <2>1. /\ \A d \in Events : WrittenRow(claim[d], claim'[d], t)
        /\ Wrote(claim, claim', Events, e, TRUE, t)
    BY <1>1, <1>3, Tables, RowWritten
  <2>2. /\ tx'[t] = Begun("post", "work", NoOrder, e, sent[e])
        /\ \A u \in Txs \ {t} : tx'[u] = tx[u]
    BY <1>3, Tables
  <2>3. Worked(t)
    BY <1>1, <2>1, <2>2 DEF Worked, WrittenRow
  <2>4. /\ tx'[t].op = "post" /\ tx'[t].at = "work" /\ tx'[t].event = e
        /\ tx'[t].work = sent[e]
    BY <2>2 DEF Begun
  <2>5. /\ \A l \in Lines : line[l].by # t
        /\ \A d \in Events : claim[d].by # t
        /\ \A r \in Rows : stock[r].by # t
    BY <1>1 DEF Discipline, Own, Locks, Idle, Begun
  <2>6. Locks(t)'
    <3>1. \A d \in Events : claim'[d].by = t => d = e
      BY <2>1, <2>5 DEF Wrote
    <3>2. QED
      BY <1>1, <2>4, <2>5, <3>1 DEF Locks, Events, Rows
  <2>7. Finishes(t)'
    BY <2>4 DEF Finishes
  <2>8. Posts(t)'
    <3>1. claim'[e].by = t
      BY <2>1 DEF Wrote
    <3>2. claim'[e].com = claim[e].com
      BY <2>1 DEF Wrote
    <3>3. ~claim'[e].com
      <4>1. Sees(claim[e], t) = claim[e].com
        BY <2>5 DEF Sees
      <4>2. QED
        BY <1>3, <3>2, <4>1, Zenon
    <3>4. claim'[e].cur
      BY <2>1, Zenon DEF Wrote
    <3>5. tx'[t].event \in Events' /\ tx'[t].work = sent'[tx'[t].event]
      BY <1>1, <2>4 DEF Events
    <3>6. QED
      BY <2>4, <3>1, <3>3, <3>4, <3>5, Zenon DEF Posts
  <2>9. Finds(t)'
    BY <1>1, <2>4 DEF Discipline, Own, Finds, At
  <2>10. Own(t)'
    BY <2>6, <2>7, <2>8, <2>9 DEF Own
  <2>11. QED
    BY <1>1, <2>3, <2>10, StockRowsStay, WorkKeepsDiscipline
<1>4. QED
  BY <1>2, <1>3 DEF Claim

\* A step that moves t on, over rows it may write.
LEMMA GoesOnOwn ==
    ASSUME TypeOK, Discipline, NEW t \in Txs, SameTask(t), UNCHANGED <<claim, sent>>,
           tx[t].op \in {"receive", "post"},
           \A l \in Lines : line'[l].by = t => line[l].by = t \/ tx[t].op = "receive",
           \A r \in Rows : stock'[r].by = t => stock[r].by = t \/ tx[t].op = "post"
    PROVE  Locks(t)' /\ Posts(t)'
<1>1. /\ Locks(t) /\ Posts(t)
      /\ tx'[t].op = tx[t].op /\ tx'[t].event = tx[t].event /\ tx'[t].work = tx[t].work
  BY DEF Discipline, Own, SameTask
<1>2. Locks(t)'
  BY <1>1 DEF Locks, Events, Rows
<1>3. Posts(t)'
  BY <1>1 DEF Posts, Events
<1>4. QED
  BY <1>2, <1>3

LEMMA ReceiveLineKeepsDiscipline ==
    ASSUME TypeOK, Discipline, NEW t \in Txs, ReceiveLine(t)
    PROVE  Worked(t) /\ Discipline'
<1>1. /\ Worked(t) /\ SameTask(t) /\ UNCHANGED <<claim, stock, sent, found>>
  BY ReceiveLineWorks
<1>2. tx[t].op = "receive"
  BY DEF ReceiveLine, At
<1>3. Locks(t)' /\ Posts(t)'
  BY <1>1, <1>2, GoesOnOwn
<1>4. Finishes(t)'
  <2>1. tx' = [tx EXCEPT ![t] = Advanced(t, "decide")]
    BY DEF ReceiveLine
  <2>2. /\ tx'[t].next = tx[t].next + 1 /\ tx'[t].work = tx[t].work
        /\ tx'[t].at = IF tx[t].next = Len(tx[t].work) THEN "decide" ELSE "work"
    BY <2>1, AdvancesTask DEF SameTask
  <2>3. QED
    BY <2>2 DEF Finishes
<1>5. Finds(t)'
  BY <1>1, <1>2 DEF Discipline, Own, Finds, At, SameTask
<1>6. Own(t)'
  BY <1>3, <1>4, <1>5 DEF Own
<1>7. QED
  BY <1>1, <1>6, StockRowsStay, WorkKeepsDiscipline

LEMMA ReceiveDecideKeepsDiscipline ==
    ASSUME TypeOK, Discipline, NEW t \in Txs, ReceiveDecide(t)
    PROVE  Worked(t) /\ Discipline'
<1>1. /\ Worked(t) /\ SameTask(t) /\ tx'[t].at = "commit" /\ tx'[t].next = tx[t].next
      /\ UNCHANGED <<line, claim, stock, sent, found>>
  BY ReceiveDecideWorks
<1>2. tx[t].op = "receive" /\ tx[t].at = "decide"
  BY DEF ReceiveDecide, At
<1>3. Locks(t)' /\ Posts(t)'
  BY <1>1, <1>2, GoesOnOwn
<1>4. Finishes(t)'
  BY <1>1, <1>2 DEF Discipline, Own, Finishes, SameTask
<1>5. Finds(t)'
  BY <1>1, <1>2 DEF Discipline, Own, Finds, At, SameTask
<1>6. Own(t)'
  BY <1>3, <1>4, <1>5 DEF Own
<1>7. QED
  BY <1>1, <1>6, StockRowsStay, WorkKeepsDiscipline

LEMMA PostFindKeepsDiscipline ==
    ASSUME TypeOK, Discipline, NEW t \in Txs, PostFind(t)
    PROVE  Worked(t) /\ Discipline'
<1>1. /\ Worked(t) /\ SameTask(t) /\ tx'[t].at = "write" /\ Item(t)' = Item(t)
      /\ UNCHANGED <<line, claim, stock, sent>>
  BY PostFindWorks
<1>2. tx[t].op = "post"
  BY DEF PostFind, At
<1>3. Locks(t)' /\ Posts(t)'
  BY <1>1, <1>2, GoesOnOwn
<1>4. Finishes(t)'
  BY <1>1, <1>2 DEF Finishes, SameTask
<1>5. Finds(t)'
  <2>1. \A r \in found'[t] : r[1] = ProductOf[Item(t)'.line] /\ Sees(stock'[r], t).there
    BY <1>1, PostFindWorks
  <2>2. found'[t] = {} => ~Sees(stock'[OwnRow(t)'], t).there
    BY <1>1, PostFindWorks DEF OwnRow
  <2>3. QED
    BY <2>1, <2>2 DEF Finds
<1>6. Own(t)'
  BY <1>3, <1>4, <1>5 DEF Own
<1>7. QED
  BY <1>1, <1>6, StockRowsStay, WorkKeepsDiscipline

\* ... and what writing its stock row does.
LEMMA PostWorks ==
    ASSUME TypeOK, NEW t \in Txs, At(t, "post", "write"), Posted(t), NEW r \in Rows,
           NEW v, Free(stock[r], t), stock' = [stock EXCEPT ![r] = Put(@, t, v)]
    PROVE  /\ Worked(t) /\ SameTask(t) /\ Wrote(stock, stock', Rows, r, v, t)
           /\ UNCHANGED <<status, shipped, told, line, heard, claim, sent, found>>
<1>1. /\ \A q \in Rows : WrittenRow(stock[q], stock'[q], t)
      /\ Wrote(stock, stock', Rows, r, v, t)
  BY Tables, RowWritten
<1>2. SameTask(t) /\ \A u \in Txs \ {t} : tx'[u] = tx[u]
  BY AdvancesTask DEF Posted
<1>3. UNCHANGED <<status, shipped, told, line, heard, claim, sent, found>>
  BY DEF Posted, busVars
<1>4. Worked(t)
  BY <1>1, <1>2, <1>3 DEF Worked, WrittenRow
<1>5. QED
  BY <1>1, <1>2, <1>3, <1>4

LEMMA PostKeepsDiscipline ==
    ASSUME TypeOK, Discipline, NEW t \in Txs, At(t, "post", "write"), Posted(t),
           NEW r \in Rows, NEW v \in Levels, v.there, Free(stock[r], t),
           stock[r].com.there \/ r[2] = t, Worked(t), SameTask(t),
           Wrote(stock, stock', Rows, r, v, t), UNCHANGED <<line, claim, sent, found>>
    PROVE  Discipline'
<1>1. NoTx \notin Txs /\ tx[t].op = "post"
  BY NullsAssumption DEF At
<1>2. StockRows'
  <2>1. ASSUME NEW q \in Rows
        PROVE  /\ stock'[q].com.there => stock'[q].cur.there
               /\ stock'[q].by # NoTx => stock'[q].cur.there
               /\ ~stock'[q].com.there =>
                      stock'[q].com.onHand = 0 /\ stock'[q].by \in {NoTx, q[2]}
    <3>1. /\ stock[q].com.there => stock[q].cur.there
          /\ stock[q].by # NoTx => stock[q].cur.there
          /\ ~stock[q].com.there => stock[q].com.onHand = 0 /\ stock[q].by \in {NoTx, q[2]}
      BY DEF Discipline, StockRows
    <3>2. CASE q # r
      BY <3>1, <3>2 DEF Wrote
    <3>3. CASE q = r
      <4>1. stock'[q].com = stock[q].com /\ stock'[q].cur = v /\ stock'[q].by = t
        BY <3>3 DEF Wrote
      <4>2. QED
        BY <3>1, <3>3, <4>1
    <3>4. QED
      BY <3>2, <3>3
  <2>2. QED
    BY <2>1 DEF StockRows, Rows
<1>3. Locks(t)' /\ Posts(t)'
  BY <1>1, GoesOnOwn
<1>4. /\ tx'[t].op = "post" /\ tx'[t].next = tx[t].next + 1
      /\ tx'[t].at = IF tx[t].next = Len(tx[t].work) THEN "commit" ELSE "work"
      /\ tx'[t].work = tx[t].work
  BY <1>1, AdvancesTask DEF Posted, SameTask
<1>5. Finishes(t)'
  BY <1>4 DEF Finishes
<1>6. Finds(t)'
  <2>1. ASSUME NEW q \in found[t]
        PROVE  Sees(stock'[q], t).there
    <3>1. q \in Rows /\ Sees(stock[q], t).there
      BY DEF Discipline, Own, Finds, TypeOK
    <3>2. CASE q = r
      BY <3>2 DEF Wrote, Sees
    <3>3. CASE q # r
      BY <3>1, <3>3 DEF Wrote
    <3>4. QED
      BY <3>2, <3>3
  <2>2. QED
    BY <1>4, <2>1 DEF Finds, At
<1>7. Own(t)'
  BY <1>3, <1>5, <1>6 DEF Own
<1>8. QED
  BY <1>2, <1>7, WorkKeepsDiscipline

\* The row a handler updates is there and is a row of the item's product.
LEMMA PostUpdateWorks ==
    ASSUME TypeOK, Discipline, NEW t \in Txs, PostUpdate(t)
    PROVE  \E r \in Rows, v \in Levels :
              /\ v.onHand = Sees(stock[r], t).onHand + Item(t).qty
              /\ r[1] = ProductOf[Item(t).line] /\ Wrote(stock, stock', Rows, r, v, t)
              /\ stock[r].by \in {NoTx, t}
              /\ Worked(t) /\ SameTask(t) /\ Discipline'
              /\ UNCHANGED <<status, shipped, told, line, heard, claim, sent, found>>
<1>1. PICK r \in Rows :
        LET v == [there |-> TRUE, onHand |-> Sees(stock[r], t).onHand + Item(t).qty]
        IN  /\ r \in found[t] /\ Free(stock[r], t) /\ v \in Levels
            /\ stock' = [stock EXCEPT ![r] = Put(@, t, v)]
  BY PostUpdateWrites
<1> DEFINE v == [there |-> TRUE, onHand |-> Sees(stock[r], t).onHand + Item(t).qty]
<1>2. v.there /\ v.onHand = Sees(stock[r], t).onHand + Item(t).qty
  OBVIOUS
<1>3. /\ r \in found[t] /\ Free(stock[r], t) /\ v \in Levels
      /\ stock' = [stock EXCEPT ![r] = Put(@, t, v)]
  BY <1>1
<1> HIDE DEF v
<1>4. At(t, "post", "write") /\ Posted(t)
  BY DEF PostUpdate
<1>5. /\ Worked(t) /\ SameTask(t) /\ Wrote(stock, stock', Rows, r, v, t)
      /\ UNCHANGED <<status, shipped, told, line, heard, claim, sent, found>>
  BY <1>3, <1>4, PostWorks
<1>6. r[1] = ProductOf[Item(t).line] /\ Sees(stock[r], t).there
  BY <1>3, <1>4 DEF Discipline, Own, Finds
<1>7. stock[r].com.there \/ r[2] = t
  <2>1. CASE stock[r].by = t
    <3>1. ~stock[r].com.there => stock[r].by \in {NoTx, r[2]}
      BY DEF Discipline, StockRows
    <3>2. QED
      BY <2>1, <3>1, NullsAssumption
  <2>2. CASE stock[r].by # t
    BY <1>6, <2>2 DEF Sees
  <2>3. QED
    BY <2>1, <2>2
<1>8. Discipline'
  BY <1>2, <1>3, <1>4, <1>5, <1>7, PostKeepsDiscipline
<1>9. QED
  BY <1>2, <1>3, <1>5, <1>6, <1>8 DEF Free

\* The row it inserts is not there, and nobody can hold it.
LEMMA PostInsertWorks ==
    ASSUME TypeOK, Discipline, NEW t \in Txs, PostInsert(t)
    PROVE  \E r \in Rows, v \in Levels :
              /\ v.onHand = Sees(stock[r], t).onHand + Item(t).qty
              /\ r[1] = ProductOf[Item(t).line] /\ Wrote(stock, stock', Rows, r, v, t)
              /\ stock[r].by \in {NoTx, t}
              /\ Worked(t) /\ SameTask(t) /\ Discipline'
              /\ UNCHANGED <<status, shipped, told, line, heard, claim, sent, found>>
<1> DEFINE r == OwnRow(t)
           v == [there |-> TRUE, onHand |-> Item(t).qty]
<1>1. r \in Rows /\ v \in Levels /\ stock' = [stock EXCEPT ![r] = Put(@, t, v)]
  BY PostInsertWrites DEF OwnRow
<1>2. v.there /\ v.onHand = Item(t).qty /\ Item(t).qty \in Nat
  BY AtWork DEF PostInsert
<1>3. r[1] = ProductOf[Item(t).line] /\ r[2] = t
  BY DEF OwnRow
<1> HIDE DEF v
<1>4. At(t, "post", "write") /\ Posted(t) /\ found[t] = {}
  BY DEF PostInsert
<1>5. ~Sees(stock[r], t).there
  BY <1>4 DEF Discipline, Own, Finds
<1> HIDE DEF r
<1>6. /\ stock[r].by # NoTx => stock[r].cur.there
      /\ ~stock[r].com.there => stock[r].com.onHand = 0 /\ stock[r].by \in {NoTx, r[2]}
  BY <1>1 DEF Discipline, StockRows
<1>7. stock[r].by = NoTx /\ Sees(stock[r], t).onHand = 0
  BY <1>3, <1>5, <1>6, NullsAssumption DEF Sees
<1>8. Free(stock[r], t)
  BY <1>7 DEF Free
<1>9. /\ Worked(t) /\ SameTask(t) /\ Wrote(stock, stock', Rows, r, v, t)
      /\ UNCHANGED <<status, shipped, told, line, heard, claim, sent, found>>
  BY <1>1, <1>4, <1>8, PostWorks
<1>10. Discipline'
  BY <1>1, <1>2, <1>3, <1>4, <1>8, <1>9, PostKeepsDiscipline
<1>11. QED
  BY <1>1, <1>2, <1>3, <1>7, <1>9, <1>10

\* Transactions that end.
Commits(t) ==
    \/ ApproveCommit(t) \/ CancelCommit(t) \/ ShipCommit(t) \/ ShippedCommit(t)
    \/ ReceiveCommit(t) \/ PostCommit(t)

LEMMA RollbackKeepsDiscipline ==
    ASSUME TypeOK, Discipline, NEW t \in Txs, Rollback(t)
    PROVE  Discipline'
<1>1. Ended(t, FALSE)
  BY RollbackEnds
<1>2. Told(t, FALSE)
  BY DEF Rollback, busVars, Told
<1>3. QED
  BY <1>1, <1>2, EndKeepsDiscipline

LEMMA CommitKeepsDiscipline ==
    ASSUME TypeOK, Discipline, NEW t \in Txs, Commits(t)
    PROVE  Ended(t, TRUE) /\ Discipline'
<1>1. Ended(t, TRUE)
  BY CommitEnds
     DEF Commits, ApproveCommit, CancelCommit, ShipCommit, ShippedCommit, ReceiveCommit, PostCommit
<1>2. Told(t, TRUE)
  <2>1. CASE ReceiveCommit(t)
    <3>1. PICK e \in Events : Emit(e, tx[t].work)
      BY <2>1 DEF ReceiveCommit
    <3>2. \A d \in Events : d # e => sent'[d] = sent[d]
      BY <3>1, Tables DEF Emit, TypeOK
    <3>3. sent[e] = <<>> /\ sent'[e] = tx[t].work
      BY <3>1 DEF Emit, TypeOK
    <3>4. tx[t].op = "receive" /\ tx[t].at = "commit"
      BY <2>1 DEF ReceiveCommit, At
    <3>5. QED
      BY <3>2, <3>3, <3>4 DEF Told
  <2>2. CASE ~ReceiveCommit(t)
    <3>1. sent' = sent
      BY <2>2 DEF Commits, ApproveCommit, CancelCommit, ShipCommit, ShippedCommit,
         PostCommit, busVars
    <3>2. QED
      BY <3>1 DEF Told
  <2>3. QED
    BY <2>1, <2>2
<1>3. QED
  BY <1>1, <1>2, EndKeepsDiscipline

LEMMA CrashKeepsDiscipline ==
    ASSUME TypeOK, Discipline, Crash
    PROVE  Discipline'
<1>1. NoTx \notin Txs
  BY NullsAssumption
<1>2. /\ \A l \in Lines : line'[l].by = NoTx
      /\ \A e \in Events : claim'[e].by = NoTx
  BY Tables, Rebooted DEF Crash
<1>3. \A e \in Events : claim'[e].com = claim[e].com
  BY Tables, Rebooted DEF Crash
<1>4. ASSUME NEW r \in Rows
      PROVE  /\ stock'[r].by = NoTx /\ stock'[r].com = stock[r].com
             /\ stock'[r].cur = stock[r].com
  BY Tables, Rebooted DEF Crash
<1>5. /\ \A t \in Txs : tx'[t].op = "idle" /\ found'[t] = {}
      /\ sent' = sent
  BY DEF Crash, Idle, Begun
<1>6. StockRows'
  <2>1. ASSUME NEW r \in Rows, ~stock[r].com.there
        PROVE  stock[r].com.onHand = 0
    BY <2>1 DEF Discipline, StockRows
  <2>2. QED
    BY <1>4, <2>1 DEF StockRows, Rows
<1>7. ASSUME NEW t \in Txs
      PROVE  Own(t)'
  <2>1. Locks(t)'
    BY <1>1, <1>2, <1>4 DEF Locks, Events, Rows
  <2>2. QED
    BY <1>5, <2>1 DEF Own, Finishes, Posts, Finds, At
<1>8. \A e \in Claimed' : sent'[e] # <<>>
  BY <1>3, <1>5 DEF Claimed, Events, Discipline
<1>9. QED
  BY <1>6, <1>7, <1>8 DEF Discipline

LEMMA InitDiscipline == Init => Discipline
<1>1. SUFFICES ASSUME Init PROVE Discipline
  OBVIOUS
<1>2. /\ NoTx \notin Txs
      /\ \A l \in Lines : line[l].by = NoTx
      /\ \A e \in Events : claim[e].by = NoTx
      /\ \A r \in Rows : stock[r].by = NoTx /\ stock[r].com = NoLevel /\ stock[r].cur = NoLevel
      /\ \A t \in Txs : tx[t].op = "idle" /\ found[t] = {}
  BY <1>1, NullsAssumption DEF Init, Row, Idle, Begun
<1>3. \A e \in Events : ~claim[e].com
  BY <1>1 DEF Init, Row
<1>4. StockRows
  BY <1>2 DEF StockRows, NoLevel
<1>5. \A t \in Txs : Own(t)
  BY <1>2 DEF Own, Locks, Finishes, Posts, Finds, At
<1>6. QED
  BY <1>3, <1>4, <1>5 DEF Discipline, Claimed

\* What a step of an open transaction is.
LEMMA ProceedIs ==
    ASSUME NEW t \in Txs, Proceed(t)
    PROVE  \/ Commits(t) \/ Rollback(t)
           \/ ReceiveLine(t) \/ ReceiveDecide(t)
           \/ PostFind(t) \/ PostUpdate(t) \/ PostInsert(t)
           \/ \E o \in Orders : ShippedRead(t, o)
           \/ \E e \in Events : Claim(t, e)
BY DEF Proceed, Commits, ShipReject, DeadlockVictim, Deliver

\* Transactions take rows in a disciplined way: what a handler posts it has
\* claimed, and nobody else can write the stock row it is about to insert.
THEOREM Disciplined == Spec => []Discipline
<1>1. ASSUME TypeOK, Discipline, [Next]_vars PROVE Discipline'
  <2>1. ASSUME UNCHANGED <<line, claim, stock, sent, tx, found>> PROVE Discipline'
    <3>1. StockRows'
      BY <1>1, <2>1, StockRowsStay
    <3>2. \A e \in Claimed' : sent'[e] # <<>>
      BY <1>1, <2>1 DEF Discipline, Claimed, Events
    <3>3. ASSUME NEW t \in Txs
          PROVE  Own(t)'
      BY <1>1, <2>1, OwnStays DEF Discipline
    <3>4. QED
      BY <3>1, <3>2, <3>3 DEF Discipline
  <2>2. CASE UNCHANGED vars
    BY <2>1, <2>2 DEF vars, tables, busVars
  <2>3. ASSUME NEW o \in Orders, Create(o) PROVE Discipline'
    BY <2>1, <2>3 DEF Create, tables, busVars
  <2>4. CASE Crash
    BY <1>1, <2>4, CrashKeepsDiscipline
  <2>5. ASSUME NEW t \in Txs, Request(t) \/ Proceed(t) \/ Abort(t) PROVE Discipline'
    BY <1>1, <2>5, ProceedIs, RequestKeepsDiscipline, ShippedReadKeepsDiscipline,
       ClaimKeepsDiscipline, ReceiveLineKeepsDiscipline, ReceiveDecideKeepsDiscipline,
       PostFindKeepsDiscipline, PostUpdateWorks, PostInsertWorks,
       RollbackKeepsDiscipline, CommitKeepsDiscipline DEF Abort
  <2>6. QED
    BY <1>1, <2>2, <2>3, <2>4, <2>5 DEF Next, Step
<1>2. QED
  BY <1>1, InitDiscipline, Typing, PTL DEF Spec

-----------------------------------------------------------------------------
(* The shipment comes first: the rest of the steps.                        *)

LEMMA PostKeepsFirst ==
    ASSUME TypeOK, ShipmentFirst, Discipline, NEW t \in Txs,
           PostFind(t) \/ PostUpdate(t) \/ PostInsert(t)
    PROVE  ShipmentFirst'
<1>1. /\ Worked(t) /\ SameTask(t)
      /\ UNCHANGED <<status, shipped, told, line, heard>>
  BY PostFindWorks, PostUpdateWorks, PostInsertWorks
<1>2. tx[t].op # "shipped"
  BY DEF PostFind, PostUpdate, PostInsert, At
<1>3. QED
  BY <1>1, <1>2, TaskKeepsFirst

LEMMA ReceiveDecideKeepsFirst ==
    ASSUME TypeOK, ShipmentFirst, NEW t \in Txs, ReceiveDecide(t)
    PROVE  ShipmentFirst'
<1>1. /\ Worked(t) /\ SameTask(t)
      /\ UNCHANGED <<status, shipped, told, line, heard>>
  BY ReceiveDecideWorks
<1>2. tx[t].op # "shipped"
  BY DEF ReceiveDecide, At
<1>3. QED
  BY <1>1, <1>2, TaskKeepsFirst

LEMMA CommitKeepsFirst ==
    ASSUME TypeOK, ShipmentFirst, NEW t \in Txs, Ended(t, TRUE), Commits(t)
    PROVE  ShipmentFirst'
<1>1. tx[t] \in TxRecords /\ tx[t] \in TxFields
  BY Tables DEF TxRecords
<1>2. tx[t].op \notin {"idle", "post"} => tx[t].order \in Orders
  BY <1>1 DEF TxRecords
<1>3. CASE ShipCommit(t)
  <2>1. /\ shipped' = shipped \cup {tx[t].order} /\ UNCHANGED status
        /\ told' = [told EXCEPT ![tx[t].order] = MaxDeliveries]
    BY <1>3 DEF ShipCommit
  <2>2. \A o \in Orders : told'[o] > 0 => told[o] > 0 \/ o \in shipped'
    BY <2>1 DEF TypeOK
  <2>3. QED
    BY <2>1, <2>2, EndKeepsFirst
<1>4. CASE ApproveCommit(t) \/ CancelCommit(t)
  <2>1. PICK s \in {"APPROVED", "CANCELLED"} :
          status' = [status EXCEPT ![tx[t].order] = s] /\ UNCHANGED <<shipped, told>>
    BY <1>4 DEF ApproveCommit, CancelCommit, SetsStatus, busVars
  <2>2. \A o \in Orders : status'[o] \in AfterShipped => status[o] \in AfterShipped
    BY <2>1 DEF TypeOK, AfterShipped
  <2>3. QED
    BY <2>1, <2>2, EndKeepsFirst
<1>5. CASE PostCommit(t)
  BY <1>5, EndKeepsFirst DEF PostCommit, busVars
<1>6. CASE ShippedCommit(t) \/ ReceiveCommit(t)
  <2>1. UNCHANGED <<shipped, told>>
    BY <1>6 DEF ShippedCommit, ReceiveCommit, busVars
  <2>2. tx[t].order \in Orders
    BY <1>2, <1>6 DEF ShippedCommit, ReceiveCommit, At
  <2>3. \A o \in Orders : status'[o] # status[o] => o = tx[t].order
    BY <1>6 DEF ShippedCommit, ReceiveCommit, SetsStatus, TypeOK
  <2>4. tx[t].order \in shipped /\ heard'[tx[t].order].com
    <3>1. EndedRow(heard[tx[t].order], heard'[tx[t].order], t, TRUE)
      BY <2>2 DEF Ended
    <3>2. /\ heard[tx[t].order].com => heard[tx[t].order].cur
          /\ heard[tx[t].order].cur => tx[t].order \in shipped
      BY <2>2 DEF ShipmentFirst, Known
    <3>3. CASE ReceiveCommit(t)
      <4>1. heard[tx[t].order].com
        BY <3>3 DEF ReceiveCommit, At, ShipmentFirst, Receives
      <4>2. QED
        BY <3>1, <3>2, <4>1 DEF EndedRow
    <3>4. CASE ShippedCommit(t)
      <4>1. heard[tx[t].order].by = t /\ heard[tx[t].order].cur
        BY <3>4 DEF ShippedCommit, ShipmentFirst, Hears
      <4>2. QED
        BY <3>1, <3>2, <4>1 DEF EndedRow
    <3>5. QED
      BY <1>6, <3>3, <3>4
  <2>5. \A o \in Orders : status'[o] \in AfterShipped =>
            status[o] \in AfterShipped \/ (o \in shipped' /\ heard'[o].com)
    BY <2>1, <2>3, <2>4
  <2>6. QED
    BY <2>1, <2>5, EndKeepsFirst
<1>7. QED
  BY <1>3, <1>4, <1>5, <1>6 DEF Commits

LEMMA RollbackKeepsFirst ==
    ASSUME TypeOK, ShipmentFirst, NEW t \in Txs, Rollback(t)
    PROVE  ShipmentFirst'
<1>1. Ended(t, FALSE)
  BY RollbackEnds
<1>2. UNCHANGED <<status, shipped, told>>
  BY DEF Rollback, busVars
<1>3. QED
  BY <1>1, <1>2, EndKeepsFirst

LEMMA CrashKeepsFirst ==
    ASSUME TypeOK, ShipmentFirst, Crash
    PROVE  ShipmentFirst'
<1>1. UNCHANGED <<status, shipped>> /\ \A o \in Orders : ~(told'[o] > 0)
  BY DEF Crash
<1>2. \A l \in Lines : line'[l].com = line[l].com /\ line'[l].cur = line[l].com
  BY Tables, Rebooted DEF Crash
<1>3. \A o \in Orders : heard'[o].com = heard[o].com /\ heard'[o].cur = heard[o].com
  BY Tables, Rebooted DEF Crash
<1>4. \A t \in Txs : tx'[t].op = "idle"
  BY DEF Crash, Idle, Begun
<1>5. ReceivedOnlyIfShipped'
  BY <1>1, <1>2, <1>3 DEF ShipmentFirst, ReceivedOnlyIfShipped, Known
<1>6. Known'
  BY <1>1, <1>2, <1>3 DEF ShipmentFirst, Known
<1>7. QED
  BY <1>4, <1>5, <1>6 DEF ShipmentFirst, Receives, Hears

\* The shipment stays first with every step.
LEMMA ShipmentIsFirst == Spec => []ShipmentFirst
<1>1. Init => ShipmentFirst
  <2>1. SUFFICES ASSUME Init PROVE ShipmentFirst
    OBVIOUS
  <2>2. /\ \A o \in Orders : status[o] = "NONE" /\ ~(told[o] > 0)
        /\ \A l \in Lines : ~(line[l].com > 0) /\ ~(line[l].cur > 0)
        /\ \A t \in Txs : tx[t].op = "idle"
    BY <2>1 DEF Init, Row, Idle, Begun
  <2>3. \A o \in Orders : ~heard[o].com /\ ~heard[o].cur
    BY <2>1 DEF Init, Row
  <2>4. QED
    BY <2>2, <2>3 DEF ShipmentFirst, ReceivedOnlyIfShipped, Known, Receives, Hears
<1>2. ASSUME TypeOK, Discipline, ShipmentFirst, [Next]_vars PROVE ShipmentFirst'
  <2>1. ASSUME UNCHANGED <<shipped, line, heard, told, tx>>,
               \A o \in Orders : status'[o] = status[o] \/ status'[o] = "DRAFT"
        PROVE  ShipmentFirst'
    BY <1>2, <2>1 DEF ShipmentFirst, ReceivedOnlyIfShipped, Known, Receives, Hears
  <2>2. CASE UNCHANGED vars
    BY <2>1, <2>2 DEF vars, tables, busVars
  <2>3. ASSUME NEW o \in Orders, Create(o) PROVE ShipmentFirst'
    <3>1. \A q \in Orders : status'[q] = status[q] \/ status'[q] = "DRAFT"
      BY <1>2, <2>3 DEF Create, TypeOK
    <3>2. QED
      BY <2>1, <2>3, <3>1 DEF Create, tables, busVars
  <2>4. CASE Crash
    BY <1>2, <2>4, CrashKeepsFirst
  <2>5. ASSUME NEW t \in Txs, Request(t) \/ Proceed(t) \/ Abort(t) PROVE ShipmentFirst'
    BY <1>2, <2>5, ProceedIs, RequestKeepsFirst, ShippedReadKeepsFirst, ClaimKeepsFirst,
       ReceiveLineKeepsFirst, ReceiveDecideKeepsFirst, PostKeepsFirst,
       RollbackKeepsFirst, CommitKeepsDiscipline, CommitKeepsFirst DEF Abort
  <2>6. QED
    BY <1>2, <2>2, <2>3, <2>4, <2>5 DEF Next, Step
<1>3. QED
  BY <1>1, <1>2, Typing, Disciplined, PTL DEF Spec

\* ADR 0004, for any orders, requests and connections, whatever is aborted,
\* repeated or lost: nothing is received of an order, not even by a
\* transaction that is still open, before it has a shipment, and its status
\* says so only once the handler of the shipment's event has committed.
THEOREM ShippedBeforeReceived == Spec => []ReceivedOnlyIfShipped
<1>1. ShipmentFirst => ReceivedOnlyIfShipped
  BY DEF ShipmentFirst
<1>2. QED
  BY <1>1, ShipmentIsFirst, PTL

-----------------------------------------------------------------------------
(* The ledger: the two equations of ReceiptsPostedOnce, and what an open   *)
(* transaction has added to its side of them so far.                       *)

Part(t, l) == Taken(tx[t].work, 1 .. (tx[t].next - 1), l)
PostedBy(t) == [l \in Lines |-> IF tx[t].op = "post" THEN Part(t, l) ELSE 0]
ReceivedBy(t, l) == IF tx[t].op = "receive" THEN Part(t, l) ELSE 0

ProductSum(F, p) == GroupSum(F, Lines, ProductOf, p)

\* What t has put on the shelves of p, in the rows it holds.
RowsOf(p) == {p} \X Txs
Gain(t, r) == IF stock[r].by = t THEN stock[r].cur.onHand - stock[r].com.onHand ELSE 0
Gained(t, p) == SumFunctionOnSet([r \in RowsOf(p) |-> Gain(t, r)], RowsOf(p))

Announced == [l \in Lines |-> EventSum(sent, Claimed, l)]

Received == \A l \in Lines : line[l].com = EventSum(sent, Events, l)
Stocked == \A p \in Products : OnHand(p) = ProductSum(Announced, p)

Moved(t) ==
    \A l \in Lines : IF line[l].by = t THEN line[l].cur = line[l].com + ReceivedBy(t, l)
                                       ELSE ReceivedBy(t, l) = 0
Balance(t) == \A p \in Products : Gained(t, p) = ProductSum(PostedBy(t), p)

Ledger == Received /\ Stocked /\ \A t \in Txs : Moved(t) /\ Balance(t)

\* A name, so that the facts below can be used without taking it apart.
Payloads == [Events -> Seq(Items)]

LEMMA ItemsAreNumbered == CountsUnits(Items)
BY DEF CountsUnits, Items

LEMMA PayloadType ==
    ASSUME NEW s \in Payloads, NEW l
    PROVE  \A e \in Events : /\ Taken(s[e], DOMAIN s[e], l) \in Int
                             /\ s[e] = <<>> => Taken(s[e], DOMAIN s[e], l) = 0
BY PayloadTakes, ItemsAreNumbered DEF Payloads

LEMMA EventsAreFinite ==
    ASSUME NEW E, E \subseteq Events
    PROVE  IsFiniteSet(E)
<1>1. IsFiniteSet(Events)
  BY BoundsAssumption, FS_Interval DEF Events
<1>2. QED
  BY <1>1, FS_Subset

LEMMA EventSumType ==
    ASSUME NEW s \in Payloads, NEW E, E \subseteq Events, NEW l
    PROVE  EventSum(s, E, l) \in Int
<1> DEFINE F == [e \in E |-> Taken(s[e], DOMAIN s[e], l)]
<1>1. \A e \in E : F[e] \in Int
  BY PayloadType
<1>2. EventSum(s, E, l) = SumFunctionOnSet(F, E) /\ IsFiniteSet(E)
  BY EventsAreFinite DEF EventSum
<1> HIDE DEF F
<1>3. QED
  BY <1>1, <1>2, SumType

LEMMA EventSumSame ==
    ASSUME NEW s \in Payloads, NEW r \in Payloads,
           NEW E, NEW l, E \subseteq Events, \A e \in E : r[e] = s[e]
    PROVE  EventSum(r, E, l) = EventSum(s, E, l)
<1>1. \A e \in E : Taken(s[e], DOMAIN s[e], l) \in Int
  BY PayloadType
<1>2. IsFiniteSet(E)
  BY EventsAreFinite
<1>3. QED
  BY <1>1, <1>2, SameEvents

LEMMA EventSumMore ==
    ASSUME NEW s \in Payloads, NEW E, E \subseteq Events,
           NEW x \in Events, x \notin E, NEW l
    PROVE  EventSum(s, E \cup {x}, l) = EventSum(s, E, l) + Taken(s[x], DOMAIN s[x], l)
<1>1. \A e \in E \cup {x} : Taken(s[e], DOMAIN s[e], l) \in Int
  BY PayloadType
<1>2. IsFiniteSet(E)
  BY EventsAreFinite
<1>3. QED
  BY <1>1, <1>2, OneMoreEvent

LEMMA EventSumChange ==
    ASSUME NEW s \in Payloads, NEW r \in Payloads,
           NEW x \in Events, NEW l, \A e \in Events : e # x => r[e] = s[e], s[x] = <<>>
    PROVE  EventSum(r, Events, l) = EventSum(s, Events, l) + Taken(r[x], DOMAIN r[x], l)
<1>1. IsFiniteSet(Events)
  BY EventsAreFinite
<1>2. \A e \in Events : /\ e # x => r[e] = s[e]
                       /\ Taken(s[e], DOMAIN s[e], l) \in Int
                       /\ Taken(r[e], DOMAIN r[e], l) \in Int
  BY PayloadType
<1>3. Taken(s[x], DOMAIN s[x], l) = 0
  BY PayloadType
<1>4. /\ EventSum(s, Events, l) \in Int
      /\ EventSum(r, Events, l) = EventSum(s, Events, l)
              + (Taken(r[x], DOMAIN r[x], l) - Taken(s[x], DOMAIN s[x], l))
  BY <1>1, <1>2, ChangedEvent
<1>5. QED
  BY <1>2, <1>3, <1>4

LEMMA ProductSumSame ==
    ASSUME NEW F \in [Lines -> Int], NEW E \in [Lines -> Int], NEW p,
           \A l \in Lines : ProductOf[l] = p => E[l] = F[l]
    PROVE  ProductSum(E, p) = ProductSum(F, p)
BY LinesAssumption, SameGroup DEF ProductSum

LEMMA ProductSumChange ==
    ASSUME NEW F \in [Lines -> Int], NEW E \in [Lines -> Int], NEW x \in Lines,
           \A l \in Lines : l # x => E[l] = F[l]
    PROVE  ProductSum(E, ProductOf[x]) = ProductSum(F, ProductOf[x]) + (E[x] - F[x])
BY LinesAssumption, ChangedGroup DEF ProductSum

LEMMA ProductSumPlus ==
    ASSUME NEW F \in [Lines -> Int], NEW E \in [Lines -> Int], NEW D \in [Lines -> Int],
           NEW p, \A l \in Lines : D[l] = F[l] + E[l]
    PROVE  ProductSum(D, p) = ProductSum(F, p) + ProductSum(E, p)
BY LinesAssumption, GroupPlus DEF ProductSum

LEMMA RowsAreFinite ==
    ASSUME NEW p \in Products
    PROVE  IsFiniteSet(RowsOf(p)) /\ RowsOf(p) \subseteq Rows
BY TxsAssumption, FS_Singleton, FS_Product DEF RowsOf, Rows

\* Where t has put nothing, it has to have posted nothing.
LEMMA NothingPosted ==
    ASSUME NEW F, NEW E, NEW p \in Products,
           \A r \in RowsOf(p) : F[r] = 0, \A l \in Lines : E[l] = 0
    PROVE  SumFunctionOnSet(F, RowsOf(p)) = ProductSum(E, p)
<1>1. SumFunctionOnSet(F, RowsOf(p)) = 0
  BY RowsAreFinite, SumZero
<1>2. ProductSum(E, p) = 0
  BY LinesAssumption, GroupOfNone DEF ProductSum
<1>3. QED
  BY <1>1, <1>2

LEMMA OnHandIs ==
    ASSUME NEW p \in Products
    PROVE  OnHand(p) = SumFunctionOnSet([r \in RowsOf(p) |-> stock[r].com.onHand], RowsOf(p))
BY DEF OnHand, SumOver, RowsOf

LEMMA LevelTypes ==
    ASSUME TypeOK, NEW t \in Txs, NEW r \in Rows
    PROVE  /\ stock[r].com.onHand \in Int /\ stock[r].cur.onHand \in Int
           /\ Sees(stock[r], t).onHand = stock[r].com.onHand + Gain(t, r)
           /\ Gain(t, r) \in Int
<1>1. stock[r].com \in Levels /\ stock[r].cur \in Levels
  BY Tables DEF RowOf
<1>2. stock[r].com.onHand \in Int /\ stock[r].cur.onHand \in Int
  BY <1>1 DEF Levels
<1>3. QED
  BY <1>2 DEF Gain, Sees

-----------------------------------------------------------------------------
(* What a transaction has done so far.                                     *)

LEMMA PartTypes ==
    ASSUME TypeOK, Discipline, NEW t \in Txs
    PROVE  /\ tx[t].op \in {"receive", "post"} => \A l : Part(t, l) \in Int
           /\ PostedBy(t) \in [Lines -> Int]
           /\ \A l \in Lines : ReceivedBy(t, l) \in Int
<1>1. ASSUME tx[t].op \in {"receive", "post"}, NEW l
      PROVE  Part(t, l) \in Int
  <2>1. tx[t] \in TxRecords /\ tx[t] \in TxFields
    BY Tables DEF TxRecords
  <2>2. /\ tx[t].work \in Seq(Items) /\ tx[t].next \in Nat /\ Len(tx[t].work) \in Nat
    BY <2>1, LenProperties DEF TxFields
  <2>3. tx[t].next - 1 <= Len(tx[t].work)
    <3>1. CASE tx[t].at \in {"decide", "commit"}
      <4>1. tx[t].next = Len(tx[t].work) + 1
        BY <1>1, <3>1 DEF Discipline, Own, Finishes
      <4>2. QED
        BY <2>2, <4>1
    <3>2. CASE tx[t].at \notin {"decide", "commit"}
      <4>1. tx[t].at = "work" \/ (tx[t].op = "post" /\ tx[t].at = "write")
        BY <1>1, <2>1, <3>2 DEF TxRecords, Discipline, Own, Finishes
      <4>2. QED
        BY <2>1, <2>2, <4>1 DEF TxRecords
    <3>3. QED
      BY <3>1, <3>2
  <2>4. 1 .. (tx[t].next - 1) \subseteq 1 .. Len(tx[t].work)
    BY <2>2, <2>3
  <2>5. QED
    BY <2>2, <2>4, UnitsTaken, ItemsAreNumbered DEF Part
<1>2. QED
  BY <1>1 DEF PostedBy, ReceivedBy

LEMMA AnnouncedType ==
    ASSUME TypeOK
    PROVE  /\ sent \in Payloads /\ Claimed \subseteq Events
           /\ Announced \in [Lines -> Int]
<1>1. sent \in Payloads /\ Claimed \subseteq Events
  BY DEF TypeOK, Payloads, Claimed
<1>2. \A l \in Lines : EventSum(sent, Claimed, l) \in Int
  <2> DEFINE s == sent
             C == Claimed
  <2>1. s \in Payloads /\ C \subseteq Events
    BY <1>1
  <2> HIDE DEF s, C
  <2>2. \A l \in Lines : EventSum(s, C, l) \in Int
    BY <2>1, EventSumType
  <2>3. QED
    BY <2>2 DEF s, C
<1>3. QED
  BY <1>1, <1>2 DEF Announced

\* Lines that t does not hold it has received nothing of.
LEMMA SeesWhatItReceived ==
    ASSUME TypeOK, Discipline, Ledger, NEW t \in Txs, NEW l \in Lines
    PROVE  Sees(line[l], t) = line[l].com + ReceivedBy(t, l)
<1>1. Moved(t)
  BY DEF Ledger
<1>2. line[l].com \in Int
  BY Tables DEF RowOf
<1>3. QED
  BY <1>1, <1>2 DEF Moved, Sees

-----------------------------------------------------------------------------
(* The ledger is kept by what others do, ...                               *)

LEMMA BalanceStays ==
    ASSUME NEW u \in Txs, Balance(u), PostedBy(u)' = PostedBy(u),
           \A r \in Rows : Gain(u, r)' = Gain(u, r)
    PROVE  Balance(u)'
<1>1. ASSUME NEW p \in Products
      PROVE  Gained(u, p)' = Gained(u, p)
  <2>1. \A r \in RowsOf(p) : Gain(u, r)' = Gain(u, r)
    BY RowsAreFinite
  <2>2. [r \in RowsOf(p) |-> Gain(u, r)]' = [r \in RowsOf(p) |-> Gain(u, r)]
    BY <2>1 DEF RowsOf
  <2>3. QED
    BY <2>2 DEF Gained, RowsOf
<1>2. QED
  BY <1>1 DEF Balance

LEMMA MyPartIsKept ==
    ASSUME NEW u \in Txs, Moved(u), Balance(u), tx'[u] = tx[u],
           \A l \in Lines : line[l].by = u \/ line'[l].by = u => line'[l] = line[l],
           \A r \in Rows : stock[r].by = u \/ stock'[r].by = u => stock'[r] = stock[r]
    PROVE  Moved(u)' /\ Balance(u)'
<1>1. PostedBy(u)' = PostedBy(u) /\ \A l : ReceivedBy(u, l)' = ReceivedBy(u, l)
  BY DEF Part, PostedBy, ReceivedBy
<1>2. Moved(u)'
  BY <1>1 DEF Moved
<1>3. \A r \in Rows : Gain(u, r)' = Gain(u, r)
  BY DEF Gain
<1>4. QED
  BY <1>1, <1>2, <1>3, BalanceStays

\* What is committed stays the same.
LEMMA OnHandStays ==
    ASSUME \A r \in Rows : stock'[r].com = stock[r].com, NEW p \in Products
    PROVE  OnHand(p)' = OnHand(p)
<1>1. \A r \in RowsOf(p) : stock'[r].com = stock[r].com
  BY RowsAreFinite
<1>2. [r \in RowsOf(p) |-> stock'[r].com.onHand] = [r \in RowsOf(p) |-> stock[r].com.onHand]
  BY <1>1
<1>3. QED
  BY <1>2 DEF OnHand, SumOver, RowsOf

LEMMA CommittedIsKept ==
    ASSUME Received, Stocked,
           \A l \in Lines : line'[l].com = line[l].com,
           \A r \in Rows : stock'[r].com = stock[r].com,
           \A e \in Events : claim'[e].com = claim[e].com,
           sent' = sent
    PROVE  Received' /\ Stocked'
<1>1. Claimed' = Claimed
  BY Zenon DEF Claimed, Events
<1>2. Received'
  BY DEF Received, Events
<1>3. Announced' = Announced
  BY <1>1 DEF Announced
<1>4. Stocked'
  BY <1>3, OnHandStays DEF Stocked
<1>5. QED
  BY <1>2, <1>4

LEMMA WorkKeepsLedger ==
    ASSUME Ledger, NEW t \in Txs, Worked(t), Moved(t)', Balance(t)'
    PROVE  Ledger'
<1>1. NoTx \notin Txs
  BY NullsAssumption
<1>2. Received' /\ Stocked'
  <2>1. /\ \A l \in Lines : line'[l].com = line[l].com
        /\ \A r \in Rows : stock'[r].com = stock[r].com
        /\ sent' = sent
    BY DEF Worked, WrittenRow
  <2>2. \A e \in Events : claim'[e].com = claim[e].com
    BY Zenon DEF Worked, WrittenRow
  <2>3. QED
    BY <2>1, <2>2, CommittedIsKept DEF Ledger
<1>3. ASSUME NEW u \in Txs
      PROVE  Moved(u)' /\ Balance(u)'
  <2>1. CASE u = t
    BY <2>1
  <2>2. CASE u # t
    <3>1. /\ tx'[u] = tx[u] /\ Moved(u) /\ Balance(u)
          /\ \A l \in Lines : line[l].by = u \/ line'[l].by = u => line'[l] = line[l]
          /\ \A r \in Rows : stock[r].by = u \/ stock'[r].by = u => stock'[r] = stock[r]
      BY <1>1, <2>2 DEF Worked, WrittenRow, Ledger
    <3>2. QED
      BY <3>1, MyPartIsKept
  <2>3. QED
    BY <2>1, <2>2
<1>4. QED
  BY <1>2, <1>3 DEF Ledger

-----------------------------------------------------------------------------
(* ... by the steps of t that move nothing, ...                            *)

LEMMA QuietWork ==
    ASSUME Ledger, NEW t \in Txs, Worked(t), UNCHANGED <<line, stock>>,
           \A l \in Lines : /\ PostedBy(t)'[l] = PostedBy(t)[l]
                            /\ ReceivedBy(t, l)' = ReceivedBy(t, l)
    PROVE  Ledger'
<1>1. Moved(t)'
  BY DEF Ledger, Moved
<1>2. PostedBy(t)' = PostedBy(t)
  BY DEF PostedBy
<1>3. \A r \in Rows : Gain(t, r)' = Gain(t, r)
  BY DEF Gain
<1>4. Balance(t)'
  BY <1>2, <1>3, BalanceStays DEF Ledger
<1>5. QED
  BY <1>1, <1>4, WorkKeepsLedger

\* What begins has done nothing yet.
LEMMA BeginKeepsLedger ==
    ASSUME Ledger, NEW t \in Txs, Worked(t), UNCHANGED <<line, stock>>, tx[t] = Idle,
           tx'[t].op = "idle" \/ tx'[t].next = 1
    PROVE  Ledger'
<1>1. \A l \in Lines : PostedBy(t)[l] = 0 /\ ReceivedBy(t, l) = 0
  BY DEF PostedBy, ReceivedBy, Idle, Begun
<1>2. \A l \in Lines : PostedBy(t)'[l] = 0 /\ ReceivedBy(t, l)' = 0
  <2>1. CASE tx'[t].op = "idle"
    BY <2>1 DEF PostedBy, ReceivedBy
  <2>2. CASE tx'[t].next = 1
    <3>1. \A k \in 1 .. (tx'[t].next - 1) : FALSE
      BY <2>2
    <3>2. \A l : Taken(tx'[t].work, 1 .. (tx'[t].next - 1), l) = 0
      BY <3>1, NoneTaken
    <3>3. QED
      BY <3>2 DEF PostedBy, ReceivedBy, Part
  <2>3. QED
    BY <2>1, <2>2
<1>3. QED
  BY <1>1, <1>2, QuietWork

LEMMA RequestKeepsLedger ==
    ASSUME TypeOK, Discipline, Ledger, NEW t \in Txs, Request(t)
    PROVE  Ledger'
<1>1. UNCHANGED <<line, stock>> /\ tx[t] = Idle
  BY DEF Request, ApproveRead, CancelRead, Begins, ShipRead, ReceiveRead, tables, busVars
<1>2. tx'[t].next = 1
  <2>1. \E op, at, o, w : tx' = [tx EXCEPT ![t] = Begun(op, at, o, 0, w)]
    BY DEF Request, ApproveRead, CancelRead, Begins, ShipRead, ReceiveRead
  <2>2. QED
    BY <2>1, Tables DEF Begun
<1>3. Worked(t)
  BY RequestKeepsDiscipline
<1>4. QED
  BY <1>1, <1>2, <1>3, BeginKeepsLedger

LEMMA DeliverKeepsLedger ==
    ASSUME TypeOK, Discipline, Ledger, NEW t \in Txs,
           (\E o \in Orders : ShippedRead(t, o)) \/ (\E e \in Events : Claim(t, e))
    PROVE  Ledger'
<1>1. UNCHANGED <<line, stock>> /\ tx[t] = Idle
  BY DEF ShippedRead, Claim
<1>2. tx'[t].op = "idle" \/ tx'[t].next = 1
  <2>1. ASSUME NEW o \in Orders, ShippedRead(t, o)
        PROVE  tx' = tx \/ \E at : tx' = [tx EXCEPT ![t] = Begun("shipped", at, o, 0, <<>>)]
    BY <2>1 DEF ShippedRead
  <2>2. ASSUME NEW e \in Events, Claim(t, e)
        PROVE  tx' = tx \/ tx' = [tx EXCEPT ![t] = Begun("post", "work", NoOrder, e, sent[e])]
    BY <2>2 DEF Claim
  <2>3. QED
    BY <1>1, <2>1, <2>2, Tables DEF Begun, Idle
<1>3. Worked(t)
  BY ShippedReadKeepsDiscipline, ClaimKeepsDiscipline
<1>4. QED
  BY <1>1, <1>2, <1>3, BeginKeepsLedger

LEMMA LookKeepsLedger ==
    ASSUME TypeOK, Discipline, Ledger, NEW t \in Txs, ReceiveDecide(t) \/ PostFind(t)
    PROVE  Ledger'
<1>1. /\ Worked(t) /\ SameTask(t) /\ tx'[t].next = tx[t].next
      /\ UNCHANGED <<line, stock>>
  BY ReceiveDecideWorks, PostFindWorks
<1>2. \A l \in Lines : /\ PostedBy(t)'[l] = PostedBy(t)[l]
                       /\ ReceivedBy(t, l)' = ReceivedBy(t, l)
  BY <1>1 DEF PostedBy, ReceivedBy, Part, SameTask
<1>3. QED
  BY <1>1, <1>2, QuietWork

-----------------------------------------------------------------------------
(* ... by those that do, ...                                               *)

LEMMA PartNext ==
    ASSUME TypeOK, NEW t \in Txs, At(t, "receive", "work") \/ At(t, "post", "write"),
           NEW then, tx' = [tx EXCEPT ![t] = Advanced(t, then)], NEW l
    PROVE  Part(t, l)' = Part(t, l) + (IF Item(t).line = l THEN Item(t).qty ELSE 0)
<1>1. tx[t] \in TxRecords /\ tx[t] \in TxFields
  BY Tables DEF TxRecords
<1>2. tx[t].next <= Len(tx[t].work)
  BY <1>1 DEF TxRecords, At
<1>3. /\ tx'[t].work = tx[t].work /\ tx'[t].next = tx[t].next + 1
      /\ tx[t].work \in Seq(Items) /\ tx[t].next \in Nat \ {0}
  BY AdvancesTask DEF SameTask
<1>4. Part(t, l)' = Taken(tx[t].work, 1 .. tx[t].next, l)
  <2>1. tx'[t].next - 1 = tx[t].next
    BY <1>3
  <2>2. QED
    BY <1>3, <2>1 DEF Part
<1>5. QED
  BY <1>2, <1>3, <1>4, NextTaken, ItemsAreNumbered DEF Part, Item

LEMMA ReceiveLineKeepsLedger ==
    ASSUME TypeOK, Discipline, Ledger, NEW t \in Txs, ReceiveLine(t)
    PROVE  Ledger'
<1> DEFINE i == Item(t)
           v == Sees(line[i.line], t) + i.qty
<1>1. At(t, "receive", "work") /\ tx' = [tx EXCEPT ![t] = Advanced(t, "decide")]
  BY DEF ReceiveLine
<1>2. i.line \in Lines /\ i.qty \in Int
  BY <1>1, AtWork
<1>3. /\ Worked(t) /\ SameTask(t) /\ Wrote(line, line', Lines, i.line, v, t)
      /\ UNCHANGED stock
  BY ReceiveLineWorks
<1>4. tx[t].op = "receive" /\ tx'[t].op = "receive"
  BY <1>1, <1>3 DEF At, SameTask
<1>5. \A l : Part(t, l)' = Part(t, l) + (IF i.line = l THEN i.qty ELSE 0)
  BY <1>1, PartNext
<1> HIDE DEF i
<1>6. Moved(t)'
  <2>1. SUFFICES ASSUME NEW l \in Lines
                 PROVE  IF line'[l].by = t
                        THEN line'[l].cur = line'[l].com + ReceivedBy(t, l)'
                        ELSE ReceivedBy(t, l)' = 0
    BY DEF Moved
  <2>2. /\ ReceivedBy(t, l)' = ReceivedBy(t, l) + (IF i.line = l THEN i.qty ELSE 0)
        /\ ReceivedBy(t, l) \in Int
    BY <1>4, <1>5, PartTypes DEF ReceivedBy
  <2>3. CASE l = i.line
    <3>1. line'[l].by = t /\ line'[l].com = line[l].com /\ line'[l].cur = Sees(line[l], t) + i.qty
      BY <1>3, <2>3 DEF Wrote
    <3>2. Sees(line[l], t) = line[l].com + ReceivedBy(t, l) /\ line[l].com \in Int
      BY SeesWhatItReceived, Tables DEF RowOf
    <3>3. QED
      BY <1>2, <2>2, <2>3, <3>1, <3>2
  <2>4. CASE l # i.line
    <3>1. line'[l] = line[l]
      BY <1>3, <2>4 DEF Wrote
    <3>2. ReceivedBy(t, l)' = ReceivedBy(t, l)
      BY <2>2, <2>4
    <3>3. Moved(t)
      BY DEF Ledger
    <3>4. QED
      BY <3>1, <3>2, <3>3 DEF Moved
  <2>5. QED
    BY <2>3, <2>4
<1>7. Balance(t)'
  <2>1. PostedBy(t)' = PostedBy(t)
    BY <1>4 DEF PostedBy
  <2>2. \A r \in Rows : Gain(t, r)' = Gain(t, r)
    BY <1>3 DEF Gain
  <2>3. QED
    BY <2>1, <2>2, BalanceStays DEF Ledger
<1>8. QED
  BY <1>3, <1>6, <1>7, WorkKeepsLedger

\* The row a handler writes gains what the item adds.
LEMMA PostGains ==
    ASSUME TypeOK, NEW t \in Txs, NEW r \in Rows, NEW v \in Levels, NEW n \in Int,
           v.onHand = Sees(stock[r], t).onHand + n, Wrote(stock, stock', Rows, r, v, t)
    PROVE  /\ Gain(t, r)' = Gain(t, r) + n
           /\ \A q \in Rows : q # r => Gain(t, q)' = Gain(t, q)
<1>1. stock'[r].com = stock[r].com /\ stock'[r].cur = v /\ stock'[r].by = t
  BY DEF Wrote
<1>2. Gain(t, r)' = v.onHand - stock[r].com.onHand
  BY <1>1 DEF Gain
<1>3. /\ Sees(stock[r], t).onHand = stock[r].com.onHand + Gain(t, r)
      /\ stock[r].com.onHand \in Int /\ Gain(t, r) \in Int
  BY LevelTypes
<1>4. Gain(t, r)' = Gain(t, r) + n
  BY <1>2, <1>3
<1>5. \A q \in Rows : q # r => Gain(t, q)' = Gain(t, q)
  BY DEF Wrote, Gain
<1>6. QED
  BY <1>4, <1>5

LEMMA PostKeepsLedger ==
    ASSUME TypeOK, Discipline, Ledger, NEW t \in Txs, PostUpdate(t) \/ PostInsert(t)
    PROVE  Ledger'
<1> DEFINE i == Item(t)
<1>1. At(t, "post", "write") /\ tx' = [tx EXCEPT ![t] = Advanced(t, "commit")]
  BY DEF PostUpdate, PostInsert, Posted
<1>2. i.line \in Lines /\ i.qty \in Int /\ ProductOf[i.line] \in Products
  BY <1>1, AtWork
<1>3. PICK r \in Rows, v \in Levels :
        /\ v.onHand = Sees(stock[r], t).onHand + i.qty
        /\ r[1] = ProductOf[i.line] /\ Wrote(stock, stock', Rows, r, v, t)
        /\ Worked(t) /\ SameTask(t) /\ UNCHANGED line
  BY PostUpdateWorks, PostInsertWorks
<1>4. tx[t].op = "post" /\ tx'[t].op = "post"
  BY <1>1, <1>3 DEF At, SameTask
<1>5. \A l : Part(t, l)' = Part(t, l) + (IF i.line = l THEN i.qty ELSE 0)
  BY <1>1, PartNext
<1> HIDE DEF i
<1>6. Moved(t)'
  <2>1. \A l : ReceivedBy(t, l)' = ReceivedBy(t, l)
    BY <1>4 DEF ReceivedBy
  <2>2. Moved(t)
    BY DEF Ledger
  <2>3. QED
    BY <1>3, <2>1, <2>2 DEF Moved
<1>7. /\ Gain(t, r)' = Gain(t, r) + i.qty
      /\ \A q \in Rows : q # r => Gain(t, q)' = Gain(t, q)
  BY <1>2, <1>3, PostGains
<1>8. Balance(t)'
  <2> DEFINE F == PostedBy(t)
             E == PostedBy(t)'
  <2>1. /\ F \in [Lines -> Int] /\ E \in [Lines -> Int]
        /\ E[i.line] = F[i.line] + i.qty
        /\ \A l \in Lines : l # i.line => E[l] = F[l]
    <3>1. F \in [Lines -> Int]
      BY PartTypes
    <3>2. \A l \in Lines : F[l] = Part(t, l) /\ E[l] = Part(t, l)'
      BY <1>4 DEF PostedBy
    <3>3. E = [l \in Lines |-> E[l]]
      BY DEF PostedBy
    <3> HIDE DEF E, F
    <3>4. \A l \in Lines : F[l] \in Int
      BY <3>1
    <3>5. \A l \in Lines : E[l] = F[l] + (IF i.line = l THEN i.qty ELSE 0)
      BY <1>5, <3>2
    <3>6. \A l \in Lines : E[l] \in Int
      BY <1>2, <3>4, <3>5
    <3>7. E \in [Lines -> Int]
      BY <3>3, <3>6
    <3>8. \A l \in Lines : l # i.line => E[l] = F[l]
      BY <3>4, <3>5
    <3>9. E[i.line] = F[i.line] + i.qty
      BY <1>2, <3>5
    <3>10. QED
      BY <3>1, <3>7, <3>8, <3>9
  <2>2. SUFFICES ASSUME NEW p \in Products
                 PROVE  Gained(t, p)' = ProductSum(E, p)
    BY DEF Balance
  <2>3. Gained(t, p) = ProductSum(F, p)
    BY DEF Ledger, Balance
  <2> HIDE DEF E, F
  <2> DEFINE S == RowsOf(p)
             G == [q \in S |-> Gain(t, q)]
             H == [q \in S |-> Gain(t, q)']
  <2>4. Gained(t, p) = SumFunctionOnSet(G, S) /\ Gained(t, p)' = SumFunctionOnSet(H, S)
    BY DEF Gained, RowsOf
  <2>5. IsFiniteSet(S) /\ S \subseteq Rows
    BY RowsAreFinite
  <2>6. /\ \A q \in S : G[q] \in Int
        /\ \A q \in S : q # r => H[q] = G[q]
        /\ r \in S => H[r] = G[r] + i.qty
    BY <1>7, <2>5, LevelTypes
  <2>7. (r \in S) <=> (ProductOf[i.line] = p)
    BY <1>3 DEF RowsOf, Rows
  <2> HIDE DEF G, H, S
  <2>8. CASE ProductOf[i.line] = p
    <3>1. r \in S /\ G[r] \in Int /\ H[r] \in Int /\ H[r] - G[r] = i.qty
      BY <1>2, <2>6, <2>7, <2>8
    <3>2. SumFunctionOnSet(H, S) = SumFunctionOnSet(G, S) + (H[r] - G[r])
      BY <2>5, <2>6, <3>1, SumChange
    <3>3. ProductSum(E, p) = ProductSum(F, p) + (E[i.line] - F[i.line])
      BY <1>2, <2>1, <2>8, ProductSumChange
    <3>4. E[i.line] - F[i.line] = i.qty
      BY <1>2, <2>1
    <3>5. QED
      BY <2>3, <2>4, <3>1, <3>2, <3>3, <3>4
  <2>9. CASE ProductOf[i.line] # p
    <3>1. SumFunctionOnSet(H, S) = SumFunctionOnSet(G, S)
      BY <2>5, <2>6, <2>7, <2>9, SumEqual
    <3>2. ProductSum(E, p) = ProductSum(F, p)
      BY <2>1, <2>9, ProductSumSame
    <3>3. QED
      BY <2>3, <2>4, <3>1, <3>2
  <2>10. QED
    BY <2>8, <2>9
<1>9. QED
  BY <1>3, <1>6, <1>8, WorkKeepsLedger

-----------------------------------------------------------------------------
(* ... and by the ends of transactions.                                    *)

LEMMA EndKeepsLedger ==
    ASSUME Ledger, NEW t \in Txs, NEW ok \in BOOLEAN, Ended(t, ok), Received', Stocked'
    PROVE  Ledger'
<1>1. NoTx \notin Txs
  BY NullsAssumption
<1>2. ASSUME NEW u \in Txs
      PROVE  Moved(u)' /\ Balance(u)'
  <2>1. CASE u = t
    <3>1. /\ \A l \in Lines : line'[l].by # t
          /\ \A r \in Rows : stock'[r].by # t
          /\ tx'[t].op = "idle"
      BY <1>1 DEF Ended, EndedRow, Idle, Begun
    <3>2. Moved(t)'
      BY <3>1 DEF Moved, ReceivedBy
    <3>3. ASSUME NEW p \in Products
          PROVE  Gained(t, p)' = ProductSum(PostedBy(t)', p)
      <4> DEFINE H == [r \in RowsOf(p) |-> Gain(t, r)']
                 E == PostedBy(t)'
      <4>1. \A r \in RowsOf(p) : H[r] = 0
        BY <3>1, RowsAreFinite DEF Gain
      <4>2. \A l \in Lines : E[l] = 0
        BY <3>1 DEF PostedBy
      <4>3. Gained(t, p)' = SumFunctionOnSet(H, RowsOf(p))
        BY DEF Gained, RowsOf
      <4> HIDE DEF E, H
      <4>4. SumFunctionOnSet(H, RowsOf(p)) = ProductSum(E, p)
        BY <4>1, <4>2, NothingPosted
      <4>5. QED
        BY <4>3, <4>4 DEF E
    <3>4. QED
      BY <2>1, <3>2, <3>3 DEF Balance
  <2>2. CASE u # t
    <3>1. /\ tx'[u] = tx[u] /\ Moved(u) /\ Balance(u)
          /\ \A l \in Lines : line[l].by = u \/ line'[l].by = u => line'[l] = line[l]
          /\ \A r \in Rows : stock[r].by = u \/ stock'[r].by = u => stock'[r] = stock[r]
      BY <1>1, <2>2 DEF Ended, EndedRow, Ledger
    <3>2. QED
      BY <3>1, MyPartIsKept
  <2>3. QED
    BY <2>1, <2>2
<1>3. QED
  BY <1>2 DEF Ledger

LEMMA RollbackKeepsLedger ==
    ASSUME TypeOK, Ledger, NEW t \in Txs, Rollback(t)
    PROVE  Ledger'
<1>1. Ended(t, FALSE)
  BY RollbackEnds
<1>2. /\ \A l \in Lines : line'[l].com = line[l].com
      /\ \A r \in Rows : stock'[r].com = stock[r].com
  BY <1>1 DEF Ended, EndedRow
<1>3. \A e \in Events : claim'[e].com = claim[e].com
  BY <1>1, Zenon DEF Ended, EndedRow
<1>4. sent' = sent
  BY DEF Rollback, busVars
<1>5. Received' /\ Stocked'
  BY <1>2, <1>3, <1>4, CommittedIsKept DEF Ledger
<1>6. QED
  BY <1>1, <1>5, EndKeepsLedger

\* Once a callback is past its work, what it has done is all of it.
LEMMA AllOfIt ==
    ASSUME TypeOK, Discipline, NEW t \in Txs, tx[t].at = "commit",
           tx[t].op \in {"receive", "post"}, NEW l
    PROVE  Part(t, l) = Taken(tx[t].work, DOMAIN tx[t].work, l)
<1>1. tx[t].work \in Seq(Items)
  BY Tables DEF TxRecords, TxFields
<1>2. Len(tx[t].work) \in Nat /\ DOMAIN tx[t].work = 1 .. Len(tx[t].work)
  BY <1>1, LenProperties
<1>3. tx[t].next - 1 = Len(tx[t].work)
  <2>1. tx[t].next = Len(tx[t].work) + 1
    BY DEF Discipline, Own, Finishes
  <2>2. QED
    BY <1>2, <2>1
<1>4. QED
  BY <1>2, <1>3 DEF Part

\* A commit of receive announces the units it has received, ...
LEMMA ReceiveCommitKeepsReceived ==
    ASSUME TypeOK, TypeOK', Discipline, Ledger, NEW t \in Txs, Ended(t, TRUE),
           At(t, "receive", "commit"), NEW e \in Events, Emit(e, tx[t].work)
    PROVE  Received'
<1>1. /\ sent[e] = <<>> /\ sent'[e] = tx[t].work
      /\ \A d \in Events : d # e => sent'[d] = sent[d]
  BY DEF Emit, TypeOK
<1>2. SUFFICES ASSUME NEW l \in Lines
               PROVE  line'[l].com = EventSum(sent', Events, l)
  BY DEF Received, Events
<1>3. Sees(line[l], t) = line[l].com + Part(t, l)
  BY SeesWhatItReceived DEF ReceivedBy, At
<1>4. Part(t, l) = Taken(sent'[e], DOMAIN sent'[e], l)
  BY <1>1, AllOfIt DEF At
<1>5. EventSum(sent', Events, l)
          = EventSum(sent, Events, l) + Taken(sent'[e], DOMAIN sent'[e], l)
  <2> DEFINE r == sent'
  <2>1. sent' \in [Events -> Seq(Items)]
    BY DEF TypeOK, Events
  <2>2. /\ sent \in Payloads /\ r \in Payloads
        /\ \A d \in Events : d # e => r[d] = sent[d]
    BY <1>1, <2>1, AnnouncedType DEF Payloads
  <2> HIDE DEF r
  <2>3. EventSum(r, Events, l) = EventSum(sent, Events, l) + Taken(r[e], DOMAIN r[e], l)
    BY <1>1, <2>2, EventSumChange
  <2>4. QED
    BY <2>3 DEF r
<1>6. line[l].com = EventSum(sent, Events, l)
  BY DEF Ledger, Received
<1>7. line'[l].com = Sees(line[l], t)
  BY DEF Ended, EndedRow, Sees
<1>8. QED
  BY <1>3, <1>4, <1>5, <1>6, <1>7

\* ... and any other commit receives and announces nothing.
LEMMA CommitKeepsReceived ==
    ASSUME TypeOK, Discipline, Ledger, NEW t \in Txs, Ended(t, TRUE),
           tx[t].op # "receive", sent' = sent
    PROVE  Received'
<1>1. \A l \in Lines : line[l].by # t
  BY DEF Discipline, Own, Locks
<1>2. \A l \in Lines : line'[l] = line[l]
  BY <1>1 DEF Ended, EndedRow
<1>3. QED
  BY <1>2 DEF Ledger, Received, Events

\* A commit that is not a handler's claims nothing, and announces only what
\* was not claimed.
LEMMA CommitKeepsStocked ==
    ASSUME TypeOK, TypeOK', Discipline, Ledger, NEW t \in Txs, Ended(t, TRUE),
           tx[t].op # "post",
           \A e \in Events : sent'[e] = sent[e] \/ sent[e] = <<>>
    PROVE  Stocked'
<1>1. /\ \A e \in Events : claim[e].by # t
      /\ \A r \in Rows : stock[r].by # t
  BY DEF Discipline, Own, Locks
<1>2. /\ \A e \in Events : claim'[e] = claim[e]
      /\ \A r \in Rows : stock'[r] = stock[r]
  BY <1>1 DEF Ended, EndedRow
<1>3. Claimed' = Claimed
  BY <1>2, Zenon DEF Claimed, Events
<1>4. \A e \in Claimed : sent'[e] = sent[e]
  BY DEF Discipline, Claimed
<1>5. ASSUME NEW l \in Lines
      PROVE  EventSum(sent', Claimed', l) = EventSum(sent, Claimed, l)
  <2> DEFINE C == Claimed
             s == sent
             r == sent'
  <2>1. sent' \in [Events -> Seq(Items)]
    BY DEF TypeOK, Events
  <2>2. /\ C \subseteq Events /\ \A e \in C : r[e] = s[e]
        /\ s \in Payloads /\ r \in Payloads
    BY <1>4, <2>1, AnnouncedType DEF Payloads
  <2> HIDE DEF C, s, r
  <2>3. EventSum(r, C, l) = EventSum(s, C, l)
    BY <2>2, EventSumSame
  <2>4. QED
    BY <1>3, <2>3 DEF C, s, r
<1>6. Announced' = Announced
  BY <1>5 DEF Announced
<1>7. \A p \in Products : OnHand(p)' = OnHand(p)
  BY <1>2, OnHandStays
<1>8. QED
  BY <1>6, <1>7 DEF Ledger, Stocked

\* A commit of a handler claims its event and shelves the units of it.
LEMMA PostCommitShelves ==
    ASSUME TypeOK, Discipline, Ledger, NEW t \in Txs, Ended(t, TRUE),
           At(t, "post", "commit"), sent' = sent
    PROVE  LET e == tx[t].event
           IN  /\ e \in Events /\ e \notin Claimed /\ Claimed' = Claimed \cup {e}
               /\ tx[t].work = sent[e]
               /\ \A l \in Lines : PostedBy(t)[l] = Taken(sent[e], DOMAIN sent[e], l)
               /\ \A p \in Products :
                    /\ OnHand(p)' = OnHand(p) + ProductSum(PostedBy(t), p)
                    /\ OnHand(p)' = ProductSum(Announced', p)
<1> DEFINE e == tx[t].event
           F == Announced
           E == PostedBy(t)
           D == Announced'
<1>1. Own(t) /\ Posts(t) /\ tx[t].op = "post" /\ tx[t].at = "commit"
  BY DEF Discipline, Own, At
<1>2. e \in Events /\ tx[t].work = sent[e] /\ claim[e].by = t
  BY <1>1 DEF Posts
<1>3. ~claim[e].com /\ claim[e].cur
  BY <1>1, Zenon DEF Posts
<1>4. \A d \in Events : claim[d].by = t => d = e
  BY <1>1 DEF Own, Locks
<1>5. Claimed' = Claimed \cup {e} /\ e \notin Claimed
  <2> HIDE DEF e
  <2>1. claim'[e].com
    BY <1>2, <1>3, Zenon DEF Ended, EndedRow
  <2>2. \A d \in Events : d # e => claim'[d] = claim[d]
    BY <1>4, Zenon DEF Ended, EndedRow
  <2>3. \A d \in Events : d \in Claimed' <=> d \in Claimed \/ d = e
    BY <1>2, <2>1, <2>2, Zenon DEF Claimed, Events
  <2>4. Claimed' \subseteq Events /\ Claimed \subseteq Events
    BY Zenon DEF Claimed, Events
  <2>5. e \notin Claimed
    BY <1>3, Zenon DEF Claimed
  <2>6. QED
    BY <1>2, <2>3, <2>4, <2>5
<1>6. F \in [Lines -> Int] /\ E \in [Lines -> Int]
  BY AnnouncedType, PartTypes
<1>0. \A l \in Lines : E[l] = Taken(sent[e], DOMAIN sent[e], l)
  BY <1>1, <1>2, AllOfIt DEF PostedBy
<1>7. D \in [Lines -> Int] /\ \A l \in Lines : D[l] = F[l] + E[l]
  <2>1. ASSUME NEW l \in Lines
        PROVE  D[l] = F[l] + E[l]
    <3> DEFINE C == Claimed
               s == sent
    <3>1. C \subseteq Events /\ e \notin C /\ s \in Payloads
      BY <1>5, AnnouncedType
    <3>2. Claimed' = C \cup {e} /\ sent' = s
      BY <1>5
    <3>3. E[l] = Taken(s[e], DOMAIN s[e], l)
      BY <1>0
    <3>4. F[l] = EventSum(s, C, l) /\ D[l] = EventSum(sent', Claimed', l)
      BY DEF Announced
    <3> HIDE DEF C, s, D, F, E, e
    <3>5. EventSum(s, C \cup {e}, l) = EventSum(s, C, l) + Taken(s[e], DOMAIN s[e], l)
      BY <1>2, <3>1, EventSumMore
    <3>6. QED
      BY <3>2, <3>3, <3>4, <3>5
  <2>2. D = [l \in Lines |-> D[l]]
    BY DEF Announced
  <2> HIDE DEF D, E, F
  <2>3. \A l \in Lines : D[l] \in Int
    BY <1>6, <2>1
  <2>4. QED
    BY <2>1, <2>2, <2>3
<1>8. SUFFICES ASSUME NEW p \in Products
               PROVE  OnHand(p)' = OnHand(p) + ProductSum(E, p) /\ OnHand(p)' = ProductSum(D, p)
  BY <1>0, <1>2, <1>5
<1>9. OnHand(p) = ProductSum(F, p) /\ Gained(t, p) = ProductSum(E, p)
  BY DEF Ledger, Stocked, Balance
<1> HIDE DEF D, E, F
<1>10. ProductSum(D, p) = ProductSum(F, p) + ProductSum(E, p)
  BY <1>6, <1>7, ProductSumPlus
<1>11. OnHand(p)' = OnHand(p) + Gained(t, p)
  <2> DEFINE S == RowsOf(p)
             A == [r \in S |-> stock[r].com.onHand]
             G == [r \in S |-> Gain(t, r)]
             B == [r \in S |-> stock'[r].com.onHand]
  <2>1. /\ OnHand(p) = SumFunctionOnSet(A, S) /\ Gained(t, p) = SumFunctionOnSet(G, S)
        /\ OnHand(p)' = SumFunctionOnSet(B, S)
    BY DEF OnHand, SumOver, RowsOf, Gained
  <2>2. IsFiniteSet(S) /\ S \subseteq Rows
    BY RowsAreFinite
  <2>3. ASSUME NEW r \in S
        PROVE  A[r] \in Int /\ G[r] \in Int /\ B[r] = A[r] + G[r]
    <3>1. r \in Rows
      BY <2>2
    <3>2. stock'[r].com = Sees(stock[r], t)
      BY <3>1 DEF Ended, EndedRow, Sees
    <3>3. QED
      BY <3>1, <3>2, LevelTypes
  <2> HIDE DEF A, B, G, S
  <2>4. SumFunctionOnSet(B, S) = SumFunctionOnSet(A, S) + SumFunctionOnSet(G, S)
    BY <2>2, <2>3, SumPlus
  <2>5. QED
    BY <2>1, <2>4
<1>12. QED
  BY <1>9, <1>10, <1>11

LEMMA PostCommitKeepsStocked ==
    ASSUME TypeOK, Discipline, Ledger, NEW t \in Txs, Ended(t, TRUE),
           At(t, "post", "commit"), sent' = sent
    PROVE  Stocked'
BY PostCommitShelves DEF Stocked

LEMMA CommitKeepsLedger ==
    ASSUME TypeOK, TypeOK', Discipline, Ledger, NEW t \in Txs, Commits(t), Ended(t, TRUE)
    PROVE  Ledger'
<1>1. CASE ReceiveCommit(t)
  <2>1. At(t, "receive", "commit") /\ tx[t].op # "post"
    BY <1>1 DEF ReceiveCommit, At
  <2>2. PICK e \in Events : Emit(e, tx[t].work)
    BY <1>1 DEF ReceiveCommit
  <2>3. \A d \in Events : sent'[d] = sent[d] \/ sent[d] = <<>>
    BY <2>2 DEF Emit, TypeOK
  <2>4. QED
    BY <2>1, <2>2, <2>3, ReceiveCommitKeepsReceived, CommitKeepsStocked, EndKeepsLedger
<1>2. CASE PostCommit(t)
  <2>1. At(t, "post", "commit") /\ tx[t].op # "receive" /\ sent' = sent
    BY <1>2 DEF PostCommit, At, busVars
  <2>2. QED
    BY <2>1, CommitKeepsReceived, PostCommitKeepsStocked, EndKeepsLedger
<1>3. CASE ApproveCommit(t) \/ CancelCommit(t) \/ ShipCommit(t) \/ ShippedCommit(t)
  <2>1. tx[t].op \notin {"receive", "post"} /\ sent' = sent
    BY <1>3 DEF ApproveCommit, CancelCommit, ShipCommit, ShippedCommit, At, busVars
  <2>2. QED
    BY <2>1, CommitKeepsReceived, CommitKeepsStocked, EndKeepsLedger
<1>4. QED
  BY <1>1, <1>2, <1>3 DEF Commits

LEMMA CrashKeepsLedger ==
    ASSUME TypeOK, Ledger, Crash
    PROVE  Ledger'
<1>1. \A l \in Lines : line'[l].by = NoTx /\ line'[l].com = line[l].com
  BY Tables, Rebooted DEF Crash
<1>2. \A r \in Rows : stock'[r].by = NoTx /\ stock'[r].com = stock[r].com
  BY Tables, Rebooted DEF Crash
<1>3. \A e \in Events : claim'[e].com = claim[e].com
  BY Tables, Rebooted DEF Crash
<1>4. sent' = sent /\ \A t \in Txs : tx'[t].op = "idle"
  BY DEF Crash, Idle, Begun
<1>5. Received' /\ Stocked'
  BY <1>1, <1>2, <1>3, <1>4, CommittedIsKept DEF Ledger
<1>6. ASSUME NEW u \in Txs
      PROVE  Moved(u)' /\ Balance(u)'
  <2>1. Moved(u)'
    BY <1>1, <1>4, NullsAssumption DEF Moved, ReceivedBy
  <2>2. ASSUME NEW p \in Products
        PROVE  Gained(u, p)' = ProductSum(PostedBy(u)', p)
    <3> DEFINE H == [r \in RowsOf(p) |-> Gain(u, r)']
               E == PostedBy(u)'
    <3>1. \A r \in RowsOf(p) : H[r] = 0
      BY <1>2, RowsAreFinite, NullsAssumption DEF Gain
    <3>2. \A l \in Lines : E[l] = 0
      BY <1>4 DEF PostedBy
    <3>3. Gained(u, p)' = SumFunctionOnSet(H, RowsOf(p))
      BY DEF Gained, RowsOf
    <3> HIDE DEF E, H
    <3>4. SumFunctionOnSet(H, RowsOf(p)) = ProductSum(E, p)
      BY <3>1, <3>2, NothingPosted
    <3>5. QED
      BY <3>3, <3>4 DEF E
  <2>3. QED
    BY <2>1, <2>2 DEF Balance
<1>7. QED
  BY <1>5, <1>6 DEF Ledger

LEMMA InitLedger == Init => Ledger
<1>1. SUFFICES ASSUME Init PROVE Ledger
  OBVIOUS
<1>2. /\ \A l \in Lines : line[l].by = NoTx /\ line[l].com = 0
      /\ \A r \in Rows : stock[r].by = NoTx /\ stock[r].com.onHand = 0
      /\ \A e \in Events : sent[e] = <<>>
      /\ \A t \in Txs : tx[t].op = "idle"
  BY <1>1 DEF Init, Row, NoLevel, Idle, Begun
<1>3. ASSUME NEW E, E \subseteq Events, NEW l
      PROVE  EventSum(sent, E, l) = 0
  <2> DEFINE F == [e \in E |-> Taken(sent[e], DOMAIN sent[e], l)]
  <2>1. \A e \in E : F[e] = 0
    BY <1>1, <1>2, <1>3, PayloadType, InitTypes, AnnouncedType
  <2>2. EventSum(sent, E, l) = SumFunctionOnSet(F, E) /\ IsFiniteSet(E)
    BY <1>3, EventsAreFinite DEF EventSum
  <2> HIDE DEF F
  <2>3. QED
    BY <2>1, <2>2, SumZero
<1>4. Received
  BY <1>2, <1>3 DEF Received
<1>5. ASSUME NEW p \in Products
      PROVE  OnHand(p) = ProductSum(Announced, p)
  <2> DEFINE H == [r \in RowsOf(p) |-> stock[r].com.onHand]
             E == Announced
  <2>1. \A r \in RowsOf(p) : H[r] = 0
    BY <1>2, RowsAreFinite
  <2>2. \A l \in Lines : E[l] = 0
    <3>1. Claimed \subseteq Events
      BY DEF Claimed
    <3>2. QED
      BY <1>3, <3>1 DEF Announced
  <2>3. OnHand(p) = SumFunctionOnSet(H, RowsOf(p))
    BY OnHandIs
  <2> HIDE DEF E, H
  <2>4. SumFunctionOnSet(H, RowsOf(p)) = ProductSum(E, p)
    BY <2>1, <2>2, NothingPosted
  <2>5. QED
    BY <2>3, <2>4 DEF E
<1>6. ASSUME NEW u \in Txs
      PROVE  Moved(u) /\ Balance(u)
  <2>1. Moved(u)
    BY <1>2, NullsAssumption DEF Moved, ReceivedBy
  <2>2. ASSUME NEW p \in Products
        PROVE  Gained(u, p) = ProductSum(PostedBy(u), p)
    <3> DEFINE H == [r \in RowsOf(p) |-> Gain(u, r)]
               E == PostedBy(u)
    <3>1. \A r \in RowsOf(p) : H[r] = 0
      BY <1>2, RowsAreFinite, NullsAssumption DEF Gain
    <3>2. \A l \in Lines : E[l] = 0
      BY <1>2 DEF PostedBy
    <3>3. Gained(u, p) = SumFunctionOnSet(H, RowsOf(p))
      BY DEF Gained
    <3> HIDE DEF E, H
    <3>4. SumFunctionOnSet(H, RowsOf(p)) = ProductSum(E, p)
      BY <3>1, <3>2, NothingPosted
    <3>5. QED
      BY <3>3, <3>4 DEF E
  <2>3. QED
    BY <2>1, <2>2 DEF Balance
<1>7. QED
  BY <1>4, <1>5, <1>6 DEF Ledger, Stocked

\* The shelves are counted event by event, not line by line.
LEMMA LedgerIsExact ==
    ASSUME TypeOK, Received, Stocked
    PROVE  ReceiptsPostedOnce
<1>1. \A e, l : Units(e, l) = Taken(sent[e], DOMAIN sent[e], l)
  BY DEF Units, SumOver, Taken, OfLine
<1>2. ASSUME NEW l \in Lines
      PROVE  line[l].com = SumOver(Events, LAMBDA e : Units(e, l))
  <2>1. line[l].com = EventSum(sent, Events, l)
    BY DEF Received
  <2>2. QED
    BY <1>1, <2>1 DEF EventSum, SumOver
<1>3. ASSUME NEW p \in Products
      PROVE  OnHand(p) = SumOver({e \in Events : claim[e].com},
                            LAMBDA e : SumOver({l \in Lines : ProductOf[l] = p},
                                               LAMBDA l : Units(e, l)))
  <2> DEFINE C == Claimed
             L == MappedTo(Lines, ProductOf, p)
             F == [e \in C |-> [l \in L |-> Taken(sent[e], DOMAIN sent[e], l)]]
             ByLine == [l \in L |-> SumFunctionOnSet([e \in C |-> F[e][l]], C)]
             ByEvent == [e \in C |-> SumFunctionOnSet(F[e], L)]
  <2>1. C \subseteq Events /\ IsFiniteSet(C) /\ L \subseteq Lines /\ IsFiniteSet(L)
    BY AnnouncedType, EventsAreFinite, LinesAssumption, FS_Subset DEF MappedTo
  <2>2. \A e \in C : \A l \in L : F[e][l] \in Int
    BY <2>1, AnnouncedType, PayloadType
  <2>3. ByLine = [l \in L |-> Announced[l]]
    <3>1. \A l \in L : [e \in C |-> F[e][l]] = [e \in C |-> Taken(sent[e], DOMAIN sent[e], l)]
      OBVIOUS
    <3>2. \A l \in L : Announced[l] = SumFunctionOnSet([e \in C |-> F[e][l]], C)
      BY <2>1, <3>1 DEF Announced, EventSum
    <3> HIDE DEF C, L, F
    <3>3. QED
      BY <3>2
  <2>4. OnHand(p) = SumFunctionOnSet(ByLine, L)
    BY <2>3 DEF Stocked, ProductSum, GroupSum
  <2>5. ByEvent = [e \in C |-> SumFunctionOnSet([l \in L |-> Units(e, l)], L)]
    <3>1. \A e \in C : F[e] = [l \in L |-> Units(e, l)]
      BY <1>1
    <3> HIDE DEF C, L, F
    <3>2. QED
      BY <3>1
  <2>6. SumFunctionOnSet(ByEvent, C) = SumFunctionOnSet(ByLine, L)
    <3> HIDE DEF C, L, F
    <3>1. QED
      BY <2>1, <2>2, SumSwap
  <2>7. OnHand(p) = SumFunctionOnSet([e \in C |-> SumFunctionOnSet([l \in L |-> Units(e, l)], L)], C)
    BY <2>4, <2>5, <2>6
  <2>8. QED
    BY <2>7 DEF SumOver, Claimed, MappedTo
<1>4. QED
  BY <1>2, <1>3 DEF ReceiptsPostedOnce

\* The ledger is kept by every step.
LEMMA LedgerIsKept == Spec => []Ledger
<1>1. ASSUME TypeOK, TypeOK', Discipline, Ledger, [Next]_vars PROVE Ledger'
  <2>1. ASSUME UNCHANGED <<line, claim, stock, sent, tx>> PROVE Ledger'
    <3>1. Received' /\ Stocked'
      BY <1>1, <2>1, CommittedIsKept DEF Ledger
    <3>2. ASSUME NEW u \in Txs
          PROVE  Moved(u)' /\ Balance(u)'
      BY <1>1, <2>1, MyPartIsKept DEF Ledger
    <3>3. QED
      BY <3>1, <3>2 DEF Ledger
  <2>2. CASE UNCHANGED vars
    BY <2>1, <2>2 DEF vars, tables, busVars
  <2>3. ASSUME NEW o \in Orders, Create(o) PROVE Ledger'
    BY <2>1, <2>3 DEF Create, tables, busVars
  <2>4. CASE Crash
    BY <1>1, <2>4, CrashKeepsLedger
  <2>5. ASSUME NEW t \in Txs, Request(t) \/ Proceed(t) \/ Abort(t) PROVE Ledger'
    BY <1>1, <2>5, ProceedIs, RequestKeepsLedger, DeliverKeepsLedger, LookKeepsLedger,
       ReceiveLineKeepsLedger, PostKeepsLedger, RollbackKeepsLedger,
       CommitKeepsDiscipline, CommitKeepsLedger DEF Abort
  <2>6. QED
    BY <1>1, <2>2, <2>3, <2>4, <2>5 DEF Next, Step
<1>2. QED
  BY <1>1, InitLedger, Typing, Disciplined, PTL DEF Spec

\* po.received is applied exactly once, for any orders, products, requests,
\* connections, deliveries and events: what the order lines say was received
\* is what the receipts announced, and what is on the shelves, in however
\* many rows, is what the claimed events announced, although deliveries
\* repeat, handlers insert rows at the same time and any step may fail.
THEOREM ReceiptsAgree == Spec => []ReceiptsPostedOnce
<1>1. TypeOK /\ Ledger => ReceiptsPostedOnce
  BY LedgerIsExact DEF Ledger
<1>2. QED
  BY <1>1, LedgerIsKept, Typing, PTL

-----------------------------------------------------------------------------
(* Clients take turns.  No two transactions work for one order, and while  *)
(* the event of its shipment is on its way only its handler does: what a   *)
(* request has read of the order still holds when it commits.              *)

Alone ==
    \A t \in Txs :
        /\ tx[t].op \in {"idle", "post"} => tx[t].order = NoOrder
        /\ tx[t].order # NoOrder =>
            /\ \A u \in Txs : tx[u].order = tx[t].order => u = t
            /\ told[tx[t].order] > 0 => tx[t].op = "shipped"

\* The order may still move to where t takes it.
Allowed(t) ==
    LET s == status[tx[t].order]
    IN  /\ tx[t].op = "approve" => <<s, "APPROVED">> \in Transitions
        /\ tx[t].op = "cancel" => <<s, "CANCELLED">> \in Transitions
        /\ tx[t].op = "ship" => s = "APPROVED"
        /\ tx[t].op = "shipped" => (tx[t].at = "write" <=> s = "APPROVED")
        /\ tx[t].op = "receive" => s \in ReceivableStatuses /\ tx[t].work \in Requests

\* The items t is done with, and whether one of them is of line l.
Done(t) == 1 .. (tx[t].next - 1)
DoneWith(t, l) == \E k \in Done(t) : tx[t].work[k].line = l

\* What t holds: the claim of the shipment's event, if it is its handler, and
\* if it receives, the lines it is done with.
Holds(t) ==
    /\ \A o \in Orders : heard[o].by = t => tx[t].op = "shipped" /\ tx[t].order = o
    /\ tx[t].op = "shipped" => ~heard[tx[t].order].com
    /\ tx[t].op = "receive" =>
        \A l \in Lines : /\ line[l].by = t <=> DoneWith(t, l)
                         /\ line[l].by = t => line[l].cur > 0

\* What it has decided is so, for nobody else writes the lines of its order.
Decided(t) ==
    At(t, "receive", "commit") =>
        tx[t].to = IF FullyReceived(t, tx[t].order) THEN "RECEIVED" ELSE "PARTIALLY_RECEIVED"

Turn(t) == Allowed(t) /\ Holds(t) /\ Decided(t)

\* What the status of an order says of its lines, "NONE" included.
Tells(o) ==
    /\ status[o] = "RECEIVED" <=> \A l \in LinesOf(o) : line[l].com >= Ordered[l]
    /\ status[o] \in {"NONE", "DRAFT", "APPROVED", "SHIPPED"} =>
        \A l \in LinesOf(o) : line[l].com = 0
    /\ status[o] = "PARTIALLY_RECEIVED" => \E l \in LinesOf(o) : line[l].com > 0

Turns == Alone /\ (\A t \in Txs : Turn(t)) /\ \A o \in Orders : Tells(o)

\* No request names a line twice: each is checked against the lines as they
\* were read, by itself.
LinesNamedOnce ==
    \A r \in Requests : \A j, k \in DOMAIN r : r[j].line = r[k].line => j = k

\* What t has received fits, and so does what it has yet to receive.
Room(t) ==
    tx[t].op = "receive" =>
        /\ \A l \in Lines : line[l].by = t => line[l].cur <= Ordered[l]
        /\ \A k \in DOMAIN tx[t].work : k >= tx[t].next =>
            line[tx[t].work[k].line].com + tx[t].work[k].qty <= Ordered[tx[t].work[k].line]

Fitting == NeverOverReceived /\ \A t \in Txs : Room(t)

-----------------------------------------------------------------------------
(* What the steps of others leave alone.                                   *)

\* The earlier invariants, which hold at every step.
Ground == TypeOK /\ Discipline /\ ShipmentFirst

SameStatus(o) == status'[o] = status[o] \/ (status[o] = "NONE" /\ status'[o] = "DRAFT")

Spared(u) ==
    /\ tx'[u] = tx[u]
    /\ tx[u].order \in Orders => SameStatus(tx[u].order)
    /\ \A o \in Orders : heard[o].by = u \/ heard'[o].by = u => heard'[o] = heard[o]
    /\ \A l \in Lines : line[l].by = u \/ line'[l].by = u => line'[l] = line[l]
    /\ \A l \in LinesOf(tx[u].order) : line'[l].com = line[l].com

\* Where the items that t is done with are.
LEMMA DoneInWork ==
    ASSUME TypeOK, Discipline, NEW t \in Txs, tx[t].op = "receive"
    PROVE  /\ tx[t].work \in Seq(Items) /\ tx[t].next \in Nat \ {0}
           /\ Len(tx[t].work) \in Nat /\ DOMAIN tx[t].work = 1 .. Len(tx[t].work)
           /\ Done(t) \subseteq DOMAIN tx[t].work
           /\ tx[t].order \in Orders
<1>1. tx[t] \in TxRecords /\ tx[t] \in TxFields
  BY Tables DEF TxRecords
<1>2. /\ tx[t].work \in Seq(Items) /\ tx[t].next \in Nat \ {0}
      /\ Len(tx[t].work) \in Nat /\ DOMAIN tx[t].work = 1 .. Len(tx[t].work)
      /\ tx[t].order \in Orders
  BY <1>1, LenProperties DEF TxFields, TxRecords
<1>3. tx[t].next - 1 <= Len(tx[t].work)
  <2>1. CASE tx[t].at \in {"decide", "commit"}
    <3>1. tx[t].next = Len(tx[t].work) + 1
      BY <2>1 DEF Discipline, Own, Finishes
    <3>2. QED
      BY <1>2, <3>1
  <2>2. CASE tx[t].at \notin {"decide", "commit"}
    <3>1. tx[t].at = "work"
      BY <2>2 DEF Discipline, Own, Finishes
    <3>2. QED
      BY <1>1, <1>2, <3>1 DEF TxRecords
  <2>3. QED
    BY <2>1, <2>2
<1>4. QED
  BY <1>2, <1>3 DEF Done

\* Lines are held only by a receipt of their order.
LEMMA HeldByItsOrder ==
    ASSUME TypeOK, Discipline, ShipmentFirst, NEW t \in Txs, Holds(t),
           NEW l \in Lines, line[l].by = t
    PROVE  /\ tx[t].op = "receive" /\ tx[t].order \in Orders
           /\ OrderOf[l] = tx[t].order
<1>1. tx[t].op = "receive"
  BY DEF Discipline, Own, Locks
<1>2. PICK k \in Done(t) : tx[t].work[k].line = l
  BY <1>1 DEF Holds, DoneWith
<1>3. k \in DOMAIN tx[t].work /\ tx[t].order \in Orders
  BY <1>1, DoneInWork
<1>4. OrderOf[tx[t].work[k].line] = tx[t].order
  BY <1>1, <1>3 DEF ShipmentFirst, Receives
<1>5. QED
  BY <1>1, <1>2, <1>3, <1>4

LEMMA TurnIsKept ==
    ASSUME TypeOK, NEW u \in Txs, Turn(u), Hears(u), Spared(u)
    PROVE  Turn(u)'
<1>1. tx'[u] = tx[u] /\ tx[u] \in TxRecords
  BY Tables DEF Spared
<1>2. tx[u].op \notin {"idle", "post"} => tx[u].order \in Orders
  BY <1>1 DEF TxRecords
<1>3. Allowed(u)'
  BY <1>1, <1>2 DEF Turn, Allowed, Spared, SameStatus, Transitions, PurchaseTransitions,
     ReceivableStatuses, RECEIVABLE_STATUSES
<1>4. Holds(u)'
  <2>1. \A o \in Orders : heard'[o].by = u => tx'[u].op = "shipped" /\ tx'[u].order = o
    BY <1>1 DEF Turn, Holds, Spared
  <2>2. ASSUME tx'[u].op = "shipped"
        PROVE  ~heard'[tx'[u].order].com
    <3>1. tx[u].op = "shipped" /\ tx[u].order \in Orders /\ ~heard[tx[u].order].com
      BY <1>1, <1>2, <2>2, Zenon DEF Turn, Holds
    <3>2. heard[tx[u].order].by = u
      BY <3>1 DEF Hears
    <3>3. heard'[tx[u].order] = heard[tx[u].order]
      BY <3>1, <3>2 DEF Spared
    <3>4. QED
      BY <1>1, <3>1, <3>3, Zenon
  <2>3. \A l : DoneWith(u, l)' = DoneWith(u, l)
    BY <1>1 DEF DoneWith, Done
  <2>4. tx'[u].op = "receive" =>
          \A l \in Lines : /\ line'[l].by = u <=> DoneWith(u, l)'
                           /\ line'[l].by = u => line'[l].cur > 0
    BY <1>1, <2>3 DEF Turn, Holds, Spared
  <2>5. QED
    BY <2>1, <2>2, <2>4 DEF Holds
<1>5. Decided(u)'
  <2>1. SUFFICES ASSUME At(u, "receive", "commit")'
                 PROVE  FullyReceived(u, tx[u].order)' = FullyReceived(u, tx[u].order)
    BY <1>1 DEF Turn, Decided, At
  <2>2. \A l \in LinesOf(tx[u].order) : Sees(line'[l], u) = Sees(line[l], u)
    BY DEF Spared, Sees, LinesOf
  <2>3. QED
    BY <1>1, <2>2 DEF FullyReceived, LinesOf
<1>6. QED
  BY <1>3, <1>4, <1>5 DEF Turn

LEMMA TellsIsKept ==
    ASSUME NEW o \in Orders, Tells(o), SameStatus(o),
           \A l \in LinesOf(o) : line'[l].com = line[l].com
    PROVE  Tells(o)'
BY DEF Tells, SameStatus, LinesOf

\* A step of work of t.
LEMMA WorkKeepsTurns ==
    ASSUME Ground, Turns, NEW t \in Txs, Worked(t), status' = status, Alone', Turn(t)'
    PROVE  Turns'
<1>1. NoTx \notin Txs
  BY NullsAssumption
<1>2. \A l \in Lines : line'[l].com = line[l].com
  BY DEF Worked, WrittenRow
<1>3. ASSUME NEW u \in Txs, u # t
      PROVE  Turn(u)'
  <2>1. \A o \in Orders : heard[o].by = u \/ heard'[o].by = u => heard'[o] = heard[o]
    BY <1>1, <1>3 DEF Worked, WrittenRow
  <2>2. \A l \in Lines : line[l].by = u \/ line'[l].by = u => line'[l] = line[l]
    BY <1>1, <1>3 DEF Worked, WrittenRow
  <2>3. Spared(u)
    BY <1>2, <1>3, <2>1, <2>2 DEF Worked, Spared, SameStatus, LinesOf
  <2>4. QED
    BY <2>3, TurnIsKept DEF Ground, Turns, ShipmentFirst
<1>4. \A o \in Orders : Tells(o)'
  BY <1>2, TellsIsKept DEF Turns, SameStatus, LinesOf
<1>5. QED
  BY <1>3, <1>4 DEF Turns

\* The end of t, whatever it wrote of its order.
LEMMA EndKeepsTurns ==
    ASSUME Ground, Turns, NEW t \in Txs, NEW ok \in BOOLEAN, Ended(t, ok),
           \A o \in Orders : o # tx[t].order => status'[o] = status[o],
           \A o \in Orders : told'[o] > 0 => told[o] > 0 \/ o = tx[t].order,
           \A o \in Orders : o = tx[t].order => Tells(o)'
    PROVE  Turns'
<1>1. NoTx \notin Txs /\ tx'[t] = Idle /\ \A u \in Txs : u # t => tx'[u] = tx[u]
  BY NullsAssumption DEF Ended
<1>2. ASSUME NEW l \in Lines, OrderOf[l] # tx[t].order
      PROVE  line'[l] = line[l]
  <2>1. line[l].by # t
    BY <1>2, HeldByItsOrder DEF Ground, Turns, Turn
  <2>2. QED
    BY <2>1 DEF Ended, EndedRow
<1>3. Alone'
  <2>1. ASSUME NEW u \in Txs
        PROVE  /\ tx'[u].op \in {"idle", "post"} => tx'[u].order = NoOrder
               /\ tx'[u].order # NoOrder => u # t
    BY <1>1, <2>1 DEF Turns, Alone, Idle, Begun
  <2>2. ASSUME NEW u \in Txs, tx'[u].order # NoOrder
        PROVE  /\ \A v \in Txs : tx'[v].order = tx'[u].order => v = u
               /\ told'[tx'[u].order] > 0 => tx'[u].op = "shipped"
    <3>1. u # t /\ tx'[u] = tx[u] /\ tx[u].order # NoOrder
      BY <1>1, <2>1, <2>2
    <3>2. \A v \in Txs : tx[v].order = tx[u].order => v = u
      BY <3>1 DEF Turns, Alone
    <3>3. \A v \in Txs : tx'[v].order = tx'[u].order => v = u
      BY <1>1, <2>1, <2>2, <3>1, <3>2
    <3>4. tx[u].order \in Orders /\ tx[t].order # tx[u].order
      BY <3>1, <3>2, Tables DEF Ground, TxRecords, TxFields
    <3>5. told'[tx'[u].order] > 0 => tx'[u].op = "shipped"
      BY <3>1, <3>4 DEF Turns, Alone
    <3>6. QED
      BY <3>3, <3>5
  <2>3. QED
    BY <2>1, <2>2 DEF Alone
<1>4. Turn(t)'
  <2>1. \A o \in Orders : heard'[o].by # t
    BY <1>1 DEF Ended, EndedRow
  <2>2. tx'[t].op = "idle"
    BY <1>1 DEF Idle, Begun
  <2>3. QED
    BY <2>1, <2>2 DEF Turn, Allowed, Holds, Decided, At
<1>5. ASSUME NEW u \in Txs, u # t
      PROVE  Turn(u)'
  <2>1. \A o \in Orders : heard[o].by = u \/ heard'[o].by = u => heard'[o] = heard[o]
    BY <1>1, <1>5 DEF Ended, EndedRow
  <2>2. \A l \in Lines : line[l].by = u \/ line'[l].by = u => line'[l] = line[l]
    BY <1>1, <1>5 DEF Ended, EndedRow
  <2>3. tx[u].order # NoOrder => tx[u].order # tx[t].order
    BY <1>5 DEF Turns, Alone
  <2>4. tx[u].order \in Orders => SameStatus(tx[u].order)
    BY <2>3, NullsAssumption DEF SameStatus
  <2>5. \A l \in LinesOf(tx[u].order) : line'[l].com = line[l].com
    BY <1>2, <2>3, NullsAssumption, LinesAssumption DEF LinesOf
  <2>6. Spared(u)
    BY <1>1, <1>5, <2>1, <2>2, <2>4, <2>5 DEF Spared
  <2>7. QED
    BY <2>6, TurnIsKept DEF Ground, Turns, ShipmentFirst
<1>6. ASSUME NEW o \in Orders
      PROVE  Tells(o)'
  <2>1. CASE o # tx[t].order
    BY <1>2, <2>1, TellsIsKept DEF Turns, SameStatus, LinesOf
  <2>2. QED
    BY <2>1
<1>7. QED
  BY <1>3, <1>4, <1>5, <1>6 DEF Turns

-----------------------------------------------------------------------------
(* The steps that begin a transaction.                                     *)

\* A transaction that takes an order nobody works for, and holds nothing yet.
LEMMA BeginsAlone ==
    ASSUME Ground, Turns, NEW t \in Txs, NEW o \in Orders, tx[t] = Idle,
           \A u \in Txs : tx[u].order # o,
           tx'[t].order = o, \A u \in Txs \ {t} : tx'[u] = tx[u],
           \A q \in Orders : told'[q] > 0 => told[q] > 0,
           tx'[t].op \notin {"idle", "post"}, told'[o] > 0 => tx'[t].op = "shipped"
    PROVE  Alone'
<1>1. ASSUME NEW u \in Txs
      PROVE  tx'[u].op \in {"idle", "post"} => tx'[u].order = NoOrder
  BY <1>1 DEF Turns, Alone
<1>2. ASSUME NEW u \in Txs, tx'[u].order # NoOrder
      PROVE  /\ \A v \in Txs : tx'[v].order = tx'[u].order => v = u
             /\ told'[tx'[u].order] > 0 => tx'[u].op = "shipped"
  <2>1. CASE u = t
    BY <2>1
  <2>2. CASE u # t
    <3>1. tx'[u] = tx[u] /\ tx[u].order # o /\ tx[u].order # NoOrder /\ tx[u].order \in Orders
      BY <1>2, <2>2, Tables DEF Ground, TxRecords, TxFields
    <3>2. QED
      BY <2>2, <3>1 DEF Turns, Alone
  <2>3. QED
    BY <2>1, <2>2
<1>3. QED
  BY <1>1, <1>2 DEF Alone

\* What an idle transaction holds: nothing.
LEMMA IdleHolds ==
    ASSUME Ground, Turns, NEW t \in Txs, tx[t] = Idle
    PROVE  /\ \A l \in Lines : line[l].by # t
           /\ \A o \in Orders : heard[o].by # t
<1>1. tx[t].op = "idle" /\ Locks(t) /\ Holds(t)
  BY DEF Idle, Begun, Ground, Discipline, Own, Turns, Turn
<1>2. QED
  BY <1>1 DEF Locks, Holds

LEMMA RequestKeepsTurns ==
    ASSUME Ground, Turns, NEW t \in Txs, Request(t), TakeTurns
    PROVE  Turns'
<1>1. UNCHANGED <<status, line, heard, told>> /\ tx[t] = Idle
  BY DEF Request, ApproveRead, CancelRead, Begins, ShipRead, ReceiveRead, tables, busVars
<1>2. Worked(t)
  BY RequestKeepsDiscipline DEF Ground
<1>3. PICK o \in Orders : \/ ApproveRead(t, o) \/ CancelRead(t, o) \/ ShipRead(t, o)
                          \/ \E r \in Requests : ReceiveRead(t, o, r)
  BY DEF Request
<1>4. PICK op, at, w :
        /\ tx'[t] = Begun(op, at, o, 0, w)
        /\ op \in {"approve", "cancel", "ship", "receive"}
        /\ op = "approve" => <<status[o], "APPROVED">> \in Transitions
        /\ op = "cancel" => <<status[o], "CANCELLED">> \in Transitions
        /\ op = "ship" => status[o] = "APPROVED"
        /\ op = "receive" => at = "work" /\ status[o] \in ReceivableStatuses /\ w \in Requests
  <2>1. CASE ApproveRead(t, o)
    BY <2>1, Tables DEF Ground, ApproveRead, Begins
  <2>2. CASE CancelRead(t, o)
    BY <2>2, Tables DEF Ground, CancelRead, Begins
  <2>3. CASE ShipRead(t, o)
    BY <2>3, Tables DEF Ground, ShipRead
  <2>4. CASE \E r \in Requests : ReceiveRead(t, o, r)
    BY <2>4, Tables DEF Ground, ReceiveRead
  <2>5. QED
    BY <1>3, <2>1, <2>2, <2>3, <2>4
<1>5. /\ tx'[t].op = op /\ tx'[t].at = at /\ tx'[t].order = o
      /\ tx'[t].work = w /\ tx'[t].next = 1
  BY <1>4 DEF Begun
<1>6. (\A u \in Txs : tx[u].order # o) /\ ~(told[o] > 0)
  <2>1. Requested(t, o)
    BY <1>1, <1>4, <1>5 DEF Requested
  <2>2. ~InTransaction(o) /\ ~BeingPosted(o)
    BY <2>1 DEF TakeTurns
  <2>3. QED
    BY <2>2 DEF InTransaction, BeingPosted
<1>7. Alone'
  <2>1. \A u \in Txs \ {t} : tx'[u] = tx[u]
    BY <1>2 DEF Worked
  <2>2. QED
    BY <1>1, <1>4, <1>5, <1>6, <2>1, BeginsAlone
<1>8. Allowed(t)'
  BY <1>1, <1>4, <1>5 DEF Allowed
<1>9. Holds(t)'
  <2>1. (\A l \in Lines : line'[l].by # t) /\ \A q \in Orders : heard'[q].by # t
    BY <1>1, IdleHolds
  <2>2. \A l : ~DoneWith(t, l)'
    BY <1>5 DEF DoneWith, Done
  <2>3. QED
    BY <1>4, <1>5, <2>1, <2>2 DEF Holds
<1>10. Turn(t)'
  BY <1>4, <1>5, <1>8, <1>9 DEF Turn, Decided, At
<1>11. QED
  BY <1>1, <1>2, <1>7, <1>10, WorkKeepsTurns

LEMMA ShippedReadKeepsTurns ==
    ASSUME Ground, Turns, NEW t \in Txs, NEW o \in Orders, ShippedRead(t, o)
    PROVE  Turns'
<1>1. UNCHANGED <<status, line>> /\ tx[t] = Idle /\ told[o] > 0 /\ Free(heard[o], t)
  BY DEF ShippedRead
<1>2. Worked(t)
  BY ShippedReadKeepsDiscipline DEF Ground
<1>3. \A q \in Orders : told'[q] > 0 => told[q] > 0
  <2>1. told' = [told EXCEPT ![o] = @ - 1] /\ told \in [Orders -> Nat]
    BY DEF ShippedRead, Ground, TypeOK
  <2>2. QED
    BY <2>1
<1>4. /\ \A l \in Lines : line[l].by # t
      /\ \A q \in Orders : heard[q].by # t
  BY <1>1, IdleHolds
<1>5. CASE Sees(heard[o], t)
  <2>1. UNCHANGED <<heard, tx>>
    BY <1>5 DEF ShippedRead
  <2>2. Alone'
    <3>1. \A u \in Txs : tx[u].order # NoOrder => tx[u].order \in Orders
      BY Tables DEF Ground, TxRecords, TxFields
    <3>2. QED
      BY <1>3, <2>1, <3>1 DEF Turns, Alone
  <2>3. Turn(t)'
    <3>1. tx'[t].op = "idle"
      BY <1>1, <2>1 DEF Idle, Begun
    <3>2. QED
      BY <1>4, <2>1, <3>1 DEF Turn, Allowed, Holds, Decided, At
  <2>4. QED
    BY <1>1, <1>2, <2>2, <2>3, WorkKeepsTurns
<1>6. CASE ~Sees(heard[o], t)
  <2> DEFINE at == IF status[o] = "APPROVED" THEN "write" ELSE "commit"
  <2>1. /\ heard' = [heard EXCEPT ![o] = Put(@, t, TRUE)]
        /\ tx' = [tx EXCEPT ![t] = Begun("shipped", at, o, 0, <<>>)]
    BY <1>6 DEF ShippedRead
  <2>2. tx'[t] = Begun("shipped", at, o, 0, <<>>) /\ \A u \in Txs \ {t} : tx'[u] = tx[u]
    BY <2>1, Tables DEF Ground
  <2>3. /\ tx'[t].op = "shipped" /\ tx'[t].order = o
        /\ tx'[t].at = "write" <=> status[o] = "APPROVED"
    BY <2>2 DEF Begun
  <2>4. Wrote(heard, heard', Orders, o, TRUE, t)
    BY <1>1, <2>1, Tables, RowWritten DEF Ground
  <2>5. \A u \in Txs : tx[u].order # o
    <3>1. SUFFICES ASSUME NEW u \in Txs, tx[u].order = o PROVE FALSE
      OBVIOUS
    <3>2. tx[u].op = "shipped"
      BY <1>1, <3>1, NullsAssumption DEF Turns, Alone
    <3>3. heard[o].by = u
      BY <3>1, <3>2 DEF Ground, ShipmentFirst, Hears
    <3>4. u = t
      BY <1>1, <3>3, NullsAssumption DEF Free
    <3>5. QED
      BY <1>1, <3>2, <3>4 DEF Idle, Begun
  <2>6. Alone'
    BY <1>1, <1>3, <2>2, <2>3, <2>5, BeginsAlone
  <2>7. Allowed(t)'
    BY <1>1, <2>3 DEF Allowed
  <2>8. ~heard[o].com
    BY <1>4, <1>6, Zenon DEF Sees
  <2>9. ~heard'[o].com
    BY <2>4, <2>8, Zenon DEF Wrote
  <2>10. \A q \in Orders : q # o => heard'[q].by # t
    BY <1>4, <2>4 DEF Wrote
  <2>11. Holds(t)'
    <3>1. ~heard'[tx'[t].order].com
      BY <2>3, <2>9, Zenon
    <3>2. QED
      BY <2>3, <2>10, <3>1 DEF Holds
  <2>12. Turn(t)'
    BY <2>3, <2>7, <2>11 DEF Turn, Decided, At
  <2>13. QED
    BY <1>1, <1>2, <2>6, <2>12, WorkKeepsTurns
<1>7. QED
  BY <1>5, <1>6

\* A step of t for no order.
LEMMA PostWorkKeepsTurns ==
    ASSUME Ground, Turns, NEW t \in Txs, Worked(t), tx[t].order = NoOrder,
           tx'[t].order = NoOrder, tx'[t].op \in {"idle", "post"},
           UNCHANGED <<status, line, heard, told>>, tx[t].op \notin {"receive", "shipped"}
    PROVE  Turns'
<1>1. \A u \in Txs \ {t} : tx'[u] = tx[u]
  BY DEF Worked
<1>2. Alone'
  BY <1>1 DEF Turns, Alone
<1>3. Turn(t)'
  <2>1. \A q \in Orders : heard'[q].by # t
    BY DEF Turns, Turn, Holds
  <2>2. QED
    BY <2>1 DEF Turn, Allowed, Holds, Decided, At
<1>4. QED
  BY <1>2, <1>3, WorkKeepsTurns

LEMMA ClaimKeepsTurns ==
    ASSUME Ground, Turns, NEW t \in Txs, NEW e \in Events, Claim(t, e)
    PROVE  Turns'
<1>1. UNCHANGED <<status, line, heard, told>> /\ tx[t] = Idle
  BY DEF Claim
<1>2. Worked(t)
  BY ClaimKeepsDiscipline DEF Ground
<1>3. tx'[t] = Idle \/ tx'[t] = Begun("post", "work", NoOrder, e, sent[e])
  BY <1>1, Tables DEF Claim, Ground
<1>4. /\ tx[t].op = "idle" /\ tx[t].order = NoOrder
      /\ tx'[t].op \in {"idle", "post"} /\ tx'[t].order = NoOrder
  BY <1>1, <1>3 DEF Idle, Begun
<1>5. QED
  BY <1>1, <1>2, <1>4, PostWorkKeepsTurns

LEMMA PostKeepsTurns ==
    ASSUME Ground, Turns, NEW t \in Txs, PostFind(t) \/ PostUpdate(t) \/ PostInsert(t)
    PROVE  Turns'
<1>1. Worked(t) /\ SameTask(t) /\ UNCHANGED <<status, line, heard, told>>
  BY PostFindWorks, PostUpdateWorks, PostInsertWorks DEF Ground
<1>2. tx[t].op = "post" /\ tx[t].order = NoOrder
  BY DEF PostFind, PostUpdate, PostInsert, At, Turns, Alone
<1>3. QED
  BY <1>1, <1>2, PostWorkKeepsTurns DEF SameTask

-----------------------------------------------------------------------------
(* Receiving.                                                              *)

\* A step of t within its task leaves everybody alone.
LEMMA TaskKeepsAlone ==
    ASSUME Turns, NEW t \in Txs, SameTask(t), \A u \in Txs \ {t} : tx'[u] = tx[u], told' = told
    PROVE  Alone'
<1>1. \A u \in Txs : tx'[u].op = tx[u].op /\ tx'[u].order = tx[u].order
  BY DEF SameTask
<1>2. QED
  BY <1>1 DEF Turns, Alone

LEMMA ReceiveLineKeepsTurns ==
    ASSUME Ground, Turns, NEW t \in Txs, ReceiveLine(t)
    PROVE  Turns'
<1> DEFINE i == Item(t)
           v == Sees(line[i.line], t) + i.qty
<1>1. /\ Worked(t) /\ SameTask(t) /\ i.line \in Lines
      /\ Wrote(line, line', Lines, i.line, v, t)
      /\ UNCHANGED <<status, heard, told>>
  BY ReceiveLineWorks DEF Ground
<1>2. /\ tx[t].op = "receive" /\ tx[t].at = "work" /\ tx'[t].op = "receive"
      /\ tx'[t].next = tx[t].next + 1 /\ tx'[t].at \in {"work", "decide"}
  <2>1. At(t, "receive", "work") /\ tx' = [tx EXCEPT ![t] = Advanced(t, "decide")]
    BY DEF ReceiveLine
  <2>2. /\ tx'[t].next = tx[t].next + 1
        /\ tx'[t].at = IF tx[t].next = Len(tx[t].work) THEN "decide" ELSE "work"
    BY <2>1, AdvancesTask DEF Ground
  <2>3. QED
    BY <1>1, <2>1, <2>2 DEF At, SameTask
<1>3. Alone'
  BY <1>1, TaskKeepsAlone DEF Worked
<1>4. Allowed(t)'
  BY <1>1, <1>2 DEF Turns, Turn, Allowed, SameTask
<1>5. v > 0
  <2>1. i.qty \in Nat \ {0}
    BY AtWork DEF Ground, ReceiveLine
  <2>2. line[i.line] \in RowOf(Nat, Txs)
    BY <1>1, Tables DEF Ground
  <2>3. Sees(line[i.line], t) \in Nat
    BY <2>2 DEF Sees, RowOf
  <2>4. QED
    BY <2>1, <2>3
<1>6. ASSUME NEW l \in Lines
      PROVE  /\ line'[l].by = t <=> DoneWith(t, l)'
             /\ line'[l].by = t => line'[l].cur > 0
  <2>1. /\ line[l].by = t <=> DoneWith(t, l)
        /\ line[l].by = t => line[l].cur > 0
    BY <1>2 DEF Turns, Turn, Holds
  <2>2. tx[t].next \in Nat \ {0} /\ tx'[t].work = tx[t].work
    BY <1>1, <1>2, DoneInWork DEF Ground, SameTask
  <2>3. DoneWith(t, l)' <=> DoneWith(t, l) \/ l = i.line
    <3>1. Done(t)' = Done(t) \cup {tx[t].next}
      BY <1>2, <2>2 DEF Done
    <3>2. QED
      BY <2>2, <3>1 DEF DoneWith, Item
  <2> HIDE DEF v, i
  <2>4. CASE l = i.line
    BY <1>1, <1>5, <2>3, <2>4 DEF Wrote
  <2>5. CASE l # i.line
    BY <1>1, <2>1, <2>3, <2>5 DEF Wrote
  <2>6. QED
    BY <2>4, <2>5
<1>7. Holds(t)'
  <2>1. \A o \in Orders : heard'[o].by = t => tx'[t].op = "shipped" /\ tx'[t].order = o
    BY <1>1 DEF Turns, Turn, Holds, SameTask
  <2>2. QED
    BY <1>2, <1>6, <2>1 DEF Holds
<1>8. Turn(t)'
  BY <1>2, <1>4, <1>7 DEF Turn, Decided, At
<1>9. QED
  BY <1>1, <1>3, <1>8, WorkKeepsTurns

LEMMA ReceiveDecideKeepsTurns ==
    ASSUME Ground, Turns, NEW t \in Txs, ReceiveDecide(t)
    PROVE  Turns'
<1>1. /\ Worked(t) /\ SameTask(t) /\ tx'[t].next = tx[t].next
      /\ UNCHANGED <<status, heard, told, line>>
  BY ReceiveDecideWorks DEF Ground
<1>2. tx[t].op = "receive" /\ tx'[t].op = "receive" /\ tx'[t].order = tx[t].order
  BY <1>1 DEF ReceiveDecide, At, SameTask
<1>3. Alone'
  BY <1>1, TaskKeepsAlone DEF Worked
<1>4. Allowed(t)'
  BY <1>1, <1>2 DEF Turns, Turn, Allowed, SameTask
<1>5. Holds(t)'
  <2>1. \A l : DoneWith(t, l)' = DoneWith(t, l)
    BY <1>1 DEF DoneWith, Done, SameTask
  <2>2. QED
    BY <1>1, <1>2, <2>1 DEF Turns, Turn, Holds
<1>6. Decided(t)'
  <2> DEFINE to == IF FullyReceived(t, tx[t].order) THEN "RECEIVED" ELSE "PARTIALLY_RECEIVED"
  <2>1. tx' = [tx EXCEPT ![t] = [tx[t] EXCEPT !.at = "commit", !.to = to]]
    BY Tables DEF Ground, ReceiveDecide
  <2>2. tx'[t] = [tx[t] EXCEPT !.at = "commit", !.to = to] /\ tx[t] \in TxFields
    BY <2>1, Tables DEF Ground, TxRecords
  <2>3. tx'[t].to = to
    <3>1. DOMAIN tx[t] = {"op", "at", "order", "event", "work", "next", "to"}
      BY <2>2 DEF TxFields
    <3> HIDE DEF to
    <3>2. QED
      BY <2>2, <3>1
  <2>4. FullyReceived(t, tx[t].order)' <=> FullyReceived(t, tx[t].order)
    BY <1>1, <1>2 DEF FullyReceived, LinesOf
  <2>5. QED
    BY <1>2, <2>3, <2>4 DEF Decided
<1>7. Turn(t)'
  BY <1>4, <1>5, <1>6 DEF Turn
<1>8. QED
  BY <1>1, <1>3, <1>7, WorkKeepsTurns

-----------------------------------------------------------------------------
(* The steps that end a transaction.                                       *)

LEMMA RollbackKeepsTurns ==
    ASSUME Ground, Turns, NEW t \in Txs, Rollback(t)
    PROVE  Turns'
<1>1. Ended(t, FALSE) /\ UNCHANGED <<status, told>>
  BY RollbackEnds DEF Ground, Rollback, busVars
<1>2. \A l \in Lines : line'[l].com = line[l].com
  BY <1>1 DEF Ended, EndedRow
<1>3. \A o \in Orders : Tells(o)'
  BY <1>1, <1>2, TellsIsKept DEF Turns, SameStatus, LinesOf
<1>4. QED
  BY <1>1, <1>3, EndKeepsTurns

\* The lines of t's order say what the status it writes says.
LEMMA CommitTells ==
    ASSUME Ground, Turns, NEW t \in Txs, Ended(t, TRUE), NEW o \in Orders,
           o = tx[t].order, tx[t].op # "receive",
           \/ status'[o] = status[o]
           \/ tx[t].op = "approve" /\ status'[o] = "APPROVED"
           \/ tx[t].op = "cancel" /\ status'[o] = "CANCELLED"
           \/ tx[t].op = "shipped" /\ status[o] = "APPROVED" /\ status'[o] = "SHIPPED"
    PROVE  Tells(o)'
<1>1. \A l \in Lines : line'[l].com = line[l].com
  BY DEF Ground, Discipline, Own, Locks, Ended, EndedRow
<1>2. Tells(o) /\ Allowed(t)
  BY DEF Turns, Turn
<1>3. CASE status'[o] = status[o]
  BY <1>1, <1>2, <1>3, TellsIsKept DEF SameStatus, LinesOf
<1>4. CASE tx[t].op = "approve" /\ status'[o] = "APPROVED"
  <2>1. status[o] = "DRAFT"
    BY <1>2, <1>4 DEF Allowed, Transitions, PurchaseTransitions
  <2>2. QED
    BY <1>1, <1>2, <1>4, <2>1 DEF Tells, LinesOf
<1>5. CASE tx[t].op = "cancel" /\ status'[o] = "CANCELLED"
  <2>1. status[o] \in {"DRAFT", "APPROVED", "SHIPPED", "PARTIALLY_RECEIVED"}
    BY <1>2, <1>5 DEF Allowed, Transitions, PurchaseTransitions
  <2>2. QED
    BY <1>1, <1>2, <1>5, <2>1 DEF Tells, LinesOf
<1>6. CASE tx[t].op = "shipped" /\ status[o] = "APPROVED" /\ status'[o] = "SHIPPED"
  BY <1>1, <1>2, <1>6 DEF Tells, LinesOf
<1>7. QED
  BY <1>3, <1>4, <1>5, <1>6

LEMMA ReceiveCommitTells ==
    ASSUME Ground, Turns, NEW t \in Txs, Ended(t, TRUE), At(t, "receive", "commit"),
           NEW o \in Orders, o = tx[t].order, status'[o] = tx[t].to
    PROVE  Tells(o)'
<1>1. tx[t].op = "receive" /\ Decided(t) /\ Holds(t)
  BY DEF At, Turns, Turn
<1>2. \A l \in Lines : line'[l].com = Sees(line[l], t)
  BY DEF Ended, EndedRow, Sees
<1>3. (\A l \in LinesOf(o) : line'[l].com >= Ordered[l]) <=> FullyReceived(t, o)
  BY <1>2 DEF FullyReceived, LinesOf
<1>4. \E l \in LinesOf(o) : line'[l].com > 0
  <2>1. 1 \in Done(t) /\ 1 \in DOMAIN tx[t].work /\ tx[t].work[1].line \in Lines
    <3>1. tx[t].work # <<>> /\ tx[t].work \in Seq(Items) /\ Len(tx[t].work) \in Nat
      BY <1>1, Tables, DoneInWork DEF Ground, TxRecords
    <3>2. tx[t].next = Len(tx[t].work) + 1
      BY <1>1 DEF At, Ground, Discipline, Own, Finishes
    <3>3. Len(tx[t].work) >= 1
      BY <3>1, EmptySeq
    <3>4. 1 \in Done(t)
      BY <3>1, <3>2, <3>3 DEF Done
    <3>5. tx[t].work[1] \in Items
      BY <3>1, <3>3, ElementOfSeq
    <3>6. QED
      BY <1>1, <3>4, <3>5, DoneInWork DEF Items, Ground
  <2> DEFINE l == tx[t].work[1].line
  <2>2. DoneWith(t, l)
    BY <2>1 DEF DoneWith
  <2>3. line[l].by = t /\ line[l].cur > 0
    BY <1>1, <2>1, <2>2 DEF Holds
  <2>4. OrderOf[l] = o
    BY <1>1, <2>1, <2>3, HeldByItsOrder DEF Ground
  <2>5. line'[l].com > 0
    BY <1>2, <2>1, <2>3 DEF Sees
  <2>6. QED
    BY <2>1, <2>4, <2>5 DEF LinesOf
<1>5. tx[t].to = IF FullyReceived(t, o) THEN "RECEIVED" ELSE "PARTIALLY_RECEIVED"
  BY DEF Decided, Turns, Turn
<1>6. QED
  BY <1>3, <1>4, <1>5 DEF Tells, LinesOf

\* What the commits do to the rows that nobody else may write.
LEMMA CommitWrites ==
    ASSUME Ground, NEW t \in Txs, Commits(t)
    PROVE  /\ \A o \in Orders : o # tx[t].order => status'[o] = status[o]
           /\ \A o \in Orders : told'[o] > 0 => told[o] > 0 \/ o = tx[t].order
<1>1. status \in [Orders -> Statuses \cup {"NONE"}] /\ told \in [Orders -> Nat]
  BY DEF Ground, TypeOK
<1>2. QED
  BY <1>1 DEF Commits, ApproveCommit, CancelCommit, ShipCommit, ShippedCommit,
     ReceiveCommit, PostCommit, SetsStatus, busVars

LEMMA CommitKeepsTurns ==
    ASSUME Ground, Turns, NEW t \in Txs, Commits(t)
    PROVE  Turns'
<1>1. Ended(t, TRUE)
  BY CommitKeepsDiscipline DEF Ground
<1>2. ASSUME NEW o \in Orders, o = tx[t].order
      PROVE  Tells(o)'
  <2>1. status \in [Orders -> Statuses \cup {"NONE"}]
    BY DEF Ground, TypeOK
  <2>2. CASE ReceiveCommit(t)
    <3>1. At(t, "receive", "commit") /\ status'[o] = tx[t].to
      BY <1>2, <2>1, <2>2 DEF ReceiveCommit, SetsStatus
    <3>2. QED
      BY <1>1, <1>2, <3>1, ReceiveCommitTells
  <2>3. CASE ShippedCommit(t)
    <3>1. tx[t].op = "shipped" /\ Allowed(t)
      BY <2>3 DEF ShippedCommit, Turns, Turn
    <3>2. status'[o] = status[o] \/ (status[o] = "APPROVED" /\ status'[o] = "SHIPPED")
      BY <1>2, <2>1, <2>3, <3>1 DEF ShippedCommit, Allowed
    <3>3. QED
      BY <1>1, <1>2, <3>1, <3>2, CommitTells
  <2>4. CASE ApproveCommit(t) \/ CancelCommit(t)
    <3>1. \/ tx[t].op = "approve" /\ status'[o] = "APPROVED"
          \/ tx[t].op = "cancel" /\ status'[o] = "CANCELLED"
      BY <1>2, <2>1, <2>4 DEF ApproveCommit, CancelCommit, SetsStatus, At
    <3>2. QED
      BY <1>1, <1>2, <3>1, CommitTells
  <2>5. CASE ShipCommit(t) \/ PostCommit(t)
    <3>1. tx[t].op # "receive" /\ status' = status
      BY <2>5 DEF ShipCommit, PostCommit, At
    <3>2. QED
      BY <1>1, <1>2, <3>1, CommitTells
  <2>6. QED
    BY <2>2, <2>3, <2>4, <2>5 DEF Commits
<1>3. QED
  BY <1>1, <1>2, CommitWrites, EndKeepsTurns

-----------------------------------------------------------------------------
(* All steps.                                                              *)

LEMMA CrashKeepsTurns ==
    ASSUME Ground, Turns, Crash
    PROVE  Turns'
<1>1. /\ \A l \in Lines : line'[l].com = line[l].com
      /\ \A o \in Orders : heard'[o].by = NoTx
  BY Tables, Rebooted DEF Crash, Ground
<1>2. /\ \A t \in Txs : tx'[t].op = "idle" /\ tx'[t].order = NoOrder
      /\ status' = status
  BY DEF Crash, Idle, Begun
<1>3. Alone'
  BY <1>2 DEF Alone
<1>4. \A t \in Txs : Turn(t)'
  BY <1>1, <1>2, NullsAssumption DEF Turn, Allowed, Holds, Decided, At
<1>5. \A o \in Orders : Tells(o)'
  BY <1>1, <1>2, TellsIsKept DEF Turns, SameStatus, LinesOf
<1>6. QED
  BY <1>3, <1>4, <1>5 DEF Turns

LEMMA InitTurns == Init => Turns
<1>1. SUFFICES ASSUME Init PROVE Turns
  OBVIOUS
<1>2. /\ \A t \in Txs : tx[t].op = "idle" /\ tx[t].order = NoOrder
      /\ \A o \in Orders : heard[o].by = NoTx /\ status[o] = "NONE"
      /\ \A l \in Lines : line[l].com = 0
  BY <1>1 DEF Init, Row, Idle, Begun
<1>3. \A t \in Txs : Turn(t)
  BY <1>2, NullsAssumption DEF Turn, Allowed, Holds, Decided, At
<1>4. ASSUME NEW o \in Orders
      PROVE  Tells(o)
  <2>1. PICK l \in LinesOf(o) : ~(line[l].com >= Ordered[l])
    BY <1>2, LinesAssumption DEF LinesOf
  <2>2. QED
    BY <1>2, <2>1 DEF Tells, LinesOf
<1>5. QED
  BY <1>2, <1>3, <1>4 DEF Turns, Alone

LEMMA NextKeepsTurns ==
    ASSUME Ground, Turns, [Next /\ TakeTurns]_vars
    PROVE  Turns'
<1>1. ASSUME UNCHANGED <<line, heard, told, tx>>, \A o \in Orders : SameStatus(o)
      PROVE  Turns'
  <2>1. Alone'
    BY <1>1 DEF Turns, Alone
  <2>2. ASSUME NEW u \in Txs
        PROVE  Turn(u)'
    <3>1. Spared(u)
      BY <1>1 DEF Spared, LinesOf
    <3>2. QED
      BY <3>1, TurnIsKept DEF Ground, Turns, ShipmentFirst
  <2>3. \A o \in Orders : Tells(o)'
    BY <1>1, TellsIsKept DEF Turns, LinesOf
  <2>4. QED
    BY <2>1, <2>2, <2>3 DEF Turns
<1>2. CASE UNCHANGED vars
  BY <1>1, <1>2 DEF vars, tables, busVars, SameStatus
<1>3. ASSUME NEW o \in Orders, Create(o) PROVE Turns'
  <2>1. \A q \in Orders : SameStatus(q)
    BY <1>3 DEF Create, SameStatus, Ground, TypeOK
  <2>2. QED
    BY <1>1, <1>3, <2>1 DEF Create, tables, busVars
<1>4. CASE Crash
  BY <1>4, CrashKeepsTurns
<1>5. ASSUME NEW t \in Txs, Request(t) \/ Proceed(t) \/ Abort(t), TakeTurns PROVE Turns'
  BY <1>5, ProceedIs, RequestKeepsTurns, ShippedReadKeepsTurns, ClaimKeepsTurns,
     ReceiveLineKeepsTurns, ReceiveDecideKeepsTurns, PostKeepsTurns,
     RollbackKeepsTurns, CommitKeepsTurns DEF Abort
<1>6. QED
  BY <1>2, <1>3, <1>4, <1>5 DEF Next, Step

\* A behaviour in which clients take turns is one of the flow.
LEMMA SerialIsSpec == SerialSpec => Spec
BY PTL DEF SerialSpec, Spec

\* What always holds of it does.
LEMMA GroundIsKept == Spec => []Ground
BY Typing, Disciplined, ShipmentIsFirst, PTL DEF Ground

LEMMA TurnsAreTaken == SerialSpec => []Turns
<1>1. Ground /\ Turns /\ [Next /\ TakeTurns]_vars => Turns'
  BY NextKeepsTurns
<1>2. QED
  BY <1>1, InitTurns, SerialIsSpec, GroundIsKept, PTL DEF SerialSpec

\* As long as clients take turns, the status of an order says what its lines
\* say, whatever fails, crashes or is delivered twice: RECEIVED when all of
\* every line is in, PARTIALLY_RECEIVED only if something is, and nothing
\* before that.
THEOREM StatusTells == SerialSpec => []StatusTellsLines
<1>1. Turns => StatusTellsLines
  BY DEF Turns, Tells, StatusTellsLines
<1>2. QED
  BY <1>1, TurnsAreTaken, PTL

-----------------------------------------------------------------------------
(* Nothing is over-received.                                               *)

\* Others leave the lines of u's order to u.
LEMMA RoomIsKept ==
    ASSUME TypeOK, NEW u \in Txs, Receives(u), Room(u), Spared(u)
    PROVE  Room(u)'
<1>1. SUFFICES ASSUME tx[u].op = "receive"
               PROVE  /\ \A l \in Lines : line'[l].by = u => line'[l].cur <= Ordered[l]
                      /\ \A k \in DOMAIN tx[u].work : k >= tx[u].next =>
                            line'[tx[u].work[k].line].com + tx[u].work[k].qty
                                <= Ordered[tx[u].work[k].line]
  BY DEF Room, Spared
<1>2. tx[u].work \in Seq(Items)
  BY Tables DEF TxRecords, TxFields
<1>3. ASSUME NEW k \in DOMAIN tx[u].work
      PROVE  line'[tx[u].work[k].line].com = line[tx[u].work[k].line].com
  <2>1. tx[u].work[k] \in Items
    BY <1>2, <1>3, ElementOfSeq, LenProperties
  <2>2. tx[u].work[k].line \in LinesOf(tx[u].order)
    BY <1>1, <2>1 DEF Receives, LinesOf, Items
  <2>3. QED
    BY <2>2 DEF Spared
<1>4. QED
  BY <1>1, <1>3 DEF Room, Spared

LEMMA WorkKeepsFitting ==
    ASSUME Ground, Fitting, NEW t \in Txs, Worked(t), status' = status, Room(t)'
    PROVE  Fitting'
<1>1. NoTx \notin Txs /\ \A l \in Lines : line'[l].com = line[l].com
  BY NullsAssumption DEF Worked, WrittenRow
<1>2. ASSUME NEW u \in Txs, u # t
      PROVE  Room(u)'
  <2>1. /\ \A o \in Orders : heard[o].by = u \/ heard'[o].by = u => heard'[o] = heard[o]
        /\ \A l \in Lines : line[l].by = u \/ line'[l].by = u => line'[l] = line[l]
    BY <1>1, <1>2 DEF Worked, WrittenRow
  <2>2. Spared(u)
    BY <1>1, <1>2, <2>1 DEF Worked, Spared, SameStatus, LinesOf
  <2>3. QED
    BY <2>2, RoomIsKept DEF Ground, Fitting, ShipmentFirst
<1>3. NeverOverReceived'
  BY <1>1 DEF Fitting, NeverOverReceived
<1>4. QED
  BY <1>2, <1>3 DEF Fitting

LEMMA EndKeepsFitting ==
    ASSUME Ground, Turns, Fitting, NEW t \in Txs, NEW ok \in BOOLEAN, Ended(t, ok),
           \A o \in Orders : o # tx[t].order => status'[o] = status[o]
    PROVE  Fitting'
<1>1. NoTx \notin Txs /\ tx'[t].op = "idle" /\ \A u \in Txs : u # t => tx'[u] = tx[u]
  BY NullsAssumption DEF Ended, Idle, Begun
<1>2. ASSUME NEW u \in Txs, u # t
      PROVE  Room(u)'
  <2>1. /\ \A o \in Orders : heard[o].by = u \/ heard'[o].by = u => heard'[o] = heard[o]
        /\ \A l \in Lines : line[l].by = u \/ line'[l].by = u => line'[l] = line[l]
    BY <1>1, <1>2 DEF Ended, EndedRow
  <2>2. tx[u].order # NoOrder => tx[u].order # tx[t].order
    BY <1>2 DEF Turns, Alone
  <2>3. tx[u].order \in Orders => SameStatus(tx[u].order)
    BY <2>2, NullsAssumption DEF SameStatus
  <2>4. \A l \in LinesOf(tx[u].order) : line'[l].com = line[l].com
    <3>1. SUFFICES ASSUME NEW l \in LinesOf(tx[u].order), line[l].by = t PROVE FALSE
      BY DEF Ended, EndedRow, LinesOf
    <3>2. OrderOf[l] = tx[t].order /\ OrderOf[l] = tx[u].order /\ tx[u].order \in Orders
      BY <3>1, HeldByItsOrder, LinesAssumption DEF Ground, Turns, Turn, LinesOf
    <3>3. QED
      BY <2>2, <3>2, NullsAssumption
  <2>5. Spared(u)
    BY <1>1, <1>2, <2>1, <2>3, <2>4 DEF Spared
  <2>6. QED
    BY <2>5, RoomIsKept DEF Ground, Fitting, ShipmentFirst
<1>3. Room(t)'
  BY <1>1 DEF Room
<1>4. NeverOverReceived'
  <2>1. ASSUME NEW l \in Lines
        PROVE  line'[l].com <= Ordered[l]
    <3>1. EndedRow(line[l], line'[l], t, ok) /\ line[l].com <= Ordered[l]
      BY DEF Ended, Fitting, NeverOverReceived
    <3>2. line[l].by = t => line[l].cur <= Ordered[l]
      BY HeldByItsOrder DEF Ground, Turns, Turn, Fitting, Room
    <3>3. QED
      BY <3>1, <3>2 DEF EndedRow
  <2>2. QED
    BY <2>1 DEF NeverOverReceived
<1>5. QED
  BY <1>2, <1>3, <1>4 DEF Fitting

LEMMA ReceiveLineKeepsFitting ==
    ASSUME LinesNamedOnce, Ground, Turns, Fitting, NEW t \in Txs, ReceiveLine(t)
    PROVE  Fitting'
<1> DEFINE i == Item(t)
           v == Sees(line[i.line], t) + i.qty
<1>1. /\ Worked(t) /\ SameTask(t) /\ i.line \in Lines
      /\ Wrote(line, line', Lines, i.line, v, t) /\ status' = status
  BY ReceiveLineWorks DEF Ground
<1>2. At(t, "receive", "work") /\ tx' = [tx EXCEPT ![t] = Advanced(t, "decide")]
  BY DEF ReceiveLine
<1>3. tx[t].op = "receive" /\ tx'[t].op = "receive" /\ tx'[t].work = tx[t].work
  BY <1>1, <1>2 DEF At, SameTask
<1>4. /\ tx'[t].next = tx[t].next + 1 /\ tx[t].next \in DOMAIN tx[t].work
      /\ tx[t].next \in Nat /\ DOMAIN tx[t].work \subseteq Nat
  <2>1. tx'[t].next = tx[t].next + 1
    BY <1>2, AdvancesTask DEF Ground
  <2>2. tx[t].next <= Len(tx[t].work)
    BY <1>2, Tables DEF Ground, TxRecords, At
  <2>3. /\ tx[t].next \in Nat \ {0} /\ Len(tx[t].work) \in Nat
        /\ DOMAIN tx[t].work = 1 .. Len(tx[t].work)
    BY <1>3, DoneInWork DEF Ground
  <2>4. QED
    BY <2>1, <2>2, <2>3
<1>5. line[i.line].by # t
  <2>1. SUFFICES ASSUME line[i.line].by = t PROVE FALSE
    OBVIOUS
  <2>2. PICK k \in Done(t) : tx[t].work[k].line = i.line
    BY <1>1, <1>3, <2>1 DEF Turns, Turn, Holds, DoneWith
  <2>3. k \in DOMAIN tx[t].work /\ tx[t].work \in Requests
    BY <1>3, DoneInWork DEF Ground, Turns, Turn, Allowed
  <2>4. k = tx[t].next
    BY <1>4, <2>2, <2>3 DEF LinesNamedOnce, Item
  <2>5. QED
    BY <1>4, <2>2, <2>4 DEF Done
<1>6. v <= Ordered[i.line]
  <2>1. line[i.line].com + i.qty <= Ordered[i.line]
    BY <1>3, <1>4 DEF Fitting, Room, Item
  <2>2. QED
    BY <1>5, <2>1 DEF Sees
<1> HIDE DEF i, v
<1>7. \A l \in Lines : line'[l].by = t => line'[l].cur <= Ordered[l]
  BY <1>1, <1>3, <1>6 DEF Wrote, Fitting, Room
<1>8. ASSUME NEW k \in DOMAIN tx[t].work, k >= tx[t].next + 1
      PROVE  line'[tx[t].work[k].line].com + tx[t].work[k].qty <= Ordered[tx[t].work[k].line]
  <2>1. tx[t].work[k] \in Items
    BY <1>3, <1>4, <1>8, DoneInWork, ElementOfSeq, LenProperties DEF Ground
  <2>2. line'[tx[t].work[k].line].com = line[tx[t].work[k].line].com
    BY <1>1, <2>1 DEF Worked, WrittenRow, Items
  <2>3. QED
    BY <1>3, <1>4, <1>8, <2>2 DEF Fitting, Room
<1>9. Room(t)'
  BY <1>3, <1>4, <1>7, <1>8 DEF Room
<1>10. QED
  BY <1>1, <1>9, WorkKeepsFitting

LEMMA ReceiveReadKeepsFitting ==
    ASSUME Ground, Turns, Fitting, NEW t \in Txs, NEW o \in Orders, NEW r \in Requests,
           ReceiveRead(t, o, r), Worked(t)
    PROVE  Fitting'
<1>1. tx'[t] = Begun("receive", "work", o, 0, r) /\ UNCHANGED <<line, status>> /\ tx[t] = Idle
  BY Tables DEF ReceiveRead, Ground, tables
<1>2. \A l \in Lines : line'[l].by # t
  BY <1>1, IdleHolds
<1>3. \A k \in DOMAIN r : line[r[k].line].com + r[k].qty <= Ordered[r[k].line]
  BY DEF ReceiveRead, Fits
<1>4. Room(t)'
  BY <1>1, <1>2, <1>3 DEF Room, Begun
<1>5. QED
  BY <1>1, <1>4, WorkKeepsFitting

\* The other steps of work receive nothing.
LEMMA OtherWorkKeepsFitting ==
    ASSUME Ground, Fitting, NEW t \in Txs, Worked(t), UNCHANGED <<status, line>>,
           \/ tx'[t].op # "receive"
           \/ SameTask(t) /\ tx'[t].next = tx[t].next
    PROVE  Fitting'
<1>1. Room(t)'
  BY DEF Fitting, Room, SameTask
<1>2. QED
  BY <1>1, WorkKeepsFitting

LEMMA NextKeepsFitting ==
    ASSUME LinesNamedOnce, Ground, Turns, Fitting, [Next]_vars
    PROVE  Fitting'
<1>1. ASSUME UNCHANGED <<line, tx>> PROVE Fitting'
  BY <1>1 DEF Fitting, NeverOverReceived, Room
<1>2. CASE UNCHANGED vars
  BY <1>1, <1>2 DEF vars, tables
<1>3. ASSUME NEW o \in Orders, Create(o) PROVE Fitting'
  BY <1>1, <1>3 DEF Create, tables
<1>4. CASE Crash
  <2>1. \A l \in Lines : line'[l].com = line[l].com
    BY <1>4, Tables, Rebooted DEF Crash, Ground
  <2>2. \A t \in Txs : tx'[t].op = "idle"
    BY <1>4 DEF Crash, Idle, Begun
  <2>3. QED
    BY <2>1, <2>2 DEF Fitting, NeverOverReceived, Room
<1>5. ASSUME NEW t \in Txs, Request(t) PROVE Fitting'
  <2>1. Worked(t)
    BY <1>5, RequestKeepsDiscipline DEF Ground
  <2>2. PICK o \in Orders : \/ ApproveRead(t, o) \/ CancelRead(t, o) \/ ShipRead(t, o)
                            \/ \E r \in Requests : ReceiveRead(t, o, r)
    BY <1>5 DEF Request
  <2>3. CASE ApproveRead(t, o) \/ CancelRead(t, o) \/ ShipRead(t, o)
    <3>1. PICK op \in {"approve", "cancel", "ship"} : tx'[t] = Begun(op, "commit", o, 0, <<>>)
      BY <2>3, Tables DEF Ground, ApproveRead, CancelRead, Begins, ShipRead
    <3>2. tx'[t].op # "receive" /\ UNCHANGED <<status, line>>
      BY <2>3, <3>1 DEF ApproveRead, CancelRead, Begins, ShipRead, tables, Begun
    <3>3. QED
      BY <2>1, <3>2, OtherWorkKeepsFitting
  <2>4. QED
    BY <2>1, <2>2, <2>3, ReceiveReadKeepsFitting
<1>6. ASSUME NEW t \in Txs, NEW o \in Orders, ShippedRead(t, o) PROVE Fitting'
  <2>0. Worked(t)
    BY <1>6, ShippedReadKeepsDiscipline DEF Ground
  <2>1. UNCHANGED <<status, line>>
    BY <1>6 DEF ShippedRead
  <2>2. tx'[t].op # "receive"
    <3>1. tx' = tx \/ \E at : tx' = [tx EXCEPT ![t] = Begun("shipped", at, o, 0, <<>>)]
      BY <1>6 DEF ShippedRead
    <3>2. tx[t] = Idle
      BY <1>6 DEF ShippedRead
    <3>3. QED
      BY <3>1, <3>2, Tables DEF Ground, Begun, Idle
  <2>3. QED
    BY <2>0, <2>1, <2>2, OtherWorkKeepsFitting
<1>7. ASSUME NEW t \in Txs, NEW e \in Events, Claim(t, e) PROVE Fitting'
  <2>0. Worked(t)
    BY <1>7, ClaimKeepsDiscipline DEF Ground
  <2>1. UNCHANGED <<status, line>>
    BY <1>7 DEF Claim
  <2>2. tx'[t].op # "receive"
    <3>1. tx' = tx \/ tx' = [tx EXCEPT ![t] = Begun("post", "work", NoOrder, e, sent[e])]
      BY <1>7 DEF Claim
    <3>2. tx[t] = Idle
      BY <1>7 DEF Claim
    <3>3. QED
      BY <3>1, <3>2, Tables DEF Ground, Begun, Idle
  <2>3. QED
    BY <2>0, <2>1, <2>2, OtherWorkKeepsFitting
<1>8. ASSUME NEW t \in Txs, ReceiveDecide(t) PROVE Fitting'
  BY <1>8, ReceiveDecideWorks, OtherWorkKeepsFitting DEF Ground
<1>9. ASSUME NEW t \in Txs, PostFind(t) \/ PostUpdate(t) \/ PostInsert(t) PROVE Fitting'
  <2>1. Worked(t) /\ SameTask(t) /\ UNCHANGED <<status, line>>
    BY <1>9, PostFindWorks, PostUpdateWorks, PostInsertWorks DEF Ground
  <2>2. tx'[t].op # "receive"
    BY <1>9, <2>1 DEF PostFind, PostUpdate, PostInsert, At, SameTask
  <2>3. QED
    BY <2>1, <2>2, OtherWorkKeepsFitting
<1>10. ASSUME NEW t \in Txs, Rollback(t) PROVE Fitting'
  <2>1. Ended(t, FALSE) /\ status' = status
    BY <1>10, RollbackEnds DEF Ground, Rollback
  <2>2. QED
    BY <2>1, EndKeepsFitting
<1>11. ASSUME NEW t \in Txs, Commits(t) PROVE Fitting'
  <2>1. Ended(t, TRUE)
    BY <1>11, CommitKeepsDiscipline DEF Ground
  <2>2. QED
    BY <1>11, <2>1, CommitWrites, EndKeepsFitting
<1>12. QED
  BY <1>2, <1>3, <1>4, <1>5, <1>6, <1>7, <1>8, <1>9, <1>10, <1>11, ReceiveLineKeepsFitting,
     ProceedIs DEF Next, Step, Abort

LEMMA InitFitting == Init => Fitting
<1>1. SUFFICES ASSUME Init PROVE Fitting
  OBVIOUS
<1>2. /\ \A t \in Txs : tx[t].op = "idle"
      /\ \A l \in Lines : line[l].com = 0
  BY <1>1 DEF Init, Row, Idle, Begun
<1>3. \A l \in Lines : 0 <= Ordered[l]
  BY LinesAssumption
<1>4. QED
  BY <1>2, <1>3 DEF Fitting, NeverOverReceived, Room

\* ADR 0004, for any orders, connections and requests that name each line
\* once: as long as clients take turns, no line is ever received beyond what
\* was ordered of it.  The check of a receipt against the lines as they were
\* read before it wrote any is enough.
THEOREM NothingOverReceived ==
    ASSUME LinesNamedOnce
    PROVE  SerialSpec => []NeverOverReceived
<1>1. Ground /\ Turns /\ Fitting /\ [Next]_vars => Fitting'
  BY NextKeepsFitting
<1>2. Fitting => NeverOverReceived
  BY DEF Fitting
<1>3. QED
  BY <1>1, <1>2, InitFitting, SerialIsSpec, GroundIsKept, TurnsAreTaken, PTL DEF Spec

-----------------------------------------------------------------------------
(* The refinement.                                                         *)

Got == [l \in Lines |-> line[l].com]
Shelves == [p \in Products |-> OnHand(p)]
Noticed == {o \in Orders : heard[o].com}

\* Its sums are the ones of this module.
LEMMA AtomicSum ==
    ASSUME NEW F, NEW S
    PROVE  Atomic!SumFunctionOnSet(F, S) = SumFunctionOnSet(F, S)
BY DEF Atomic!SumFunctionOnSet, Atomic!FoldFunctionOnSet, Atomic!MapThenFoldSet,
       SumFunctionOnSet, FoldFunctionOnSet, MapThenFoldSet

\* Units as AtomicInbound counts them.
LEMMA AtomicUnits ==
    ASSUME NEW items, NEW l
    PROVE  Atomic!Units(items, l) = Taken(items, DOMAIN items, l)
BY AtomicSum DEF Atomic!Units, Atomic!SumOver, Taken, OfLine

LEMMA InitIsAtomic == Init => Atomic!Init
<1>1. SUFFICES ASSUME Init PROVE Atomic!Init
  OBVIOUS
<1>2. /\ \A l \in Lines : line[l].com = 0
      /\ Noticed = {} /\ Claimed = {} /\ shipped = {}
      /\ status = [o \in Orders |-> "NONE"] /\ sent = [e \in Events |-> <<>>]
  BY <1>1 DEF Init, Row, Noticed, Claimed
<1>3. ASSUME NEW p \in Products
      PROVE  OnHand(p) = 0
  <2> DEFINE H == [r \in RowsOf(p) |-> stock[r].com.onHand]
  <2>1. \A r \in RowsOf(p) : H[r] = 0
    BY <1>1, RowsAreFinite DEF Init, Row, NoLevel
  <2>2. OnHand(p) = SumFunctionOnSet(H, RowsOf(p))
    BY OnHandIs
  <2> HIDE DEF H
  <2>3. QED
    BY <2>1, <2>2, RowsAreFinite, SumZero
<1>4. Got = [l \in Lines |-> 0] /\ Shelves = [p \in Products |-> 0]
  BY <1>2, <1>3 DEF Got, Shelves
<1>5. QED
  BY <1>2, <1>4 DEF Atomic!Init, Got, Shelves, Noticed, Claimed

\* A step that commits nothing.
Unseen == UNCHANGED <<status, Got, Shelves, shipped, Noticed, sent, Claimed>>

LEMMA UnseenIsStutter ==
    ASSUME Unseen
    PROVE  UNCHANGED Atomic!state
BY DEF Unseen, Atomic!state, Got, Shelves, Noticed, Claimed

\* What the end of t leaves of the committed rows.
LEMMA EndLeaves ==
    ASSUME Ground, Turns, NEW t \in Txs, NEW ok \in BOOLEAN, Ended(t, ok)
    PROVE  /\ ~ok \/ tx[t].op # "receive" => Got' = Got
           /\ ~ok \/ tx[t].op # "shipped" => Noticed' = Noticed
           /\ ~ok \/ tx[t].op # "post" => Shelves' = Shelves /\ Claimed' = Claimed
<1>1. ASSUME ~ok \/ tx[t].op # "receive"
      PROVE  \A l \in Lines : line'[l].com = line[l].com
  BY <1>1 DEF Ground, Discipline, Own, Locks, Ended, EndedRow
<1>2. ASSUME ~ok \/ tx[t].op # "shipped"
      PROVE  Noticed' = Noticed
  <2>1. ok => \A o \in Orders : heard[o].by # t
    BY <1>2 DEF Turns, Turn, Holds
  <2>2. \A o \in Orders : heard'[o].com = heard[o].com
    BY <2>1, Zenon DEF Ended, EndedRow
  <2>3. QED
    BY <2>2, Zenon DEF Noticed
<1>3. ASSUME ~ok \/ tx[t].op # "post"
      PROVE  Shelves' = Shelves /\ Claimed' = Claimed
  <2>1. ok => (\A e \in Events : claim[e].by # t) /\ \A r \in Rows : stock[r].by # t
    BY <1>3 DEF Ground, Discipline, Own, Locks
  <2>2. \A e \in Events : claim'[e].com = claim[e].com
    BY <2>1, Zenon DEF Ended, EndedRow
  <2>3. \A r \in Rows : stock'[r].com = stock[r].com
    BY <2>1 DEF Ended, EndedRow
  <2>4. Claimed' = Claimed
    BY <2>2, Zenon DEF Claimed, Events
  <2>5. \A p \in Products : OnHand(p)' = OnHand(p)
    BY <2>3, OnHandStays
  <2>6. Shelves' = Shelves
    BY <2>5 DEF Shelves
  <2>7. QED
    BY <2>4, <2>6
<1>4. QED
  BY <1>1, <1>2, <1>3 DEF Got

\* A step of work, and a rollback, commit nothing.
LEMMA WorkIsUnseen ==
    ASSUME NEW t \in Txs, Worked(t), UNCHANGED <<status, shipped>>
    PROVE  Unseen
<1>1. \A e \in Events : claim'[e].com = claim[e].com
  BY Zenon DEF Worked, WrittenRow
<1>2. \A o \in Orders : heard'[o].com = heard[o].com
  BY Zenon DEF Worked, WrittenRow
<1>3. /\ \A l \in Lines : line'[l].com = line[l].com
      /\ \A r \in Rows : stock'[r].com = stock[r].com
  BY DEF Worked, WrittenRow
<1>4. Claimed' = Claimed
  BY <1>1, Zenon DEF Claimed, Events
<1>5. Noticed' = Noticed
  BY <1>2, Zenon DEF Noticed
<1>6. \A p \in Products : OnHand(p)' = OnHand(p)
  BY <1>3, OnHandStays
<1>7. Got' = Got /\ Shelves' = Shelves
  BY <1>3, <1>6 DEF Got, Shelves
<1>8. QED
  BY <1>4, <1>5, <1>7 DEF Unseen, Worked

LEMMA RollbackIsUnseen ==
    ASSUME Ground, Turns, NEW t \in Txs, Rollback(t)
    PROVE  Unseen
<1>1. Ended(t, FALSE) /\ UNCHANGED <<status, shipped, sent>>
  BY RollbackEnds DEF Ground, Rollback, busVars
<1>2. QED
  BY <1>1, EndLeaves DEF Unseen

LEMMA CrashIsUnseen ==
    ASSUME Ground, Crash
    PROVE  Unseen
<1>1. \A l \in Lines : line'[l].com = line[l].com
  BY Tables, Rebooted DEF Crash, Ground
<1>2. \A r \in Rows : stock'[r].com = stock[r].com
  BY Tables, Rebooted DEF Crash, Ground
<1>3. \A e \in Events : claim'[e].com = claim[e].com
  BY Tables, Rebooted DEF Crash, Ground
<1>4. \A o \in Orders : heard'[o].com = heard[o].com
  BY Tables, Rebooted DEF Crash, Ground
<1>5. Claimed' = Claimed
  BY <1>3, Zenon DEF Claimed, Events
<1>6. Noticed' = Noticed
  BY <1>4, Zenon DEF Noticed
<1>7. \A p \in Products : OnHand(p)' = OnHand(p)
  BY <1>2, OnHandStays
<1>8. Got' = Got /\ Shelves' = Shelves
  BY <1>1, <1>7 DEF Got, Shelves
<1>9. QED
  BY <1>5, <1>6, <1>8 DEF Unseen, Crash

-----------------------------------------------------------------------------
(* The commits, one by one.                                                *)

LEMMA MoveIsAtomic ==
    ASSUME Ground, Turns, NEW t \in Txs, ApproveCommit(t) \/ CancelCommit(t)
    PROVE  \E o \in Orders : Atomic!Approve(o) \/ Atomic!Cancel(o)
<1>1. tx[t].op \in {"approve", "cancel"} /\ tx[t].order \in Orders /\ Allowed(t)
  BY Tables DEF ApproveCommit, CancelCommit, At, Ground, TxRecords, Turns, Turn
<1>2. Ended(t, TRUE) /\ UNCHANGED <<shipped, sent>>
  BY CommitKeepsDiscipline DEF Commits, ApproveCommit, CancelCommit, Ground, busVars
<1>3. UNCHANGED <<Got, Shelves, Noticed, Claimed>>
  BY <1>1, <1>2, EndLeaves
<1> DEFINE o == tx[t].order
<1>4. CASE ApproveCommit(t)
  <2>1. <<status[o], "APPROVED">> \in Transitions /\ status' = [status EXCEPT ![o] = "APPROVED"]
    BY <1>1, <1>4 DEF ApproveCommit, At, Allowed, SetsStatus
  <2>2. Atomic!Approve(o)
    BY <1>2, <1>3, <2>1 DEF Atomic!Approve, Atomic!Moves, Got, Shelves, Noticed, Claimed
  <2>3. QED
    BY <1>1, <2>2
<1>5. CASE CancelCommit(t)
  <2>1. <<status[o], "CANCELLED">> \in Transitions /\ status' = [status EXCEPT ![o] = "CANCELLED"]
    BY <1>1, <1>5 DEF CancelCommit, At, Allowed, SetsStatus
  <2>2. Atomic!Cancel(o)
    BY <1>2, <1>3, <2>1 DEF Atomic!Cancel, Atomic!Moves, Got, Shelves, Noticed, Claimed
  <2>3. QED
    BY <1>1, <2>2
<1>6. QED
  BY <1>4, <1>5

LEMMA ShipIsAtomic ==
    ASSUME Ground, Turns, NEW t \in Txs, ShipCommit(t)
    PROVE  \E o \in Orders : Atomic!Ship(o)
<1>1. /\ tx[t].op = "ship" /\ tx[t].order \in Orders /\ status[tx[t].order] = "APPROVED"
      /\ tx[t].order \notin shipped /\ shipped' = shipped \cup {tx[t].order}
  BY Tables DEF ShipCommit, At, Ground, TxRecords, Turns, Turn, Allowed
<1>2. Ended(t, TRUE) /\ UNCHANGED <<status, sent>>
  BY CommitKeepsDiscipline DEF Commits, ShipCommit, Ground
<1>3. UNCHANGED <<Got, Shelves, Noticed, Claimed>>
  BY <1>1, <1>2, EndLeaves
<1>4. Atomic!Ship(tx[t].order)
  BY <1>1, <1>2, <1>3 DEF Atomic!Ship, Got, Shelves, Noticed, Claimed
<1>5. QED
  BY <1>1, <1>4

LEMMA NoticeIsAtomic ==
    ASSUME Ground, Turns, NEW t \in Txs, ShippedCommit(t)
    PROVE  \E q \in Orders : Atomic!Notice(q)
<1>0. PICK o \in Orders : o = tx[t].order
  BY Tables DEF ShippedCommit, Ground, TxRecords
<1>1. tx[t].op = "shipped" /\ Allowed(t) /\ Holds(t)
  BY DEF ShippedCommit, Turns, Turn
<1>2. Ended(t, TRUE) /\ UNCHANGED <<shipped, sent>>
  BY CommitKeepsDiscipline DEF Commits, ShippedCommit, Ground, busVars
<1>3. UNCHANGED <<Got, Shelves, Claimed>>
  BY <1>1, <1>2, EndLeaves
<1>4. heard[o].by = t /\ heard[o].cur /\ ~heard[o].com
  <2>1. Hears(t)
    BY DEF Ground, ShipmentFirst
  <2>2. QED
    BY <1>0, <1>1, <2>1, Zenon DEF Hears, Holds
<1>5. o \in shipped \ Noticed
  BY <1>1, <1>4 DEF Ground, ShipmentFirst, Known, Noticed
<1>6. Noticed' = Noticed \cup {o}
  <2>1. heard'[o].com
    BY <1>1, <1>2, <1>4, Zenon DEF Ended, EndedRow
  <2>2. ASSUME NEW q \in Orders, q # o
        PROVE  heard'[q].com = heard[q].com
    <3>1. heard[q].by # t
      BY <1>0, <1>1, <2>2 DEF Holds
    <3>2. QED
      BY <1>2, <3>1, Zenon DEF Ended, EndedRow
  <2>3. \A q \in Orders : q \in Noticed' <=> q \in Noticed \/ q = o
    BY <2>1, <2>2, Zenon DEF Noticed
  <2>4. Noticed' \subseteq Orders /\ Noticed \subseteq Orders
    BY Zenon DEF Noticed
  <2>5. QED
    BY <1>1, <2>3, <2>4
<1>7. status' = IF status[o] = "APPROVED" THEN [status EXCEPT ![o] = "SHIPPED"] ELSE status
  BY <1>0, <1>1 DEF ShippedCommit, Allowed
<1>8. Atomic!Notice(o)
  BY <1>2, <1>3, <1>5, <1>6, <1>7 DEF Atomic!Notice, Got, Shelves, Noticed, Claimed
<1>9. QED
  BY <1>8

\* What a receipt adds to its lines is what it announces.
LEMMA ReceiveIsAtomic ==
    ASSUME Ground, Ledger, Turns, Fitting', NEW t \in Txs, ReceiveCommit(t)
    PROVE  \E q \in Orders, r \in Requests, e \in Events : Atomic!Receive(q, r, e)
<1>1. At(t, "receive", "commit") /\ tx[t].op = "receive" /\ tx[t].at = "commit"
      /\ tx[t].order \in Orders
  BY Tables DEF ReceiveCommit, At, Ground, TxRecords
<1>2. PICK o \in Orders : o = tx[t].order
  BY <1>1
<1>3. status[o] \in {"SHIPPED", "PARTIALLY_RECEIVED"} /\ tx[t].work \in Requests
  BY <1>1, <1>2 DEF Turns, Turn, Allowed, ReceivableStatuses, RECEIVABLE_STATUSES
<1>4. PICK r \in Requests : r = tx[t].work
  BY <1>3
<1>5. PICK e \in Events : Emit(e, r)
  BY <1>4 DEF ReceiveCommit
<1>6. Ended(t, TRUE) /\ shipped' = shipped
  BY CommitKeepsDiscipline DEF Commits, ReceiveCommit, Ground
<1>7. UNCHANGED <<Shelves, Noticed, Claimed>>
  BY <1>1, <1>6, EndLeaves
<1>8. \A k \in DOMAIN r : OrderOf[r[k].line] = o
  BY <1>1, <1>2, <1>4 DEF Ground, ShipmentFirst, Receives
<1>9. sent[e] = <<>> /\ sent' = [sent EXCEPT ![e] = r]
  BY <1>5 DEF Emit
<1>10. ASSUME NEW l \in Lines
       PROVE  line'[l].com = Sees(line[l], t) /\ line'[l].com = line[l].com + Taken(r, DOMAIN r, l)
  <2>1. Sees(line[l], t) = line[l].com + ReceivedBy(t, l)
    BY SeesWhatItReceived DEF Ground
  <2>2. ReceivedBy(t, l) = Taken(r, DOMAIN r, l)
    BY <1>1, <1>4, AllOfIt DEF ReceivedBy, Ground
  <2>3. line'[l].com = Sees(line[l], t)
    BY <1>6 DEF Ended, EndedRow, Sees
  <2>4. QED
    BY <2>1, <2>2, <2>3
<1>11. Got' = [l \in Lines |-> Got[l] + Atomic!Units(r, l)]
  BY <1>10, AtomicUnits DEF Got
<1>12. \A l \in LinesOf(o) : Got'[l] <= Ordered[l]
  BY DEF Fitting, NeverOverReceived, Got, LinesOf
<1>13. FullyReceived(t, o) <=> \A l \in LinesOf(o) : Got'[l] >= Ordered[l]
  BY <1>10 DEF FullyReceived, Got, LinesOf
<1>14. status' = [status EXCEPT ![o] = IF \A l \in LinesOf(o) : Got'[l] >= Ordered[l]
                                       THEN "RECEIVED" ELSE "PARTIALLY_RECEIVED"]
  <2>1. tx[t].to = IF FullyReceived(t, o) THEN "RECEIVED" ELSE "PARTIALLY_RECEIVED"
    BY <1>1, <1>2 DEF Turns, Turn, Decided
  <2>2. status' = [status EXCEPT ![o] = tx[t].to]
    BY <1>2 DEF ReceiveCommit, SetsStatus
  <2>3. QED
    BY <1>13, <2>1, <2>2
<1>15. Atomic!Receive(o, r, e)
  BY <1>3, <1>6, <1>7, <1>8, <1>9, <1>11, <1>12, <1>14
     DEF Atomic!Receive, Atomic!LinesOf, LinesOf, Got, Shelves, Noticed, Claimed
<1>16. QED
  BY <1>15

\* What a handler shelves is what its event announced.
LEMMA PostIsAtomic ==
    ASSUME Ground, Ledger, Turns, NEW t \in Txs, PostCommit(t)
    PROVE  \E e \in Events : Atomic!Post(e)
<1>1. At(t, "post", "commit") /\ tx[t].op = "post" /\ tx[t].work # <<>>
  BY Tables DEF PostCommit, At, Ground, TxRecords
<1>2. Ended(t, TRUE) /\ UNCHANGED <<status, shipped, sent>>
  BY CommitKeepsDiscipline DEF Commits, PostCommit, Ground, busVars
<1>3. UNCHANGED <<Got, Noticed>>
  BY <1>1, <1>2, EndLeaves
<1>4. PICK e \in Events : e = tx[t].event
  BY <1>1, <1>2, PostCommitShelves DEF Ground
<1>5. /\ e \notin Claimed /\ Claimed' = Claimed \cup {e} /\ sent[e] # <<>>
      /\ \A l \in Lines : PostedBy(t)[l] = Taken(sent[e], DOMAIN sent[e], l)
      /\ \A p \in Products : OnHand(p)' = OnHand(p) + ProductSum(PostedBy(t), p)
  BY <1>1, <1>2, <1>4, PostCommitShelves DEF Ground
<1>6. ASSUME NEW p \in Products
      PROVE  ProductSum(PostedBy(t), p)
                = Atomic!SumOver({l \in Lines : ProductOf[l] = p}, LAMBDA l : Atomic!Units(sent[e], l))
  <2> DEFINE L == {l \in Lines : ProductOf[l] = p}
  <2>1. [l \in L |-> PostedBy(t)[l]] = [l \in L |-> Atomic!Units(sent[e], l)]
    BY <1>5, AtomicUnits
  <2>2. ProductSum(PostedBy(t), p) = SumFunctionOnSet([l \in L |-> PostedBy(t)[l]], L)
    BY DEF ProductSum, GroupSum, MappedTo
  <2>3. Atomic!SumOver(L, LAMBDA l : Atomic!Units(sent[e], l))
          = SumFunctionOnSet([l \in L |-> Atomic!Units(sent[e], l)], L)
    BY AtomicSum DEF Atomic!SumOver
  <2>4. QED
    BY <2>1, <2>2, <2>3
<1>7. Shelves' = [p \in Products |-> Shelves[p]
        + Atomic!SumOver({l \in Lines : ProductOf[l] = p}, LAMBDA l : Atomic!Units(sent[e], l))]
  BY <1>5, <1>6 DEF Shelves
<1>8. Atomic!Post(e)
  BY <1>2, <1>3, <1>5, <1>7 DEF Atomic!Post, Got, Shelves, Noticed, Claimed
<1>9. QED
  BY <1>8

LEMMA SameRows ==
    ASSUME UNCHANGED <<line, stock, heard, claim>>
    PROVE  UNCHANGED <<Got, Shelves, Noticed, Claimed>>
<1>1. Got' = Got /\ Noticed' = Noticed /\ Claimed' = Claimed
  BY Zenon DEF Got, Noticed, Claimed, Events
<1>2. \A p \in Products : OnHand(p)' = OnHand(p)
  BY OnHandStays
<1>3. QED
  BY <1>1, <1>2 DEF Shelves

LEMMA NextIsAtomic ==
    ASSUME Ground, Ledger, Turns, Fitting', [Next]_vars
    PROVE  [Atomic!Next]_(Atomic!state)
<1>1. CASE Unseen
  BY <1>1, UnseenIsStutter
<1>2. CASE UNCHANGED vars
  <2>1. UNCHANGED <<status, shipped, sent, line, stock, heard, claim>>
    BY <1>2 DEF vars, tables, busVars
  <2>2. Unseen
    BY <2>1, SameRows DEF Unseen
  <2>3. QED
    BY <1>1, <2>2
<1>3. ASSUME NEW o \in Orders, Create(o) PROVE Atomic!Next
  <2>1. UNCHANGED <<Got, Shelves, Noticed, Claimed>>
    BY <1>3, SameRows DEF Create, tables
  <2>2. Atomic!Create(o)
    BY <1>3, <2>1 DEF Create, Atomic!Create, busVars, Got, Shelves, Noticed, Claimed
  <2>3. QED
    BY <2>2 DEF Atomic!Next
<1>4. CASE Crash
  BY <1>1, <1>4, CrashIsUnseen
<1>5. ASSUME NEW t \in Txs, Worked(t), UNCHANGED <<status, shipped>> PROVE Unseen
  BY <1>5, WorkIsUnseen
<1>6. ASSUME NEW t \in Txs, Request(t) PROVE Unseen
  BY <1>5, <1>6, RequestKeepsDiscipline
     DEF Ground, Request, ApproveRead, CancelRead, Begins, ShipRead, ReceiveRead
<1>7. ASSUME NEW t \in Txs, (\E o \in Orders : ShippedRead(t, o)) \/ \E e \in Events : Claim(t, e)
      PROVE  Unseen
  <2>1. UNCHANGED <<status, shipped>>
    BY <1>7 DEF ShippedRead, Claim
  <2>2. Worked(t)
    BY <1>7, ShippedReadKeepsDiscipline, ClaimKeepsDiscipline DEF Ground
  <2>3. QED
    BY <1>5, <2>1, <2>2
<1>8. ASSUME NEW t \in Txs, ReceiveLine(t) \/ ReceiveDecide(t)
                            \/ PostFind(t) \/ PostUpdate(t) \/ PostInsert(t)
      PROVE  Unseen
  BY <1>5, <1>8, ReceiveLineWorks, ReceiveDecideWorks, PostFindWorks, PostUpdateWorks,
     PostInsertWorks DEF Ground
<1>9. ASSUME NEW t \in Txs, Commits(t) PROVE Atomic!Next
  BY <1>9, MoveIsAtomic, ShipIsAtomic, NoticeIsAtomic, ReceiveIsAtomic, PostIsAtomic
     DEF Commits, Atomic!Next
<1>10. QED
  BY <1>1, <1>2, <1>3, <1>4, <1>6, <1>7, <1>8, <1>9, ProceedIs, RollbackIsUnseen
     DEF Next, Step, Abort

\* The refinement: whatever interleaves, fails, crashes or is delivered
\* twice, as long as clients take turns every step of the flow is a step of
\* AtomicInbound on the committed rows, or changes none of them, for any
\* orders, products, connections and requests that name each line once.
THEOREM InboundIsAtomic ==
    ASSUME LinesNamedOnce
    PROVE  SerialSpec => ActsAtomically
<1>1. Ground /\ Turns /\ Fitting /\ [Next]_vars => Fitting'
  BY NextKeepsFitting
<1>2. Ground /\ Ledger /\ Turns /\ Fitting' /\ [Next]_vars => [Atomic!Next]_(Atomic!state)
  BY NextIsAtomic
<1>3. QED
  BY <1>1, <1>2, InitFitting, InitIsAtomic, SerialIsSpec, GroundIsKept, LedgerIsKept,
     TurnsAreTaken, PTL DEF Spec, ActsAtomically, Atomic!Spec
=============================================================================
