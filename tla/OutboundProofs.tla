--------------------------- MODULE OutboundProofs ---------------------------
(***************************************************************************)
(* Theorems about the outbound flow, for any orders, products, requests,   *)
(* number of connections, deliveries and events: stock is never oversold,  *)
(* allocations cannot deadlock, an order is reserved as a whole, no line   *)
(* ships more than was ordered, the ledger and the orders agree, and, as   *)
(* long as clients take turns, an order's status tells its lines, reserved *)
(* is outstanding and the flow implements AtomicOutbound.  The later ones  *)
(* rest on the discipline by which transactions take rows, and on what a   *)
(* client's turn leaves untouched, which are invariants of their own.      *)
(***************************************************************************)
EXTENDS Outbound, ReadCommittedProofs, Sums, FiniteSetTheorems, SequenceTheorems

-----------------------------------------------------------------------------
(* The sequences a transaction works through.                              *)

LEMMA ArrangementsAreSequences ==
    ASSUME NEW S, IsFiniteSet(S)
    PROVE  Arrangements(S) \subseteq Seq(S)
<1>1. Cardinality(S) \in Nat
  BY FS_CardinalityType
<1>2. QED
  BY <1>1, SeqDef DEF Arrangements

\* What AllocateRead and CancelFind make of an arrangement is work to do.
LEMMA WorkIsASequence ==
    ASSUME NEW s \in Seq(Lines), NEW q \in [DOMAIN s -> Int]
    PROVE  LET work == [k \in DOMAIN s |-> [line |-> s[k], qty |-> q[k]]]
           IN  work \in Seq(Items) /\ Len(work) = Len(s)
<1>1. DOMAIN s = 1 .. Len(s) /\ Len(s) \in Nat
  BY LenProperties
<1>2. \A k \in 1 .. Len(s) : s[k] \in Lines
  BY ElementOfSeq
<1>3. [k \in DOMAIN s |-> [line |-> s[k], qty |-> q[k]]] \in [1 .. Len(s) -> Items]
  BY <1>1, <1>2 DEF Items
<1>4. QED
  BY <1>1, <1>3, SeqDef, LenProperties

LEMMA OrdersHaveLines ==
    ASSUME NEW o \in Orders
    PROVE  /\ IsFiniteSet(LinesOf(o))
           /\ LinesOf(o) \subseteq Lines
           /\ Cardinality(LinesOf(o)) \in Nat \ {0}
<1>1. LinesOf(o) \subseteq Lines /\ LinesOf(o) # {}
  BY LinesAssumption DEF LinesOf
<1>2. IsFiniteSet(LinesOf(o))
  BY <1>1, LinesAssumption, FS_Subset
<1>3. QED
  BY <1>1, <1>2, FS_CardinalityType, FS_EmptySet

-----------------------------------------------------------------------------
(* Transaction records.                                                    *)

LEMMA BegunType ==
    ASSUME NEW op \in Ops, NEW o \in Orders \cup {NoOrder}, NEW e \in Nat,
           op \notin {"idle", "post"} => o \in Orders,
           NEW at \in {"start", "find", "work", "commit"},
           NEW work \in Seq(Items), at = "work" => work # <<>>,
           op \in {"fulfill", "post"} => work # <<>>
    PROVE  Begun(op, at, o, e, work) \in TxRecords
<1>1. at = "work" => 1 <= Len(work)
  BY EmptySeq
<1>2. QED
  BY <1>1 DEF Begun, TxRecords, TxFields

LEMMA IdleType == Idle \in TxRecords
BY BegunType, EmptySeq DEF Idle, Ops

\* The item at hand is one, and the transaction is well-formed once past it.
LEMMA AdvancedType ==
    ASSUME NEW t \in Txs, tx[t] \in TxRecords, tx[t].at = "work",
           NEW then \in {"lines", "decide", "commit"}
    PROVE  /\ Item(t) \in Items
           /\ Advanced(t, then) \in TxRecords
<1>1. /\ tx[t].next \in 1 .. Len(tx[t].work)
      /\ Len(tx[t].work) \in Nat
  BY LenProperties DEF TxRecords, TxFields
<1>2. Item(t) \in Items
  BY <1>1, ElementOfSeq DEF Item, TxRecords, TxFields
<1>3. Advanced(t, then) \in TxRecords
  <2> DEFINE at == IF tx[t].next = Len(tx[t].work) THEN then ELSE "work"
             r == [tx[t] EXCEPT !.next = @ + 1, !.at = at]
  <2>1. /\ tx[t] \in TxFields
        /\ tx[t].op \notin {"idle", "post"} => tx[t].order \in Orders
        /\ tx[t].op \in {"fulfill", "post"} => tx[t].work # <<>>
    BY DEF TxRecords
  <2>2. /\ at \in {"work", "lines", "decide", "commit"}
        /\ at = "work" => tx[t].next + 1 <= Len(tx[t].work)
    BY <1>1
  <2>3. /\ r \in TxFields
        /\ r.op = tx[t].op /\ r.order = tx[t].order /\ r.work = tx[t].work
        /\ r.at = at /\ r.next = tx[t].next + 1
    <3> DEFINE q == [tx[t] EXCEPT !.next = @ + 1]
    <3> HIDE DEF at
    <3>1. /\ q \in TxFields
          /\ q.op = tx[t].op /\ q.order = tx[t].order /\ q.work = tx[t].work
          /\ q.next = tx[t].next + 1
      BY <2>1 DEF TxFields
    <3>2. r = [q EXCEPT !.at = at]
      BY <2>1 DEF TxFields
    <3> HIDE DEF q, r
    <3>3. QED
      BY <3>1, <3>2, <2>2 DEF TxFields
  <2>4. r \in TxRecords
    <3> HIDE DEF r, at
    <3>1. QED
      BY <2>1, <2>2, <2>3 DEF TxRecords
  <2>5. QED
    BY <2>4 DEF Advanced
<1>4. QED
  BY <1>2, <1>3

-----------------------------------------------------------------------------
(* The rows, when transaction t ends.                                      *)

LEMMA CommitTypes ==
    ASSUME TypeOK, NEW t \in Txs, Commit(t), UNCHANGED <<sent, bus, received>>
    PROVE  InventoryTypeOK' /\ (line \in [Lines -> RowOf(Quantities, Txs)])'
                            /\ (tx \in [Txs -> TxRecords])'
BY TableTypes, IdleType, Zenon
   DEF TypeOK, InventoryTypeOK, Commit, CommitInventory, Closed

LEMMA RollbackTypes ==
    ASSUME TypeOK, NEW t \in Txs, Rollback(t)
    PROVE  TypeOK'
<1>1. InventoryTypeOK' /\ (line \in [Lines -> RowOf(Quantities, Txs)])'
  BY TableTypes, Zenon
     DEF TypeOK, InventoryTypeOK, Rollback, RollbackInventory
<1>2. tx' \in [Txs -> TxRecords]
  BY IdleType DEF TypeOK, Rollback, Closed
<1>3. QED
  BY <1>1, <1>2 DEF TypeOK, Rollback

-----------------------------------------------------------------------------
(* Type correctness.                                                       *)

LEMMA InitTypes == Init => TypeOK
<1>1. ASSUME Init PROVE InventoryTypeOK
  <2>1. stock \in [Products -> RowOf(StockLevels, Txs)]
    BY <1>1, StockAssumption DEF Init, InventoryInit, RowOf, Row, StockLevels
  <2>2. resv \in [Lines -> RowOf(Reservations, Txs)]
    BY <1>1 DEF Init, InventoryInit, RowOf, Row, Reservations, NoResv
  <2>3. claim \in [Events -> RowOf(BOOLEAN, Txs)]
    BY <1>1 DEF Init, InventoryInit, RowOf, Row
  <2>4. sent \in [Events -> Seq(Items)]
    BY <1>1, EmptySeq DEF Init, InventoryInit
  <2>5. bus \in [Events -> Nat] /\ received \in [Products -> Nat]
    BY <1>1 DEF Init, InventoryInit
  <2>6. QED
    BY <2>1, <2>2, <2>3, <2>4, <2>5 DEF InventoryTypeOK
<1>2. ASSUME Init PROVE line \in [Lines -> RowOf(Quantities, Txs)]
  BY <1>2 DEF Init, RowOf, Row, Quantities
<1>3. ASSUME Init PROVE tx \in [Txs -> TxRecords]
  BY <1>3, IdleType DEF Init, InventoryInit
<1>4. QED
  BY <1>1, <1>2, <1>3 DEF Init, InventoryInit, TypeOK

\* Beginning a callback, which reads and changes no row.
LEMMA ReadTypes ==
    ASSUME TypeOK, NEW t \in Txs, NEW r \in TxRecords,
           tx' = [tx EXCEPT ![t] = r],
           UNCHANGED <<inventoryVars, busVars, received, status, line>>
    PROVE  TypeOK'
BY DEF TypeOK, InventoryTypeOK, inventoryVars, busVars, Events

LEMMA RequestTypes ==
    ASSUME TypeOK, NEW t \in Txs, Request(t)
    PROVE  TypeOK'
<1>1. PICK o \in Orders : \/ ConfirmRead(t, o) \/ AllocateRead(t, o) \/ CancelRead(t, o)
                          \/ \E r \in Requests : FulfillRead(t, o, r)
  BY DEF Request
<1>2. CASE ConfirmRead(t, o)
  <2>1. Begun("confirm", "commit", o, 0, <<>>) \in TxRecords
    BY BegunType, EmptySeq DEF Ops
  <2>2. QED
    BY <1>2, <2>1, ReadTypes DEF ConfirmRead
<1>3. CASE AllocateRead(t, o)
  <2>1. PICK s \in SortedLines(o) :
          tx' = [tx EXCEPT ![t] = Begun("allocate", "work", o, 0,
                    [k \in DOMAIN s |-> [line |-> s[k], qty |-> Ordered[s[k]]]])]
    BY <1>3 DEF AllocateRead
  <2>2. s \in Seq(Lines) /\ s # <<>>
    <3>1. s \in [1 .. Cardinality(LinesOf(o)) -> LinesOf(o)]
      BY DEF SortedLines, Arrangements
    <3>2. s \in Seq(LinesOf(o)) /\ Len(s) = Cardinality(LinesOf(o))
      BY <3>1, OrdersHaveLines, SeqDef, LenProperties
    <3>3. QED
      BY <3>2, OrdersHaveLines, SeqMonotonic, EmptySeq
  <2> DEFINE q == [k \in DOMAIN s |-> Ordered[s[k]]]
             work == [k \in DOMAIN s |-> [line |-> s[k], qty |-> q[k]]]
  <2>3. q \in [DOMAIN s -> Int]
    BY <2>2, LenProperties, ElementOfSeq, LinesAssumption
  <2>4. work \in Seq(Items) /\ Len(work) = Len(s)
    <3> HIDE DEF q
    <3>1. QED
      BY <2>2, <2>3, WorkIsASequence
  <2>5. work # <<>>
    BY <2>2, <2>4, EmptySeq
  <2>6. Begun("allocate", "work", o, 0, work) \in TxRecords
    BY <2>4, <2>5, BegunType DEF Ops
  <2>7. QED
    BY <1>3, <2>1, <2>6, ReadTypes DEF AllocateRead
<1>4. CASE CancelRead(t, o)
  <2>1. \A at \in {"find", "commit"} : Begun("cancel", at, o, 0, <<>>) \in TxRecords
    BY BegunType, EmptySeq DEF Ops
  <2>2. QED
    BY <1>4, <2>1, ReadTypes DEF CancelRead
<1>5. CASE \E r \in Requests : FulfillRead(t, o, r)
  <2>1. PICK r \in Requests : FulfillRead(t, o, r)
    BY <1>5
  <2>2. r \in Seq(Items) /\ r # <<>>
    <3> DEFINE T == [line : Lines, qty : Nat \ {0}]
    <3>1. r \in Seq(T) /\ r # <<>>
      BY RequestsAssumption
    <3>2. T \subseteq Items
      BY DEF Items
    <3>3. QED
      BY <3>1, <3>2, SeqMonotonic, Zenon
  <2>3. Begun("fulfill", "work", o, 0, r) \in TxRecords
    BY <2>2, BegunType DEF Ops
  <2>4. QED
    BY <2>1, <2>3, ReadTypes DEF FulfillRead
<1>6. QED
  BY <1>1, <1>2, <1>3, <1>4, <1>5

\* Writing one item's rows and moving on to the next item.
LEMMA AllocateLineTypes ==
    ASSUME TypeOK, NEW t \in Txs, AllocateLine(t)
    PROVE  TypeOK'
<1> DEFINE i == Item(t)
           p == ProductOf[i.line]
<1>1. tx[t] \in TxRecords /\ tx[t].at = "work"
  BY DEF TypeOK, AllocateLine, At
<1>2. i \in Items /\ Advanced(t, "commit") \in TxRecords
  BY <1>1, AdvancedType
<1>3. i.line \in Lines /\ i.qty \in Int /\ p \in Products
  BY <1>2, LinesAssumption DEF Items
<1> HIDE DEF i, p
<1>4. stock' \in [Products -> RowOf(StockLevels, Txs)]
  <2>1. Sees(stock[p], t) \in StockLevels
    BY <1>3, PutTypes DEF TypeOK, InventoryTypeOK
  <2>2. [Sees(stock[p], t) EXCEPT !.reserved = @ + i.qty] \in StockLevels
    BY <2>1, <1>3 DEF StockLevels
  <2>3. stock' = [stock EXCEPT ![p] =
                    Put(@, t, [Sees(stock[p], t) EXCEPT !.reserved = @ + i.qty])]
    BY DEF AllocateLine, Reserve, i, p
  <2>4. QED
    BY <1>3, <2>2, <2>3, PutTypes DEF TypeOK, InventoryTypeOK
<1>5. resv' \in [Lines -> RowOf(Reservations, Txs)]
  <2>1. [qty |-> i.qty, fulfilled |-> 0, status |-> "ACTIVE"] \in Reservations
    BY <1>3 DEF Reservations
  <2>2. QED
    BY <1>3, <2>1, PutTypes DEF AllocateLine, Reserve, i, TypeOK, InventoryTypeOK
<1>6. line' \in [Lines -> RowOf(Quantities, Txs)]
  <2>1. Sees(line[i.line], t) \in Quantities
    BY <1>3, PutTypes DEF TypeOK
  <2>2. [Sees(line[i.line], t) EXCEPT !.reserved = i.qty] \in Quantities
    BY <2>1, <1>3 DEF Quantities
  <2>3. QED
    BY <1>3, <2>2, PutTypes DEF AllocateLine, i, TypeOK
<1>7. tx' \in [Txs -> TxRecords]
  BY <1>2 DEF AllocateLine, TypeOK
<1>8. QED
  BY <1>4, <1>5, <1>6, <1>7 DEF TypeOK, InventoryTypeOK, AllocateLine, busVars, Events

LEMMA CancelFindTypes ==
    ASSUME TypeOK, NEW t \in Txs, CancelFind(t)
    PROVE  TypeOK'
<1>1. tx[t] \in TxRecords /\ tx[t].op = "cancel" /\ tx[t].at = "find"
  BY DEF TypeOK, CancelFind, At
<1> DEFINE o == tx[t].order
           found == {l \in LinesOf(o) : Active(t, l)}
<1>2. o \in Orders
  BY <1>1 DEF TxRecords
<1>3. PICK work \in ActiveReservations(t, o) :
        tx' = [tx EXCEPT ![t].work = work,
                         ![t].at = IF work = <<>> THEN "lines" ELSE "work"]
  BY DEF CancelFind
<1>4. work \in Seq(Items)
  <2>1. PICK s \in Arrangements(found) :
          work = [k \in DOMAIN s |-> [line |-> s[k], qty |-> Remaining(t, s[k])]]
    BY DEF ActiveReservations
  <2>2. s \in Seq(Lines)
    <3>1. found \subseteq Lines /\ IsFiniteSet(found)
      BY <1>2, OrdersHaveLines, FS_Subset
    <3>2. s \in Seq(found)
      BY <3>1, <2>1, ArrangementsAreSequences
    <3>3. QED
      BY <3>1, <3>2, SeqMonotonic
  <2> DEFINE q == [k \in DOMAIN s |-> Remaining(t, s[k])]
  <2>3. q \in [DOMAIN s -> Int]
    <3>1. \A l \in Lines : Sees(resv[l], t) \in Reservations
      BY PutTypes DEF TypeOK, InventoryTypeOK
    <3>2. \A l \in Lines : Remaining(t, l) \in Int
      BY <3>1 DEF Remaining, Reservations
    <3>3. QED
      BY <3>2, <2>2, LenProperties, ElementOfSeq
  <2>4. work = [k \in DOMAIN s |-> [line |-> s[k], qty |-> q[k]]]
    BY <2>1
  <2>5. QED
    <3> HIDE DEF q
    <3>1. QED
      BY <2>2, <2>3, <2>4, WorkIsASequence
<1> DEFINE at == IF work = <<>> THEN "lines" ELSE "work"
           r == [tx[t] EXCEPT !.work = work, !.at = at]
<1>5. tx' = [tx EXCEPT ![t] = r]
  BY <1>3 DEF TypeOK
<1>6. r \in TxRecords
  <2>1. at = "work" => 1 <= Len(work)
    BY <1>4, EmptySeq
  <2>2. /\ tx[t] \in TxFields /\ tx[t].next = 1
        /\ tx[t].order \in Orders /\ tx[t].op = "cancel"
    BY <1>1, <1>2 DEF TxRecords
  <2>3. at \in {"lines", "work"}
    OBVIOUS
  <2> HIDE DEF at
  <2>4. r \in TxFields
    BY <2>2, <2>3, <1>4 DEF TxFields
  <2>5. /\ r.op = "cancel" /\ r.order \in Orders
        /\ r.at = at /\ r.next = 1 /\ r.work = work
    BY <2>2 DEF TxFields
  <2> HIDE DEF r
  <2>6. QED
    BY <2>1, <2>3, <2>4, <2>5 DEF TxRecords
<1>7. QED
  BY <1>5, <1>6, ReadTypes DEF CancelFind

\* The item and the rows of a transaction at work.
LEMMA AtWork ==
    ASSUME TypeOK, NEW t \in Txs, tx[t].at = "work",
           NEW then \in {"lines", "decide", "commit"}
    PROVE  /\ Advanced(t, then) \in TxRecords
           /\ Item(t).line \in Lines /\ Item(t).qty \in Int
           /\ ProductOf[Item(t).line] \in Products
           /\ Sees(stock[ProductOf[Item(t).line]], t) \in StockLevels
           /\ Sees(resv[Item(t).line], t) \in Reservations
           /\ Sees(line[Item(t).line], t) \in Quantities
<1>1. tx[t] \in TxRecords
  BY DEF TypeOK
<1>2. Item(t) \in Items /\ Advanced(t, then) \in TxRecords
  BY <1>1, AdvancedType
<1>3. Item(t).line \in Lines /\ Item(t).qty \in Int /\ ProductOf[Item(t).line] \in Products
  BY <1>2, LinesAssumption DEF Items
<1>4. /\ stock \in [Products -> RowOf(StockLevels, Txs)]
      /\ resv \in [Lines -> RowOf(Reservations, Txs)]
      /\ line \in [Lines -> RowOf(Quantities, Txs)]
  BY DEF TypeOK, InventoryTypeOK
<1>5. /\ Sees(stock[ProductOf[Item(t).line]], t) \in StockLevels
      /\ Sees(resv[Item(t).line], t) \in Reservations
      /\ Sees(line[Item(t).line], t) \in Quantities
  BY <1>3, <1>4, PutTypes
<1>6. QED
  BY <1>2, <1>3, <1>5

LEMMA CancelLineTypes ==
    ASSUME TypeOK, NEW t \in Txs, CancelLine(t)
    PROVE  TypeOK'
<1> DEFINE i == Item(t)
           p == ProductOf[i.line]
<1>1. tx[t].at = "work"
  BY DEF CancelLine, At
<1>2. /\ i.line \in Lines /\ i.qty \in Int /\ p \in Products
      /\ Sees(stock[p], t) \in StockLevels /\ Sees(resv[i.line], t) \in Reservations
      /\ Advanced(t, "lines") \in TxRecords
  BY <1>1, AtWork
<1> HIDE DEF i, p
<1>3. stock' \in [Products -> RowOf(StockLevels, Txs)]
  <2>1. [Sees(stock[p], t) EXCEPT !.reserved = @ - i.qty] \in StockLevels
    BY <1>2 DEF StockLevels
  <2>2. \/ stock' = stock
        \/ stock' = [stock EXCEPT ![p] =
                       Put(@, t, [Sees(stock[p], t) EXCEPT !.reserved = @ - i.qty])]
    BY DEF CancelLine, Release, i, p
  <2>3. [stock EXCEPT ![p] = Put(@, t, [Sees(stock[p], t) EXCEPT !.reserved = @ - i.qty])]
            \in [Products -> RowOf(StockLevels, Txs)]
    BY <1>2, <2>1, PutTypes DEF TypeOK, InventoryTypeOK
  <2>4. QED
    BY <2>2, <2>3 DEF TypeOK, InventoryTypeOK
<1>4. resv' \in [Lines -> RowOf(Reservations, Txs)]
  <2>1. [Sees(resv[i.line], t) EXCEPT !.status = "CANCELLED"] \in Reservations
    BY <1>2 DEF Reservations
  <2>2. QED
    BY <1>2, <2>1, PutTypes DEF CancelLine, Release, i, TypeOK, InventoryTypeOK
<1>5. tx' \in [Txs -> TxRecords]
  BY <1>2 DEF CancelLine, TypeOK
<1>6. QED
  BY <1>3, <1>4, <1>5 DEF TypeOK, InventoryTypeOK, CancelLine, busVars, Events

LEMMA CancelLinesTypes ==
    ASSUME TypeOK, NEW t \in Txs, CancelLines(t)
    PROVE  TypeOK'
<1>1. line' \in [Lines -> RowOf(Quantities, Txs)]
  <2>1. ASSUME NEW l \in Lines
        PROVE  Put(line[l], t, [Sees(line[l], t) EXCEPT !.reserved = 0])
                   \in RowOf(Quantities, Txs)
    <3>1. line[l] \in RowOf(Quantities, Txs) /\ Sees(line[l], t) \in Quantities
      BY PutTypes DEF TypeOK
    <3>2. [Sees(line[l], t) EXCEPT !.reserved = 0] \in Quantities
      BY <3>1 DEF Quantities
    <3>3. QED
      BY <3>1, <3>2, RowTypes
  <2>2. QED
    BY <2>1 DEF CancelLines, TypeOK
<1>2. tx' \in [Txs -> TxRecords]
  <2>1. tx[t] \in TxFields /\ tx[t].op = "cancel" /\ tx[t].order \in Orders
    BY DEF CancelLines, At, TypeOK, TxRecords
  <2>2. [tx[t] EXCEPT !.at = "commit"] \in TxRecords
    BY <2>1 DEF TxRecords, TxFields
  <2>3. QED
    BY <2>2 DEF CancelLines, TypeOK
<1>3. QED
  BY <1>1, <1>2 DEF TypeOK, InventoryTypeOK, CancelLines, inventoryVars, busVars, Events

LEMMA FulfillLineTypes ==
    ASSUME TypeOK, NEW t \in Txs, FulfillLine(t)
    PROVE  TypeOK'
<1> DEFINE i == Item(t)
           now == Sees(line[i.line], t)
<1>1. tx[t].at = "work"
  BY DEF FulfillLine, At
<1>2. /\ i.line \in Lines /\ i.qty \in Int
      /\ now \in Quantities
      /\ Advanced(t, "decide") \in TxRecords
  BY <1>1, AtWork
<1>3. [reserved |-> now.reserved - i.qty, fulfilled |-> now.fulfilled + i.qty] \in Quantities
  BY <1>2 DEF Quantities
<1>4. line' \in [Lines -> RowOf(Quantities, Txs)]
  BY <1>2, <1>3, PutTypes DEF FulfillLine, TypeOK
<1>5. tx' \in [Txs -> TxRecords]
  BY <1>2 DEF FulfillLine, TypeOK
<1>6. QED
  BY <1>4, <1>5 DEF TypeOK, InventoryTypeOK, FulfillLine, inventoryVars, busVars, Events

LEMMA FulfillDecideTypes ==
    ASSUME TypeOK, NEW t \in Txs, FulfillDecide(t)
    PROVE  TypeOK'
<1> DEFINE to == IF FullyFulfilled(t, tx[t].order) THEN "FULFILLED" ELSE "PARTIALLY_FULFILLED"
           r == [tx[t] EXCEPT !.at = "commit", !.to = to]
<1>1. /\ tx[t] \in TxFields /\ tx[t].op = "fulfill"
      /\ tx[t].order \in Orders /\ tx[t].work # <<>>
  BY DEF FulfillDecide, At, TypeOK, TxRecords
<1>2. to \in Statuses
  BY DEF Statuses
<1> HIDE DEF to
<1>3. r \in TxRecords
  BY <1>1, <1>2 DEF TxRecords, TxFields
<1>4. tx' = [tx EXCEPT ![t] = r]
  BY DEF FulfillDecide, TypeOK, to
<1>5. QED
  BY <1>3, <1>4, ReadTypes DEF FulfillDecide

\* The commits of a request write the status of its order.
LEMMA StatusCommitTypes ==
    ASSUME TypeOK, NEW t \in Txs, tx[t].order \in Orders, NEW s \in Statuses,
           status' = [status EXCEPT ![tx[t].order] = s], Commit(t),
           UNCHANGED <<busVars, received>>
    PROVE  TypeOK'
<1>1. UNCHANGED <<sent, bus, received>>
  BY DEF busVars
<1>2. /\ InventoryTypeOK'
      /\ (line \in [Lines -> RowOf(Quantities, Txs)])'
      /\ (tx \in [Txs -> TxRecords])'
  BY <1>1, CommitTypes
<1>3. QED
  BY <1>1, <1>2 DEF TypeOK, Events

LEMMA FulfillCommitTypes ==
    ASSUME TypeOK, NEW t \in Txs, FulfillCommit(t)
    PROVE  TypeOK'
<1>1. /\ tx[t].order \in Orders /\ tx[t].work \in Seq(Items) /\ tx[t].work # <<>>
      /\ tx[t].to \in Statuses \cup {"NONE"}
  BY DEF FulfillCommit, At, TypeOK, TxRecords, TxFields
<1>2. PICK e \in Events : Emit(e, tx[t].work)
  BY DEF FulfillCommit
<1>3. sent' \in [Events -> Seq(Items)] /\ bus' \in [Events -> Nat]
  BY <1>1, <1>2, BoundsAssumption DEF Emit, TypeOK, InventoryTypeOK
<1>4. \A d \in Events : bus'[d] > 0 => sent'[d] # <<>>
  BY <1>1, <1>2 DEF Emit, TypeOK, InventoryTypeOK
<1>5. /\ stock' \in [Products -> RowOf(StockLevels, Txs)]
      /\ resv' \in [Lines -> RowOf(Reservations, Txs)]
      /\ claim' \in [Events -> RowOf(BOOLEAN, Txs)]
      /\ line' \in [Lines -> RowOf(Quantities, Txs)]
  BY TableTypes, Zenon
     DEF FulfillCommit, Commit, CommitInventory, TypeOK, InventoryTypeOK
<1>6. tx' \in [Txs -> TxRecords]
  BY IdleType DEF FulfillCommit, Commit, Closed, TypeOK
<1>7. status' \in [Orders -> Statuses \cup {"NONE"}]
  BY <1>1 DEF FulfillCommit, TypeOK
<1>8. received' = received
  BY DEF FulfillCommit
<1>9. QED
  BY <1>3, <1>4, <1>5, <1>6, <1>7, <1>8 DEF TypeOK, InventoryTypeOK

LEMMA ClaimTypes ==
    ASSUME TypeOK, NEW t \in Txs, NEW e \in Events, Claim(t, e),
           UNCHANGED <<status, line>>
    PROVE  TypeOK'
<1>1. e \in Nat /\ bus[e] \in Nat /\ sent[e] \in Seq(Items) /\ sent[e] # <<>>
  BY BoundsAssumption DEF Events, Claim, TypeOK, InventoryTypeOK
<1>2. Begun("post", "work", NoOrder, e, sent[e]) \in TxRecords
  BY <1>1, BegunType DEF Ops
<1>3. tx' \in [Txs -> TxRecords]
  BY <1>2 DEF Claim, TypeOK
<1>4. claim' \in [Events -> RowOf(BOOLEAN, Txs)]
  <2>1. [claim EXCEPT ![e] = Put(@, t, TRUE)] \in [Events -> RowOf(BOOLEAN, Txs)]
    BY PutTypes, Zenon DEF TypeOK, InventoryTypeOK
  <2>2. QED
    BY <2>1 DEF Claim, TypeOK, InventoryTypeOK
<1>5. bus' \in [Events -> Nat] /\ sent' = sent
  BY <1>1 DEF Claim, TypeOK, InventoryTypeOK
<1>6. \A d \in Events : bus'[d] > 0 => bus[d] > 0
  BY <1>1 DEF Claim, TypeOK, InventoryTypeOK
<1>7. QED
  BY <1>3, <1>4, <1>5, <1>6 DEF Claim, TypeOK, InventoryTypeOK

LEMMA PostLineTypes ==
    ASSUME TypeOK, NEW t \in Txs, PostLine(t), UNCHANGED <<status, line>>
    PROVE  TypeOK'
<1> DEFINE i == Item(t)
           p == ProductOf[i.line]
<1>1. tx[t].at = "work"
  BY DEF PostLine, At
<1>2. /\ i.line \in Lines /\ i.qty \in Int /\ p \in Products
      /\ Sees(stock[p], t) \in StockLevels /\ Sees(resv[i.line], t) \in Reservations
      /\ Advanced(t, "commit") \in TxRecords
  BY <1>1, AtWork
<1> HIDE DEF i, p
<1>3. stock' \in [Products -> RowOf(StockLevels, Txs)]
  <2>1. Shipped(Sees(stock[p], t), i.qty) \in StockLevels
    BY <1>2 DEF StockLevels, Shipped
  <2>2. QED
    BY <1>2, <2>1, PutTypes DEF PostLine, i, p, TypeOK, InventoryTypeOK
<1>4. resv' \in [Lines -> RowOf(Reservations, Txs)]
  <2>1. Consumed(Sees(resv[i.line], t), i.qty) \in Reservations
    BY <1>2 DEF Consumed, Reservations
  <2>2. QED
    BY <1>2, <2>1, PutTypes DEF PostLine, i, TypeOK, InventoryTypeOK
<1>5. tx' \in [Txs -> TxRecords]
  BY <1>2 DEF PostLine, TypeOK
<1>6. QED
  BY <1>3, <1>4, <1>5 DEF TypeOK, InventoryTypeOK, PostLine, Events

LEMMA ProceedTypes ==
    ASSUME TypeOK, NEW t \in Txs, Proceed(t)
    PROVE  TypeOK'
<1>1. tx[t].op \notin {"idle", "post"} => tx[t].order \in Orders
  BY DEF TypeOK, TxRecords
<1>2. CASE ConfirmCommit(t)
  BY <1>1, <1>2, StatusCommitTypes DEF ConfirmCommit, At, Statuses
<1>3. CASE AllocateCommit(t)
  BY <1>1, <1>3, StatusCommitTypes DEF AllocateCommit, At, Statuses
<1>4. CASE CancelCommit(t)
  BY <1>1, <1>4, StatusCommitTypes DEF CancelCommit, At, Statuses
<1>5. CASE AllocateReject(t) \/ FulfillReject(t) \/ DeadlockVictim(t)
  BY <1>5, RollbackTypes DEF AllocateReject, FulfillReject, DeadlockVictim
<1>6. CASE Handle(t)
  <2>1. UNCHANGED <<status, line>>
    BY <1>6 DEF Handle
  <2>2. CASE \E e \in Events : Claim(t, e)
    BY <2>1, <2>2, ClaimTypes
  <2>3. CASE PostLine(t)
    BY <2>1, <2>3, PostLineTypes
  <2>4. CASE PostCommit(t)
    <3>1. /\ stock' \in [Products -> RowOf(StockLevels, Txs)]
          /\ resv' \in [Lines -> RowOf(Reservations, Txs)]
          /\ claim' \in [Events -> RowOf(BOOLEAN, Txs)]
      <4>1. CommitInventory(t) /\ InventoryTypeOK
        BY <2>4 DEF PostCommit, TypeOK
      <4>2. QED
        BY <4>1, TableTypes, Zenon DEF CommitInventory, InventoryTypeOK
    <3>2. tx' \in [Txs -> TxRecords]
      BY <2>4, IdleType DEF PostCommit, Closed, TypeOK
    <3>3. QED
      BY <2>1, <2>4, <3>1, <3>2 DEF PostCommit, TypeOK, InventoryTypeOK, Events
  <2>5. QED
    BY <1>6, <2>2, <2>3, <2>4 DEF Handle
<1>7. QED
  BY <1>2, <1>3, <1>4, <1>5, <1>6, AllocateLineTypes, CancelFindTypes, CancelLineTypes,
     CancelLinesTypes, FulfillLineTypes, FulfillDecideTypes, FulfillCommitTypes
     DEF Proceed

\* Every behaviour of the outbound flow stays within its types: whatever the
\* interleaving, a transaction that works has an item to work on, and a
\* delivery finds a payload.
THEOREM Typing == Spec => []TypeOK
<1>1. ASSUME TypeOK, [Next]_vars PROVE TypeOK'
  <2>1. CASE UNCHANGED vars
    BY <1>1, <2>1 DEF TypeOK, InventoryTypeOK, vars, Events
  <2>2. ASSUME NEW o \in Orders, Create(o) PROVE TypeOK'
    BY <1>1, <2>2
       DEF Create, TypeOK, InventoryTypeOK, inventoryVars, busVars, Statuses, Events
  <2>3. ASSUME NEW p \in Products, Restock(p) PROVE TypeOK'
    <3>1. stock[p] \in RowOf(StockLevels, Txs) /\ received[p] \in Nat
      BY <1>1 DEF TypeOK, InventoryTypeOK
    <3>2. [onHand |-> stock[p].com.onHand + 1, reserved |-> stock[p].com.reserved]
              \in StockLevels
      BY <3>1 DEF RowOf, StockLevels
    <3>3. stock' \in [Products -> RowOf(StockLevels, Txs)]
      <4> DEFINE v == [onHand |-> stock[p].com.onHand + 1, reserved |-> stock[p].com.reserved]
      <4> HIDE DEF v
      <4>1. Row(v) \in RowOf(StockLevels, Txs)
        BY <3>2 DEF Row, RowOf, v
      <4>2. stock' = [stock EXCEPT ![p] = Row(v)]
        BY <2>3 DEF Restock, Receive, v
      <4>3. QED
        BY <1>1, <4>1, <4>2 DEF TypeOK, InventoryTypeOK
    <3>4. received' \in [Products -> Nat]
      BY <1>1, <2>3, <3>1 DEF Restock, Receive, TypeOK, InventoryTypeOK
    <3>5. QED
      BY <1>1, <2>3, <3>3, <3>4 DEF Restock, Receive, TypeOK, InventoryTypeOK, Events
  <2>4. CASE Crash
    <3>1. stock' \in [Products -> RowOf(StockLevels, Txs)]
      BY <1>1, <2>4, RestartedTypes DEF Crash, TypeOK, InventoryTypeOK
    <3>2. resv' \in [Lines -> RowOf(Reservations, Txs)]
      BY <1>1, <2>4, RestartedTypes DEF Crash, TypeOK, InventoryTypeOK
    <3>3. claim' \in [Events -> RowOf(BOOLEAN, Txs)]
      BY <1>1, <2>4, RestartedTypes, Zenon DEF Crash, TypeOK, InventoryTypeOK
    <3>4. line' \in [Lines -> RowOf(Quantities, Txs)]
      BY <1>1, <2>4, RestartedTypes DEF Crash, TypeOK
    <3>5. tx' \in [Txs -> TxRecords]
      BY <2>4, IdleType DEF Crash
    <3>6. bus' \in [Events -> Nat] /\ \A e \in Events : ~(bus'[e] > 0)
      BY <2>4 DEF Crash
    <3>7. QED
      BY <1>1, <2>4, <3>1, <3>2, <3>3, <3>4, <3>5, <3>6
         DEF Crash, TypeOK, InventoryTypeOK
  <2>5. ASSUME NEW t \in Txs, Request(t) \/ Proceed(t) \/ Abort(t) PROVE TypeOK'
    BY <1>1, <2>5, RequestTypes, ProceedTypes, RollbackTypes DEF Abort
  <2>6. QED
    BY <1>1, <2>1, <2>2, <2>3, <2>4, <2>5 DEF Next, Step
<1>2. QED
  BY <1>1, InitTypes, PTL DEF Spec

-----------------------------------------------------------------------------
(* No oversell.  Invariant by itself: an allocation checks the row it has  *)
(* locked, a release only lowers `reserved', shipping lowers both by the   *)
(* same amount, and ending a transaction picks one of the two versions.    *)

LEMMA WriteKeepsCover ==
    ASSUME TypeOK, NoOversell, NEW t \in Txs, NEW p \in Products,
           NEW v \in StockLevels, v.reserved <= v.onHand,
           stock' = [stock EXCEPT ![p] = Put(@, t, v)]
    PROVE  NoOversell'
<1>1. stock \in [Products -> RowOf(StockLevels, Txs)]
  BY DEF TypeOK, InventoryTypeOK
<1>2. stock[p] \in RowOf(StockLevels, Txs)
  BY <1>1
<1>3. Put(stock[p], t, v).com = stock[p].com /\ Put(stock[p], t, v).cur = v
  BY <1>2 DEF Put, RowOf
<1>4. QED
  BY <1>1, <1>3 DEF NoOversell

LEMMA EndKeepsCover ==
    ASSUME TypeOK, NoOversell, NEW t,
           stock' \in {CommitAll(stock, t), RollbackAll(stock, t), Restarted(stock)}
    PROVE  NoOversell'
<1>1. DOMAIN stock = Products
  BY DEF TypeOK, InventoryTypeOK
<1>2. ASSUME NEW p \in Products
      PROVE  stock'[p].com \in {stock[p].com, stock[p].cur}
             /\ stock'[p].cur \in {stock[p].com, stock[p].cur}
  BY <1>1, EndedVersions DEF CommitAll, RollbackAll, Restarted, Row
<1>3. QED
  BY <1>2 DEF NoOversell

LEMMA SeesCovered ==
    ASSUME TypeOK, NoOversell, NEW t \in Txs, NEW p \in Products
    PROVE  Sees(stock[p], t).reserved <= Sees(stock[p], t).onHand
BY DEF NoOversell, Sees

LEMMA AllocateLineKeepsCover ==
    ASSUME TypeOK, NoOversell, NEW t \in Txs, AllocateLine(t)
    PROVE  NoOversell'
<1> DEFINE i == Item(t)
           p == ProductOf[i.line]
           v == [Sees(stock[p], t) EXCEPT !.reserved = @ + i.qty]
<1>1. i.qty \in Int /\ p \in Products /\ Sees(stock[p], t) \in StockLevels
  BY AtWork DEF AllocateLine, At
<1>2. v \in StockLevels /\ v.reserved <= v.onHand
  <2>1. Sees(stock[p], t).onHand - Sees(stock[p], t).reserved >= i.qty
    BY DEF AllocateLine, CanReserve
  <2> HIDE DEF i, p
  <2>2. QED
    BY <1>1, <2>1 DEF StockLevels
<1>3. stock' = [stock EXCEPT ![p] = Put(@, t, v)]
  BY DEF AllocateLine, Reserve
<1> HIDE DEF v, p
<1>4. QED
  BY <1>1, <1>2, <1>3, WriteKeepsCover

LEMMA CancelLineKeepsCover ==
    ASSUME TypeOK, NoOversell, NEW t \in Txs, CancelLine(t)
    PROVE  NoOversell'
<1> DEFINE i == Item(t)
           p == ProductOf[i.line]
           v == [Sees(stock[p], t) EXCEPT !.reserved = @ - i.qty]
<1>1. i.qty \in Int /\ p \in Products /\ Sees(stock[p], t) \in StockLevels
  BY AtWork DEF CancelLine, At
<1>2. CASE i.qty > 0
  <2>1. v \in StockLevels /\ v.reserved <= v.onHand
    <3>1. Sees(stock[p], t).reserved <= Sees(stock[p], t).onHand
      BY <1>1, SeesCovered
    <3> HIDE DEF i, p
    <3>2. QED
      BY <1>1, <1>2, <3>1 DEF StockLevels
  <2>2. stock' = [stock EXCEPT ![p] = Put(@, t, v)]
    BY <1>2 DEF CancelLine, Release
  <2> HIDE DEF v, p
  <2>3. QED
    BY <1>1, <2>1, <2>2, WriteKeepsCover
<1>3. CASE ~(i.qty > 0)
  BY <1>3 DEF CancelLine, Release, NoOversell
<1>4. QED
  BY <1>2, <1>3

LEMMA PostLineKeepsCover ==
    ASSUME TypeOK, NoOversell, NEW t \in Txs, PostLine(t)
    PROVE  NoOversell'
<1> DEFINE i == Item(t)
           p == ProductOf[i.line]
           v == Shipped(Sees(stock[p], t), i.qty)
<1>1. i.qty \in Int /\ p \in Products /\ Sees(stock[p], t) \in StockLevels
  BY AtWork DEF PostLine, At
<1>2. v \in StockLevels /\ v.reserved <= v.onHand
  <2>1. Sees(stock[p], t).reserved <= Sees(stock[p], t).onHand
    BY <1>1, SeesCovered
  <2> HIDE DEF i, p
  <2>2. QED
    BY <1>1, <2>1 DEF StockLevels, Shipped
<1>3. stock' = [stock EXCEPT ![p] = Put(@, t, v)]
  BY DEF PostLine
<1> HIDE DEF v, p
<1>4. QED
  BY <1>1, <1>2, <1>3, WriteKeepsCover

LEMMA RestockKeepsCover ==
    ASSUME TypeOK, NoOversell, NEW p \in Products, Restock(p)
    PROVE  NoOversell'
<1>1. stock \in [Products -> RowOf(StockLevels, Txs)] /\ stock[p].com \in StockLevels
  BY DEF TypeOK, InventoryTypeOK, RowOf
<1>2. stock' = [stock EXCEPT ![p] = Row([onHand |-> stock[p].com.onHand + 1,
                                         reserved |-> stock[p].com.reserved])]
  BY DEF Restock, Receive
<1>3. stock[p].com.reserved <= stock[p].com.onHand + 1
  BY <1>1 DEF NoOversell, StockLevels
<1>4. QED
  BY <1>1, <1>2, <1>3 DEF NoOversell, Row

\* ADR 0006, for any number of orders, products and connections, through
\* aborts, crashes and repeated deliveries: no product ever has more units
\* reserved than on hand, not even in what an open transaction has written.
THEOREM NeverOversold == Spec => []NoOversell
<1>1. Init => NoOversell
  BY StockAssumption DEF Init, InventoryInit, NoOversell, Row
<1>2. ASSUME TypeOK, NoOversell, [Next]_vars PROVE NoOversell'
  <2>1. CASE UNCHANGED stock
    BY <1>2, <2>1 DEF NoOversell
  <2>2. ASSUME NEW t \in Txs, Commit(t) \/ Rollback(t) \/ PostCommit(t)
        PROVE  NoOversell'
    <3>1. stock' \in {CommitAll(stock, t), RollbackAll(stock, t), Restarted(stock)}
      BY <2>2 DEF Commit, Rollback, PostCommit, CommitInventory, RollbackInventory
    <3>2. QED
      BY <1>2, <3>1, EndKeepsCover
  <2>3. ASSUME NEW t \in Txs, AllocateLine(t) \/ CancelLine(t) \/ PostLine(t)
        PROVE  NoOversell'
    BY <1>2, <2>3, AllocateLineKeepsCover, CancelLineKeepsCover, PostLineKeepsCover
  <2>4. CASE Crash
    <3>1. stock' \in {CommitAll(stock, NoTx), RollbackAll(stock, NoTx), Restarted(stock)}
      BY <2>4 DEF Crash
    <3>2. QED
      BY <1>2, <3>1, EndKeepsCover
  <2>5. ASSUME NEW p \in Products, Restock(p) PROVE NoOversell'
    BY <1>2, <2>5, RestockKeepsCover
  <2>6. ASSUME NEW o \in Orders, Create(o) PROVE UNCHANGED stock
    BY <2>6 DEF Create, inventoryVars
  <2>7. ASSUME NEW t \in Txs, Request(t) PROVE UNCHANGED stock
    BY <2>7 DEF Request, ConfirmRead, AllocateRead, CancelRead, FulfillRead, inventoryVars
  <2>8. ASSUME NEW t \in Txs, Proceed(t)
        PROVE  \/ UNCHANGED stock
               \/ Commit(t) \/ Rollback(t) \/ PostCommit(t)
               \/ AllocateLine(t) \/ CancelLine(t) \/ PostLine(t)
    BY <2>8 DEF Proceed, ConfirmCommit, AllocateReject, AllocateCommit, CancelFind,
         CancelLines, CancelCommit, FulfillLine, FulfillReject, FulfillDecide,
         FulfillCommit, Handle, Claim, DeadlockVictim, inventoryVars
  <2>9. UNCHANGED vars => UNCHANGED stock
    BY DEF vars
  <2>10. QED
    BY <1>2, <2>1, <2>2, <2>3, <2>4, <2>5, <2>6, <2>7, <2>8, <2>9 DEF Next, Step, Abort
<1>3. QED
  BY <1>1, <1>2, Typing, PTL DEF Spec

-----------------------------------------------------------------------------
(* The discipline by which transactions take rows.                         *)


Positions(t) == 1 .. Len(tx[t].work)
LineAt(t, k) == tx[t].work[k].line

\* Rows that nobody holds have one version.
AtRest ==
    /\ \A p \in Products : stock[p].by = NoTx => stock[p].cur = stock[p].com
    /\ \A l \in Lines : resv[l].by = NoTx => resv[l].cur = resv[l].com
    /\ \A l \in Lines : line[l].by = NoTx => line[l].cur = line[l].com

\* Which operations hold which rows, and which row they took before.
Locks(t) ==
    /\ \A p \in Products :
        stock[p].by = t => tx[t].op \in {"allocate", "cancel", "post"}
    /\ \A l \in Lines : resv[l].by = t =>
        /\ tx[t].op \in {"allocate", "cancel", "post"}
        /\ tx[t].op # "cancel" => stock[ProductOf[l]].by = t
        /\ tx[t].op = "allocate" => OrderOf[l] = tx[t].order
    /\ \A l \in Lines : line[l].by = t =>
        /\ tx[t].op \in {"allocate", "cancel", "fulfill"}
        /\ tx[t].op = "allocate" => resv[l].by = t
    /\ \A e \in Events :
        claim[e].by = t => tx[t].op = "post" /\ tx[t].event = e

\* A line has a reservation, of whatever status.
Exists(l) == resv[l].com.status # "NONE"

\* What a transaction has written: reservations that are there, and only an
\* allocation makes them; quantities only where there is a reservation.
NoUnits == [reserved |-> 0, fulfilled |-> 0]

Writes(t) ==
    /\ \A l \in Lines : resv[l].by = t =>
        /\ resv[l].cur.status # "NONE"
        /\ tx[t].op = "allocate" <=> ~Exists(l)
    /\ \A l \in Lines : line[l].by = t =>
        line[l].cur = NoUnits \/ Exists(l) \/ resv[l].by = t

\* A callback is past its work only when all of it is done.
Finishes(t) ==
    tx[t].op \in {"allocate", "fulfill", "post"} /\ tx[t].at # "work" =>
        tx[t].next = Len(tx[t].work) + 1

\* An allocation works through the lines of its order by product, and holds
\* the rows of what it has done and no other stock.
Allocates(t) ==
    /\ \A k \in Positions(t) : /\ OrderOf[LineAt(t, k)] = tx[t].order
                               /\ tx[t].work[k].qty = Ordered[LineAt(t, k)]
    /\ \A l \in LinesOf(tx[t].order) : \E k \in Positions(t) : LineAt(t, k) = l
    /\ \A j, k \in Positions(t) :
        j < k => ProductOf[LineAt(t, j)] <= ProductOf[LineAt(t, k)]
    /\ \A k \in Positions(t) : k < tx[t].next => resv[LineAt(t, k)].by = t
    /\ \A p \in Products : stock[p].by = t =>
        \E k \in Positions(t) : k < tx[t].next /\ ProductOf[LineAt(t, k)] = p

\* A fulfilment has taken units of lines of its order that are reserved.
Fulfills(t) ==
    \A k \in Positions(t) :
        /\ tx[t].work[k].qty > 0
        /\ k < tx[t].next => /\ OrderOf[LineAt(t, k)] = tx[t].order
                             /\ Exists(LineAt(t, k))
                             /\ line[LineAt(t, k)].by = t

\* A handler works through the event it has claimed.
Posts(t) ==
    /\ tx[t].event \in Events
    /\ tx[t].work = sent[tx[t].event]
    /\ claim[tx[t].event].by = t
    /\ ~claim[tx[t].event].com
    /\ claim[tx[t].event].cur
    /\ \A k \in Positions(t) : k < tx[t].next => resv[LineAt(t, k)].by = t

Cancels(t) == \A k \in Positions(t) : Exists(LineAt(t, k))

Working(t) ==
    /\ tx[t].op = "allocate" => Allocates(t)
    /\ tx[t].op = "fulfill" => Fulfills(t)
    /\ tx[t].op = "post" => Posts(t)
    /\ tx[t].op = "cancel" => Cancels(t)

\* What is announced was reserved, and only what is announced is claimed.
Announced ==
    \A e \in Events :
        /\ \A k \in 1 .. Len(sent[e]) : sent[e][k].qty > 0 /\ Exists(sent[e][k].line)
        /\ sent[e] = <<>> => ~claim[e].com

\* A line has no quantities before it has a reservation.
Reserved ==
    \A l \in Lines : /\ resv[l].com.status = "NONE" => resv[l].com = NoResv
                     /\ line[l].com # NoUnits => Exists(l)

Own(t) == Locks(t) /\ Writes(t) /\ Finishes(t) /\ Working(t)

Discipline == AtRest /\ Announced /\ Reserved /\ \A t \in Txs : Own(t)

\* Budget of both versions.
Within(q, l) == q.reserved >= 0 /\ q.fulfilled >= 0 /\ q.reserved + q.fulfilled <= Ordered[l]
Budgets == \A l \in Lines : Within(line[l].com, l) /\ Within(line[l].cur, l)

\* What t has taken of line l so far.
Part(t, l) == Taken(tx[t].work, 1 .. (tx[t].next - 1), l)

\* What F says of the lines of product p together.
ProductSum(F, p) == GroupSum(F, Lines, ProductOf, p)

Claimed == {e \in Events : claim[e].com}
Stored == [l \in Lines |-> resv[l].com.fulfilled]
Seen(t) == [l \in Lines |-> Sees(resv[l], t).fulfilled]

\* The three equations of PostedExactlyOnce, ...
Posted == \A l \in Lines : resv[l].com.fulfilled = EventSum(sent, Claimed, l)
Sold == \A l \in Lines : line[l].com.fulfilled = EventSum(sent, Events, l)
Shelved ==
    \A p \in Products : OnHand[p] + received[p] - stock[p].com.onHand = ProductSum(Stored, p)

\* ... and what an open transaction has done of its part of them.
PostedBy(t, l) == IF tx[t].op = "post" THEN Part(t, l) ELSE 0
SoldBy(t, l) == IF tx[t].op = "fulfill" THEN Part(t, l) ELSE 0

Moved(t) ==
    \A l \in Lines :
        /\ resv[l].by = t => resv[l].cur.fulfilled = resv[l].com.fulfilled + PostedBy(t, l)
        /\ line[l].by = t => line[l].cur.fulfilled = line[l].com.fulfilled + SoldBy(t, l)

Balance(t) ==
    \A p \in Products : stock[p].by = t =>
        OnHand[p] + received[p] - stock[p].cur.onHand = ProductSum(Seen(t), p)

Ledger == Posted /\ Sold /\ Shelved /\ \A t \in Txs : Moved(t) /\ Balance(t)

-----------------------------------------------------------------------------
(* Ending a transaction: t lets go of its rows, which keep what it wrote   *)
(* if it committed and what was there before if not.                       *)

Ended(t, ok) ==
    /\ tx'[t] = Idle
    /\ \A u \in Txs \ {t} : tx'[u] = tx[u]
    /\ \A p \in Products : EndedRow(stock[p], stock'[p], t, ok)
    /\ \A l \in Lines : EndedRow(resv[l], resv'[l], t, ok)
    /\ \A l \in Lines : EndedRow(line[l], line'[l], t, ok)
    /\ \A e \in Events : EndedRow(claim[e], claim'[e], t, ok)

\* The types of the tables, one by one.
LEMMA Tables ==
    ASSUME TypeOK
    PROVE  /\ stock \in [Products -> RowOf(StockLevels, Txs)]
           /\ resv \in [Lines -> RowOf(Reservations, Txs)]
           /\ line \in [Lines -> RowOf(Quantities, Txs)]
           /\ claim \in [Events -> RowOf(BOOLEAN, Txs)]
           /\ sent \in [Events -> Seq(Items)]
           /\ tx \in [Txs -> TxRecords]
BY DEF TypeOK, InventoryTypeOK

LEMMA RollbackEnds ==
    ASSUME TypeOK, NEW t \in Txs, Rollback(t)
    PROVE  Ended(t, FALSE)
<1>0. /\ stock' = RollbackAll(stock, t) /\ resv' = RollbackAll(resv, t)
      /\ line' = RollbackAll(line, t) /\ claim' = RollbackAll(claim, t)
      /\ tx' = [tx EXCEPT ![t] = Idle]
  BY DEF Rollback, RollbackInventory, Closed
<1>1. \A p \in Products : EndedRow(stock[p], stock'[p], t, FALSE)
  BY <1>0, Tables, Released
<1>2. \A l \in Lines : EndedRow(resv[l], resv'[l], t, FALSE)
  BY <1>0, Tables, Released
<1>3. \A l \in Lines : EndedRow(line[l], line'[l], t, FALSE)
  BY <1>0, Tables, Released
<1>4. \A e \in Events : EndedRow(claim[e], claim'[e], t, FALSE)
  BY <1>0, Tables, Released
<1>5. QED
  BY <1>0, <1>1, <1>2, <1>3, <1>4, Tables DEF Ended

LEMMA CommitEnds ==
    ASSUME TypeOK, NEW t \in Txs, Locks(t),
           Commit(t) \/ (PostCommit(t) /\ UNCHANGED <<status, line>>)
    PROVE  Ended(t, TRUE)
<1>0. /\ stock' = CommitAll(stock, t) /\ resv' = CommitAll(resv, t)
      /\ claim' = CommitAll(claim, t)
      /\ tx' = [tx EXCEPT ![t] = Idle]
  BY DEF Commit, PostCommit, CommitInventory, Closed
<1>1. \A p \in Products : EndedRow(stock[p], stock'[p], t, TRUE)
  BY <1>0, Tables, Released
<1>2. \A l \in Lines : EndedRow(resv[l], resv'[l], t, TRUE)
  BY <1>0, Tables, Released
<1>3. \A l \in Lines : EndedRow(line[l], line'[l], t, TRUE)
  <2>1. CASE Commit(t)
    <3>1. line' = CommitAll(line, t)
      BY <2>1 DEF Commit
    <3>2. QED
      BY <3>1, Tables, Released
  <2>2. CASE PostCommit(t) /\ UNCHANGED <<status, line>>
    <3>1. tx[t].op = "post"
      BY <2>2 DEF PostCommit, At
    <3>2. \A l \in Lines : line[l].by # t
      BY <3>1 DEF Locks
    <3>3. QED
      BY <2>2, <3>2 DEF EndedRow
  <2>3. QED
    BY <2>1, <2>2
<1>4. \A e \in Events : EndedRow(claim[e], claim'[e], t, TRUE)
  BY <1>0, Tables, Released
<1>5. QED
  BY <1>0, <1>1, <1>2, <1>3, <1>4, Tables DEF Ended

-----------------------------------------------------------------------------
(* The discipline is kept by what others do, ...                           *)

KeptFor(u) ==
    /\ tx'[u] = tx[u]
    /\ \A p \in Products : stock[p].by = u \/ stock'[p].by = u => stock'[p] = stock[p]
    /\ \A l \in Lines : resv[l].by = u \/ resv'[l].by = u => resv'[l] = resv[l]
    /\ \A l \in Lines : line[l].by = u \/ line'[l].by = u => line'[l] = line[l]
    /\ \A e \in Events : claim[e].by = u \/ claim'[e].by = u => claim'[e] = claim[e]
    /\ \A l \in Lines : Exists(l) => Exists(l)'
    /\ \A e \in Events : sent[e] # <<>> => sent'[e] = sent[e]

LEMMA OwnIsKept ==
    ASSUME TypeOK, NEW u \in Txs, Own(u), KeptFor(u)
    PROVE  Own(u)'
<1>1. /\ tx'[u] = tx[u] /\ Positions(u)' = Positions(u)
      /\ \A k \in Positions(u) : LineAt(u, k)' = LineAt(u, k) /\ LineAt(u, k) \in Lines
  <2>1. \A k \in Positions(u) : tx[u].work[k] \in Items
    BY Tables DEF Positions, TxRecords, TxFields
  <2>2. QED
    BY <2>1 DEF KeptFor, Positions, LineAt, Items
<1>2. Locks(u)'
  <2>1. \A p \in Products :
           stock'[p].by = u => tx'[u].op \in {"allocate", "cancel", "post"}
    BY DEF Own, Locks, KeptFor
  <2>2. ASSUME NEW l \in Lines, resv'[l].by = u
        PROVE  /\ tx'[u].op \in {"allocate", "cancel", "post"}
               /\ tx'[u].op # "cancel" => stock'[ProductOf[l]].by = u
               /\ tx'[u].op = "allocate" => OrderOf[l] = tx'[u].order
    <3>1. ProductOf[l] \in Products /\ resv[l].by = u
      BY <2>2, LinesAssumption DEF KeptFor
    <3>2. QED
      BY <3>1 DEF Own, Locks, KeptFor
  <2>3. \A l \in Lines : line'[l].by = u =>
           /\ tx'[u].op \in {"allocate", "cancel", "fulfill"}
           /\ tx'[u].op = "allocate" => resv'[l].by = u
    BY DEF Own, Locks, KeptFor
  <2>4. \A e \in Events : claim'[e].by = u => tx'[u].op = "post" /\ tx'[u].event = e
    BY DEF Own, Locks, KeptFor
  <2>5. QED
    BY <2>1, <2>2, <2>3, <2>4 DEF Locks, Events
<1>3. Writes(u)'
  BY DEF Own, Writes, KeptFor, Exists
<1>4. Finishes(u)'
  BY <1>1 DEF Own, Finishes
<1>5. \A l \in Lines : /\ resv[l].by = u => resv'[l].by = u
                       /\ line[l].by = u => line'[l].by = u
                       /\ Exists(l) => Exists(l)'
  BY DEF KeptFor
<1>6. ASSUME tx[u].op = "allocate"
      PROVE  Allocates(u)'
  <2>1. \A p \in Products : stock'[p].by = u => stock[p].by = u
    BY DEF KeptFor
  <2>2. Allocates(u)
    BY <1>6 DEF Own, Working
  <2>3. QED
    BY <1>1, <1>5, <2>1, <2>2 DEF Allocates
<1>7. ASSUME tx[u].op = "fulfill"
      PROVE  Fulfills(u)'
  <2>1. Fulfills(u)
    BY <1>7 DEF Own, Working
  <2>2. QED
    BY <1>1, <1>5, <2>1 DEF Fulfills
<1>8. ASSUME tx[u].op = "post"
      PROVE  Posts(u)'
  <2>1. Posts(u) /\ tx[u].work # <<>>
    BY <1>8, Tables DEF Own, Working, TxRecords
  <2>2. sent'[tx[u].event] = sent[tx[u].event]
    BY <2>1 DEF Posts, KeptFor
  <2>3. claim'[tx'[u].event] = claim[tx[u].event]
    BY <1>1, <2>1 DEF Posts, KeptFor
  <2>4. (\A k \in Positions(u) : k < tx[u].next => resv[LineAt(u, k)].by = u)'
    BY <1>1, <1>5, <2>1 DEF Posts
  <2>5. /\ claim[tx[u].event].by = u /\ ~claim[tx[u].event].com
        /\ claim[tx[u].event].cur
    BY <2>1, Zenon DEF Posts
  <2>6. /\ claim'[tx'[u].event].by = u /\ ~claim'[tx'[u].event].com
        /\ claim'[tx'[u].event].cur
    BY <2>3, <2>5, Zenon
  <2>7. tx'[u].event \in Events' /\ tx'[u].work = sent'[tx'[u].event]
    BY <1>1, <2>1, <2>2 DEF Posts, Events
  <2>8. QED
    BY <2>4, <2>6, <2>7, Zenon DEF Posts
<1>9. ASSUME tx[u].op = "cancel"
      PROVE  Cancels(u)'
  <2>1. Cancels(u)
    BY <1>9 DEF Own, Working
  <2>2. QED
    BY <1>1, <1>5, <2>1 DEF Cancels
<1>10. Working(u)'
  BY <1>1, <1>6, <1>7, <1>8, <1>9 DEF Working
<1>11. QED
  BY <1>2, <1>3, <1>4, <1>10 DEF Own

-----------------------------------------------------------------------------
(* ... when a transaction ends, ...                                        *)

\* The payloads once t has ended: as before, or one more, with t's work.
Told(t, ok) ==
    \A e \in Events :
        \/ sent'[e] = sent[e]
        \/ /\ ok /\ tx[t].op = "fulfill" /\ tx[t].at = "commit"
           /\ sent[e] = <<>> /\ sent'[e] = tx[t].work

LEMMA EndKeepsDiscipline ==
    ASSUME TypeOK, Discipline, NEW t \in Txs, NEW ok \in BOOLEAN, Ended(t, ok), Told(t, ok)
    PROVE  Discipline'
<1>1. /\ NoTx \notin Txs
      /\ tx'[t].op = "idle"
      /\ \A u \in Txs \ {t} : tx'[u] = tx[u]
      /\ Own(t)
  BY NullsAssumption DEF Ended, Idle, Begun, Discipline
<1>2. ASSUME NEW l \in Lines, Exists(l)
      PROVE  Exists(l)'
  <2>1. EndedRow(resv[l], resv'[l], t, ok)
    BY DEF Ended
  <2>2. resv[l].by = t => resv[l].cur.status # "NONE"
    BY <1>1 DEF Own, Writes
  <2>3. QED
    BY <1>2, <2>1, <2>2 DEF EndedRow, Exists
<1>3. AtRest'
  BY <1>1 DEF Ended, EndedRow, Discipline, AtRest
<1>4. ASSUME NEW u \in Txs
      PROVE  Own(u)'
  <2>1. CASE u = t
    <3>1. /\ \A p \in Products : stock'[p].by # t
          /\ \A l \in Lines : resv'[l].by # t /\ line'[l].by # t
          /\ \A e \in Events' : claim'[e].by # t
      BY <1>1 DEF Ended, EndedRow, Events
    <3>2. QED
      BY <1>1, <2>1, <3>1 DEF Own, Locks, Writes, Finishes, Working
  <2>2. CASE u # t
    <3>1. KeptFor(u)
      BY <1>1, <1>2, <2>2 DEF Ended, EndedRow, Told, KeptFor
    <3>2. QED
      BY <3>1, OwnIsKept DEF Discipline
  <2>3. QED
    BY <2>1, <2>2
<1>5. Announced'
  <2>1. ASSUME NEW e \in Events
        PROVE  (\A k \in 1 .. Len(sent[e]) : sent[e][k].qty > 0 /\ Exists(sent[e][k].line))'
    <3>1. CASE sent'[e] = sent[e]
      <4>1. \A k \in 1 .. Len(sent[e]) : sent[e][k] \in Items
        BY Tables
      <4>2. \A k \in 1 .. Len(sent[e]) : sent[e][k].qty > 0 /\ Exists(sent[e][k].line)
        BY DEF Discipline, Announced
      <4>3. \A k \in 1 .. Len(sent[e]) : sent[e][k].line \in Lines
        BY <4>1 DEF Items
      <4>4. QED
        BY <1>2, <3>1, <4>2, <4>3 DEF Exists
    <3>2. CASE sent'[e] # sent[e]
      <4>1. /\ tx[t].op = "fulfill" /\ tx[t].at = "commit"
            /\ sent'[e] = tx[t].work
        BY <3>2 DEF Told
      <4>2. Fulfills(t) /\ tx[t].next = Len(tx[t].work) + 1
        BY <1>1, <4>1 DEF Own, Working, Finishes
      <4>3. \A k \in Positions(t) : tx[t].work[k] \in Items /\ k < tx[t].next
        BY <4>2, Tables, LenProperties DEF Positions, TxRecords, TxFields
      <4>4. \A k \in Positions(t) : /\ tx[t].work[k].qty > 0
                                    /\ tx[t].work[k].line \in Lines
                                    /\ Exists(tx[t].work[k].line)
        BY <4>2, <4>3 DEF Fulfills, LineAt, Items
      <4>5. QED
        BY <1>2, <4>1, <4>4 DEF Positions, Exists
    <3>3. QED
      BY <3>1, <3>2
  <2>2. ASSUME NEW e \in Events, sent'[e] = <<>>
        PROVE  ~claim'[e].com
    <3>1. sent[e] = <<>> /\ ~claim[e].com
      BY <2>2 DEF Told, Discipline, Announced
    <3>2. claim[e].by # t
      <4>1. ASSUME claim[e].by = t
            PROVE  FALSE
        <5>1. tx[t].op = "post" /\ tx[t].event = e
          BY <1>1, <4>1 DEF Own, Locks
        <5>2. tx[t].work = sent[e] /\ tx[t].work # <<>>
          BY <1>1, <5>1, Tables DEF Own, Working, Posts, TxRecords
        <5>3. QED
          BY <3>1, <5>2
      <4>2. QED
        BY <4>1
    <3>3. QED
      BY <3>1, <3>2 DEF Ended, EndedRow
  <2>3. QED
    BY <2>1, <2>2 DEF Announced, Events
<1>6. Reserved'
  <2>1. ASSUME NEW l \in Lines
        PROVE  /\ resv'[l].com.status = "NONE" => resv'[l].com = NoResv
               /\ line'[l].com # NoUnits => Exists(l)'
    <3>1. EndedRow(resv[l], resv'[l], t, ok) /\ EndedRow(line[l], line'[l], t, ok)
      BY DEF Ended
    <3>2. /\ resv[l].com.status = "NONE" => resv[l].com = NoResv
          /\ line[l].com # NoUnits => Exists(l)
          /\ resv[l].by = t => resv[l].cur.status # "NONE"
          /\ line[l].by = t => line[l].cur = NoUnits \/ Exists(l) \/ resv[l].by = t
      BY <1>1 DEF Discipline, Reserved, Own, Writes
    <3>3. CASE resv[l].by = t /\ ok
      BY <1>1, <3>1, <3>2, <3>3 DEF EndedRow, Exists
    <3>4. CASE ~(resv[l].by = t /\ ok)
      BY <1>1, <1>2, <3>1, <3>2, <3>4 DEF EndedRow
    <3>5. QED
      BY <3>3, <3>4
  <2>2. QED
    BY <2>1 DEF Reserved
<1>7. QED
  BY <1>3, <1>4, <1>5, <1>6 DEF Discipline

-----------------------------------------------------------------------------
(* ... and when it takes a step of its own that keeps what it owes.        *)

\* A row that t wrote, or that nobody did.
WrittenRow(old, new, t) ==
    \/ new = old
    \/ old.by \in {NoTx, t} /\ new.by = t /\ new.com = old.com

Worked(t) ==
    /\ \A u \in Txs \ {t} : tx'[u] = tx[u]
    /\ \A p \in Products : WrittenRow(stock[p], stock'[p], t)
    /\ \A l \in Lines : WrittenRow(resv[l], resv'[l], t)
    /\ \A l \in Lines : WrittenRow(line[l], line'[l], t)
    /\ \A e \in Events : WrittenRow(claim[e], claim'[e], t)
    /\ sent' = sent

LEMMA WorkKeepsDiscipline ==
    ASSUME TypeOK, Discipline, NEW t \in Txs, Worked(t), Own(t)'
    PROVE  Discipline'
<1>1. NoTx \notin Txs
  BY NullsAssumption
<1>2. \A l \in Lines : /\ resv'[l].com = resv[l].com
                       /\ line'[l].com = line[l].com
                       /\ Exists(l)' <=> Exists(l)
  BY DEF Worked, WrittenRow, Exists
<1>3. AtRest'
  BY <1>1 DEF Worked, WrittenRow, Discipline, AtRest
<1>4. ASSUME NEW u \in Txs
      PROVE  Own(u)'
  <2>1. CASE u = t
    BY <2>1
  <2>2. CASE u # t
    <3>1. KeptFor(u)
      BY <1>1, <1>2, <2>2 DEF Worked, WrittenRow, KeptFor
    <3>2. QED
      BY <3>1, OwnIsKept DEF Discipline
  <2>3. QED
    BY <2>1, <2>2
<1>5. Announced'
  <2>1. ASSUME NEW e \in Events
        PROVE  (\A k \in 1 .. Len(sent[e]) : sent[e][k].qty > 0 /\ Exists(sent[e][k].line))'
    <3>1. \A k \in 1 .. Len(sent[e]) : sent[e][k].line \in Lines
      <4>1. \A k \in 1 .. Len(sent[e]) : sent[e][k] \in Items
        BY Tables
      <4>2. QED
        BY <4>1 DEF Items
    <3>2. \A k \in 1 .. Len(sent[e]) : sent[e][k].qty > 0 /\ Exists(sent[e][k].line)
      BY DEF Discipline, Announced
    <3>3. sent' = sent
      BY DEF Worked
    <3>4. QED
      BY <1>2, <3>1, <3>2, <3>3 DEF Exists
  <2>2. ASSUME NEW e \in Events, sent'[e] = <<>>
        PROVE  ~claim'[e].com
    BY <2>2 DEF Worked, WrittenRow, Discipline, Announced
  <2>3. QED
    BY <2>1, <2>2 DEF Announced, Events
<1>6. Reserved'
  BY <1>2 DEF Discipline, Reserved
<1>7. QED
  BY <1>3, <1>4, <1>5, <1>6 DEF Discipline

\* What an idle connection holds.
LEMMA IdleHoldsNothing ==
    ASSUME NEW t \in Txs, Own(t), tx[t].op = "idle"
    PROVE  /\ \A p \in Products : stock[p].by # t
           /\ \A l \in Lines : resv[l].by # t /\ line[l].by # t
           /\ \A e \in Events : claim[e].by # t
BY DEF Own, Locks

\* A step that reads and writes no row.
LEMMA ReadsOnly ==
    ASSUME TypeOK, NEW t \in Txs, NEW r, tx' = [tx EXCEPT ![t] = r],
           UNCHANGED <<inventoryVars, busVars, line>>
    PROVE  Worked(t) /\ tx'[t] = r
BY Tables DEF Worked, WrittenRow, inventoryVars, busVars

\* A request that begins.
LEMMA BeginsWell ==
    ASSUME TypeOK, Discipline, NEW t \in Txs, tx[t] = Idle,
           NEW op \in {"confirm", "allocate", "cancel", "fulfill"}, NEW at, NEW o, NEW work,
           op \in {"allocate", "fulfill"} => at = "work",
           tx' = [tx EXCEPT ![t] = Begun(op, at, o, 0, work)],
           UNCHANGED <<inventoryVars, busVars, line>>,
           op = "allocate" =>
              /\ \A k \in 1 .. Len(work) : /\ OrderOf[work[k].line] = o
                                           /\ work[k].qty = Ordered[work[k].line]
              /\ \A l \in LinesOf(o) : \E k \in 1 .. Len(work) : work[k].line = l
              /\ \A j, k \in 1 .. Len(work) :
                   j < k => ProductOf[work[j].line] <= ProductOf[work[k].line],
           op = "fulfill" => \A k \in 1 .. Len(work) : work[k].qty > 0,
           op = "cancel" => work = <<>>
    PROVE  Discipline'
<1>1. Own(t) /\ tx[t].op = "idle"
  BY DEF Discipline, Idle, Begun
<1>2. /\ \A p \in Products : stock'[p].by # t
      /\ \A l \in Lines : resv'[l].by # t /\ line'[l].by # t
      /\ \A e \in Events' : claim'[e].by # t
  BY <1>1, IdleHoldsNothing DEF inventoryVars, Events
<1>3. /\ Worked(t)
      /\ tx'[t].op = op /\ tx'[t].at = at /\ tx'[t].order = o
      /\ tx'[t].work = work /\ tx'[t].next = 1
  <2> DEFINE r == Begun(op, at, o, 0, work)
  <2>1. /\ r.op = op /\ r.at = at /\ r.order = o /\ r.work = work /\ r.next = 1
    BY DEF Begun
  <2>2. tx' = [tx EXCEPT ![t] = r]
    OBVIOUS
  <2> HIDE DEF r
  <2>3. Worked(t) /\ tx'[t] = r
    BY <2>2, ReadsOnly
  <2>4. QED
    BY <2>1, <2>3
<1>4. Locks(t)' /\ Writes(t)' /\ Finishes(t)'
  BY <1>2, <1>3 DEF Locks, Writes, Finishes
<1>5. Working(t)'
  <2>1. \A k \in Positions(t)' : ~(k < tx'[t].next)
    BY <1>3 DEF Positions
  <2>2. Positions(t)' = 1 .. Len(work) /\ \A k : LineAt(t, k)' = work[k].line
    BY <1>3 DEF Positions, LineAt
  <2>3. op = "allocate" => Allocates(t)'
    BY <1>2, <1>3, <2>1, <2>2 DEF Allocates, LinesOf
  <2>4. op = "fulfill" => Fulfills(t)'
    BY <1>3, <2>1, <2>2 DEF Fulfills
  <2>5. op = "cancel" => Cancels(t)'
    BY <1>3, <2>2, EmptySeq DEF Cancels
  <2>6. QED
    BY <1>3, <2>3, <2>4, <2>5 DEF Working
<1>6. QED
  BY <1>3, <1>4, <1>5, WorkKeepsDiscipline DEF Own

\* An arrangement of a finite set leaves none of its members out.
LEMMA ArrangementsCover ==
    ASSUME NEW S, IsFiniteSet(S), NEW s \in Arrangements(S)
    PROVE  /\ s \in Seq(S) /\ Len(s) = Cardinality(S)
           /\ \A x \in S : \E k \in 1 .. Len(s) : s[k] = x
<1>1. Cardinality(S) \in Nat
  BY FS_CardinalityType
<1>2. s \in [1 .. Cardinality(S) -> S] /\ \A i, j \in DOMAIN s : s[i] = s[j] => i = j
  BY DEF Arrangements
<1>3. s \in Seq(S) /\ Len(s) = Cardinality(S)
  BY <1>1, <1>2, SeqDef, LenProperties
<1>4. ASSUME NEW x \in S, \A k \in 1 .. Len(s) : s[k] # x
      PROVE  FALSE
  <2>1. IsFiniteSet(S \ {x}) /\ Cardinality(S \ {x}) = Cardinality(S) - 1
    BY FS_RemoveElement
  <2>2. IsFiniteSet(1 .. Cardinality(S)) /\ Cardinality(1 .. Cardinality(S)) = Cardinality(S)
    BY <1>1, FS_Interval
  <2>3. s \in [1 .. Cardinality(S) -> S \ {x}]
    BY <1>2, <1>3, <1>4
  <2>4. Cardinality(S \ {x}) < Cardinality(1 .. Cardinality(S))
    BY <1>1, <2>1, <2>2
  <2>5. \E i, j \in 1 .. Cardinality(S) : i # j /\ s[i] = s[j]
    <3> DEFINE A == 1 .. Cardinality(S)
               B == S \ {x}
    <3> HIDE DEF A, B
    <3>1. IsFiniteSet(A) /\ IsFiniteSet(B) /\ Cardinality(B) < Cardinality(A) /\ s \in [A -> B]
      BY <2>1, <2>2, <2>3, <2>4 DEF A, B
    <3>2. \E i, j \in A : i # j /\ s[i] = s[j]
      BY <3>1, FS_PigeonHole
    <3>3. QED
      BY <3>2 DEF A
  <2>6. QED
    BY <1>2, <2>5
<1>5. QED
  BY <1>3, <1>4

LEMMA RequestKeepsDiscipline ==
    ASSUME TypeOK, Discipline, NEW t \in Txs, Request(t)
    PROVE  Discipline'
<1>1. PICK o \in Orders : \/ ConfirmRead(t, o) \/ AllocateRead(t, o) \/ CancelRead(t, o)
                          \/ \E r \in Requests : FulfillRead(t, o, r)
  BY DEF Request
<1>2. CASE ConfirmRead(t, o)
  BY <1>2, BeginsWell DEF ConfirmRead, Begins
<1>3. CASE AllocateRead(t, o)
  <2>1. PICK s \in SortedLines(o) :
          tx' = [tx EXCEPT ![t] = Begun("allocate", "work", o, 0,
                    [k \in DOMAIN s |-> [line |-> s[k], qty |-> Ordered[s[k]]]])]
    BY <1>3 DEF AllocateRead
  <2> DEFINE work == [k \in DOMAIN s |-> [line |-> s[k], qty |-> Ordered[s[k]]]]
  <2>2. /\ s \in Seq(LinesOf(o))
        /\ \A x \in LinesOf(o) : \E k \in 1 .. Len(s) : s[k] = x
        /\ \A i, j \in 1 .. Len(s) : i < j => ProductOf[s[i]] <= ProductOf[s[j]]
    BY OrdersHaveLines, ArrangementsCover DEF SortedLines
  <2>3. DOMAIN s = 1 .. Len(s) /\ Len(s) \in Nat /\ \A k \in 1 .. Len(s) : s[k] \in LinesOf(o)
    BY <2>2, LenProperties, ElementOfSeq
  <2>4. Len(work) = Len(s)
    BY <2>3
  <2>5. \A k \in 1 .. Len(s) : work[k].line = s[k] /\ work[k].qty = Ordered[s[k]]
    BY <2>3
  <2> HIDE DEF work
  <2>6. /\ \A k \in 1 .. Len(work) : /\ OrderOf[work[k].line] = o
                                     /\ work[k].qty = Ordered[work[k].line]
        /\ \A l \in LinesOf(o) : \E k \in 1 .. Len(work) : work[k].line = l
        /\ \A j, k \in 1 .. Len(work) :
              j < k => ProductOf[work[j].line] <= ProductOf[work[k].line]
    BY <2>2, <2>3, <2>4, <2>5 DEF LinesOf
  <2>7. /\ tx[t] = Idle /\ UNCHANGED <<inventoryVars, busVars, line>>
        /\ tx' = [tx EXCEPT ![t] = Begun("allocate", "work", o, 0, work)]
    BY <1>3, <2>1 DEF AllocateRead, Begins, work
  <2>8. QED
    BY <2>6, <2>7, BeginsWell
<1>4. CASE CancelRead(t, o)
  <2>1. PICK at \in {"find", "commit"} :
          tx' = [tx EXCEPT ![t] = Begun("cancel", at, o, 0, <<>>)]
    BY <1>4 DEF CancelRead
  <2>2. tx[t] = Idle /\ UNCHANGED <<inventoryVars, busVars, line>>
    BY <1>4 DEF CancelRead, Begins
  <2>3. QED
    BY <2>1, <2>2, BeginsWell
<1>5. CASE \E r \in Requests : FulfillRead(t, o, r)
  <2>1. PICK r \in Requests : FulfillRead(t, o, r)
    BY <1>5
  <2>2. r \in Seq([line : Lines, qty : Nat \ {0}])
    BY RequestsAssumption
  <2>3. \A k \in 1 .. Len(r) : r[k].qty > 0
    <3>1. \A k \in 1 .. Len(r) : r[k] \in [line : Lines, qty : Nat \ {0}]
      BY <2>2, ElementOfSeq
    <3>2. QED
      BY <3>1
  <2>4. QED
    BY <2>1, <2>3, BeginsWell DEF FulfillRead
<1>6. QED
  BY <1>1, <1>2, <1>3, <1>4, <1>5

\* A transaction that goes on to its next item.
GoesOn(t, then) ==
    /\ tx'[t].op = tx[t].op /\ tx'[t].order = tx[t].order
    /\ tx'[t].event = tx[t].event /\ tx'[t].work = tx[t].work
    /\ tx'[t].next = tx[t].next + 1
    /\ tx'[t].at = IF tx[t].next = Len(tx[t].work) THEN then ELSE "work"
    /\ \A u \in Txs \ {t} : tx'[u] = tx[u]

LEMMA Advances ==
    ASSUME TypeOK, NEW t \in Txs, tx[t].at = "work",
           NEW then \in {"lines", "decide", "commit"},
           tx' = [tx EXCEPT ![t] = Advanced(t, then)]
    PROVE  GoesOn(t, then)
<1>1. tx[t] \in TxFields
  BY Tables DEF TxRecords
<1>2. QED
  BY <1>1, Tables DEF Advanced, GoesOn, TxFields

LEMMA GoneOnFinishes ==
    ASSUME NEW t \in Txs, NEW then \in {"lines", "decide", "commit"}, GoesOn(t, then)
    PROVE  Finishes(t)'
<1>1. SUFFICES ASSUME tx'[t].at # "work" PROVE tx'[t].next = Len(tx'[t].work) + 1
  BY DEF Finishes
<1>2. tx[t].next = Len(tx[t].work)
  BY <1>1 DEF GoesOn
<1>3. QED
  BY <1>2 DEF GoesOn

\* The item it is at.
LEMMA AtPosition ==
    ASSUME TypeOK, NEW t \in Txs, tx[t].at = "work"
    PROVE  /\ tx[t].next \in Positions(t) /\ tx[t].next \in Nat
           /\ Item(t) = tx[t].work[tx[t].next] /\ Item(t).line = LineAt(t, tx[t].next)
           /\ Item(t).line \in Lines /\ Item(t).qty \in Int
           /\ ProductOf[Item(t).line] \in Products
           /\ Sees(stock[ProductOf[Item(t).line]], t) \in StockLevels
           /\ Sees(resv[Item(t).line], t) \in Reservations
           /\ Sees(line[Item(t).line], t) \in Quantities
<1>1. tx[t] \in TxRecords /\ tx[t] \in TxFields
  BY Tables DEF TxRecords
<1>2. tx[t].next \in Nat \ {0} /\ tx[t].next <= Len(tx[t].work) /\ Len(tx[t].work) \in Nat
  BY <1>1, LenProperties DEF TxRecords, TxFields
<1>3. tx[t].next \in Positions(t)
  BY <1>2 DEF Positions
<1>4. Item(t) = tx[t].work[tx[t].next] /\ Item(t).line = LineAt(t, tx[t].next)
  BY DEF Item, LineAt
<1>5. QED
  BY <1>2, <1>3, <1>4, AtWork

\* The lines of a transaction, and their products.
LEMMA PositionsAreLines ==
    ASSUME TypeOK, NEW t \in Txs
    PROVE  \A k \in Positions(t) : /\ k \in Nat
                                   /\ tx[t].work[k] \in Items
                                   /\ tx[t].work[k].qty \in Int
                                   /\ LineAt(t, k) \in Lines
                                   /\ ProductOf[LineAt(t, k)] \in Products
                                   /\ ProductOf[LineAt(t, k)] \in Nat
<1>1. tx[t].work \in Seq(Items)
  BY Tables DEF TxRecords, TxFields
<1>2. \A k \in Positions(t) : k \in Nat /\ tx[t].work[k] \in Items
  BY <1>1, ElementOfSeq DEF Positions
<1>3. \A k \in Positions(t) : LineAt(t, k) \in Lines /\ tx[t].work[k].qty \in Int
  BY <1>2 DEF LineAt, Items
<1>4. \A l \in Lines : ProductOf[l] \in Products /\ ProductOf[l] \in Nat
  BY LinesAssumption, ProductsAssumption
<1>5. QED
  BY <1>2, <1>3, <1>4

\* What a write of t does to each of the tables.
LEMMA StockWritten ==
    ASSUME TypeOK, NEW t \in Txs, NEW p \in Products, NEW v,
           stock' = [stock EXCEPT ![p] = Put(@, t, v)]
    PROVE  Wrote(stock, stock', Products, p, v, t)
<1>1. stock \in [Products -> RowOf(StockLevels, Txs)]
  BY Tables
<1>2. Wrote(stock, [stock EXCEPT ![p] = Put(@, t, v)], Products, p, v, t)
  BY <1>1, Written
<1>3. QED
  BY <1>2

LEMMA ResvWritten ==
    ASSUME TypeOK, NEW t \in Txs, NEW l \in Lines, NEW v,
           resv' = [resv EXCEPT ![l] = Put(@, t, v)]
    PROVE  Wrote(resv, resv', Lines, l, v, t)
<1>1. resv \in [Lines -> RowOf(Reservations, Txs)]
  BY Tables
<1>2. Wrote(resv, [resv EXCEPT ![l] = Put(@, t, v)], Lines, l, v, t)
  BY <1>1, Written
<1>3. QED
  BY <1>2

LEMMA LineWritten ==
    ASSUME TypeOK, NEW t \in Txs, NEW l \in Lines, NEW v,
           line' = [line EXCEPT ![l] = Put(@, t, v)]
    PROVE  Wrote(line, line', Lines, l, v, t)
<1>1. line \in [Lines -> RowOf(Quantities, Txs)]
  BY Tables
<1>2. Wrote(line, [line EXCEPT ![l] = Put(@, t, v)], Lines, l, v, t)
  BY <1>1, Written
<1>3. QED
  BY <1>2

LEMMA ClaimWritten ==
    ASSUME TypeOK, NEW t \in Txs, NEW e \in Events,
           claim' = [claim EXCEPT ![e] = Put(@, t, TRUE)]
    PROVE  Wrote(claim, claim', Events, e, TRUE, t)
<1>1. claim \in [Events -> RowOf(BOOLEAN, Txs)]
  BY Tables
<1>2. Wrote(claim, [claim EXCEPT ![e] = Put(@, t, TRUE)], Events, e, TRUE, t)
  BY <1>1, Written
<1>3. QED
  BY <1>2

LEMMA AllocateLineKeepsDiscipline ==
    ASSUME TypeOK, Discipline, NEW t \in Txs, AllocateLine(t)
    PROVE  Worked(t) /\ Discipline'
<1> DEFINE i == Item(t)
           l == i.line
           p == ProductOf[l]
           n == tx[t].next
           level == [Sees(stock[p], t) EXCEPT !.reserved = @ + i.qty]
           r == [qty |-> i.qty, fulfilled |-> 0, status |-> "ACTIVE"]
           q == [Sees(line[l], t) EXCEPT !.reserved = i.qty]
<1>1. /\ tx[t].op = "allocate" /\ tx[t].at = "work"
      /\ Own(t) /\ Allocates(t)
  BY DEF AllocateLine, At, Discipline, Own, Working
<1>2. /\ n \in Positions(t) /\ n \in Nat /\ l = LineAt(t, n)
      /\ l \in Lines /\ p \in Products
  BY <1>1, AtPosition
<1>3. GoesOn(t, "commit")
  BY <1>1, Advances DEF AllocateLine
<1>4. /\ stock[p].by \in {NoTx, t} /\ resv[l].by \in {NoTx, t} /\ line[l].by \in {NoTx, t}
      /\ Sees(resv[l], t) = NoResv
  BY DEF AllocateLine, ReserveRowsFree, Free, AlreadyReserved
<1>5. /\ stock' = [stock EXCEPT ![p] = Put(@, t, level)]
      /\ resv' = [resv EXCEPT ![l] = Put(@, t, r)]
      /\ line' = [line EXCEPT ![l] = Put(@, t, q)]
      /\ claim' = claim /\ sent' = sent
  BY DEF AllocateLine, Reserve, busVars
<1>6. r.status = "ACTIVE"
  OBVIOUS
<1>7. OrderOf[l] = tx[t].order
  BY <1>1, <1>2 DEF Allocates
<1> HIDE DEF i, l, level, r, q, n
<1>8. ProductOf[l] = p
  OBVIOUS
<1> HIDE DEF p
<1>9. Wrote(stock, stock', Products, p, level, t)
  BY <1>2, <1>5, StockWritten
<1>10. Wrote(resv, resv', Lines, l, r, t)
  BY <1>2, <1>5, ResvWritten
<1>11. Wrote(line, line', Lines, l, q, t)
  BY <1>2, <1>5, LineWritten
<1>12. /\ stock'[p].by = t /\ stock'[p].com = stock[p].com
      /\ \A s \in Products : s # p => stock'[s] = stock[s]
  BY <1>9 DEF Wrote
<1>13. /\ resv'[l].by = t /\ resv'[l].com = resv[l].com /\ resv'[l].cur = r
       /\ \A m \in Lines : m # l => resv'[m] = resv[m]
  BY <1>10 DEF Wrote
<1>14. /\ line'[l].by = t /\ line'[l].com = line[l].com
       /\ \A m \in Lines : m # l => line'[m] = line[m]
  BY <1>11 DEF Wrote
<1>15. Worked(t)
  BY <1>3, <1>4, <1>5, <1>12, <1>13, <1>14 DEF Worked, WrittenRow, GoesOn
<1>16. ~Exists(l)
  <2>1. CASE resv[l].by = t
    BY <1>1, <1>2, <2>1 DEF Own, Writes
  <2>2. CASE resv[l].by # t
    BY <1>4, <2>2 DEF Sees, Exists, NoResv
  <2>3. QED
    BY <2>1, <2>2
<1>17. Locks(t)'
  <2>1. \A s \in Products : stock[s].by = t => stock'[s].by = t
    BY <1>12
  <2>2. \A m \in Lines : ProductOf[m] \in Products
    BY LinesAssumption
  <2>3. \A m \in Lines : resv'[m].by = t =>
            OrderOf[m] = tx[t].order /\ stock'[ProductOf[m]].by = t
    BY <1>1, <1>7, <1>8, <1>12, <1>13, <2>1, <2>2 DEF Own, Locks
  <2>4. \A m \in Lines : line'[m].by = t => resv'[m].by = t
    BY <1>1, <1>13, <1>14 DEF Own, Locks
  <2>5. \A e \in Events' : claim'[e].by # t
    BY <1>1, <1>5 DEF Own, Locks, Events
  <2>6. tx'[t].op = "allocate" /\ tx'[t].order = tx[t].order
    BY <1>1, <1>3 DEF GoesOn
  <2>7. QED
    BY <2>3, <2>4, <2>5, <2>6 DEF Locks
<1>18. Writes(t)'
  <2>1. tx'[t].op = "allocate"
    BY <1>1, <1>3 DEF GoesOn
  <2>2. \A m \in Lines : Exists(m)' <=> Exists(m)
    BY <1>13 DEF Exists
  <2>3. \A m \in Lines : resv'[m].by = t => resv'[m].cur.status # "NONE" /\ ~Exists(m)
    BY <1>1, <1>6, <1>13, <1>16 DEF Own, Writes
  <2>4. \A m \in Lines : line'[m].by = t => resv'[m].by = t
    BY <1>1, <1>13, <1>14 DEF Own, Locks
  <2>5. QED
    BY <2>1, <2>2, <2>3, <2>4 DEF Writes
<1>19. Finishes(t)'
  BY <1>3, GoneOnFinishes
<1>20. Allocates(t)'
  <2>1. Positions(t)' = Positions(t) /\ \A k : LineAt(t, k)' = LineAt(t, k)
    BY <1>3 DEF GoesOn, Positions, LineAt
  <2>2. \A k \in Positions(t) : k < n + 1 => k < n \/ k = n
    BY <1>2 DEF Positions
  <2>3. \A k \in Positions(t) : LineAt(t, k) \in Lines
    BY PositionsAreLines
  <2>4. \A k \in Positions(t) : k < n + 1 => resv'[LineAt(t, k)].by = t
    BY <1>1, <1>2, <1>13, <2>2, <2>3 DEF Allocates, n
  <2>5. \A s \in Products : stock'[s].by = t =>
           \E k \in Positions(t) : k < n + 1 /\ ProductOf[LineAt(t, k)] = s
    <3>1. n < n + 1 /\ \A k \in Positions(t) : k < n => k < n + 1
      BY <1>2 DEF Positions
    <3>2. \A s \in Products : stock[s].by = t =>
           \E k \in Positions(t) : k < n /\ ProductOf[LineAt(t, k)] = s
      BY <1>1 DEF Allocates, n
    <3>3. QED
      BY <1>2, <1>8, <1>12, <3>1, <3>2
  <2>6. tx'[t].order = tx[t].order /\ tx'[t].work = tx[t].work /\ tx'[t].next = n + 1
    BY <1>3 DEF GoesOn, n
  <2>7. QED
    BY <1>1, <2>1, <2>4, <2>5, <2>6 DEF Allocates, LinesOf
<1>21. Working(t)'
  BY <1>1, <1>3, <1>20 DEF Working, GoesOn
<1>22. QED
  BY <1>15, <1>17, <1>18, <1>19, <1>21, WorkKeepsDiscipline DEF Own

\* What t holds, and what it wrote, when it changes no row.
LEMMA HoldsTheSame ==
    ASSUME NEW t \in Txs, Own(t), tx'[t].op = tx[t].op, tx'[t].order = tx[t].order,
           tx'[t].event = tx[t].event, UNCHANGED <<stock, resv, line, claim>>
    PROVE  Locks(t)' /\ Writes(t)'
BY DEF Own, Locks, Writes, Exists, Events

LEMMA CancelFindKeepsDiscipline ==
    ASSUME TypeOK, Discipline, NEW t \in Txs, CancelFind(t)
    PROVE  Worked(t) /\ Discipline'
<1> DEFINE found == {l \in LinesOf(tx[t].order) : Active(t, l)}
<1>1. /\ tx[t].op = "cancel" /\ tx[t].at = "find" /\ Own(t)
      /\ tx[t] \in TxRecords /\ tx[t] \in TxFields /\ tx[t].order \in Orders
  BY Tables DEF CancelFind, At, Discipline, TxRecords
<1>2. PICK work \in ActiveReservations(t, tx[t].order) :
        tx' = [tx EXCEPT ![t].work = work,
                         ![t].at = IF work = <<>> THEN "lines" ELSE "work"]
  BY DEF CancelFind
<1>3. /\ UNCHANGED <<stock, resv, line, claim>> /\ sent' = sent
      /\ tx'[t].op = "cancel" /\ tx'[t].order = tx[t].order
      /\ tx'[t].event = tx[t].event /\ tx'[t].work = work
      /\ \A u \in Txs \ {t} : tx'[u] = tx[u]
  BY <1>1, <1>2, Tables DEF CancelFind, inventoryVars, busVars, TxFields
<1>4. Worked(t)
  BY <1>3 DEF Worked, WrittenRow
<1>5. Locks(t)' /\ Writes(t)'
  BY <1>1, <1>3, HoldsTheSame
<1>6. \A k \in 1 .. Len(work) : work[k].line \in found
  <2>1. PICK s \in Arrangements(found) :
          work = [k \in DOMAIN s |-> [line |-> s[k], qty |-> Remaining(t, s[k])]]
    BY DEF ActiveReservations
  <2>2. IsFiniteSet(found)
    BY <1>1, OrdersHaveLines, FS_Subset
  <2>3. s \in Seq(found)
    BY <2>1, <2>2, ArrangementsAreSequences
  <2>4. DOMAIN s = 1 .. Len(s) /\ Len(s) \in Nat /\ \A k \in 1 .. Len(s) : s[k] \in found
    BY <2>3, LenProperties, ElementOfSeq
  <2>5. Len(work) = Len(s) /\ \A k \in 1 .. Len(s) : work[k].line = s[k]
    BY <2>1, <2>4
  <2>6. QED
    BY <2>4, <2>5
<1>7. \A l \in found : Exists(l)
  <2>1. SUFFICES ASSUME NEW l \in found, ~Exists(l) PROVE FALSE
    OBVIOUS
  <2>2. l \in Lines /\ Sees(resv[l], t).status = "ACTIVE"
    BY DEF Active, LinesOf
  <2>3. resv[l].by = t
    BY <2>1, <2>2 DEF Sees, Exists
  <2>4. QED
    BY <1>1, <2>1, <2>2, <2>3 DEF Own, Writes
<1>8. Cancels(t)'
  <2>1. \A l \in Lines : Exists(l) => Exists(l)'
    BY <1>3 DEF Exists
  <2>2. Positions(t)' = 1 .. Len(work) /\ \A k : LineAt(t, k)' = work[k].line
    BY <1>3 DEF Positions, LineAt
  <2>3. \A k \in 1 .. Len(work) : Exists(work[k].line)'
    BY <1>3, <1>6, <1>7 DEF Exists
  <2>4. QED
    BY <1>3, <2>2, <2>3 DEF Cancels, Exists
<1>9. QED
  BY <1>3, <1>4, <1>5, <1>8, WorkKeepsDiscipline DEF Own, Finishes, Working

LEMMA CancelLineKeepsDiscipline ==
    ASSUME TypeOK, Discipline, NEW t \in Txs, CancelLine(t)
    PROVE  Worked(t) /\ Discipline'
<1> DEFINE i == Item(t)
           l == i.line
           p == ProductOf[l]
           n == tx[t].next
           level == [Sees(stock[p], t) EXCEPT !.reserved = @ - i.qty]
           r == [Sees(resv[l], t) EXCEPT !.status = "CANCELLED"]
<1>1. /\ tx[t].op = "cancel" /\ tx[t].at = "work" /\ Own(t) /\ Cancels(t)
  BY DEF CancelLine, At, Discipline, Own, Working
<1>2. /\ n \in Positions(t) /\ l = LineAt(t, n) /\ l \in Lines /\ p \in Products
      /\ Sees(resv[l], t) \in Reservations
  BY <1>1, AtPosition
<1>3. GoesOn(t, "lines")
  BY <1>1, Advances DEF CancelLine
<1>4. /\ i.qty > 0 => stock[p].by \in {NoTx, t}
      /\ resv[l].by \in {NoTx, t}
  BY DEF CancelLine, ReleaseRowsFree, Free
<1>5. /\ IF i.qty > 0 THEN stock' = [stock EXCEPT ![p] = Put(@, t, level)] ELSE stock' = stock
      /\ resv' = [resv EXCEPT ![l] = Put(@, t, r)]
      /\ line' = line /\ claim' = claim /\ sent' = sent
  BY DEF CancelLine, Release, busVars
<1>6. r.status = "CANCELLED"
  BY <1>2 DEF Reservations
<1>7. Exists(l)
  BY <1>1, <1>2 DEF Cancels
<1> HIDE DEF i, l, p, level, r, n
<1>8. i.qty > 0 => Wrote(stock, stock', Products, p, level, t)
  BY <1>2, <1>5, StockWritten
<1>9. Wrote(resv, resv', Lines, l, r, t)
  BY <1>2, <1>5, ResvWritten
<1>10. /\ resv'[l].by = t /\ resv'[l].com = resv[l].com /\ resv'[l].cur = r
       /\ \A m \in Lines : m # l => resv'[m] = resv[m]
  BY <1>9 DEF Wrote
<1>11. \A s \in Products : WrittenRow(stock[s], stock'[s], t)
  BY <1>4, <1>5, <1>8 DEF Wrote, WrittenRow
<1>12. Worked(t)
  BY <1>3, <1>4, <1>5, <1>10, <1>11 DEF Worked, WrittenRow, GoesOn
<1>13. Locks(t)'
  <2>1. tx'[t].op = "cancel"
    BY <1>1, <1>3 DEF GoesOn
  <2>2. \A e \in Events' : claim'[e].by # t
    BY <1>1, <1>5 DEF Own, Locks, Events
  <2>3. QED
    BY <2>1, <2>2 DEF Locks
<1>14. Writes(t)'
  <2>1. tx'[t].op = "cancel"
    BY <1>1, <1>3 DEF GoesOn
  <2>2. \A m \in Lines : Exists(m)' <=> Exists(m)
    BY <1>10 DEF Exists
  <2>3. \A m \in Lines : resv'[m].by = t => resv'[m].cur.status # "NONE" /\ Exists(m)
    BY <1>1, <1>6, <1>7, <1>10 DEF Own, Writes
  <2>4. \A m \in Lines : line'[m].by = t =>
            line'[m].cur = NoUnits \/ Exists(m) \/ resv'[m].by = t
    BY <1>1, <1>5, <1>10 DEF Own, Writes
  <2>5. QED
    BY <2>1, <2>2, <2>3, <2>4 DEF Writes
<1>15. Cancels(t)'
  <2>1. Positions(t)' = Positions(t) /\ \A k : LineAt(t, k)' = LineAt(t, k)
    BY <1>3 DEF GoesOn, Positions, LineAt
  <2>2. \A m \in Lines : Exists(m)' <=> Exists(m)
    BY <1>10 DEF Exists
  <2>3. QED
    BY <1>1, <2>1, <2>2, PositionsAreLines DEF Cancels
<1>16. QED
  <2>1. tx'[t].op = "cancel"
    BY <1>1, <1>3 DEF GoesOn
  <2>2. Own(t)'
    BY <1>13, <1>14, <1>15, <2>1 DEF Own, Finishes, Working
  <2>3. QED
    BY <1>12, <2>2, WorkKeepsDiscipline

LEMMA CancelLinesKeepsDiscipline ==
    ASSUME TypeOK, Discipline, NEW t \in Txs, CancelLines(t)
    PROVE  Worked(t) /\ Discipline'
<1> DEFINE o == tx[t].order
           q(l) == [Sees(line[l], t) EXCEPT !.reserved = 0]
<1>1. /\ tx[t].op = "cancel" /\ Own(t) /\ Cancels(t)
      /\ tx[t] \in TxFields
  BY Tables DEF CancelLines, At, Discipline, Own, Working, TxRecords
<1>2. /\ UNCHANGED <<stock, resv, claim>> /\ sent' = sent
      /\ \A l \in Lines : line'[l] = IF OrderOf[l] = o THEN Put(line[l], t, q(l)) ELSE line[l]
  BY DEF CancelLines, inventoryVars, busVars
<1>3. /\ tx'[t].op = "cancel" /\ tx'[t].order = tx[t].order
      /\ tx'[t].event = tx[t].event /\ tx'[t].work = tx[t].work
      /\ \A u \in Txs \ {t} : tx'[u] = tx[u]
  BY <1>1, Tables DEF CancelLines, TxFields
<1>4. ASSUME NEW l \in Lines, OrderOf[l] = o
      PROVE  /\ line[l].by \in {NoTx, t}
             /\ line'[l].by = t /\ line'[l].com = line[l].com /\ line'[l].cur = q(l)
  <2>1. line[l] \in RowOf(Quantities, Txs)
    BY Tables
  <2> HIDE DEF q
  <2>2. line'[l] = Put(line[l], t, q(l))
    BY <1>2, <1>4
  <2>3. /\ Put(line[l], t, q(l)).com = line[l].com
        /\ Put(line[l], t, q(l)).cur = q(l)
        /\ Put(line[l], t, q(l)).by = t
    BY <2>1 DEF Put, RowOf
  <2>4. Free(line[l], t)
    BY <1>4 DEF CancelLines, LinesOf
  <2>5. QED
    BY <2>2, <2>3, <2>4 DEF Free
<1>5. \A l \in Lines : WrittenRow(line[l], line'[l], t)
  BY <1>2, <1>4 DEF WrittenRow
<1>6. Worked(t)
  BY <1>2, <1>3, <1>5 DEF Worked, WrittenRow
<1>7. Locks(t)'
  <2>1. \A e \in Events' : claim'[e].by # t
    BY <1>1, <1>2 DEF Own, Locks, Events
  <2>2. QED
    BY <1>3, <2>1 DEF Locks
<1>8. Writes(t)'
  <2>1. \A l \in Lines : resv'[l].by = t => resv'[l].cur.status # "NONE" /\ Exists(l)
    BY <1>1, <1>2 DEF Own, Writes
  <2>2. ASSUME NEW l \in Lines, line'[l].by = t, ~Exists(l), resv'[l].by # t
        PROVE  line'[l].cur = NoUnits
    <3>1. Sees(line[l], t) = NoUnits \/ line[l].by # t
      BY <1>1, <1>2, <2>2 DEF Own, Writes, Sees
    <3>2. line[l].com = NoUnits
      BY <2>2 DEF Discipline, Reserved
    <3>3. line[l].by # t => Sees(line[l], t) = NoUnits
      BY <3>2 DEF Sees
    <3>4. CASE OrderOf[l] = o
      <4>1. line'[l].cur = q(l)
        BY <1>4, <3>4
      <4>2. Sees(line[l], t) = NoUnits
        BY <3>1, <3>3
      <4>3. q(l) = NoUnits
        BY <4>2 DEF NoUnits
      <4>4. QED
        BY <4>1, <4>3
    <3>5. CASE OrderOf[l] # o
      <4>1. line'[l] = line[l]
        BY <1>2, <3>5
      <4>2. QED
        BY <1>1, <1>2, <2>2, <4>1 DEF Own, Writes
    <3>6. QED
      BY <3>4, <3>5
  <2>3. \A l \in Lines : Exists(l)' <=> Exists(l)
    BY <1>2 DEF Exists
  <2>4. QED
    BY <1>3, <2>1, <2>2, <2>3 DEF Writes
<1>9. Cancels(t)'
  BY <1>1, <1>2, <1>3 DEF Cancels, Positions, LineAt, Exists
<1>10. QED
  <2>1. Own(t)'
    BY <1>3, <1>7, <1>8, <1>9 DEF Own, Finishes, Working
  <2>2. QED
    BY <1>6, <2>1, WorkKeepsDiscipline

LEMMA FulfillLineKeepsDiscipline ==
    ASSUME TypeOK, Discipline, NEW t \in Txs, FulfillLine(t)
    PROVE  Worked(t) /\ Discipline'
<1> DEFINE i == Item(t)
           l == i.line
           n == tx[t].next
           q == [reserved |-> Sees(line[l], t).reserved - i.qty,
                 fulfilled |-> Sees(line[l], t).fulfilled + i.qty]
<1>1. /\ tx[t].op = "fulfill" /\ tx[t].at = "work" /\ Own(t) /\ Fulfills(t)
  BY DEF FulfillLine, At, Discipline, Own, Working
<1>2. /\ n \in Positions(t) /\ n \in Nat /\ l = LineAt(t, n) /\ l \in Lines
      /\ i = tx[t].work[n] /\ i.qty \in Int
      /\ Sees(line[l], t) \in Quantities
  BY <1>1, AtPosition
<1>3. GoesOn(t, "decide")
  BY <1>1, Advances DEF FulfillLine
<1>4. /\ line[l].by \in {NoTx, t} /\ OrderOf[l] = tx[t].order
      /\ Sees(line[l], t).reserved >= i.qty
  BY DEF FulfillLine, Free, CanFulfill
<1>5. /\ line' = [line EXCEPT ![l] = Put(@, t, q)]
      /\ UNCHANGED <<stock, resv, claim>> /\ sent' = sent
  BY DEF FulfillLine, inventoryVars, busVars
<1>6. \A m \in Lines : resv[m].by # t
  BY <1>1 DEF Own, Locks
<1>7. Exists(l)
  <2>1. Sees(line[l], t) # NoUnits
    <3>1. i.qty > 0
      BY <1>1, <1>2 DEF Fulfills
    <3>2. NoUnits.reserved = 0
      BY DEF NoUnits
    <3> HIDE DEF i, l, n
    <3>3. QED
      BY <1>2, <1>4, <3>1, <3>2 DEF Quantities
  <2>2. line[l].com # NoUnits => Exists(l)
    BY <1>2 DEF Discipline, Reserved
  <2>3. line[l].by = t /\ line[l].cur # NoUnits => Exists(l)
    BY <1>1, <1>2, <1>6 DEF Own, Writes
  <2>4. QED
    BY <2>1, <2>2, <2>3 DEF Sees
<1> HIDE DEF i, l, q, n
<1>8. Wrote(line, line', Lines, l, q, t)
  BY <1>2, <1>5, LineWritten
<1>9. /\ line'[l].by = t /\ line'[l].com = line[l].com
      /\ \A m \in Lines : m # l => line'[m] = line[m]
  BY <1>8 DEF Wrote
<1>10. Worked(t)
  BY <1>3, <1>4, <1>5, <1>9 DEF Worked, WrittenRow, GoesOn
<1>11. tx'[t].op = "fulfill" /\ tx'[t].order = tx[t].order
  BY <1>1, <1>3 DEF GoesOn
<1>12. Locks(t)'
  <2>1. \A e \in Events' : claim'[e].by # t
    BY <1>1, <1>5 DEF Own, Locks, Events
  <2>2. \A p \in Products : stock'[p].by # t
    BY <1>1, <1>5 DEF Own, Locks
  <2>3. QED
    BY <1>5, <1>6, <1>11, <2>1, <2>2 DEF Locks
<1>13. \A m \in Lines : Exists(m)' <=> Exists(m)
  BY <1>5 DEF Exists
<1>14. Writes(t)'
  <2>1. \A m \in Lines : line'[m].by = t => line'[m].cur = NoUnits \/ Exists(m)
    BY <1>1, <1>6, <1>7, <1>9 DEF Own, Writes
  <2>2. QED
    BY <1>5, <1>6, <1>13, <2>1 DEF Writes
<1>15. Finishes(t)'
  BY <1>3, GoneOnFinishes
<1>16. Fulfills(t)'
  <2>1. Positions(t)' = Positions(t) /\ \A k : LineAt(t, k)' = LineAt(t, k)
    BY <1>3 DEF GoesOn, Positions, LineAt
  <2>2. \A k \in Positions(t) : k < n + 1 => k < n \/ k = n
    BY <1>2 DEF Positions
  <2>3. \A k \in Positions(t) : LineAt(t, k) \in Lines
    BY PositionsAreLines
  <2>4. \A k \in Positions(t) : k < n => /\ OrderOf[LineAt(t, k)] = tx[t].order
                                         /\ Exists(LineAt(t, k))
                                         /\ line'[LineAt(t, k)].by = t
    BY <1>1, <1>9, <2>3 DEF Fulfills, n
  <2>5. \A k \in Positions(t) : k < n + 1 => /\ OrderOf[LineAt(t, k)] = tx[t].order
                                             /\ Exists(LineAt(t, k))
                                             /\ line'[LineAt(t, k)].by = t
    BY <1>2, <1>4, <1>7, <1>9, <2>2, <2>4
  <2>6. \A k \in Positions(t) : tx[t].work[k].qty > 0
    BY <1>1 DEF Fulfills
  <2>7. tx'[t].work = tx[t].work /\ tx'[t].next = n + 1
    BY <1>3 DEF GoesOn, n
  <2>8. \A k \in Positions(t) : Exists(LineAt(t, k)) => Exists(LineAt(t, k))'
    <3>1. \A k \in Positions(t) :
             /\ LineAt(t, k)' = LineAt(t, k) /\ LineAt(t, k) \in Lines
             /\ resv' = resv
      BY <1>5, <2>1, <2>3
    <3>2. QED
      BY <3>1 DEF Exists
  <2>9. QED
    BY <1>11, <2>1, <2>5, <2>6, <2>7, <2>8 DEF Fulfills
<1>17. QED
  <2>1. Own(t)'
    BY <1>11, <1>12, <1>14, <1>15, <1>16 DEF Own, Working
  <2>2. QED
    BY <1>10, <2>1, WorkKeepsDiscipline

LEMMA FulfillDecideKeepsDiscipline ==
    ASSUME TypeOK, Discipline, NEW t \in Txs, FulfillDecide(t)
    PROVE  Worked(t) /\ Discipline'
<1>1. /\ tx[t].op = "fulfill" /\ tx[t].at = "decide" /\ Own(t) /\ Fulfills(t)
      /\ tx[t].next = Len(tx[t].work) + 1 /\ tx[t] \in TxFields
  BY Tables DEF FulfillDecide, At, Discipline, Own, Working, Finishes, TxRecords
<1>2. /\ tx'[t].op = "fulfill" /\ tx'[t].order = tx[t].order
      /\ tx'[t].event = tx[t].event /\ tx'[t].work = tx[t].work
      /\ tx'[t].next = tx[t].next
      /\ \A u \in Txs \ {t} : tx'[u] = tx[u]
      /\ UNCHANGED <<stock, resv, line, claim>> /\ sent' = sent
  BY <1>1, Tables DEF FulfillDecide, TxFields, inventoryVars, busVars
<1>3. Worked(t)
  BY <1>2 DEF Worked, WrittenRow
<1>4. Locks(t)' /\ Writes(t)'
  BY <1>1, <1>2, HoldsTheSame
<1>5. Fulfills(t)'
  BY <1>1, <1>2 DEF Fulfills, Positions, LineAt, Exists
<1>6. Finishes(t)'
  BY <1>1, <1>2 DEF Finishes
<1>7. QED
  <2>1. Own(t)'
    BY <1>2, <1>4, <1>5, <1>6 DEF Own, Working
  <2>2. QED
    BY <1>3, <2>1, WorkKeepsDiscipline

LEMMA PostLineKeepsDiscipline ==
    ASSUME TypeOK, Discipline, NEW t \in Txs, PostLine(t), UNCHANGED <<status, line>>
    PROVE  Worked(t) /\ Discipline'
<1> DEFINE i == Item(t)
           l == i.line
           p == ProductOf[l]
           n == tx[t].next
           e == tx[t].event
           level == Shipped(Sees(stock[p], t), i.qty)
           r == Consumed(Sees(resv[l], t), i.qty)
<1>1. /\ tx[t].op = "post" /\ tx[t].at = "work" /\ Own(t) /\ Posts(t)
  BY DEF PostLine, At, Discipline, Own, Working
<1>2. /\ n \in Positions(t) /\ n \in Nat /\ l = LineAt(t, n) /\ l \in Lines
      /\ p \in Products /\ i = tx[t].work[n] /\ i.qty \in Int
      /\ Sees(resv[l], t) \in Reservations
  BY <1>1, AtPosition
<1>3. GoesOn(t, "commit")
  BY <1>1, Advances DEF PostLine
<1>4. stock[p].by \in {NoTx, t} /\ resv[l].by \in {NoTx, t}
  BY DEF PostLine, PostRowsFree, Free
<1>5. /\ stock' = [stock EXCEPT ![p] = Put(@, t, level)]
      /\ resv' = [resv EXCEPT ![l] = Put(@, t, r)]
      /\ claim' = claim /\ line' = line /\ sent' = sent
  BY DEF PostLine
<1>6. Exists(l)
  <2>1. e \in Events /\ tx[t].work = sent[e]
    BY <1>1 DEF Posts
  <2>2. n \in 1 .. Len(sent[e]) /\ sent[e][n].line = l
    BY <1>2, <2>1 DEF Positions, LineAt
  <2>3. QED
    BY <2>1, <2>2 DEF Discipline, Announced
<1>7. r.status # "NONE"
  <2>1. Sees(resv[l], t).status # "NONE"
    BY <1>1, <1>2, <1>6 DEF Sees, Exists, Own, Writes
  <2>2. QED
    BY <2>1 DEF Consumed
<1> HIDE DEF i, l, level, r, n
<1>8. ProductOf[l] = p
  OBVIOUS
<1> HIDE DEF p
<1>9. Wrote(stock, stock', Products, p, level, t)
  BY <1>2, <1>5, StockWritten
<1>10. Wrote(resv, resv', Lines, l, r, t)
  BY <1>2, <1>5, ResvWritten
<1>11. /\ stock'[p].by = t /\ stock'[p].com = stock[p].com
       /\ \A s \in Products : s # p => stock'[s] = stock[s]
  BY <1>9 DEF Wrote
<1>12. /\ resv'[l].by = t /\ resv'[l].com = resv[l].com /\ resv'[l].cur = r
       /\ \A m \in Lines : m # l => resv'[m] = resv[m]
  BY <1>10 DEF Wrote
<1>13. Worked(t)
  BY <1>3, <1>4, <1>5, <1>11, <1>12 DEF Worked, WrittenRow, GoesOn
<1>14. tx'[t].op = "post" /\ tx'[t].event = e
  BY <1>1, <1>3 DEF GoesOn
<1>15. Locks(t)'
  <2>1. \A s \in Products : stock[s].by = t => stock'[s].by = t
    BY <1>11
  <2>2. \A m \in Lines : ProductOf[m] \in Products
    BY LinesAssumption
  <2>3. \A m \in Lines : resv'[m].by = t => stock'[ProductOf[m]].by = t
    BY <1>1, <1>8, <1>11, <1>12, <2>1, <2>2 DEF Own, Locks
  <2>4. \A m \in Lines : line'[m].by # t
    BY <1>1, <1>5 DEF Own, Locks
  <2>5. \A d \in Events' : claim'[d].by = t => d = e
    BY <1>1, <1>5 DEF Own, Locks, Events
  <2>6. QED
    BY <1>14, <2>3, <2>4, <2>5 DEF Locks
<1>16. Writes(t)'
  <2>1. \A m \in Lines : Exists(m)' <=> Exists(m)
    BY <1>12 DEF Exists
  <2>2. \A m \in Lines : resv'[m].by = t => resv'[m].cur.status # "NONE" /\ Exists(m)
    BY <1>1, <1>6, <1>7, <1>12 DEF Own, Writes
  <2>3. \A m \in Lines : line'[m].by # t
    BY <1>1, <1>5 DEF Own, Locks
  <2>4. QED
    BY <1>14, <2>1, <2>2, <2>3 DEF Writes
<1>17. Finishes(t)'
  BY <1>3, GoneOnFinishes
<1>18. Posts(t)'
  <2>1. Positions(t)' = Positions(t) /\ \A k : LineAt(t, k)' = LineAt(t, k)
    BY <1>3 DEF GoesOn, Positions, LineAt
  <2>2. \A k \in Positions(t) : k < n + 1 => k < n \/ k = n
    BY <1>2 DEF Positions
  <2>3. \A k \in Positions(t) : LineAt(t, k) \in Lines
    BY PositionsAreLines
  <2>4. \A k \in Positions(t) : k < n + 1 => resv'[LineAt(t, k)].by = t
    BY <1>1, <1>2, <1>12, <2>2, <2>3 DEF Posts, n
  <2>5. tx'[t].work = tx[t].work /\ tx'[t].next = n + 1
    BY <1>3 DEF GoesOn, n
  <2>6. /\ e \in Events /\ tx[t].work = sent[e]
        /\ claim[e].by = t /\ ~claim[e].com /\ claim[e].cur
    BY <1>1, Zenon DEF Posts
  <2>7. /\ tx'[t].event \in Events /\ tx'[t].work = sent'[tx'[t].event]
        /\ claim'[tx'[t].event].by = t /\ ~claim'[tx'[t].event].com
        /\ claim'[tx'[t].event].cur
    <3> HIDE DEF e
    <3>1. QED
      BY <1>5, <1>14, <2>5, <2>6, Zenon
  <2>8. (\A k \in Positions(t) : k < tx[t].next => resv[LineAt(t, k)].by = t)'
    BY <2>1, <2>4, <2>5
  <2>9. QED
    BY <2>7, <2>8, Zenon DEF Posts, Events
<1>19. QED
  <2>1. Own(t)'
    BY <1>14, <1>15, <1>16, <1>17, <1>18 DEF Own, Working
  <2>2. QED
    BY <1>13, <2>1, WorkKeepsDiscipline

LEMMA ClaimKeepsDiscipline ==
    ASSUME TypeOK, Discipline, NEW t \in Txs, NEW e \in Events, Claim(t, e),
           UNCHANGED <<status, line>>
    PROVE  Worked(t) /\ Discipline'
<1>1. /\ tx[t].op = "idle" /\ Own(t)
      /\ UNCHANGED <<stock, resv, line>> /\ sent' = sent
  BY DEF Claim, Idle, Begun, Discipline
<1>2. /\ \A p \in Products : stock[p].by # t
      /\ \A l \in Lines : resv[l].by # t /\ line[l].by # t
      /\ \A d \in Events : claim[d].by # t
  BY <1>1, IdleHoldsNothing
<1>3. CASE claim' = claim /\ tx' = tx
  <2>1. Worked(t)
    BY <1>1, <1>3 DEF Worked, WrittenRow
  <2>2. tx'[t].op = "idle"
    BY <1>1, <1>3
  <2>3. /\ \A p \in Products : stock'[p].by # t
        /\ \A l \in Lines : resv'[l].by # t /\ line'[l].by # t
        /\ \A d \in Events' : claim'[d].by # t
    BY <1>1, <1>2, <1>3 DEF Events
  <2>4. Own(t)'
    BY <2>2, <2>3 DEF Own, Locks, Writes, Finishes, Working
  <2>5. QED
    BY <2>1, <2>4, WorkKeepsDiscipline
<1>4. CASE /\ ~Sees(claim[e], t)
           /\ claim' = [claim EXCEPT ![e] = Put(@, t, TRUE)]
           /\ tx' = [tx EXCEPT ![t] = Begun("post", "work", NoOrder, e, sent[e])]
  <2> DEFINE r == Begun("post", "work", NoOrder, e, sent[e])
  <2>1. r.op = "post" /\ r.at = "work" /\ r.event = e /\ r.work = sent[e] /\ r.next = 1
    BY DEF Begun
  <2>2. tx' = [tx EXCEPT ![t] = r]
    BY <1>4
  <2> HIDE DEF r
  <2>3. tx'[t] = r /\ \A u \in Txs \ {t} : tx'[u] = tx[u]
    BY <2>2, Tables
  <2>4. Wrote(claim, claim', Events, e, TRUE, t)
    BY <1>4, ClaimWritten
  <2>5. /\ claim'[e].com = claim[e].com /\ claim'[e].cur /\ claim'[e].by = t
        /\ \A d \in Events : d # e => claim'[d] = claim[d]
    BY <2>4, Zenon DEF Wrote
  <2>6. ~claim[e].com
    BY <1>2, <1>4, Zenon DEF Sees
  <2>7. claim[e].by = NoTx
    BY <1>2 DEF Claim, Free
  <2>8. \A d \in Events : WrittenRow(claim[d], claim'[d], t)
    BY <2>5, <2>7, Zenon DEF WrittenRow
  <2>9. Worked(t)
    BY <1>1, <2>3, <2>8 DEF Worked, WrittenRow
  <2>10. Locks(t)'
    <3>1. \A d \in Events' : claim'[d].by = t => d = e
      BY <1>2, <2>5 DEF Events
    <3>2. QED
      BY <1>1, <1>2, <2>1, <2>3, <3>1 DEF Locks
  <2>11. Writes(t)'
    BY <1>1, <1>2 DEF Writes
  <2>12. Finishes(t)'
    BY <2>1, <2>3 DEF Finishes
  <2>13. Posts(t)'
    <3>1. tx'[t].event = e /\ tx'[t].work = sent[e] /\ tx'[t].next = 1
      BY <2>1, <2>3
    <3>2. (\A k \in Positions(t) : k < tx[t].next => resv[LineAt(t, k)].by = t)'
      BY <3>1 DEF Positions
    <3>3. /\ claim'[tx'[t].event].by = t /\ ~claim'[tx'[t].event].com
          /\ claim'[tx'[t].event].cur
      BY <2>5, <2>6, <3>1, Zenon
    <3>4. tx'[t].event \in Events /\ tx'[t].work = sent'[tx'[t].event]
      BY <1>1, <3>1
    <3>5. QED
      BY <3>2, <3>3, <3>4, Zenon DEF Posts, Events
  <2>14. Own(t)'
    BY <2>1, <2>3, <2>10, <2>11, <2>12, <2>13 DEF Own, Working
  <2>15. QED
    BY <2>9, <2>14, WorkKeepsDiscipline
<1>5. QED
  BY <1>3, <1>4 DEF Claim

LEMMA RollbackKeepsDiscipline ==
    ASSUME TypeOK, Discipline, NEW t \in Txs, Rollback(t)
    PROVE  Discipline'
<1>1. Ended(t, FALSE)
  BY RollbackEnds
<1>2. Told(t, FALSE)
  BY DEF Rollback, Told
<1>3. QED
  BY <1>1, <1>2, EndKeepsDiscipline

LEMMA CommitKeepsDiscipline ==
    ASSUME TypeOK, Discipline, NEW t \in Txs,
           \/ ConfirmCommit(t) \/ AllocateCommit(t) \/ CancelCommit(t) \/ FulfillCommit(t)
           \/ PostCommit(t) /\ UNCHANGED <<status, line>>
    PROVE  Discipline'
<1>1. Locks(t)
  BY DEF Discipline, Own
<1>2. Ended(t, TRUE)
  BY <1>1, CommitEnds DEF ConfirmCommit, AllocateCommit, CancelCommit, FulfillCommit
<1>3. Told(t, TRUE)
  <2>1. CASE FulfillCommit(t)
    <3>1. PICK e \in Events : Emit(e, tx[t].work)
      BY <2>1 DEF FulfillCommit
    <3>2. sent[e] = <<>> /\ sent'[e] = tx[t].work /\ \A d \in Events : d # e => sent'[d] = sent[d]
      BY <3>1, Tables DEF Emit
    <3>3. tx[t].op = "fulfill" /\ tx[t].at = "commit"
      BY <2>1 DEF FulfillCommit, At
    <3>4. QED
      BY <3>2, <3>3 DEF Told
  <2>2. CASE ~FulfillCommit(t)
    BY <2>2 DEF ConfirmCommit, AllocateCommit, CancelCommit, PostCommit, busVars, Told
  <2>3. QED
    BY <2>1, <2>2
<1>4. QED
  BY <1>2, <1>3, EndKeepsDiscipline

LEMMA ProceedKeepsDiscipline ==
    ASSUME TypeOK, Discipline, NEW t \in Txs, Proceed(t)
    PROVE  Discipline'
<1>1. CASE Handle(t)
  BY <1>1, ClaimKeepsDiscipline, PostLineKeepsDiscipline, CommitKeepsDiscipline DEF Handle
<1>2. CASE AllocateReject(t) \/ FulfillReject(t) \/ DeadlockVictim(t)
  BY <1>2, RollbackKeepsDiscipline DEF AllocateReject, FulfillReject, DeadlockVictim
<1>3. QED
  BY <1>1, <1>2, CommitKeepsDiscipline, AllocateLineKeepsDiscipline,
     CancelFindKeepsDiscipline, CancelLineKeepsDiscipline, CancelLinesKeepsDiscipline,
     FulfillLineKeepsDiscipline, FulfillDecideKeepsDiscipline DEF Proceed

\* A goods receipt touches one stock row, which nobody holds.
LEMMA RestockKeepsDiscipline ==
    ASSUME TypeOK, Discipline, NEW p \in Products, Restock(p)
    PROVE  Discipline'
<1> DEFINE v == [onHand |-> stock[p].com.onHand + 1, reserved |-> stock[p].com.reserved]
<1>1. /\ stock[p].by = NoTx /\ stock' = [stock EXCEPT ![p] = Row(v)]
      /\ UNCHANGED <<resv, claim, line, tx>> /\ sent' = sent
  BY DEF Restock, Receive
<1> HIDE DEF v
<1>2. /\ stock'[p].by = NoTx /\ stock'[p].cur = stock'[p].com
      /\ \A s \in Products : s # p => stock'[s] = stock[s]
  BY <1>1, Tables DEF Row
<1>3. AtRest'
  BY <1>1, <1>2 DEF Discipline, AtRest
<1>4. Announced' /\ Reserved'
  BY <1>1 DEF Discipline, Announced, Reserved, Exists, Events
<1>5. ASSUME NEW u \in Txs
      PROVE  Own(u)'
  <2>1. KeptFor(u)
    BY <1>1, <1>2, NullsAssumption DEF KeptFor, Exists
  <2>2. QED
    BY <2>1, OwnIsKept DEF Discipline
<1>6. QED
  BY <1>3, <1>4, <1>5 DEF Discipline

LEMMA CrashKeepsDiscipline ==
    ASSUME TypeOK, Discipline, Crash
    PROVE  Discipline'
<1>1. /\ \A p \in Products : stock'[p].by = NoTx /\ stock'[p].cur = stock'[p].com
      /\ \A l \in Lines : /\ resv'[l].by = NoTx /\ resv'[l].cur = resv'[l].com
                          /\ resv'[l].com = resv[l].com
      /\ \A l \in Lines : /\ line'[l].by = NoTx /\ line'[l].cur = line'[l].com
                          /\ line'[l].com = line[l].com
  <2>1. stock' = Restarted(stock) /\ resv' = Restarted(resv) /\ line' = Restarted(line)
    BY DEF Crash
  <2>2. \A p \in Products : stock'[p].by = NoTx /\ stock'[p].cur = stock'[p].com
    BY <2>1, Tables, Rebooted
  <2>3. \A l \in Lines : /\ resv'[l].by = NoTx /\ resv'[l].cur = resv'[l].com
                         /\ resv'[l].com = resv[l].com
    BY <2>1, Tables, Rebooted
  <2>4. \A l \in Lines : /\ line'[l].by = NoTx /\ line'[l].cur = line'[l].com
                         /\ line'[l].com = line[l].com
    BY <2>1, Tables, Rebooted
  <2>5. QED
    BY <2>2, <2>3, <2>4
<1>2. \A e \in Events : claim'[e].by = NoTx /\ claim'[e].com = claim[e].com
  BY Tables, Rebooted DEF Crash
<1>3. sent' = sent /\ \A t \in Txs : tx'[t].op = "idle"
  BY DEF Crash, Idle, Begun
<1>4. AtRest'
  BY <1>1 DEF AtRest
<1>5. Reserved'
  BY <1>1 DEF Discipline, Reserved, Exists
<1>6. Announced'
  <2>1. \A e \in Events : \A k \in 1 .. Len(sent[e]) : sent[e][k].line \in Lines
    <3>1. \A e \in Events : \A k \in 1 .. Len(sent[e]) : sent[e][k] \in Items
      BY Tables
    <3>2. QED
      BY <3>1 DEF Items
  <2>2. \A l \in Lines : Exists(l) => Exists(l)'
    BY <1>1 DEF Exists
  <2>3. ASSUME NEW e \in Events
        PROVE  (\A k \in 1 .. Len(sent[e]) : sent[e][k].qty > 0 /\ Exists(sent[e][k].line))'
    <3>1. \A k \in 1 .. Len(sent[e]) : sent[e][k].qty > 0 /\ Exists(sent[e][k].line)
      BY DEF Discipline, Announced
    <3>2. QED
      BY <1>3, <2>1, <2>2, <3>1 DEF Exists
  <2>4. \A e \in Events : sent'[e] = <<>> => ~claim'[e].com
    BY <1>2, <1>3, Zenon DEF Discipline, Announced
  <2>5. QED
    BY <2>3, <2>4 DEF Announced, Events
<1>7. ASSUME NEW t \in Txs
      PROVE  Own(t)'
  <2>1. /\ \A p \in Products : stock'[p].by # t
        /\ \A l \in Lines : resv'[l].by # t /\ line'[l].by # t
        /\ \A e \in Events' : claim'[e].by # t
    BY <1>1, <1>2, NullsAssumption DEF Events
  <2>2. tx'[t].op = "idle"
    BY <1>3
  <2>3. QED
    BY <2>1, <2>2 DEF Own, Locks, Writes, Finishes, Working
<1>8. QED
  BY <1>4, <1>5, <1>6, <1>7 DEF Discipline

LEMMA InitDiscipline == Init => Discipline
<1>1. SUFFICES ASSUME Init PROVE Discipline
  OBVIOUS
<1>2. /\ \A p \in Products : stock[p].by = NoTx /\ stock[p].cur = stock[p].com
      /\ \A l \in Lines : /\ resv[l].by = NoTx /\ resv[l].cur = resv[l].com
                          /\ resv[l].com = NoResv
      /\ \A l \in Lines : /\ line[l].by = NoTx /\ line[l].cur = line[l].com
                          /\ line[l].com = NoUnits
      /\ \A t \in Txs : tx[t].op = "idle"
      /\ \A e \in Events : sent[e] = <<>> /\ claim[e].by = NoTx
  BY <1>1 DEF Init, InventoryInit, Row, NoUnits, Idle, Begun
<1>3. \A e \in Events : ~claim[e].com
  BY <1>1, Zenon DEF Init, InventoryInit, Row
<1>4. Announced
  BY <1>2, <1>3, EmptySeq DEF Announced
<1>5. AtRest /\ Reserved
  BY <1>2 DEF AtRest, Reserved
<1>6. ASSUME NEW t \in Txs
      PROVE  Own(t)
  BY <1>2, NullsAssumption DEF Own, Locks, Writes, Finishes, Working
<1>7. QED
  BY <1>4, <1>5, <1>6 DEF Discipline

\* The discipline by which transactions take rows and write them.
THEOREM Disciplined == Spec => []Discipline
<1>1. ASSUME TypeOK, Discipline, [Next]_vars PROVE Discipline'
  <2>1. ASSUME UNCHANGED <<stock, resv, claim, line, tx, sent>> PROVE Discipline'
    <3>1. AtRest' /\ Announced' /\ Reserved'
      BY <1>1, <2>1 DEF Discipline, AtRest, Announced, Reserved, Exists, Events
    <3>2. \A u \in Txs : KeptFor(u)
      BY <2>1 DEF KeptFor, Exists
    <3>3. QED
      BY <1>1, <3>1, <3>2, OwnIsKept DEF Discipline
  <2>2. CASE UNCHANGED vars
    BY <2>1, <2>2 DEF vars
  <2>3. ASSUME NEW o \in Orders, Create(o) PROVE Discipline'
    BY <2>1, <2>3 DEF Create, inventoryVars, busVars
  <2>4. ASSUME NEW p \in Products, Restock(p) PROVE Discipline'
    BY <1>1, <2>4, RestockKeepsDiscipline
  <2>5. CASE Crash
    BY <1>1, <2>5, CrashKeepsDiscipline
  <2>6. ASSUME NEW t \in Txs, Request(t) \/ Proceed(t) \/ Abort(t) PROVE Discipline'
    BY <1>1, <2>6, RequestKeepsDiscipline, ProceedKeepsDiscipline, RollbackKeepsDiscipline
       DEF Abort
  <2>7. QED
    BY <1>1, <2>2, <2>3, <2>4, <2>5, <2>6 DEF Next, Step
<1>2. QED
  BY <1>1, InitDiscipline, Typing, PTL DEF Spec

-----------------------------------------------------------------------------
(* Allocations cannot deadlock.  Every row an allocation waits for is held *)
(* by a transaction that also holds its product's stock row.  If that is   *)
(* an allocation too, and waits itself, then it does so for a larger       *)
(* product; and there is a largest one.                                    *)

\* The product an allocation has come to.
ProductAt(t) == ProductOf[LineAt(t, tx[t].next)]

LEMMA AllocationsWaitUpwards ==
    ASSUME TypeOK, Discipline, NEW t \in Txs, NEW u \in Txs,
           tx[t].op = "allocate", tx[u].op = "allocate", WaitsFor(t, u)
    PROVE  /\ tx[t].at = "work" /\ u # t
           /\ ProductAt(t) \in Products /\ stock[ProductAt(t)].by = u
<1>1. /\ u \in Holders(t) /\ u # t
      /\ Own(t) /\ Own(u)
  BY DEF WaitsFor, Discipline
<1>2. At(t, "allocate", "work")
  BY <1>1 DEF Holders, At
<1>3. tx[t].at = "work"
  BY <1>2 DEF At
<1>4. /\ Item(t).line = LineAt(t, tx[t].next) /\ Item(t).line \in Lines
      /\ ProductOf[Item(t).line] \in Products
  BY <1>3, AtPosition
<1>5. u \in {stock[ProductOf[Item(t).line]].by, resv[Item(t).line].by, line[Item(t).line].by}
  <2>1. Holders(t) =
            {stock[ProductOf[Item(t).line]].by, resv[Item(t).line].by, line[Item(t).line].by}
    BY <1>2 DEF Holders, At
  <2>2. QED
    BY <1>1, <2>1
<1>6. stock[ProductOf[Item(t).line]].by = u
  BY <1>1, <1>4, <1>5 DEF Own, Locks
<1>7. QED
  BY <1>1, <1>3, <1>4, <1>6 DEF ProductAt

LEMMA AllocationsClimb ==
    ASSUME TypeOK, Discipline, NEW t \in Txs, NEW u \in Txs, NEW w \in Txs,
           tx[t].op = "allocate", tx[u].op = "allocate", tx[w].op = "allocate",
           WaitsFor(t, u), WaitsFor(u, w)
    PROVE  ProductAt(t) < ProductAt(u)
<1>1. /\ tx[u].at = "work" /\ w # u
      /\ ProductAt(t) \in Products /\ stock[ProductAt(t)].by = u
      /\ ProductAt(u) \in Products /\ stock[ProductAt(u)].by = w
  BY AllocationsWaitUpwards
<1>2. Allocates(u) /\ tx[u].next \in Positions(u)
  BY <1>1, AtPosition DEF Discipline, Own, Working
<1>3. PICK k \in Positions(u) : k < tx[u].next /\ ProductOf[LineAt(u, k)] = ProductAt(t)
  BY <1>1, <1>2 DEF Allocates
<1>4. ProductAt(t) <= ProductAt(u)
  BY <1>2, <1>3 DEF Allocates, ProductAt
<1>5. ProductAt(t) # ProductAt(u)
  BY <1>1
<1>6. ProductAt(t) \in Nat /\ ProductAt(u) \in Nat
  BY <1>1, ProductsAssumption
<1>7. QED
  BY <1>4, <1>5, <1>6

\* No set of allocations can wait in a circle, for any number of products,
\* orders and connections: each takes the rows of its products in one order.
THEOREM AllocationsFinish == Spec => []AllocationsNeverDeadlock
<1>1. ASSUME TypeOK, Discipline PROVE AllocationsNeverDeadlock
  <2>1. SUFFICES ASSUME NEW S \in SUBSET {t \in Txs : tx[t].op = "allocate"},
                        Deadlocked(S, WaitsFor)
                 PROVE  FALSE
    BY DEF AllocationsNeverDeadlock
  <2>2. S # {} /\ \A t \in S : \E u \in S : WaitsFor(t, u)
    BY <2>1 DEF Deadlocked
  <2>3. \A t \in S : t \in Txs /\ tx[t].op = "allocate"
    BY <2>1
  <2>4. \A t \in S : ProductAt(t) \in Nat /\ \E l \in Lines : ProductAt(t) = ProductOf[l]
    <3>1. SUFFICES ASSUME NEW t \in S
                   PROVE  ProductAt(t) \in Nat /\ \E l \in Lines : ProductAt(t) = ProductOf[l]
      OBVIOUS
    <3>2. PICK u \in S : WaitsFor(t, u)
      BY <2>2
    <3>3. /\ t \in Txs /\ tx[t].op = "allocate"
          /\ u \in Txs /\ tx[u].op = "allocate"
      BY <2>3
    <3>4. tx[t].at = "work"
      BY <1>1, <3>2, <3>3, AllocationsWaitUpwards
    <3>5. tx[t].next \in Positions(t)
      BY <1>1, <3>3, <3>4, AtPosition
    <3>6. QED
      BY <1>1, <3>3, <3>5, PositionsAreLines DEF ProductAt
  <2> DEFINE A == {ProductOf[l] : l \in Lines}
             P == {ProductAt(t) : t \in S}
  <2>5. IsFiniteSet(A)
    <3>1. ProductOf \in Surjection(Lines, A)
      BY LinesAssumption DEF Surjection
    <3> HIDE DEF A
    <3>2. QED
      BY <3>1, LinesAssumption, FS_Surjection
  <2>6. P \subseteq Nat /\ P \subseteq A /\ P # {}
    BY <2>2, <2>4
  <2>7. \A x \in P : \E t \in S : x = ProductAt(t)
    OBVIOUS
  <2>8. \A t \in S : ProductAt(t) \in P
    OBVIOUS
  <2> HIDE DEF A, P
  <2>9. IsFiniteSet(P)
    BY <2>5, <2>6, FS_Subset
  <2>10. PICK m \in P : \A x \in P : x <= m
    BY <2>6, <2>9, HasLargest
  <2>11. PICK t \in S : m = ProductAt(t)
    BY <2>7
  <2>12. PICK u \in S : WaitsFor(t, u)
    BY <2>2
  <2>13. PICK w \in S : WaitsFor(u, w)
    BY <2>2
  <2>14. /\ t \in Txs /\ tx[t].op = "allocate"
         /\ u \in Txs /\ tx[u].op = "allocate"
         /\ w \in Txs /\ tx[w].op = "allocate"
    BY <2>3
  <2>15. ProductAt(t) < ProductAt(u)
    BY <1>1, <2>12, <2>13, <2>14, AllocationsClimb
  <2>16. QED
    BY <2>4, <2>8, <2>10, <2>11, <2>15
<1>2. QED
  BY <1>1, Typing, Disciplined, PTL

-----------------------------------------------------------------------------
(* No line ships more than was ordered.  By the discipline an allocation   *)
(* comes to a line that nobody has touched, so it sets what is reserved of *)
(* a line with nothing fulfilled.                                          *)

LEMMA LineWriteKeepsBudgets ==
    ASSUME TypeOK, Budgets, NEW t \in Txs, NEW l \in Lines, NEW q \in Quantities,
           Within(q, l), line' = [line EXCEPT ![l] = Put(@, t, q)]
    PROVE  Budgets'
<1>1. Wrote(line, line', Lines, l, q, t)
  BY LineWritten
<1>2. QED
  BY <1>1 DEF Wrote, Budgets, Within

LEMMA AllocateLineKeepsBudgets ==
    ASSUME TypeOK, Discipline, Budgets, NEW t \in Txs, AllocateLine(t)
    PROVE  Budgets'
<1> DEFINE i == Item(t)
           l == i.line
           q == [Sees(line[l], t) EXCEPT !.reserved = i.qty]
<1>1. tx[t].op = "allocate" /\ tx[t].at = "work" /\ Own(t) /\ Allocates(t)
  BY DEF AllocateLine, At, Discipline, Own, Working
<1>2. /\ tx[t].next \in Positions(t) /\ l = LineAt(t, tx[t].next)
      /\ i = tx[t].work[tx[t].next]
      /\ l \in Lines /\ i.qty \in Int /\ Sees(line[l], t) \in Quantities
  BY <1>1, AtPosition
<1>3. i.qty = Ordered[l] /\ Ordered[l] \in Nat
  BY <1>1, <1>2, LinesAssumption DEF Allocates
<1>4. Sees(resv[l], t).status = "NONE"
  BY DEF AllocateLine, AlreadyReserved, NoResv
<1>5. resv[l].by # t
  BY <1>1, <1>2, <1>4 DEF Own, Writes, Sees
<1>6. line[l].by # t
  BY <1>1, <1>2, <1>5 DEF Own, Locks
<1>7. Sees(line[l], t) = NoUnits
  BY <1>2, <1>4, <1>5, <1>6 DEF Sees, Discipline, Reserved, Exists
<1>8. q \in Quantities /\ Within(q, l)
  <2>1. q.reserved = i.qty /\ q.fulfilled = 0
    BY <1>7 DEF NoUnits
  <2>2. q \in Quantities
    BY <1>2 DEF Quantities
  <2> HIDE DEF q, i, l
  <2>3. QED
    BY <1>3, <2>1, <2>2 DEF Within
<1>9. line' = [line EXCEPT ![l] = Put(@, t, q)]
  BY DEF AllocateLine
<1> HIDE DEF q, l
<1>10. QED
  BY <1>2, <1>8, <1>9, LineWriteKeepsBudgets

LEMMA FulfillLineKeepsBudgets ==
    ASSUME TypeOK, Discipline, Budgets, NEW t \in Txs, FulfillLine(t)
    PROVE  Budgets'
<1> DEFINE i == Item(t)
           l == i.line
           now == Sees(line[l], t)
           q == [reserved |-> now.reserved - i.qty, fulfilled |-> now.fulfilled + i.qty]
<1>1. tx[t].op = "fulfill" /\ tx[t].at = "work" /\ Fulfills(t)
  BY DEF FulfillLine, At, Discipline, Own, Working
<1>2. /\ tx[t].next \in Positions(t) /\ i = tx[t].work[tx[t].next]
      /\ l \in Lines /\ i.qty \in Int /\ now \in Quantities
  BY <1>1, AtPosition
<1>3. i.qty > 0 /\ now.reserved >= i.qty
  BY <1>1, <1>2 DEF Fulfills, FulfillLine, CanFulfill
<1>4. Within(now, l)
  BY <1>2 DEF Budgets, Sees
<1>5. line' = [line EXCEPT ![l] = Put(@, t, q)]
  BY DEF FulfillLine
<1> HIDE DEF now, i, l
<1>6. Ordered[l] \in Int
  BY <1>2, LinesAssumption
<1>7. q \in Quantities /\ Within(q, l)
  BY <1>2, <1>3, <1>4, <1>6 DEF Within, Quantities
<1> HIDE DEF q
<1>8. QED
  BY <1>2, <1>5, <1>7, LineWriteKeepsBudgets

LEMMA CancelLinesKeepsBudgets ==
    ASSUME TypeOK, Budgets, NEW t \in Txs, CancelLines(t)
    PROVE  Budgets'
<1> DEFINE q(l) == [Sees(line[l], t) EXCEPT !.reserved = 0]
<1>1. SUFFICES ASSUME NEW l \in Lines
               PROVE  Within(line'[l].com, l) /\ Within(line'[l].cur, l)
  BY DEF Budgets, Within
<1>2. /\ line[l] \in RowOf(Quantities, Txs) /\ Sees(line[l], t) \in Quantities
      /\ Within(line[l].com, l) /\ Within(line[l].cur, l) /\ Ordered[l] \in Int
  <2>1. line \in [Lines -> RowOf(Quantities, Txs)]
    BY Tables
  <2>2. line[l] \in RowOf(Quantities, Txs) /\ Sees(line[l], t) \in Quantities
    BY <2>1, PutTypes
  <2>3. QED
    BY <2>2, LinesAssumption DEF Budgets
<1>3. line'[l] \in {line[l], Put(line[l], t, q(l))}
  BY DEF CancelLines
<1>4. Within(Sees(line[l], t), l)
  BY <1>2 DEF Sees
<1>5. Within(q(l), l)
  BY <1>2, <1>4 DEF Within, Quantities
<1> HIDE DEF q
<1>6. Put(line[l], t, q(l)).com = line[l].com /\ Put(line[l], t, q(l)).cur = q(l)
  BY <1>2 DEF Put, RowOf
<1>7. QED
  BY <1>2, <1>3, <1>5, <1>6

LEMMA EndKeepsBudgets ==
    ASSUME TypeOK, Budgets, NEW t,
           line' \in {CommitAll(line, t), RollbackAll(line, t), Restarted(line)}
    PROVE  Budgets'
<1>1. DOMAIN line = Lines
  BY Tables
<1>2. ASSUME NEW l \in Lines
      PROVE  line'[l].com \in {line[l].com, line[l].cur}
             /\ line'[l].cur \in {line[l].com, line[l].cur}
  BY <1>1, EndedVersions DEF CommitAll, RollbackAll, Restarted, Row
<1>3. QED
  BY <1>2 DEF Budgets, Within

LEMMA BudgetsAreKept == Spec => []Budgets
<1>1. Init => Budgets
  BY LinesAssumption DEF Init, Budgets, Within, Row
<1>2. ASSUME TypeOK, Discipline, Budgets, [Next]_vars PROVE Budgets'
  <2>1. CASE UNCHANGED line
    BY <1>2, <2>1 DEF Budgets, Within
  <2>2. ASSUME NEW t \in Txs, Commit(t) \/ Rollback(t) PROVE Budgets'
    <3>1. line' \in {CommitAll(line, t), RollbackAll(line, t), Restarted(line)}
      BY <2>2 DEF Commit, Rollback
    <3>2. QED
      BY <1>2, <3>1, EndKeepsBudgets
  <2>3. ASSUME NEW t \in Txs, AllocateLine(t) \/ FulfillLine(t) \/ CancelLines(t)
        PROVE  Budgets'
    BY <1>2, <2>3, AllocateLineKeepsBudgets, FulfillLineKeepsBudgets, CancelLinesKeepsBudgets
  <2>4. CASE Crash
    <3>1. line' \in {CommitAll(line, NoTx), RollbackAll(line, NoTx), Restarted(line)}
      BY <2>4 DEF Crash
    <3>2. QED
      BY <1>2, <3>1, EndKeepsBudgets
  <2>5. ASSUME NEW t \in Txs, Proceed(t)
        PROVE  \/ UNCHANGED line \/ Commit(t) \/ Rollback(t)
               \/ AllocateLine(t) \/ FulfillLine(t) \/ CancelLines(t)
    BY <2>5 DEF Proceed, ConfirmCommit, AllocateReject, AllocateCommit, CancelFind,
         CancelLine, CancelCommit, FulfillReject, FulfillDecide, FulfillCommit, Handle,
         DeadlockVictim
  <2>6. ASSUME NEW t \in Txs, Request(t) PROVE UNCHANGED line
    BY <2>6 DEF Request, ConfirmRead, AllocateRead, CancelRead, FulfillRead
  <2>7. (\E o \in Orders : Create(o)) \/ (\E p \in Products : Restock(p)) \/ UNCHANGED vars
            => UNCHANGED line
    BY DEF Create, Restock, vars
  <2>8. QED
    BY <1>2, <2>1, <2>2, <2>3, <2>4, <2>5, <2>6, <2>7 DEF Next, Step, Abort
<1>3. QED
  BY <1>1, <1>2, Typing, Disciplined, PTL DEF Spec

\* What a line has reserved and shipped never exceeds what was ordered, for
\* any requests, in what is committed and in what is under way: neither
\* overlapping fulfil requests nor an allocation that races a cancellation
\* can give a line units twice.
THEOREM LinesInBudget == Spec => []LineBudget
<1>1. Budgets => LineBudget
  BY DEF Budgets, Within, LineBudget
<1>2. QED
  BY <1>1, BudgetsAreKept, PTL

-----------------------------------------------------------------------------
(* Reservations come all at once.  Only the commit of an allocation makes  *)
(* any: those of every line of its order, and of no other line.            *)

AllExist(o) == \A l, m \in LinesOf(o) : Exists(l) => Exists(m)

Whole ==
    \A o \in Orders :
        /\ AllExist(o)
        /\ status[o] \in {"ALLOCATED", "PARTIALLY_FULFILLED", "FULFILLED"} =>
              \E l \in LinesOf(o) : Exists(l)

LEMMA WholeIsAllOrNothing ==
    ASSUME TypeOK, Discipline, Whole
    PROVE  AllOrNothing
<1>1. ASSUME NEW l \in Lines
      PROVE  resv[l].com # NoResv <=> Exists(l)
  BY DEF Discipline, Reserved, Exists, NoResv
<1>2. \A o \in Orders : LinesOf(o) \subseteq Lines
  BY DEF LinesOf
<1>3. QED
  BY <1>1, <1>2 DEF Whole, AllExist, AllOrNothing

\* A step that makes no reservation and gives no order a status that needs one.
LEMMA KeepsWhole ==
    ASSUME Whole, \A l \in Lines : Exists(l)' <=> Exists(l),
           \A o \in Orders :
               \/ status'[o] = status[o]
               \/ status'[o] \in {"DRAFT", "CONFIRMED", "CANCELLED"}
               \/ \E l \in LinesOf(o) : Exists(l)
    PROVE  Whole'
<1>1. \A o \in Orders : LinesOf(o) \subseteq Lines /\ LinesOf(o)' = LinesOf(o)
  BY DEF LinesOf
<1>2. QED
  BY <1>1 DEF Whole, AllExist

\* Ending t makes no reservation, unless it is an allocation that commits.
LEMMA EndMakesNone ==
    ASSUME Discipline, NEW t \in Txs, NEW ok \in BOOLEAN, Ended(t, ok),
           ok => tx[t].op # "allocate"
    PROVE  \A l \in Lines : Exists(l)' <=> Exists(l)
<1>1. SUFFICES ASSUME NEW l \in Lines
               PROVE  Exists(l)' <=> Exists(l)
  OBVIOUS
<1>2. EndedRow(resv[l], resv'[l], t, ok)
  BY DEF Ended
<1>3. resv[l].by = t => /\ resv[l].cur.status # "NONE"
                        /\ tx[t].op = "allocate" <=> ~Exists(l)
  BY DEF Discipline, Own, Writes
<1>4. QED
  BY <1>2, <1>3 DEF EndedRow, Exists

LEMMA AllocateCommitKeepsWhole ==
    ASSUME TypeOK, Discipline, Whole, NEW t \in Txs, AllocateCommit(t)
    PROVE  Whole'
<1> DEFINE o == tx[t].order
<1>1. /\ tx[t].op = "allocate" /\ tx[t].at = "commit" /\ Commit(t)
      /\ Own(t) /\ Allocates(t) /\ tx[t] \in TxRecords
  BY Tables DEF AllocateCommit, At, Discipline, Own, Working
<1>2. o \in Orders /\ tx[t].next = Len(tx[t].work) + 1
  BY <1>1 DEF Own, Finishes, TxRecords
<1>3. Ended(t, TRUE)
  BY <1>1, CommitEnds DEF Own
<1>4. \A l \in Lines : EndedRow(resv[l], resv'[l], t, TRUE)
  BY <1>3 DEF Ended
<1>5. ASSUME NEW l \in LinesOf(o)
      PROVE  Exists(l)'
  <2>1. PICK k \in Positions(t) : LineAt(t, k) = l
    BY <1>1 DEF Allocates
  <2>2. k < tx[t].next
    <3>1. tx[t].work \in Seq(Items)
      BY <1>1 DEF TxRecords, TxFields
    <3>2. QED
      BY <1>2, <3>1, LenProperties DEF Positions
  <2>3. resv[l].by = t /\ l \in Lines
    BY <1>1, <2>1, <2>2 DEF Allocates, LinesOf
  <2>4. resv[l].cur.status # "NONE"
    BY <1>1, <2>3 DEF Own, Writes
  <2>5. QED
    BY <1>4, <2>3, <2>4 DEF EndedRow, Exists
<1>6. ASSUME NEW l \in Lines, OrderOf[l] # o
      PROVE  Exists(l)' <=> Exists(l)
  <2>1. resv[l].by # t
    BY <1>1, <1>6 DEF Own, Locks
  <2>2. QED
    BY <1>4, <2>1 DEF EndedRow, Exists
<1>7. \A p \in Orders : LinesOf(p)' = LinesOf(p)
  BY DEF LinesOf
<1>8. ASSUME NEW p \in Orders
      PROVE  /\ AllExist(p)'
             /\ status'[p] \in {"ALLOCATED", "PARTIALLY_FULFILLED", "FULFILLED"} =>
                   (\E l \in LinesOf(p) : Exists(l))'
  <2>1. CASE p = o
    <3>1. LinesOf(o) # {}
      BY <1>2, LinesAssumption DEF LinesOf
    <3>2. QED
      BY <1>5, <1>7, <2>1, <3>1 DEF AllExist
  <2>2. CASE p # o
    <3>1. \A l \in LinesOf(p) : Exists(l)' <=> Exists(l)
      BY <1>6, <2>2 DEF LinesOf
    <3>2. status'[p] = status[p]
      BY <2>2 DEF AllocateCommit, TypeOK
    <3>3. QED
      BY <1>7, <3>1, <3>2 DEF Whole, AllExist
  <2>3. QED
    BY <2>1, <2>2
<1>9. QED
  BY <1>8 DEF Whole

LEMMA CommitKeepsWhole ==
    ASSUME TypeOK, Discipline, Whole, NEW t \in Txs,
           \/ ConfirmCommit(t) \/ CancelCommit(t) \/ FulfillCommit(t)
           \/ PostCommit(t) /\ UNCHANGED <<status, line>>
    PROVE  Whole'
<1>1. Locks(t) /\ tx[t].op # "allocate" /\ Own(t) /\ tx[t] \in TxRecords
  BY Tables DEF Discipline, Own, ConfirmCommit, CancelCommit, FulfillCommit, PostCommit, At
<1>2. Ended(t, TRUE)
  BY <1>1, CommitEnds DEF ConfirmCommit, CancelCommit, FulfillCommit
<1>3. \A l \in Lines : Exists(l)' <=> Exists(l)
  BY <1>1, <1>2, EndMakesNone
<1>4. ASSUME FulfillCommit(t)
      PROVE  \E l \in LinesOf(tx[t].order) : Exists(l)
  <2>1. /\ tx[t].op = "fulfill" /\ tx[t].at = "commit" /\ Fulfills(t)
        /\ tx[t].next = Len(tx[t].work) + 1 /\ tx[t].work # <<>>
    BY <1>1, <1>4 DEF FulfillCommit, At, Own, Working, Finishes, TxRecords
  <2>2. tx[t].work \in Seq(Items)
    BY <1>1 DEF TxRecords, TxFields
  <2>3. 1 \in Positions(t) /\ 1 < tx[t].next
    BY <2>1, <2>2, LenProperties, EmptySeq DEF Positions
  <2>4. LineAt(t, 1) \in Lines
    BY <2>3, PositionsAreLines
  <2>5. OrderOf[LineAt(t, 1)] = tx[t].order /\ Exists(LineAt(t, 1))
    BY <2>1, <2>3 DEF Fulfills
  <2>6. QED
    BY <2>4, <2>5 DEF LinesOf
<1>5. \A o \in Orders :
          \/ status'[o] = status[o]
          \/ status'[o] \in {"DRAFT", "CONFIRMED", "CANCELLED"}
          \/ \E l \in LinesOf(o) : Exists(l)
  <2>1. CASE ConfirmCommit(t)
    BY <2>1 DEF ConfirmCommit, TypeOK
  <2>2. CASE CancelCommit(t)
    BY <2>2 DEF CancelCommit, TypeOK
  <2>3. CASE FulfillCommit(t)
    <3>1. status' = [status EXCEPT ![tx[t].order] = tx[t].to]
      BY <2>3 DEF FulfillCommit
    <3>2. \A o \in Orders : o # tx[t].order => status'[o] = status[o]
      BY <3>1 DEF TypeOK
    <3>3. QED
      BY <1>4, <2>3, <3>2
  <2>4. CASE UNCHANGED status
    BY <2>4
  <2>5. QED
    BY <2>1, <2>2, <2>3, <2>4
<1>6. QED
  BY <1>3, <1>5, KeepsWhole

\* An order is seen reserved as a whole or not at all, and never allocated,
\* or further on, without its reservations: a failing allocation takes all
\* its reservations with it, for any orders and any interleaving.
THEOREM ReservedAsAWhole == Spec => []AllOrNothing
<1>1. Init => Whole
  BY DEF Init, InventoryInit, Whole, AllExist, Exists, Row, NoResv, LinesOf
<1>2. ASSUME TypeOK, Discipline, Whole, [Next]_vars PROVE Whole'
  <2>1. ASSUME \A l \in Lines : resv'[l].com = resv[l].com, UNCHANGED status
        PROVE  Whole'
    BY <1>2, <2>1, KeepsWhole DEF Exists
  <2>2. ASSUME NEW t \in Txs, Rollback(t) PROVE Whole'
    <3>1. Ended(t, FALSE)
      BY <1>2, <2>2, RollbackEnds
    <3>2. \A l \in Lines : Exists(l)' <=> Exists(l)
      BY <1>2, <3>1, EndMakesNone
    <3>3. UNCHANGED status
      BY <2>2 DEF Rollback
    <3>4. QED
      BY <1>2, <3>2, <3>3, KeepsWhole
  <2>3. ASSUME NEW t \in Txs,
               AllocateCommit(t) \/ ConfirmCommit(t) \/ CancelCommit(t) \/ FulfillCommit(t)
               \/ (PostCommit(t) /\ UNCHANGED <<status, line>>)
        PROVE  Whole'
    BY <1>2, <2>3, CommitKeepsWhole, AllocateCommitKeepsWhole
  <2>4. CASE Crash
    <3>1. \A l \in Lines : resv'[l].com = resv[l].com
      BY <1>2, <2>4, Tables, Rebooted DEF Crash
    <3>2. QED
      BY <2>1, <2>4, <3>1 DEF Crash
  <2>5. ASSUME NEW o \in Orders, Create(o) PROVE Whole'
    <3>1. UNCHANGED resv /\ status' = [status EXCEPT ![o] = "DRAFT"]
      BY <2>5 DEF Create, inventoryVars
    <3>2. \A p \in Orders : status'[p] = status[p] \/ status'[p] = "DRAFT"
      BY <1>2, <3>1 DEF TypeOK
    <3>3. QED
      BY <1>2, <3>1, <3>2, KeepsWhole DEF Exists
  <2>6. ASSUME NEW t \in Txs, AllocateLine(t) \/ CancelLine(t) \/ PostLine(t)
        PROVE  \A l \in Lines : resv'[l].com = resv[l].com
    <3>1. tx[t].at = "work"
      BY <2>6 DEF AllocateLine, CancelLine, PostLine, At
    <3>2. Item(t).line \in Lines
      BY <1>2, <3>1, AtPosition
    <3>3. \E v : resv' = [resv EXCEPT ![Item(t).line] = Put(@, t, v)]
      BY <2>6 DEF AllocateLine, Reserve, CancelLine, Release, PostLine
    <3>4. PICK v : resv' = [resv EXCEPT ![Item(t).line] = Put(@, t, v)]
      BY <3>3
    <3>5. Wrote(resv, resv', Lines, Item(t).line, v, t)
      BY <1>2, <3>2, <3>4, ResvWritten
    <3>6. QED
      BY <3>5 DEF Wrote
  <2>7. ASSUME NEW t \in Txs, Proceed(t)
        PROVE  \/ UNCHANGED <<resv, status>> \/ Rollback(t)
               \/ AllocateCommit(t) \/ ConfirmCommit(t) \/ CancelCommit(t) \/ FulfillCommit(t)
               \/ PostCommit(t) /\ UNCHANGED <<status, line>>
               \/ (AllocateLine(t) \/ CancelLine(t) \/ PostLine(t)) /\ UNCHANGED status
    BY <2>7 DEF Proceed, AllocateReject, AllocateLine, CancelFind, CancelLine, CancelLines,
         FulfillLine, FulfillReject, FulfillDecide, Handle, Claim, DeadlockVictim,
         inventoryVars
  <2>8. ASSUME NEW t \in Txs, Request(t) PROVE UNCHANGED <<resv, status>>
    BY <2>8 DEF Request, ConfirmRead, AllocateRead, CancelRead, FulfillRead, inventoryVars
  <2>9. (\E p \in Products : Restock(p)) \/ UNCHANGED vars => UNCHANGED <<resv, status>>
    BY DEF Restock, Receive, vars
  <2>10. QED
    BY <1>2, <2>1, <2>2, <2>3, <2>4, <2>5, <2>6, <2>7, <2>8, <2>9 DEF Next, Step, Abort
<1>3. QED
  BY <1>1, <1>2, WholeIsAllOrNothing, Typing, Disciplined, PTL DEF Spec

-----------------------------------------------------------------------------
(* The ledger.  What sums of units do when a position, an event or a       *)
(* line's part is added.                                                   *)

LEMMA ItemsAreNumbered == CountsUnits(Items)
BY DEF CountsUnits, Items

LEMMA TakenType ==
    ASSUME NEW w \in Seq(Items), NEW D, D \subseteq 1 .. Len(w), NEW l
    PROVE  Taken(w, D, l) \in Int
BY UnitsTaken, ItemsAreNumbered

LEMMA TakenNext ==
    ASSUME NEW w \in Seq(Items), NEW n \in Nat \ {0}, n <= Len(w), NEW l
    PROVE  Taken(w, 1 .. n, l)
               = Taken(w, 1 .. (n - 1), l) + (IF w[n].line = l THEN w[n].qty ELSE 0)
BY NextTaken, ItemsAreNumbered

\* A name, so that the facts below can be used without taking it apart.
Payloads == [Events -> Seq(Items)]

\* The payload of an event is work that has been done.
LEMMA Payload ==
    ASSUME TypeOK, NEW s \in [Events -> Seq(Items)], NEW l
    PROVE  \A e \in Events : /\ Taken(s[e], DOMAIN s[e], l) \in Int
                             /\ s[e] = <<>> => Taken(s[e], DOMAIN s[e], l) = 0
BY PayloadTakes, ItemsAreNumbered

LEMMA EventsAreFinite ==
    ASSUME NEW E, E \subseteq Events
    PROVE  IsFiniteSet(E)
<1>1. IsFiniteSet(Events)
  BY BoundsAssumption, FS_Interval DEF Events
<1>2. QED
  BY <1>1, FS_Subset

LEMMA EventSumSame ==
    ASSUME TypeOK, NEW s \in Payloads, NEW r \in Payloads,
           NEW E, NEW l, E \subseteq Events, \A e \in E : r[e] = s[e]
    PROVE  EventSum(r, E, l) = EventSum(s, E, l)
<1>1. s \in [Events -> Seq(Items)]
  BY DEF Payloads
<1>2. \A e \in E : Taken(s[e], DOMAIN s[e], l) \in Int
  BY <1>1, Payload
<1>3. IsFiniteSet(E)
  BY EventsAreFinite
<1>4. QED
  BY <1>2, <1>3, SameEvents

LEMMA EventSumMore ==
    ASSUME TypeOK, NEW s \in [Events -> Seq(Items)], NEW E, E \subseteq Events,
           NEW x \in Events, x \notin E, NEW l
    PROVE  EventSum(s, E \cup {x}, l) = EventSum(s, E, l) + Taken(s[x], DOMAIN s[x], l)
<1>1. \A e \in E \cup {x} : Taken(s[e], DOMAIN s[e], l) \in Int
  BY Payload
<1>2. IsFiniteSet(E)
  BY EventsAreFinite
<1>3. QED
  BY <1>1, <1>2, OneMoreEvent

LEMMA EventSumChange ==
    ASSUME TypeOK, NEW s \in Payloads, NEW r \in Payloads,
           NEW x \in Events, NEW l, \A e \in Events : e # x => r[e] = s[e], s[x] = <<>>
    PROVE  EventSum(r, Events, l) = EventSum(s, Events, l) + Taken(r[x], DOMAIN r[x], l)
<1>1. IsFiniteSet(Events)
  BY EventsAreFinite
<1>2. \A e \in Events : /\ e # x => r[e] = s[e]
                       /\ Taken(s[e], DOMAIN s[e], l) \in Int
                       /\ Taken(r[e], DOMAIN r[e], l) \in Int
  BY Payload DEF Payloads
<1>3. Taken(s[x], DOMAIN s[x], l) = 0
  BY Payload DEF Payloads
<1>4. /\ EventSum(s, Events, l) \in Int
      /\ EventSum(r, Events, l) = EventSum(s, Events, l)
              + (Taken(r[x], DOMAIN r[x], l) - Taken(s[x], DOMAIN s[x], l))
  BY <1>1, <1>2, ChangedEvent
<1>5. QED
  BY <1>2, <1>3, <1>4

LEMMA ProductSumType ==
    ASSUME NEW F \in [Lines -> Int], NEW p
    PROVE  ProductSum(F, p) \in Int
BY LinesAssumption, GroupType DEF ProductSum

LEMMA ProductSumSame ==
    ASSUME NEW F \in [Lines -> Int], NEW E \in [Lines -> Int], NEW p,
           \A l \in Lines : ProductOf[l] = p => E[l] = F[l]
    PROVE  ProductSum(E, p) = ProductSum(F, p)
BY LinesAssumption, SameGroup DEF ProductSum

LEMMA ProductSumChange ==
    ASSUME NEW F \in [Lines -> Int], NEW E \in [Lines -> Int], NEW x \in Lines,
           \A l \in Lines : l # x => E[l] = F[l]
    PROVE  ProductSum(E, ProductOf[x]) = ProductSum(F, ProductOf[x]) + (E[x] - F[x])
BY LinesAssumption, ChangedGroup DEF ProductSum

-----------------------------------------------------------------------------
(* What a transaction has done so far, whether it holds the row or not.    *)

LEMMA FulfilledTypes ==
    ASSUME NEW r \in [Lines -> RowOf(Reservations, Txs)], NEW t \in Txs
    PROVE  /\ [l \in Lines |-> r[l].com.fulfilled] \in [Lines -> Int]
           /\ [l \in Lines |-> Sees(r[l], t).fulfilled] \in [Lines -> Int]
<1>1. \A l \in Lines : r[l].com \in Reservations /\ r[l].cur \in Reservations
  BY DEF RowOf
<1>2. \A l \in Lines : r[l].com.fulfilled \in Int /\ r[l].cur.fulfilled \in Int
  BY <1>1 DEF Reservations
<1>3. QED
  BY <1>2 DEF Sees

LEMMA PartType ==
    ASSUME TypeOK, NEW t \in Txs, NEW l, Finishes(t)
    PROVE  PostedBy(t, l) \in Int /\ SoldBy(t, l) \in Int
<1>0. SUFFICES ASSUME tx[t].op \in {"fulfill", "post"} PROVE Part(t, l) \in Int
  BY DEF PostedBy, SoldBy
<1>1. tx[t] \in TxRecords /\ tx[t] \in TxFields
  BY Tables DEF TxRecords
<1>2. /\ tx[t].work \in Seq(Items) /\ tx[t].next \in Nat /\ Len(tx[t].work) \in Nat
  BY <1>1, LenProperties DEF TxFields
<1>3. tx[t].next - 1 <= Len(tx[t].work)
  BY <1>0, <1>1, <1>2 DEF Finishes, TxRecords
<1>4. 1 .. (tx[t].next - 1) \subseteq 1 .. Len(tx[t].work)
  BY <1>2, <1>3
<1>5. QED
  BY <1>2, <1>4, TakenType DEF Part

\* Rows that t does not hold it has not changed: no position before the one
\* it is at is of such a line.
LEMMA SoFar ==
    ASSUME TypeOK, Discipline, Ledger, NEW t \in Txs, NEW l \in Lines
    PROVE  /\ Sees(resv[l], t).fulfilled = resv[l].com.fulfilled + PostedBy(t, l)
           /\ Sees(line[l], t).fulfilled = line[l].com.fulfilled + SoldBy(t, l)
<1>1. Own(t) /\ Moved(t) /\ tx[t] \in TxRecords /\ tx[t] \in TxFields
  BY Tables DEF Discipline, Ledger, TxRecords
<1>2. resv[l].com.fulfilled \in Int /\ line[l].com.fulfilled \in Int
  BY Tables DEF RowOf, Reservations, Quantities
<1>3. ASSUME \A k \in Positions(t) : k < tx[t].next => LineAt(t, k) # l,
             tx[t].op \in {"fulfill", "post"}
      PROVE  Part(t, l) = 0
  <2>1. tx[t].next \in Nat /\ Len(tx[t].work) \in Nat
    BY <1>1, LenProperties DEF TxFields
  <2>2. tx[t].next - 1 <= Len(tx[t].work)
    <3>1. CASE tx[t].at = "work"
      BY <1>1, <2>1, <3>1 DEF TxRecords
    <3>2. CASE tx[t].at # "work"
      <4>1. Finishes(t)
        BY <1>1 DEF Own
      <4>2. tx[t].next = Len(tx[t].work) + 1
        BY <1>3, <3>2, <4>1 DEF Finishes
      <4>3. QED
        BY <2>1, <4>2
    <3>3. QED
      BY <3>1, <3>2
  <2>3. ASSUME NEW k \in 1 .. (tx[t].next - 1)
        PROVE  tx[t].work[k].line # l
    <3>1. k \in 1 .. Len(tx[t].work) /\ k < tx[t].next
      BY <2>1, <2>2
    <3>2. QED
      BY <1>3, <3>1 DEF Positions, LineAt
  <2>4. QED
    BY <2>3, NoneTaken DEF Part
<1>4. Sees(resv[l], t).fulfilled = resv[l].com.fulfilled + PostedBy(t, l)
  <2>1. CASE resv[l].by = t
    BY <1>1, <2>1 DEF Moved, Sees
  <2>2. CASE resv[l].by # t
    <3>1. PostedBy(t, l) = 0
      BY <1>1, <1>3, <2>2 DEF PostedBy, Own, Working, Posts
    <3>2. QED
      BY <1>2, <2>2, <3>1 DEF Sees
  <2>3. QED
    BY <2>1, <2>2
<1>5. Sees(line[l], t).fulfilled = line[l].com.fulfilled + SoldBy(t, l)
  <2>1. CASE line[l].by = t
    BY <1>1, <2>1 DEF Moved, Sees
  <2>2. CASE line[l].by # t
    <3>1. SoldBy(t, l) = 0
      BY <1>1, <1>3, <2>2 DEF SoldBy, Own, Working, Fulfills
    <3>2. QED
      BY <1>2, <2>2, <3>1 DEF Sees
  <2>3. QED
    BY <2>1, <2>2
<1>6. QED
  BY <1>4, <1>5

\* Every product balances for every transaction.
LEMMA InBalance ==
    ASSUME TypeOK, Discipline, Ledger, NEW t \in Txs, NEW p \in Products
    PROVE  OnHand[p] + received[p] - Sees(stock[p], t).onHand = ProductSum(Seen(t), p)
<1>1. CASE stock[p].by = t
  BY <1>1 DEF Ledger, Balance, Sees
<1>2. CASE stock[p].by # t
  <2>1. OnHand[p] + received[p] - stock[p].com.onHand = ProductSum(Stored, p)
    BY DEF Ledger, Shelved
  <2>2. Stored \in [Lines -> Int] /\ Seen(t) \in [Lines -> Int]
    BY FulfilledTypes, Tables DEF Stored, Seen
  <2>3. ASSUME NEW l \in Lines, ProductOf[l] = p
        PROVE  Seen(t)[l] = Stored[l]
    <3>1. CASE resv[l].by # t
      BY <3>1 DEF Seen, Stored, Sees
    <3>2. CASE resv[l].by = t
      <4>1. tx[t].op \in {"allocate", "cancel"}
        BY <1>2, <2>3, <3>2 DEF Discipline, Own, Locks
      <4>2. Sees(resv[l], t).fulfilled = resv[l].com.fulfilled
        <5>1. resv[l].com \in Reservations
          BY Tables DEF RowOf
        <5>2. resv[l].com.fulfilled \in Int
          BY <5>1 DEF Reservations
        <5>3. Sees(resv[l], t).fulfilled = resv[l].com.fulfilled + 0
          BY <4>1, SoFar DEF PostedBy
        <5>4. QED
          BY <5>2, <5>3
      <4>3. QED
        BY <4>2 DEF Seen, Stored
    <3>3. QED
      BY <3>1, <3>2
  <2>4. ProductSum(Seen(t), p) = ProductSum(Stored, p)
    BY <2>2, <2>3, ProductSumSame
  <2>5. QED
    BY <1>2, <2>1, <2>4 DEF Sees
<1>3. QED
  BY <1>1, <1>2

-----------------------------------------------------------------------------
(* The ledger is kept by what others do, ...                               *)

\* u's rows and what it sees of the lines whose stock it holds stay the same.
LEMMA MyPartIsKept ==
    ASSUME TypeOK, TypeOK', NEW u \in Txs, Moved(u), Balance(u), tx'[u] = tx[u],
           \A l \in Lines : resv'[l].by = u => resv'[l] = resv[l],
           \A l \in Lines : line'[l].by = u => line'[l] = line[l],
           \A p \in Products : stock'[p].by = u =>
               stock'[p] = stock[p] /\ received'[p] = received[p],
           \A l \in Lines : stock[ProductOf[l]].by = u =>
               Sees(resv'[l], u).fulfilled = Sees(resv[l], u).fulfilled
    PROVE  Moved(u)' /\ Balance(u)'
<1>1. \A l : PostedBy(u, l)' = PostedBy(u, l) /\ SoldBy(u, l)' = SoldBy(u, l)
  BY DEF Part, PostedBy, SoldBy
<1>2. Moved(u)'
  BY <1>1 DEF Moved
<1>3. Balance(u)'
  <2>1. SUFFICES ASSUME NEW p \in Products, stock'[p].by = u
                 PROVE  OnHand[p] + received'[p] - stock'[p].cur.onHand = ProductSum(Seen(u)', p)
    BY DEF Balance
  <2>2. stock'[p] = stock[p] /\ received'[p] = received[p] /\ stock[p].by = u
    BY <2>1
  <2>3. resv' \in [Lines -> RowOf(Reservations, Txs)]
    BY DEF TypeOK, InventoryTypeOK
  <2>4. Seen(u) \in [Lines -> Int] /\ Seen(u)' \in [Lines -> Int]
    BY <2>3, FulfilledTypes, Tables DEF Seen
  <2>5. \A l \in Lines : ProductOf[l] = p => Seen(u)'[l] = Seen(u)[l]
    BY <2>2 DEF Seen
  <2>6. ProductSum(Seen(u)', p) = ProductSum(Seen(u), p)
    BY <2>4, <2>5, ProductSumSame
  <2>7. QED
    BY <2>2, <2>6 DEF Balance
<1>4. QED
  BY <1>2, <1>3

\* What is committed stays the same.
LEMMA CommittedIsKept ==
    ASSUME TypeOK, Posted, Sold, Shelved,
           \A l \in Lines : resv'[l].com = resv[l].com /\ line'[l].com = line[l].com,
           \A p \in Products : stock'[p].com = stock[p].com,
           \A e \in Events : claim'[e].com = claim[e].com,
           sent' = sent, received' = received
    PROVE  Posted' /\ Sold' /\ Shelved'
<1>1. Claimed' = Claimed
  BY Zenon DEF Claimed, Events
<1>2. Posted'
  BY <1>1 DEF Posted
<1>3. Sold'
  BY DEF Sold, Events
<1>4. Stored' = Stored
  BY DEF Stored
<1>5. Shelved'
  BY <1>4 DEF Shelved
<1>6. QED
  BY <1>2, <1>3, <1>5

LEMMA WorkKeepsLedger ==
    ASSUME TypeOK, TypeOK', Ledger, NEW t \in Txs, Worked(t), received' = received,
           Moved(t)', Balance(t)'
    PROVE  Ledger'
<1>1. NoTx \notin Txs
  BY NullsAssumption
<1>2. Posted' /\ Sold' /\ Shelved'
  <2>1. /\ \A l \in Lines : resv'[l].com = resv[l].com /\ line'[l].com = line[l].com
        /\ \A p \in Products : stock'[p].com = stock[p].com
        /\ sent' = sent
    BY DEF Worked, WrittenRow
  <2>2. \A e \in Events : claim'[e].com = claim[e].com
    BY Zenon DEF Worked, WrittenRow
  <2>3. QED
    BY <2>1, <2>2, CommittedIsKept DEF Ledger
<1>3. ASSUME NEW u \in Txs, u # t
      PROVE  Moved(u)' /\ Balance(u)'
  <2>1. /\ tx'[u] = tx[u] /\ Moved(u) /\ Balance(u)
        /\ \A l \in Lines : resv'[l].by = u => resv'[l] = resv[l]
        /\ \A l \in Lines : line'[l].by = u => line'[l] = line[l]
        /\ \A p \in Products : stock'[p].by = u => stock'[p] = stock[p]
    BY <1>1, <1>3 DEF Worked, WrittenRow, Ledger
  <2>2. \A l \in Lines : Sees(resv'[l], u).fulfilled = Sees(resv[l], u).fulfilled
    BY <1>1, <1>3 DEF Worked, WrittenRow, Sees
  <2>3. QED
    BY <2>1, <2>2, MyPartIsKept
<1>4. QED
  BY <1>2, <1>3 DEF Ledger

\* What a row with a version of t adds to what is committed.
LEMMA StepMoves ==
    ASSUME TypeOK, TypeOK', Discipline, Ledger, NEW t \in Txs, Worked(t),
           \A l \in Lines :
               /\ PostedBy(t, l)' = PostedBy(t, l)
                      + (Sees(resv'[l], t).fulfilled - Sees(resv[l], t).fulfilled)
               /\ SoldBy(t, l)' = SoldBy(t, l)
                      + (Sees(line'[l], t).fulfilled - Sees(line[l], t).fulfilled)
    PROVE  Moved(t)'
<1>1. SUFFICES ASSUME NEW l \in Lines
               PROVE  /\ resv'[l].by = t => resv'[l].cur.fulfilled
                                                = resv'[l].com.fulfilled + PostedBy(t, l)'
                      /\ line'[l].by = t => line'[l].cur.fulfilled
                                                = line'[l].com.fulfilled + SoldBy(t, l)'
  BY DEF Moved
<1>2. resv'[l].com = resv[l].com /\ line'[l].com = line[l].com
  BY DEF Worked, WrittenRow
<1>3. PostedBy(t, l) \in Int /\ SoldBy(t, l) \in Int
  BY PartType DEF Discipline, Own
<1>4. /\ resv[l].com.fulfilled \in Int /\ line[l].com.fulfilled \in Int
      /\ resv'[l].cur.fulfilled \in Int /\ line'[l].cur.fulfilled \in Int
  <2>1. /\ resv' \in [Lines -> RowOf(Reservations, Txs)]
        /\ line' \in [Lines -> RowOf(Quantities, Txs)]
    BY DEF TypeOK, InventoryTypeOK
  <2>2. /\ resv[l].com \in Reservations /\ line[l].com \in Quantities
        /\ resv'[l].cur \in Reservations /\ line'[l].cur \in Quantities
    BY <2>1, Tables DEF RowOf
  <2>3. QED
    BY <2>2 DEF Reservations, Quantities
<1>5. resv'[l].by = t => resv'[l].cur.fulfilled = resv'[l].com.fulfilled + PostedBy(t, l)'
  <2>1. /\ Sees(resv[l], t).fulfilled = resv[l].com.fulfilled + PostedBy(t, l)
        /\ resv'[l].by = t => Sees(resv'[l], t).fulfilled = resv'[l].cur.fulfilled
    BY SoFar DEF Sees
  <2>2. QED
    BY <1>2, <1>3, <1>4, <2>1
<1>6. line'[l].by = t => line'[l].cur.fulfilled = line'[l].com.fulfilled + SoldBy(t, l)'
  <2>1. /\ Sees(line[l], t).fulfilled = line[l].com.fulfilled + SoldBy(t, l)
        /\ line'[l].by = t => Sees(line'[l], t).fulfilled = line'[l].cur.fulfilled
    BY SoFar DEF Sees
  <2>2. QED
    BY <1>2, <1>3, <1>4, <2>1
<1>7. QED
  BY <1>5, <1>6

\* A step of t that moves no units off the shelves, nor to a reservation.
LEMMA QuietWork ==
    ASSUME TypeOK, TypeOK', Discipline, Ledger, NEW t \in Txs, Worked(t),
           received' = received,
           \A p \in Products : Sees(stock'[p], t).onHand = Sees(stock[p], t).onHand,
           \A l \in Lines :
               /\ PostedBy(t, l)' = PostedBy(t, l)
               /\ Sees(resv'[l], t).fulfilled = Sees(resv[l], t).fulfilled
               /\ SoldBy(t, l)' = SoldBy(t, l)
                      + (Sees(line'[l], t).fulfilled - Sees(line[l], t).fulfilled)
    PROVE  Ledger'
<1>1. Moved(t)'
  <2>1. ASSUME NEW l \in Lines
        PROVE  PostedBy(t, l)' = PostedBy(t, l)
                   + (Sees(resv'[l], t).fulfilled - Sees(resv[l], t).fulfilled)
    <3>1. PostedBy(t, l) \in Int
      BY PartType DEF Discipline, Own
    <3>2. Sees(resv[l], t).fulfilled \in Int
      BY FulfilledTypes, Tables
    <3>3. QED
      BY <3>1, <3>2
  <2>2. QED
    BY <2>1, StepMoves
<1>2. Balance(t)'
  <2>1. SUFFICES ASSUME NEW p \in Products, stock'[p].by = t
                 PROVE  OnHand[p] + received'[p] - stock'[p].cur.onHand
                            = ProductSum(Seen(t)', p)
    BY DEF Balance
  <2>2. Seen(t)' = Seen(t)
    BY DEF Seen
  <2>3. stock'[p].cur.onHand = Sees(stock[p], t).onHand
    BY <2>1 DEF Sees
  <2>4. QED
    BY <2>2, <2>3, InBalance
<1>3. QED
  BY <1>1, <1>2, WorkKeepsLedger

-----------------------------------------------------------------------------
(* The steps of the requests.                                              *)

LEMMA PartNext ==
    ASSUME TypeOK, NEW t \in Txs, tx[t].at = "work", NEW then, GoesOn(t, then), NEW l
    PROVE  Part(t, l)' = Part(t, l) + (IF Item(t).line = l THEN Item(t).qty ELSE 0)
<1>1. tx[t] \in TxRecords /\ tx[t] \in TxFields
  BY Tables DEF TxRecords
<1>2. /\ tx[t].work \in Seq(Items) /\ tx[t].next \in Nat \ {0}
      /\ tx[t].next <= Len(tx[t].work)
  BY <1>1 DEF TxRecords, TxFields
<1>3. Part(t, l)' = Taken(tx[t].work, 1 .. tx[t].next, l)
  <2>1. tx'[t].work = tx[t].work /\ tx'[t].next - 1 = tx[t].next
    BY <1>2 DEF GoesOn
  <2>2. QED
    BY <2>1 DEF Part
<1>4. QED
  BY <1>2, <1>3, TakenNext DEF Part, Item

\* A transaction that neither fulfils nor posts writes the quantities back
\* as they were.
LEMMA IdleWork ==
    ASSUME TypeOK, TypeOK', Discipline, Ledger, NEW t \in Txs, Worked(t),
           received' = received,
           tx[t].op \notin {"fulfill", "post"}, tx'[t].op = tx[t].op,
           \A p \in Products : Sees(stock'[p], t).onHand = Sees(stock[p], t).onHand,
           \A l \in Lines : /\ Sees(resv'[l], t).fulfilled = Sees(resv[l], t).fulfilled
                            /\ Sees(line'[l], t).fulfilled = Sees(line[l], t).fulfilled
    PROVE  Ledger'
<1>1. \A l \in Lines : Sees(line[l], t).fulfilled \in Int
  <2>1. \A l \in Lines : line[l].com \in Quantities /\ line[l].cur \in Quantities
    BY Tables DEF RowOf
  <2>2. QED
    BY <2>1 DEF Sees, Quantities
<1>2. \A l : /\ PostedBy(t, l) = 0 /\ PostedBy(t, l)' = 0
             /\ SoldBy(t, l) = 0 /\ SoldBy(t, l)' = 0
  BY DEF PostedBy, SoldBy
<1>3. QED
  BY <1>1, <1>2, QuietWork

LEMMA AllocateLineKeepsLedger ==
    ASSUME TypeOK, TypeOK', Discipline, Ledger, NEW t \in Txs, AllocateLine(t)
    PROVE  Ledger'
<1> DEFINE i == Item(t)
           l == i.line
           p == ProductOf[l]
           level == [Sees(stock[p], t) EXCEPT !.reserved = @ + i.qty]
           r == [qty |-> i.qty, fulfilled |-> 0, status |-> "ACTIVE"]
           q == [Sees(line[l], t) EXCEPT !.reserved = i.qty]
<1>1. /\ tx[t].op = "allocate" /\ tx[t].at = "work" /\ received' = received
      /\ Sees(resv[l], t) = NoResv
  BY DEF AllocateLine, At, AlreadyReserved
<1>2. /\ l \in Lines /\ p \in Products
      /\ Sees(stock[p], t) \in StockLevels /\ Sees(line[l], t) \in Quantities
  BY <1>1, AtPosition
<1>3. GoesOn(t, "commit")
  BY <1>1, Advances DEF AllocateLine
<1>4. /\ stock' = [stock EXCEPT ![p] = Put(@, t, level)]
      /\ resv' = [resv EXCEPT ![l] = Put(@, t, r)]
      /\ line' = [line EXCEPT ![l] = Put(@, t, q)]
  BY DEF AllocateLine, Reserve
<1>5. /\ level.onHand = Sees(stock[p], t).onHand
      /\ r.fulfilled = Sees(resv[l], t).fulfilled
      /\ q.fulfilled = Sees(line[l], t).fulfilled
      /\ Sees(line[l], t).fulfilled \in Int
  BY <1>1, <1>2 DEF StockLevels, Quantities, NoResv
<1> HIDE DEF i, l, p, level, r, q
<1>6. /\ Wrote(stock, stock', Products, p, level, t)
      /\ Wrote(resv, resv', Lines, l, r, t)
      /\ Wrote(line, line', Lines, l, q, t)
  BY <1>2, <1>4, StockWritten, ResvWritten, LineWritten
<1>7. \A s \in Products : Sees(stock'[s], t).onHand = Sees(stock[s], t).onHand
  BY <1>5, <1>6 DEF Wrote, Sees
<1>8. \A m \in Lines : /\ Sees(resv'[m], t).fulfilled = Sees(resv[m], t).fulfilled
                       /\ Sees(line'[m], t).fulfilled = Sees(line[m], t).fulfilled
  BY <1>5, <1>6 DEF Wrote, Sees
<1>9. Worked(t)
  BY AllocateLineKeepsDiscipline
<1>10. tx'[t].op = tx[t].op
  BY <1>3 DEF GoesOn
<1>11. QED
  BY <1>1, <1>7, <1>8, <1>9, <1>10, IdleWork

LEMMA CancelFindKeepsLedger ==
    ASSUME TypeOK, TypeOK', Discipline, Ledger, NEW t \in Txs, CancelFind(t)
    PROVE  Ledger'
<1>1. /\ UNCHANGED <<stock, resv, line, received>> /\ tx[t].op = "cancel"
  BY DEF CancelFind, At, inventoryVars
<1>2. tx'[t].op = "cancel"
  <2>1. tx[t] \in TxFields
    BY Tables DEF TxRecords
  <2>2. QED
    BY <1>1, <2>1, Tables DEF CancelFind, TxFields
<1>3. Worked(t)
  BY CancelFindKeepsDiscipline
<1>4. QED
  BY <1>1, <1>2, <1>3, IdleWork

LEMMA CancelLineKeepsLedger ==
    ASSUME TypeOK, TypeOK', Discipline, Ledger, NEW t \in Txs, CancelLine(t)
    PROVE  Ledger'
<1> DEFINE i == Item(t)
           l == i.line
           p == ProductOf[l]
           level == [Sees(stock[p], t) EXCEPT !.reserved = @ - i.qty]
           r == [Sees(resv[l], t) EXCEPT !.status = "CANCELLED"]
<1>1. tx[t].op = "cancel" /\ tx[t].at = "work" /\ UNCHANGED <<line, received>>
  BY DEF CancelLine, At
<1>2. /\ l \in Lines /\ p \in Products
      /\ Sees(stock[p], t) \in StockLevels /\ Sees(resv[l], t) \in Reservations
  BY <1>1, AtPosition
<1>3. GoesOn(t, "lines")
  BY <1>1, Advances DEF CancelLine
<1>4. /\ stock' = [stock EXCEPT ![p] = Put(@, t, level)] \/ stock' = stock
      /\ resv' = [resv EXCEPT ![l] = Put(@, t, r)]
  BY DEF CancelLine, Release
<1>5. /\ level.onHand = Sees(stock[p], t).onHand
      /\ r.fulfilled = Sees(resv[l], t).fulfilled
  BY <1>2 DEF StockLevels, Reservations
<1> HIDE DEF i, l, p, level, r
<1>6. /\ stock' # stock => Wrote(stock, stock', Products, p, level, t)
      /\ Wrote(resv, resv', Lines, l, r, t)
  BY <1>2, <1>4, StockWritten, ResvWritten
<1>7. \A s \in Products : Sees(stock'[s], t).onHand = Sees(stock[s], t).onHand
  BY <1>5, <1>6 DEF Wrote, Sees
<1>8. \A m \in Lines : Sees(resv'[m], t).fulfilled = Sees(resv[m], t).fulfilled
  BY <1>5, <1>6 DEF Wrote, Sees
<1>9. Worked(t)
  BY CancelLineKeepsDiscipline
<1>10. tx'[t].op = tx[t].op
  BY <1>3 DEF GoesOn
<1>11. QED
  BY <1>1, <1>7, <1>8, <1>9, <1>10, IdleWork

LEMMA CancelLinesKeepsLedger ==
    ASSUME TypeOK, TypeOK', Discipline, Ledger, NEW t \in Txs, CancelLines(t)
    PROVE  Ledger'
<1> DEFINE q(l) == [Sees(line[l], t) EXCEPT !.reserved = 0]
<1>1. /\ UNCHANGED <<stock, resv, received>> /\ tx[t].op = "cancel"
      /\ \A l \in Lines : line'[l] = line[l] \/ line'[l] = Put(line[l], t, q(l))
  BY DEF CancelLines, At, inventoryVars
<1>2. tx'[t].op = "cancel"
  <2>1. tx[t] \in TxFields
    BY Tables DEF TxRecords
  <2>2. QED
    BY <1>1, <2>1, Tables DEF CancelLines, TxFields
<1>3. Worked(t)
  BY CancelLinesKeepsDiscipline
<1>4. ASSUME NEW l \in Lines
      PROVE  Sees(line'[l], t).fulfilled = Sees(line[l], t).fulfilled
  <2>1. line[l] \in RowOf(Quantities, Txs)
    BY Tables
  <2>2. Sees(line[l], t) \in Quantities
    BY <2>1 DEF Sees, RowOf
  <2>3. q(l).fulfilled = Sees(line[l], t).fulfilled
    BY <2>2 DEF Quantities
  <2> HIDE DEF q
  <2>4. Put(line[l], t, q(l)).cur = q(l) /\ Put(line[l], t, q(l)).by = t
    BY <2>1 DEF Put, RowOf
  <2>5. line'[l] # line[l] => line'[l].cur = q(l) /\ line'[l].by = t
    BY <1>1, <2>4
  <2>6. QED
    BY <2>3, <2>5 DEF Sees
<1>5. QED
  BY <1>1, <1>2, <1>3, <1>4, IdleWork

LEMMA FulfillLineKeepsLedger ==
    ASSUME TypeOK, TypeOK', Discipline, Ledger, NEW t \in Txs, FulfillLine(t)
    PROVE  Ledger'
<1> DEFINE i == Item(t)
           l == i.line
           q == [reserved |-> Sees(line[l], t).reserved - i.qty,
                 fulfilled |-> Sees(line[l], t).fulfilled + i.qty]
<1>1. /\ tx[t].op = "fulfill" /\ tx[t].at = "work" /\ UNCHANGED <<stock, resv, received>>
  BY DEF FulfillLine, At, inventoryVars
<1>2. l \in Lines /\ i.qty \in Int /\ Sees(line[l], t) \in Quantities
  BY <1>1, AtPosition
<1>3. GoesOn(t, "decide")
  BY <1>1, Advances DEF FulfillLine
<1>4. line' = [line EXCEPT ![l] = Put(@, t, q)]
  BY DEF FulfillLine
<1>5. /\ q.fulfilled = Sees(line[l], t).fulfilled + i.qty
      /\ Sees(line[l], t).fulfilled \in Int
  BY <1>2 DEF Quantities
<1>6. \A m : Part(t, m)' = Part(t, m) + (IF l = m THEN i.qty ELSE 0)
  BY <1>1, <1>3, PartNext
<1> HIDE DEF i, l, q
<1>7. Wrote(line, line', Lines, l, q, t)
  BY <1>2, <1>4, LineWritten
<1>8. tx'[t].op = "fulfill"
  BY <1>1, <1>3 DEF GoesOn
<1>9. \A m : PostedBy(t, m)' = PostedBy(t, m)
  BY <1>1, <1>8 DEF PostedBy
<1>10. ASSUME NEW m \in Lines
       PROVE  SoldBy(t, m)' = SoldBy(t, m)
                  + (Sees(line'[m], t).fulfilled - Sees(line[m], t).fulfilled)
  <2>1. SoldBy(t, m)' = SoldBy(t, m) + (IF l = m THEN i.qty ELSE 0)
    BY <1>1, <1>6, <1>8 DEF SoldBy
  <2>2. CASE m = l
    <3>1. Sees(line'[l], t).fulfilled = Sees(line[l], t).fulfilled + i.qty
      BY <1>2, <1>5, <1>7 DEF Wrote, Sees
    <3>2. QED
      BY <1>2, <1>5, <2>1, <2>2, <3>1
  <2>3. CASE m # l
    <3>1. line'[m] = line[m]
      BY <1>7, <2>3 DEF Wrote
    <3>2. line[m].com \in Quantities /\ line[m].cur \in Quantities
      BY Tables DEF RowOf
    <3>3. Sees(line[m], t).fulfilled \in Int
      BY <3>2 DEF Sees, Quantities
    <3>4. QED
      BY <2>1, <2>3, <3>1, <3>3
  <2>4. QED
    BY <2>2, <2>3
<1>11. Worked(t)
  BY FulfillLineKeepsDiscipline
<1>12. QED
  BY <1>1, <1>9, <1>10, <1>11, QuietWork

\* A step that changes neither the rows nor how far t is.
LEMMA SameWork ==
    ASSUME TypeOK, TypeOK', Discipline, Ledger, NEW t \in Txs, Worked(t),
           UNCHANGED <<stock, resv, line, received>>,
           \A l \in Lines : /\ PostedBy(t, l)' = PostedBy(t, l)
                            /\ SoldBy(t, l)' = SoldBy(t, l)
    PROVE  Ledger'
<1>1. \A l \in Lines : Sees(line[l], t).fulfilled \in Int
  <2>1. \A l \in Lines : line[l].com \in Quantities /\ line[l].cur \in Quantities
    BY Tables DEF RowOf
  <2>2. QED
    BY <2>1 DEF Sees, Quantities
<1>2. \A l \in Lines : SoldBy(t, l) \in Int
  BY PartType DEF Discipline, Own
<1>3. QED
  BY <1>1, <1>2, QuietWork

LEMMA FulfillDecideKeepsLedger ==
    ASSUME TypeOK, TypeOK', Discipline, Ledger, NEW t \in Txs, FulfillDecide(t)
    PROVE  Ledger'
<1>1. tx[t] \in TxFields
  BY Tables DEF TxRecords
<1>2. /\ UNCHANGED <<stock, resv, line, received>>
      /\ tx'[t].op = tx[t].op /\ tx'[t].work = tx[t].work /\ tx'[t].next = tx[t].next
  BY <1>1, Tables DEF FulfillDecide, TxFields, inventoryVars
<1>3. Worked(t)
  BY FulfillDecideKeepsDiscipline
<1>4. \A l : PostedBy(t, l)' = PostedBy(t, l) /\ SoldBy(t, l)' = SoldBy(t, l)
  BY <1>2 DEF PostedBy, SoldBy, Part
<1>5. QED
  BY <1>2, <1>3, <1>4, SameWork

\* What begins has done nothing yet.
LEMMA BeginKeepsLedger ==
    ASSUME TypeOK, TypeOK', Discipline, Ledger, NEW t \in Txs, Worked(t),
           UNCHANGED <<stock, resv, line, received>>, tx[t].op = "idle",
           tx'[t].op = "idle" \/ tx'[t].next = 1
    PROVE  Ledger'
<1>1. \A l : PostedBy(t, l) = 0 /\ SoldBy(t, l) = 0
  BY DEF PostedBy, SoldBy
<1>2. \A l : PostedBy(t, l)' = 0 /\ SoldBy(t, l)' = 0
  <2>1. CASE tx'[t].op = "idle"
    BY <2>1 DEF PostedBy, SoldBy
  <2>2. CASE tx'[t].next = 1
    <3>1. \A k \in 1 .. (tx'[t].next - 1) : FALSE
      BY <2>2
    <3>2. \A l : Taken(tx'[t].work, 1 .. (tx'[t].next - 1), l) = 0
      BY <3>1, NoneTaken
    <3>3. QED
      BY <3>2 DEF PostedBy, SoldBy, Part
  <2>3. QED
    BY <2>1, <2>2
<1>3. QED
  BY <1>1, <1>2, SameWork

LEMMA RequestKeepsLedger ==
    ASSUME TypeOK, TypeOK', Discipline, Ledger, NEW t \in Txs, Request(t)
    PROVE  Ledger'
<1>0. UNCHANGED <<inventoryVars, busVars, line, received>> /\ tx[t] = Idle
  BY DEF Request, ConfirmRead, AllocateRead, CancelRead, FulfillRead, Begins
<1>1. PICK op, at, o, work : tx' = [tx EXCEPT ![t] = Begun(op, at, o, 0, work)]
  <2>1. ASSUME NEW q \in Orders, ConfirmRead(t, q)
        PROVE  tx' = [tx EXCEPT ![t] = Begun("confirm", "commit", q, 0, <<>>)]
    BY <2>1 DEF ConfirmRead
  <2>2. ASSUME NEW q \in Orders, AllocateRead(t, q)
        PROVE  \E w : tx' = [tx EXCEPT ![t] = Begun("allocate", "work", q, 0, w)]
    BY <2>2 DEF AllocateRead
  <2>3. ASSUME NEW q \in Orders, CancelRead(t, q)
        PROVE  \E a : tx' = [tx EXCEPT ![t] = Begun("cancel", a, q, 0, <<>>)]
    BY <2>3 DEF CancelRead
  <2>4. ASSUME NEW q \in Orders, NEW f \in Requests, FulfillRead(t, q, f)
        PROVE  tx' = [tx EXCEPT ![t] = Begun("fulfill", "work", q, 0, f)]
    BY <2>4 DEF FulfillRead
  <2>5. QED
    BY <2>1, <2>2, <2>3, <2>4 DEF Request
<1> DEFINE r == Begun(op, at, o, 0, work)
<1>2. r.next = 1 /\ tx[t].op = "idle"
  BY <1>0 DEF Begun, Idle
<1> HIDE DEF r
<1>3. Worked(t) /\ tx'[t] = r
  BY <1>0, <1>1, ReadsOnly DEF r
<1>4. QED
  BY <1>0, <1>2, <1>3, BeginKeepsLedger DEF inventoryVars

LEMMA ClaimKeepsLedger ==
    ASSUME TypeOK, TypeOK', Discipline, Ledger, NEW t \in Txs, NEW e \in Events,
           Claim(t, e), UNCHANGED <<status, line>>
    PROVE  Ledger'
<1>1. UNCHANGED <<stock, resv, line, received>> /\ tx[t].op = "idle"
  BY DEF Claim, Idle, Begun
<1>2. tx'[t].op = "idle" \/ tx'[t].next = 1
  <2>1. tx' = tx \/ tx' = [tx EXCEPT ![t] = Begun("post", "work", NoOrder, e, sent[e])]
    BY DEF Claim
  <2>2. QED
    BY <1>1, <2>1, Tables DEF Begun
<1>3. Worked(t)
  BY ClaimKeepsDiscipline
<1>4. QED
  BY <1>1, <1>2, <1>3, BeginKeepsLedger

LEMMA PostLineKeepsLedger ==
    ASSUME TypeOK, TypeOK', Discipline, Ledger, NEW t \in Txs, PostLine(t),
           UNCHANGED <<status, line>>
    PROVE  Ledger'
<1> DEFINE i == Item(t)
           l == i.line
           p == ProductOf[l]
           level == Shipped(Sees(stock[p], t), i.qty)
           r == Consumed(Sees(resv[l], t), i.qty)
<1>1. /\ tx[t].op = "post" /\ tx[t].at = "work" /\ UNCHANGED <<line, received>>
  BY DEF PostLine, At
<1>2. /\ l \in Lines /\ p \in Products /\ i.qty \in Int
      /\ Sees(stock[p], t) \in StockLevels /\ Sees(resv[l], t) \in Reservations
  BY <1>1, AtPosition
<1>3. GoesOn(t, "commit")
  BY <1>1, Advances DEF PostLine
<1>4. /\ stock' = [stock EXCEPT ![p] = Put(@, t, level)]
      /\ resv' = [resv EXCEPT ![l] = Put(@, t, r)]
  BY DEF PostLine
<1>5. /\ level.onHand = Sees(stock[p], t).onHand - i.qty
      /\ r.fulfilled = Sees(resv[l], t).fulfilled + i.qty
      /\ Sees(stock[p], t).onHand \in Int /\ Sees(resv[l], t).fulfilled \in Int
  BY <1>2 DEF StockLevels, Reservations, Shipped, Consumed
<1>6. \A m : Part(t, m)' = Part(t, m) + (IF l = m THEN i.qty ELSE 0)
  BY <1>1, <1>3, PartNext
<1> HIDE DEF i, l, level, r
<1>7. ProductOf[l] = p
  OBVIOUS
<1> HIDE DEF p
<1>8. /\ Wrote(stock, stock', Products, p, level, t)
      /\ Wrote(resv, resv', Lines, l, r, t)
  BY <1>2, <1>4, StockWritten, ResvWritten
<1>9. tx'[t].op = "post"
  BY <1>1, <1>3 DEF GoesOn
<1>10. Worked(t)
  BY PostLineKeepsDiscipline
<1>11. /\ Sees(resv'[l], t).fulfilled = Sees(resv[l], t).fulfilled + i.qty
       /\ \A m \in Lines : m # l =>
              resv'[m] = resv[m] /\ Sees(resv'[m], t).fulfilled = Sees(resv[m], t).fulfilled
  BY <1>5, <1>8 DEF Wrote, Sees
<1>12. Moved(t)'
  <2>1. ASSUME NEW m \in Lines
        PROVE  PostedBy(t, m)' = PostedBy(t, m)
                   + (Sees(resv'[m], t).fulfilled - Sees(resv[m], t).fulfilled)
    <3>1. PostedBy(t, m)' = PostedBy(t, m) + (IF l = m THEN i.qty ELSE 0)
      BY <1>1, <1>6, <1>9 DEF PostedBy
    <3>2. Sees(resv[m], t).fulfilled \in Int
      BY FulfilledTypes, Tables
    <3>3. CASE m = l
      BY <1>2, <1>5, <1>11, <3>1, <3>3
    <3>4. CASE m # l
      BY <1>11, <3>1, <3>2, <3>4
    <3>5. QED
      BY <3>3, <3>4
  <2>2. ASSUME NEW m \in Lines
        PROVE  SoldBy(t, m)' = SoldBy(t, m)
                   + (Sees(line'[m], t).fulfilled - Sees(line[m], t).fulfilled)
    <3>1. SoldBy(t, m)' = 0 /\ SoldBy(t, m) = 0
      BY <1>1, <1>9 DEF SoldBy
    <3>2. line[m].com \in Quantities /\ line[m].cur \in Quantities
      BY Tables DEF RowOf
    <3>3. Sees(line[m], t).fulfilled \in Int
      BY <3>2 DEF Sees, Quantities
    <3>4. QED
      BY <1>1, <3>1, <3>3
  <2>3. QED
    BY <1>10, <2>1, <2>2, StepMoves
<1>13. Balance(t)'
  <2>1. SUFFICES ASSUME NEW s \in Products, stock'[s].by = t
                 PROVE  OnHand[s] + received'[s] - stock'[s].cur.onHand
                            = ProductSum(Seen(t)', s)
    BY DEF Balance
  <2> DEFINE F == Seen(t)
             E == Seen(t)'
  <2>2. resv' \in [Lines -> RowOf(Reservations, Txs)]
    BY DEF TypeOK, InventoryTypeOK
  <2>3. F \in [Lines -> Int] /\ E \in [Lines -> Int]
    BY <2>2, FulfilledTypes, Tables DEF Seen
  <2>4. /\ \A m \in Lines : m # l => E[m] = F[m]
        /\ E[l] = F[l] + i.qty
    BY <1>2, <1>11 DEF Seen
  <2>5. OnHand[s] + received[s] - Sees(stock[s], t).onHand = ProductSum(F, s)
    BY InBalance
  <2> HIDE DEF E, F
  <2>6. CASE s = p
    <3>1. ProductSum(E, p) = ProductSum(F, p) + (E[l] - F[l])
      BY <1>2, <1>7, <2>3, <2>4, ProductSumChange
    <3>2. E[l] - F[l] = i.qty
      BY <1>2, <2>3, <2>4
    <3>3. stock'[p].cur.onHand = Sees(stock[p], t).onHand - i.qty
      BY <1>5, <1>8 DEF Wrote
    <3>4. OnHand[p] \in Int /\ received[p] \in Int
      BY <1>2, StockAssumption DEF TypeOK, InventoryTypeOK
    <3>5. ProductSum(F, p) \in Int
      BY <2>3, ProductSumType
    <3>6. OnHand[p] + received[p] - stock'[p].cur.onHand = ProductSum(E, p)
      BY <1>2, <1>5, <2>5, <2>6, <3>1, <3>2, <3>3, <3>4, <3>5
    <3>7. QED
      BY <1>1, <2>6, <3>6 DEF E
  <2>7. CASE s # p
    <3>1. stock'[s] = stock[s]
      BY <1>8, <2>7 DEF Wrote
    <3>2. \A m \in Lines : ProductOf[m] = s => E[m] = F[m]
      BY <1>7, <2>4, <2>7
    <3>3. ProductSum(E, s) = ProductSum(F, s)
      BY <2>3, <3>2, ProductSumSame
    <3>4. Sees(stock[s], t) = stock'[s].cur
      BY <2>1, <3>1 DEF Sees
    <3>5. QED
      BY <1>1, <2>5, <3>3, <3>4 DEF E
  <2>8. QED
    BY <2>6, <2>7
<1>14. QED
  BY <1>1, <1>10, <1>12, <1>13, WorkKeepsLedger

-----------------------------------------------------------------------------
(* Ending a transaction, and the rest.                                     *)

LEMMA EndKeepsLedger ==
    ASSUME TypeOK, TypeOK', Discipline, Ledger, NEW t \in Txs, NEW ok \in BOOLEAN,
           Ended(t, ok), received' = received, Posted', Sold', Shelved'
    PROVE  Ledger'
<1>1. NoTx \notin Txs
  BY NullsAssumption
<1>2. ASSUME NEW u \in Txs
      PROVE  Moved(u)' /\ Balance(u)'
  <2>1. CASE u = t
    <3>1. /\ \A p \in Products : stock'[p].by # t
          /\ \A l \in Lines : resv'[l].by # t /\ line'[l].by # t
      BY <1>1 DEF Ended, EndedRow
    <3>2. QED
      BY <2>1, <3>1 DEF Moved, Balance
  <2>2. CASE u # t
    <3>1. /\ tx'[u] = tx[u] /\ Moved(u) /\ Balance(u)
          /\ \A l \in Lines : resv'[l].by = u => resv'[l] = resv[l]
          /\ \A l \in Lines : line'[l].by = u => line'[l] = line[l]
          /\ \A p \in Products : stock'[p].by = u => stock'[p] = stock[p]
      BY <1>1, <2>2 DEF Ended, EndedRow, Ledger
    <3>2. ASSUME NEW l \in Lines, stock[ProductOf[l]].by = u
          PROVE  Sees(resv'[l], u).fulfilled = Sees(resv[l], u).fulfilled
      <4>1. EndedRow(resv[l], resv'[l], t, ok)
        BY DEF Ended
      <4>2. CASE resv[l].by # t
        BY <4>1, <4>2 DEF EndedRow
      <4>3. CASE resv[l].by = t
        <5>1. tx[t].op \in {"allocate", "cancel"}
          BY <2>2, <3>2, <4>3 DEF Discipline, Own, Locks
        <5>2. resv[l].com \in Reservations
          BY Tables DEF RowOf
        <5>3. resv[l].com.fulfilled \in Int
          BY <5>2 DEF Reservations
        <5>4. resv[l].cur.fulfilled = resv[l].com.fulfilled + 0
          BY <4>3, <5>1, SoFar DEF PostedBy, Sees
        <5>5. resv'[l].com.fulfilled = resv[l].com.fulfilled /\ resv'[l].by # u
          BY <1>1, <4>1, <4>3, <5>3, <5>4 DEF EndedRow
        <5>6. QED
          BY <2>2, <4>3, <5>5 DEF Sees
      <4>4. QED
        BY <4>2, <4>3
    <3>3. QED
      BY <3>1, <3>2, MyPartIsKept
  <2>3. QED
    BY <2>1, <2>2
<1>3. QED
  BY <1>2 DEF Ledger

LEMMA RollbackKeepsLedger ==
    ASSUME TypeOK, TypeOK', Discipline, Ledger, NEW t \in Txs, Rollback(t)
    PROVE  Ledger'
<1>1. Ended(t, FALSE)
  BY RollbackEnds
<1>2. /\ \A l \in Lines : resv'[l].com = resv[l].com /\ line'[l].com = line[l].com
      /\ \A p \in Products : stock'[p].com = stock[p].com
  BY <1>1 DEF Ended, EndedRow
<1>3. \A e \in Events : claim'[e].com = claim[e].com
  BY <1>1, Zenon DEF Ended, EndedRow
<1>4. sent' = sent /\ received' = received
  BY DEF Rollback
<1>5. Posted' /\ Sold' /\ Shelved'
  BY <1>2, <1>3, <1>4, CommittedIsKept DEF Ledger
<1>6. QED
  BY <1>1, <1>4, <1>5, EndKeepsLedger

\* Once a callback is past its work, what it has done is all of it.
LEMMA AllOfIt ==
    ASSUME TypeOK, NEW t \in Txs, Finishes(t), tx[t].at = "commit",
           tx[t].op \in {"fulfill", "post"}, NEW l
    PROVE  Part(t, l) = Taken(tx[t].work, DOMAIN tx[t].work, l)
<1>1. tx[t].work \in Seq(Items)
  BY Tables DEF TxRecords, TxFields
<1>2. Len(tx[t].work) \in Nat /\ DOMAIN tx[t].work = 1 .. Len(tx[t].work)
  BY <1>1, LenProperties
<1>3. tx[t].next - 1 = Len(tx[t].work)
  BY <1>2 DEF Finishes
<1>4. QED
  BY <1>2, <1>3 DEF Part

\* What is committed is what t saw.
LEMMA CommitShelves ==
    ASSUME TypeOK, Discipline, Ledger, NEW t \in Txs, Ended(t, TRUE), received' = received
    PROVE  /\ \A l \in Lines : /\ resv'[l].com = Sees(resv[l], t)
                               /\ line'[l].com = Sees(line[l], t)
           /\ Shelved'
<1>1. /\ \A l \in Lines : /\ resv'[l].com = Sees(resv[l], t)
                          /\ line'[l].com = Sees(line[l], t)
      /\ \A p \in Products : stock'[p].com = Sees(stock[p], t)
  BY DEF Ended, EndedRow, Sees
<1>2. Stored' = Seen(t)
  BY <1>1 DEF Stored, Seen
<1>3. Shelved'
  BY <1>1, <1>2, InBalance DEF Shelved
<1>4. QED
  BY <1>1, <1>3

\* A commit of a handler claims its event, ...
LEMMA PostCommitClaims ==
    ASSUME TypeOK, Discipline, NEW t \in Txs, Ended(t, TRUE), tx[t].op = "post"
    PROVE  /\ tx[t].event \in Events /\ tx[t].work = sent[tx[t].event]
           /\ tx[t].event \notin Claimed /\ Claimed' = Claimed \cup {tx[t].event}
<1> DEFINE e == tx[t].event
<1>1. Own(t) /\ Posts(t)
  BY DEF Discipline, Own, Working
<1>2. e \in Events /\ tx[t].work = sent[e]
  BY <1>1 DEF Posts
<1>3. ~claim[e].com /\ claim[e].cur /\ claim[e].by = t
  BY <1>1, Zenon DEF Posts
<1>4. \A d \in Events : claim[d].by = t => d = e
  BY <1>1 DEF Own, Locks
<1> HIDE DEF e
<1>5. claim'[e].com
  BY <1>2, <1>3, Zenon DEF Ended, EndedRow
<1>6. \A d \in Events : d # e => claim'[d] = claim[d]
  BY <1>4, Zenon DEF Ended, EndedRow
<1>7. \A d \in Events : d \in Claimed' <=> d \in Claimed \/ d = e
  BY <1>2, <1>5, <1>6, Zenon DEF Claimed, Events
<1>8. Claimed' \subseteq Events /\ Claimed \subseteq Events
  BY Zenon DEF Claimed, Events
<1>9. e \notin Claimed
  BY <1>3, Zenon DEF Claimed
<1>10. Claimed' = Claimed \cup {e}
  BY <1>2, <1>7, <1>8
<1>11. QED
  BY <1>2, <1>9, <1>10 DEF e

\* ... and takes its units.
LEMMA PostCommitKeepsPosted ==
    ASSUME TypeOK, Discipline, Ledger, NEW t \in Txs, Ended(t, TRUE), received' = received,
           tx[t].op = "post", tx[t].at = "commit", sent' = sent
    PROVE  Posted'
<1> DEFINE e == tx[t].event
<1>1. Own(t)
  BY DEF Discipline
<1>2. e \in Events /\ tx[t].work = sent[e]
  BY PostCommitClaims
<1>3. e \notin Claimed /\ Claimed' = Claimed \cup {e}
  BY PostCommitClaims
<1>4. ASSUME NEW l \in Lines
      PROVE  resv'[l].com.fulfilled = EventSum(sent', Claimed', l)
  <2>1. Sees(resv[l], t).fulfilled = resv[l].com.fulfilled + Part(t, l)
    BY SoFar DEF PostedBy
  <2>2. Part(t, l) = Taken(sent[e], DOMAIN sent[e], l)
    BY <1>1, <1>2, AllOfIt DEF Own
  <2>3. Claimed \subseteq Events
    BY Zenon DEF Claimed
  <2> HIDE DEF e
  <2>4. EventSum(sent, Claimed \cup {e}, l)
            = EventSum(sent, Claimed, l) + Taken(sent[e], DOMAIN sent[e], l)
    <3> DEFINE C == Claimed
               s == sent
    <3>1. C \subseteq Events /\ e \notin C /\ s \in [Events -> Seq(Items)]
      BY <1>3, <2>3, Tables
    <3> HIDE DEF C, s
    <3>2. EventSum(s, C \cup {e}, l) = EventSum(s, C, l) + Taken(s[e], DOMAIN s[e], l)
      BY <1>2, <3>1, EventSumMore
    <3>3. QED
      BY <3>2 DEF C, s
  <2>5. resv[l].com.fulfilled = EventSum(sent, Claimed, l)
    BY DEF Ledger, Posted
  <2>6. resv'[l].com.fulfilled = Sees(resv[l], t).fulfilled
    BY CommitShelves
  <2>7. QED
    BY <1>3, <2>1, <2>2, <2>4, <2>5, <2>6
<1>5. QED
  BY <1>4 DEF Posted

\* Any other commit claims nothing, and announces only what was not claimed.
LEMMA CommitKeepsPosted ==
    ASSUME TypeOK, TypeOK', Discipline, Ledger, NEW t \in Txs, Ended(t, TRUE),
           Told(t, TRUE), received' = received, tx[t].op # "post"
    PROVE  Posted'
<1>1. \A e \in Events : claim[e].by # t
  BY DEF Discipline, Own, Locks
<1>2. \A e \in Events : claim'[e] = claim[e]
  BY <1>1 DEF Ended, EndedRow
<1>3. Claimed' = Claimed /\ Claimed \subseteq Events
  BY <1>2, Zenon DEF Claimed, Events
<1>4. \A e \in Claimed : sent'[e] = sent[e]
  <2>1. SUFFICES ASSUME NEW e \in Claimed, sent'[e] # sent[e] PROVE FALSE
    OBVIOUS
  <2>2. e \in Events /\ claim[e].com
    BY Zenon DEF Claimed
  <2>3. sent[e] = <<>>
    BY <2>1, <2>2 DEF Told
  <2>4. QED
    BY <2>2, <2>3, Zenon DEF Discipline, Announced
<1>5. ASSUME NEW l \in Lines
      PROVE  resv'[l].com.fulfilled = EventSum(sent', Claimed', l)
  <2>1. Sees(resv[l], t).fulfilled = resv[l].com.fulfilled
    <3>1. Sees(resv[l], t).fulfilled = resv[l].com.fulfilled + 0
      BY SoFar DEF PostedBy
    <3>2. resv[l].com \in Reservations
      BY Tables DEF RowOf
    <3>3. QED
      BY <3>1, <3>2 DEF Reservations
  <2>2. sent' \in [Events -> Seq(Items)]
    BY DEF TypeOK, InventoryTypeOK, Events
  <2>3. EventSum(sent', Claimed, l) = EventSum(sent, Claimed, l)
    <3> DEFINE C == Claimed
               s == sent
               r == sent'
    <3>1. /\ C \subseteq Events /\ \A e \in C : r[e] = s[e]
          /\ s \in Payloads /\ r \in Payloads
      BY <1>3, <1>4, <2>2, Tables DEF Payloads
    <3> HIDE DEF C, s, r
    <3>2. EventSum(r, C, l) = EventSum(s, C, l)
      BY <3>1, EventSumSame
    <3>3. QED
      BY <3>2 DEF C, s, r
  <2>4. resv[l].com.fulfilled = EventSum(sent, Claimed, l)
    BY DEF Ledger, Posted
  <2>5. QED
    BY <1>3, <2>1, <2>3, <2>4, CommitShelves
<1>6. QED
  BY <1>5 DEF Posted

LEMMA FulfillCommitKeepsSold ==
    ASSUME TypeOK, TypeOK', Discipline, Ledger, NEW t \in Txs, Ended(t, TRUE),
           tx[t].op = "fulfill", tx[t].at = "commit", received' = received,
           NEW e \in Events, Emit(e, tx[t].work)
    PROVE  Sold'
<1>1. sent[e] = <<>> /\ sent'[e] = tx[t].work /\ \A d \in Events : e # d => sent'[d] = sent[d]
  BY Tables DEF Emit
<1>2. SUFFICES ASSUME NEW l \in Lines
               PROVE  line'[l].com.fulfilled = EventSum(sent', Events, l)
  BY DEF Sold, Events
<1>3. Sees(line[l], t).fulfilled = line[l].com.fulfilled + Part(t, l)
  BY SoFar DEF SoldBy
<1>4. Part(t, l) = Taken(sent'[e], DOMAIN sent'[e], l)
  BY <1>1, AllOfIt DEF Discipline, Own
<1>5. sent' \in [Events -> Seq(Items)]
  BY DEF TypeOK, InventoryTypeOK, Events
<1>6. EventSum(sent', Events, l)
          = EventSum(sent, Events, l) + Taken(sent'[e], DOMAIN sent'[e], l)
  <2> DEFINE r == sent'
  <2>1. /\ sent \in Payloads /\ r \in Payloads
        /\ \A d \in Events : e # d => r[d] = sent[d]
    BY <1>1, <1>5, Tables DEF Payloads
  <2> HIDE DEF r
  <2>2. EventSum(r, Events, l) = EventSum(sent, Events, l) + Taken(r[e], DOMAIN r[e], l)
    BY <1>1, <2>1, EventSumChange
  <2>3. QED
    BY <2>2 DEF r
<1>7. line[l].com.fulfilled = EventSum(sent, Events, l)
  BY DEF Ledger, Sold
<1>8. QED
  BY <1>3, <1>4, <1>6, <1>7, CommitShelves

LEMMA CommitKeepsSold ==
    ASSUME TypeOK, Discipline, Ledger, NEW t \in Txs, Ended(t, TRUE),
           tx[t].op # "fulfill", sent' = sent, received' = received
    PROVE  Sold'
<1>1. SUFFICES ASSUME NEW l \in Lines
               PROVE  line'[l].com.fulfilled = EventSum(sent', Events, l)
  BY DEF Sold, Events
<1>2. Sees(line[l], t).fulfilled = line[l].com.fulfilled + 0
  BY SoFar DEF SoldBy
<1>3. line[l].com.fulfilled \in Int
  <2>1. line[l].com \in Quantities
    BY Tables DEF RowOf
  <2>2. QED
    BY <2>1 DEF Quantities
<1>4. line'[l].com.fulfilled = line[l].com.fulfilled
  <2>1. line'[l].com.fulfilled = Sees(line[l], t).fulfilled
    BY CommitShelves
  <2>2. QED
    BY <1>2, <1>3, <2>1
<1>5. QED
  BY <1>4 DEF Ledger, Sold

LEMMA CommitKeepsLedger ==
    ASSUME TypeOK, TypeOK', Discipline, Ledger, NEW t \in Txs,
           \/ ConfirmCommit(t) \/ AllocateCommit(t) \/ CancelCommit(t) \/ FulfillCommit(t)
           \/ PostCommit(t) /\ UNCHANGED <<status, line>>
    PROVE  Ledger'
<1>1. Locks(t) /\ tx[t].at = "commit" /\ received' = received
  BY DEF Discipline, Own, At, ConfirmCommit, AllocateCommit, CancelCommit, FulfillCommit,
         PostCommit
<1>2. Ended(t, TRUE)
  BY <1>1, CommitEnds DEF ConfirmCommit, AllocateCommit, CancelCommit, FulfillCommit
<1>3. Shelved'
  BY <1>1, <1>2, CommitShelves
<1>4. Posted' /\ Sold'
  <2>1. CASE FulfillCommit(t)
    <3>1. PICK e \in Events : Emit(e, tx[t].work)
      BY <2>1 DEF FulfillCommit
    <3>2. tx[t].op = "fulfill"
      BY <2>1 DEF FulfillCommit, At
    <3>3. sent[e] = <<>> /\ sent'[e] = tx[t].work /\ \A d \in Events : d # e => sent'[d] = sent[d]
      BY <3>1, Tables DEF Emit
    <3>4. Told(t, TRUE)
      BY <1>1, <3>2, <3>3 DEF Told
    <3>5. Posted'
      BY <1>1, <1>2, <3>2, <3>4, CommitKeepsPosted
    <3>6. Sold'
      BY <1>1, <1>2, <3>1, <3>2, FulfillCommitKeepsSold
    <3>7. QED
      BY <3>5, <3>6
  <2>2. CASE PostCommit(t)
    <3>1. tx[t].op = "post" /\ sent' = sent
      BY <2>2 DEF PostCommit, At
    <3>2. QED
      BY <1>1, <1>2, <3>1, PostCommitKeepsPosted, CommitKeepsSold
  <2>3. CASE ConfirmCommit(t) \/ AllocateCommit(t) \/ CancelCommit(t)
    <3>1. tx[t].op \notin {"post", "fulfill"} /\ sent' = sent
      BY <2>3 DEF ConfirmCommit, AllocateCommit, CancelCommit, At, busVars
    <3>2. Told(t, TRUE)
      BY <3>1 DEF Told
    <3>3. QED
      BY <1>1, <1>2, <3>1, <3>2, CommitKeepsPosted, CommitKeepsSold
  <2>4. QED
    BY <2>1, <2>2, <2>3
<1>5. QED
  BY <1>1, <1>2, <1>3, <1>4, EndKeepsLedger

LEMMA ProceedKeepsLedger ==
    ASSUME TypeOK, TypeOK', Discipline, Ledger, NEW t \in Txs, Proceed(t)
    PROVE  Ledger'
<1>1. CASE Handle(t)
  BY <1>1, ClaimKeepsLedger, PostLineKeepsLedger, CommitKeepsLedger DEF Handle
<1>2. CASE AllocateReject(t) \/ FulfillReject(t) \/ DeadlockVictim(t)
  BY <1>2, RollbackKeepsLedger DEF AllocateReject, FulfillReject, DeadlockVictim
<1>3. QED
  BY <1>1, <1>2, CommitKeepsLedger, AllocateLineKeepsLedger, CancelFindKeepsLedger,
     CancelLineKeepsLedger, CancelLinesKeepsLedger, FulfillLineKeepsLedger,
     FulfillDecideKeepsLedger DEF Proceed

\* A goods receipt puts a unit on the shelf that no reservation knows of.
LEMMA RestockKeepsLedger ==
    ASSUME TypeOK, TypeOK', Discipline, Ledger, NEW p \in Products, Restock(p)
    PROVE  Ledger'
<1> DEFINE v == [onHand |-> stock[p].com.onHand + 1, reserved |-> stock[p].com.reserved]
<1>1. /\ stock[p].by = NoTx /\ stock' = [stock EXCEPT ![p] = Row(v)]
      /\ UNCHANGED <<resv, claim, line, tx, sent>>
      /\ received' = [received EXCEPT ![p] = @ + 1]
  BY DEF Restock, Receive
<1>2. v.onHand = stock[p].com.onHand + 1
  OBVIOUS
<1> HIDE DEF v
<1>3. /\ stock'[p].by = NoTx /\ stock'[p].com = v
      /\ \A s \in Products : s # p => stock'[s] = stock[s]
  BY <1>1, Tables DEF Row
<1>4. received'[p] = received[p] + 1 /\ \A s \in Products : s # p => received'[s] = received[s]
  BY <1>1 DEF TypeOK, InventoryTypeOK
<1>5. Posted' /\ Sold'
  BY <1>1 DEF Ledger, Posted, Sold, Claimed, Events
<1>6. Shelved'
  <2>1. SUFFICES ASSUME NEW s \in Products
                 PROVE  OnHand[s] + received'[s] - stock'[s].com.onHand = ProductSum(Stored', s)
    BY DEF Shelved
  <2>2. Stored' = Stored
    BY <1>1 DEF Stored
  <2>3. OnHand[s] + received[s] - stock[s].com.onHand = ProductSum(Stored, s)
    BY DEF Ledger, Shelved
  <2>4. OnHand[s] \in Int /\ received[s] \in Int
    BY StockAssumption DEF TypeOK, InventoryTypeOK
  <2>5. stock[s].com \in StockLevels
    BY Tables DEF RowOf
  <2>6. stock[s].com.onHand \in Int
    BY <2>5 DEF StockLevels
  <2>7. CASE s = p
    <3>1. OnHand[p] + received'[p] - stock'[p].com.onHand
              = OnHand[p] + received[p] - stock[p].com.onHand
      BY <1>2, <1>3, <1>4, <2>4, <2>6, <2>7
    <3>2. QED
      BY <2>2, <2>3, <2>7, <3>1
  <2>8. CASE s # p
    BY <1>3, <1>4, <2>2, <2>3, <2>8
  <2>9. QED
    BY <2>7, <2>8
<1>7. ASSUME NEW u \in Txs
      PROVE  Moved(u)' /\ Balance(u)'
  <2>1. \A s \in Products : stock'[s].by = u =>
            stock'[s] = stock[s] /\ received'[s] = received[s]
    BY <1>3, <1>4, NullsAssumption
  <2>2. Moved(u) /\ Balance(u)
    BY DEF Ledger
  <2>3. QED
    BY <1>1, <2>1, <2>2, MyPartIsKept
<1>8. QED
  BY <1>5, <1>6, <1>7 DEF Ledger

LEMMA CrashKeepsLedger ==
    ASSUME TypeOK, Discipline, Ledger, Crash
    PROVE  Ledger'
<1>1. /\ stock' = Restarted(stock) /\ resv' = Restarted(resv) /\ line' = Restarted(line)
      /\ claim' = Restarted(claim) /\ sent' = sent /\ received' = received
  BY DEF Crash
<1>2. \A p \in Products : stock'[p].by = NoTx /\ stock'[p].com = stock[p].com
  BY <1>1, Tables, Rebooted
<1>3. \A l \in Lines : resv'[l].by = NoTx /\ resv'[l].com = resv[l].com
  BY <1>1, Tables, Rebooted
<1>4. \A l \in Lines : line'[l].by = NoTx /\ line'[l].com = line[l].com
  BY <1>1, Tables, Rebooted
<1>5. \A e \in Events : claim'[e].by = NoTx /\ claim'[e].com = claim[e].com
  BY Tables, Rebooted DEF Crash
<1>6. Posted' /\ Sold' /\ Shelved'
  BY <1>1, <1>2, <1>3, <1>4, <1>5, CommittedIsKept DEF Ledger
<1>7. \A u \in Txs : Moved(u)' /\ Balance(u)'
  BY <1>2, <1>3, <1>4, NullsAssumption DEF Moved, Balance
<1>8. QED
  BY <1>6, <1>7 DEF Ledger

LEMMA InitLedger == Init => Ledger
<1>1. SUFFICES ASSUME Init PROVE Ledger
  OBVIOUS
<1>2. TypeOK
  BY <1>1, InitTypes
<1>3. /\ \A p \in Products : /\ stock[p].by = NoTx /\ received[p] = 0
                             /\ stock[p].com.onHand = OnHand[p]
      /\ \A l \in Lines : /\ resv[l].by = NoTx /\ resv[l].com.fulfilled = 0
                          /\ line[l].by = NoTx /\ line[l].com.fulfilled = 0
      /\ \A e \in Events : sent[e] = <<>>
  BY <1>1 DEF Init, InventoryInit, Row, NoResv
<1>4. ASSUME NEW E, E \subseteq Events, NEW l
      PROVE  EventSum(sent, E, l) = 0
  <2> DEFINE F == [e \in E |-> Taken(sent[e], DOMAIN sent[e], l)]
  <2>1. \A e \in E : F[e] = 0
    BY <1>2, <1>3, <1>4, Payload, Tables
  <2>2. EventSum(sent, E, l) = SumFunctionOnSet(F, E)
    BY DEF EventSum
  <2>3. IsFiniteSet(E)
    BY <1>4, EventsAreFinite
  <2> HIDE DEF F
  <2>4. QED
    BY <2>1, <2>2, <2>3, SumZero
<1>5. ASSUME NEW p \in Products
      PROVE  ProductSum(Stored, p) = 0
  <2> DEFINE L == MappedTo(Lines, ProductOf, p)
             G == [l \in L |-> Stored[l]]
  <2>1. ProductSum(Stored, p) = SumFunctionOnSet(G, L)
    BY DEF ProductSum, GroupSum
  <2>2. IsFiniteSet(L) /\ L \subseteq Lines
    BY LinesAssumption, FS_Subset DEF MappedTo
  <2>3. \A l \in L : G[l] = 0
    BY <1>3, <2>2 DEF Stored
  <2> HIDE DEF G, L
  <2>4. QED
    BY <2>1, <2>2, <2>3, SumZero
<1>6. Posted
  <2>1. Claimed \subseteq Events
    BY DEF Claimed
  <2>2. QED
    BY <1>3, <1>4, <2>1 DEF Posted
<1>7. Sold
  BY <1>3, <1>4 DEF Sold
<1>8. Shelved
  BY <1>3, <1>5, StockAssumption DEF Shelved
<1>9. \A u \in Txs : Moved(u) /\ Balance(u)
  BY <1>3, NullsAssumption DEF Moved, Balance
<1>10. QED
  BY <1>6, <1>7, <1>8, <1>9 DEF Ledger

LEMMA LedgerIsExact == Posted /\ Sold /\ Shelved => PostedExactlyOnce
BY DEF Posted, Sold, Shelved, PostedExactlyOnce, EventSum, Taken, OfLine, Units,
       ProductSum, GroupSum, MappedTo, Stored, Claimed, SumOver

LEMMA LedgerIsKept == Spec => []Ledger
<1>1. ASSUME TypeOK, TypeOK', Discipline, Ledger, [Next]_vars PROVE Ledger'
  <2>1. ASSUME UNCHANGED <<stock, resv, claim, line, tx, sent, received>> PROVE Ledger'
    <3>1. Posted' /\ Sold' /\ Shelved'
      BY <1>1, <2>1, CommittedIsKept DEF Ledger
    <3>2. ASSUME NEW u \in Txs
          PROVE  Moved(u)' /\ Balance(u)'
      BY <1>1, <2>1, MyPartIsKept DEF Ledger
    <3>3. QED
      BY <3>1, <3>2 DEF Ledger
  <2>2. CASE UNCHANGED vars
    BY <2>1, <2>2 DEF vars
  <2>3. ASSUME NEW o \in Orders, Create(o) PROVE Ledger'
    BY <2>1, <2>3 DEF Create, inventoryVars, busVars
  <2>4. ASSUME NEW p \in Products, Restock(p) PROVE Ledger'
    BY <1>1, <2>4, RestockKeepsLedger
  <2>5. CASE Crash
    BY <1>1, <2>5, CrashKeepsLedger
  <2>6. ASSUME NEW t \in Txs, Request(t) \/ Proceed(t) \/ Abort(t) PROVE Ledger'
    BY <1>1, <2>6, RequestKeepsLedger, ProceedKeepsLedger, RollbackKeepsLedger DEF Abort
  <2>7. QED
    BY <1>1, <2>2, <2>3, <2>4, <2>5, <2>6 DEF Next, Step
<1>2. QED
  BY <1>1, InitLedger, Typing, Disciplined, PTL DEF Spec

\* The ledger and the orders agree: what left the shelves, what the
\* reservations say was fulfilled and the claimed events are the same units,
\* although deliveries repeat and transactions fail at any step.
THEOREM LedgerAgrees == Spec => []PostedExactlyOnce
<1>1. Ledger => PostedExactlyOnce
  BY LedgerIsExact DEF Ledger
<1>2. QED
  BY <1>1, LedgerIsKept, PTL

-----------------------------------------------------------------------------
(* Clients take turns.  No two transactions work for one order, and none   *)
(* while one of its fulfilments is on its way to the shelves: what a       *)
(* request has read of the order still holds when it commits.              *)

Alone ==
    \A t \in Txs :
        /\ tx[t].op \in {"idle", "post"} => tx[t].order = NoOrder
        /\ \A o \in Orders : tx[t].order = o =>
            /\ \A u \in Txs : tx[u].order = o => u = t
            /\ ~BeingPosted(o)

\* A fulfilment is of one order, which has not been cancelled while it is on
\* its way.
OneOrder ==
    \A e \in Events : \A k \in DOMAIN sent[e] :
        OrderOf[sent[e][k].line] = OrderOf[sent[e][1].line]

Posting == \A o \in Orders : BeingPosted(o) => status[o] \in {"PARTIALLY_FULFILLED", "FULFILLED"}

\* The order may still move to where t takes it.
Allowed(t) ==
    LET s == status[tx[t].order]
    IN  /\ tx[t].op = "confirm" => s = "DRAFT"
        /\ tx[t].op = "allocate" => s = "CONFIRMED"
        /\ tx[t].op = "cancel" =>
            /\ <<s, "CANCELLED">> \in Transitions
            /\ tx[t].at # "commit" => s \in FULFILLABLE_STATUSES
        /\ tx[t].op = "fulfill" => s \in FULFILLABLE_STATUSES /\ tx[t].work \in Requests

\* The order whose rows t writes: its own, or the one it ships.
For(t) == IF tx[t].op = "post" THEN OrderOf[tx[t].work[1].line] ELSE tx[t].order

\* A reservation of line l that is as it was made but for what was shipped.
Regular(r, l) ==
    /\ r.qty = Ordered[l]
    /\ r.status = IF r.fulfilled >= r.qty THEN "FULFILLED" ELSE "ACTIVE"

\* What t has written into the rows it holds.
Holds(t) ==
    /\ \A l \in Lines : resv[l].by = t \/ line[l].by = t => OrderOf[l] = For(t)
    /\ \A l \in Lines : resv[l].by = t =>
        /\ tx[t].op \in {"allocate", "post"} => Regular(resv[l].cur, l)
        /\ tx[t].op = "allocate" => line[l].by = t /\ line[l].cur.reserved = Ordered[l]
        /\ tx[t].op = "cancel" =>
            /\ stock[ProductOf[l]].by = t
            /\ \E k \in Positions(t) : k < tx[t].next /\ LineAt(t, k) = l
            /\ resv[l].cur = [resv[l].com EXCEPT !.status = "CANCELLED"]
    /\ \A l \in Lines : line[l].by = t /\ tx[t].op = "fulfill" =>
        line[l].cur.reserved + line[l].cur.fulfilled
            = line[l].com.reserved + line[l].com.fulfilled

\* A cancellation works through what is outstanding of each line.
Releases(t) ==
    /\ \A k \in Positions(t) :
        LET r == resv[LineAt(t, k)].com
        IN  /\ OrderOf[LineAt(t, k)] = tx[t].order
            /\ r.status = "ACTIVE" /\ tx[t].work[k].qty = r.qty - r.fulfilled
            /\ k < tx[t].next => resv[LineAt(t, k)].by = t
            /\ \A j \in Positions(t) : LineAt(t, j) = LineAt(t, k) => j = k
    /\ tx[t].at # "find" =>
        \A l \in LinesOf(tx[t].order) : resv[l].com.status = "ACTIVE" =>
            \E k \in Positions(t) : LineAt(t, k) = l
    /\ tx[t].at \notin {"find", "work"} => tx[t].next = Len(tx[t].work) + 1
    /\ tx[t].at = "commit" =>
        \A l \in LinesOf(tx[t].order) : Sees(line[l], t).reserved = 0

\* What a fulfilment has decided is so: only it writes the lines of its order.
Decided(t) ==
    At(t, "fulfill", "commit") =>
        tx[t].to = IF FullyFulfilled(t, tx[t].order) THEN "FULFILLED" ELSE "PARTIALLY_FULFILLED"

Turn(t) == Allowed(t) /\ Holds(t) /\ Decided(t) /\ (tx[t].op = "cancel" => Releases(t))

\* What the status of an order says of its lines and their reservations.
Tells(o) ==
    /\ status[o] = "FULFILLED" <=> \A l \in LinesOf(o) : line[l].com.fulfilled >= Ordered[l]
    /\ status[o] \in {"NONE", "DRAFT", "CONFIRMED"} =>
        \A l \in LinesOf(o) : line[l].com = NoUnits /\ ~Exists(l)
    /\ status[o] = "ALLOCATED" => \A l \in LinesOf(o) : line[l].com.fulfilled = 0
    /\ status[o] = "CANCELLED" =>
        \A l \in LinesOf(o) : line[l].com.reserved = 0 /\ resv[l].com.status # "ACTIVE"
    /\ status[o] # "CANCELLED" =>
        \A l \in LinesOf(o) : Exists(l) => Regular(resv[l].com, l)

Turns ==
    /\ Alone /\ OneOrder /\ Posting
    /\ \A t \in Txs : Turn(t)
    /\ \A o \in Orders : Tells(o)

-----------------------------------------------------------------------------
(* What is reserved of a product is outstanding.                           *)

Due(r) == IF r.status = "ACTIVE" THEN r.qty - r.fulfilled ELSE 0
DueNow == [l \in Lines |-> Due(resv[l].com)]
DueTo(t) == [l \in Lines |-> Due(Sees(resv[l], t))]

Outstanding ==
    /\ \A p \in Products : stock[p].com.reserved = ProductSum(DueNow, p)
    /\ \A t \in Txs, p \in Products :
        stock[p].by = t => stock[p].cur.reserved = ProductSum(DueTo(t), p)

-----------------------------------------------------------------------------
(* What the steps of others leave alone.                                   *)

\* The earlier invariants, which hold at every step.
Ground == TypeOK /\ Discipline /\ Budgets /\ Ledger

SameStatus(o) == status'[o] = status[o] \/ (status[o] = "NONE" /\ status'[o] = "DRAFT")

Spared(u) ==
    /\ tx'[u] = tx[u]
    /\ tx[u].order \in Orders => SameStatus(tx[u].order)
    /\ \A p \in Products : stock[p].by = u => stock'[p].by = u
    /\ \A l \in Lines : resv[l].by = u \/ resv'[l].by = u => resv'[l] = resv[l]
    /\ \A l \in Lines : line[l].by = u \/ line'[l].by = u => line'[l] = line[l]
    /\ \A l \in LinesOf(tx[u].order) :
        resv'[l].com = resv[l].com /\ line'[l].com = line[l].com

\* The fields of a transaction.
LEMMA Fields ==
    ASSUME TypeOK, NEW t \in Txs
    PROVE  /\ tx[t] \in TxRecords /\ tx[t].op \in Ops
           /\ tx[t].order \in Orders \cup {NoOrder}
           /\ tx[t].op \notin {"idle", "post"} => tx[t].order \in Orders
           /\ tx[t].op \in {"fulfill", "post"} => tx[t].work # <<>>
           /\ tx[t].work \in Seq(Items) /\ Len(tx[t].work) \in Nat
           /\ DOMAIN tx[t].work = Positions(t)
           /\ tx[t].next \in Nat \ {0}
           /\ tx[t].at = "find" => tx[t].next = 1
           /\ tx[t].at = "work" => tx[t].next <= Len(tx[t].work)
<1>1. tx[t] \in TxRecords /\ tx[t] \in TxFields
  BY Tables DEF TxRecords
<1>2. tx[t].work \in Seq(Items)
  BY <1>1 DEF TxFields
<1>3. Len(tx[t].work) \in Nat /\ DOMAIN tx[t].work = Positions(t)
  BY <1>2, LenProperties DEF Positions
<1>4. QED
  BY <1>1, <1>2, <1>3 DEF TxFields, TxRecords

LEMMA TurnIsKept ==
    ASSUME TypeOK, NEW u \in Txs, Turn(u), Spared(u)
    PROVE  Turn(u)'
<1>1. tx'[u] = tx[u] /\ (tx[u].op \notin {"idle", "post"} => tx[u].order \in Orders)
  BY Fields DEF Spared
<1>2. Allowed(u)'
  BY <1>1 DEF Turn, Allowed, Spared, SameStatus, Transitions, SalesTransitions,
     FULFILLABLE_STATUSES
<1>3. /\ Positions(u)' = Positions(u) /\ For(u)' = For(u)
      /\ \A k : LineAt(u, k)' = LineAt(u, k)
  BY <1>1 DEF Positions, For, LineAt
<1>4. Holds(u)'
  <2>1. \A l \in Lines : resv'[l].by = u \/ line'[l].by = u => OrderOf[l] = For(u)
    BY DEF Turn, Holds, Spared
  <2>2. ASSUME NEW l \in Lines, resv'[l].by = u
        PROVE  /\ tx[u].op \in {"allocate", "post"} => Regular(resv'[l].cur, l)
               /\ tx[u].op = "allocate" => line'[l].by = u /\ line'[l].cur.reserved = Ordered[l]
               /\ tx[u].op = "cancel" =>
                   /\ stock'[ProductOf[l]].by = u
                   /\ \E k \in Positions(u) : k < tx[u].next /\ LineAt(u, k) = l
                   /\ resv'[l].cur = [resv'[l].com EXCEPT !.status = "CANCELLED"]
    <3>1. resv'[l] = resv[l] /\ resv[l].by = u
      BY <2>2 DEF Spared
    <3>2. tx[u].op \in {"allocate", "post"} => Regular(resv'[l].cur, l)
      BY <3>1 DEF Turn, Holds
    <3>3. tx[u].op = "allocate" => line'[l].by = u /\ line'[l].cur.reserved = Ordered[l]
      BY <3>1 DEF Turn, Holds, Spared
    <3>4. tx[u].op = "cancel" =>
                   /\ stock'[ProductOf[l]].by = u
                   /\ \E k \in Positions(u) : k < tx[u].next /\ LineAt(u, k) = l
                   /\ resv'[l].cur = [resv'[l].com EXCEPT !.status = "CANCELLED"]
      <4>1. SUFFICES ASSUME tx[u].op = "cancel"
                     PROVE  /\ stock'[ProductOf[l]].by = u
                            /\ \E k \in Positions(u) : k < tx[u].next /\ LineAt(u, k) = l
                            /\ resv'[l].cur = [resv'[l].com EXCEPT !.status = "CANCELLED"]
        OBVIOUS
      <4>2. /\ stock[ProductOf[l]].by = u
            /\ \E k \in Positions(u) : k < tx[u].next /\ LineAt(u, k) = l
            /\ resv[l].cur = [resv[l].com EXCEPT !.status = "CANCELLED"]
        BY <3>1, <4>1 DEF Turn, Holds
      <4>3. stock'[ProductOf[l]].by = u
        BY <4>2, LinesAssumption DEF Spared
      <4>4. QED
        BY <3>1, <4>2, <4>3
    <3>5. QED
      BY <3>2, <3>3, <3>4
  <2>3. \A l \in Lines : line'[l].by = u /\ tx[u].op = "fulfill" =>
            line'[l].cur.reserved + line'[l].cur.fulfilled
                = line'[l].com.reserved + line'[l].com.fulfilled
    BY DEF Turn, Holds, Spared
  <2>4. QED
    BY <1>1, <1>3, <2>1, <2>2, <2>3 DEF Holds, Regular
<1>5. \A l \in LinesOf(tx[u].order) : Sees(line'[l], u) = Sees(line[l], u)
  BY DEF Spared, Sees, LinesOf
<1>6. Decided(u)'
  <2>1. SUFFICES ASSUME At(u, "fulfill", "commit")'
                 PROVE  FullyFulfilled(u, tx[u].order)' = FullyFulfilled(u, tx[u].order)
    BY <1>1 DEF Turn, Decided, At
  <2>2. QED
    BY <1>1, <1>5 DEF FullyFulfilled, LinesOf
<1>7. ASSUME tx'[u].op = "cancel"
      PROVE  Releases(u)'
  <2>1. Releases(u)
    BY <1>1, <1>7 DEF Turn
  <2>2. ASSUME NEW k \in Positions(u)
        PROVE  LET r == resv'[LineAt(u, k)].com
               IN  /\ OrderOf[LineAt(u, k)] = tx[u].order
                   /\ r.status = "ACTIVE" /\ tx[u].work[k].qty = r.qty - r.fulfilled
                   /\ k < tx[u].next => resv'[LineAt(u, k)].by = u
                   /\ \A j \in Positions(u) : LineAt(u, j) = LineAt(u, k) => j = k
    <3>1. LineAt(u, k) \in LinesOf(tx[u].order) /\ LineAt(u, k) \in Lines
      BY <2>1, <2>2, PositionsAreLines DEF Releases, LinesOf
    <3>2. QED
      BY <2>1, <2>2, <3>1 DEF Releases, Spared
  <2>3. tx[u].at # "find" =>
            \A l \in LinesOf(tx[u].order) : resv'[l].com.status = "ACTIVE" =>
                \E k \in Positions(u) : LineAt(u, k) = l
    BY <2>1 DEF Releases, Spared
  <2>4. tx[u].at = "commit" =>
            \A l \in LinesOf(tx[u].order) : Sees(line'[l], u).reserved = 0
    BY <1>5, <2>1 DEF Releases
  <2>5. LinesOf(tx[u].order)' = LinesOf(tx[u].order)
    BY <1>1 DEF LinesOf
  <2>6. QED
    BY <1>1, <1>3, <2>1, <2>2, <2>3, <2>4, <2>5 DEF Releases
<1>8. QED
  BY <1>2, <1>4, <1>6, <1>7 DEF Turn

LEMMA TellsIsKept ==
    ASSUME NEW o \in Orders, Tells(o), SameStatus(o),
           \A l \in LinesOf(o) : resv'[l].com = resv[l].com /\ line'[l].com = line[l].com
    PROVE  Tells(o)'
<1>1. \A l \in LinesOf(o) : /\ Exists(l)' <=> Exists(l)
                            /\ Regular(resv'[l].com, l) <=> Regular(resv[l].com, l)
  BY DEF Exists, Regular
<1>2. QED
  BY <1>1 DEF Tells, SameStatus, LinesOf

\* The deliveries and handlers under way are those that were, or fewer.
LEMMA NoNewPosting ==
    ASSUME \A u \in Txs : tx'[u].op = "post" => tx[u].op = "post" /\ tx'[u].work = tx[u].work,
           \A e \in Events : bus'[e] > 0 => bus[e] > 0, sent' = sent
    PROVE  \A o \in Orders : BeingPosted(o)' => BeingPosted(o)
BY DEF BeingPosted

\* A step of work of t.
LEMMA WorkKeepsTurns ==
    ASSUME Ground, Turns, NEW t \in Txs, Worked(t), status' = status,
           \A o \in Orders : BeingPosted(o)' => BeingPosted(o), Alone', Turn(t)'
    PROVE  Turns'
<1>1. NoTx \notin Txs
  BY NullsAssumption
<1>2. \A l \in Lines : resv'[l].com = resv[l].com /\ line'[l].com = line[l].com
  BY DEF Worked, WrittenRow
<1>3. ASSUME NEW u \in Txs, u # t
      PROVE  Turn(u)'
  <2>1. \A p \in Products : stock[p].by = u => stock'[p].by = u
    BY <1>1, <1>3 DEF Worked, WrittenRow
  <2>2. \A l \in Lines : resv[l].by = u \/ resv'[l].by = u => resv'[l] = resv[l]
    BY <1>1, <1>3 DEF Worked, WrittenRow
  <2>3. \A l \in Lines : line[l].by = u \/ line'[l].by = u => line'[l] = line[l]
    BY <1>1, <1>3 DEF Worked, WrittenRow
  <2>4. Spared(u)
    BY <1>2, <1>3, <2>1, <2>2, <2>3 DEF Worked, Spared, SameStatus, LinesOf
  <2>5. QED
    BY <2>4, TurnIsKept DEF Ground, Turns
<1>4. \A o \in Orders : Tells(o)'
  BY <1>2, TellsIsKept DEF Turns, SameStatus, LinesOf
<1>5. OneOrder' /\ Posting'
  BY DEF Turns, OneOrder, Posting, Worked
<1>6. QED
  BY <1>3, <1>4, <1>5 DEF Turns

\* A handler at work posts its order.
LEMMA PostsItsOrder ==
    ASSUME TypeOK, NEW t \in Txs, tx[t].op = "post"
    PROVE  For(t) \in Orders /\ BeingPosted(For(t))
<1>1. tx[t].work # <<>> /\ tx[t].work \in Seq(Items)
  BY Fields
<1>2. tx[t].work[1] \in Items
  BY <1>1, EmptySeq, ElementOfSeq, Fields
<1>3. QED
  BY <1>2, LinesAssumption DEF For, BeingPosted, Items

\* The end of t, whatever it wrote of its order.
LEMMA EndKeepsTurns ==
    ASSUME Ground, Turns, NEW t \in Txs, NEW ok \in BOOLEAN, Ended(t, ok),
           \A o \in Orders : o # tx[t].order => status'[o] = status[o],
           \A o \in Orders : BeingPosted(o)' =>
               \/ BeingPosted(o)
               \/ o = tx[t].order /\ status'[o] \in {"PARTIALLY_FULFILLED", "FULFILLED"},
           OneOrder',
           \A o \in Orders : o = For(t) => Tells(o)'
    PROVE  Turns'
<1>1. NoTx \notin Txs /\ tx'[t] = Idle /\ \A u \in Txs : u # t => tx'[u] = tx[u]
  BY NullsAssumption DEF Ended
<1>2. ASSUME NEW l \in Lines, OrderOf[l] # For(t)
      PROVE  resv'[l] = resv[l] /\ line'[l] = line[l]
  <2>1. resv[l].by # t /\ line[l].by # t
    BY <1>2 DEF Turns, Turn, Holds
  <2>2. QED
    BY <2>1 DEF Ended, EndedRow
<1>3. ASSUME NEW u \in Txs, u # t, tx[u].order # NoOrder
      PROVE  /\ tx[u].order \in Orders
             /\ tx[u].order # tx[t].order /\ tx[u].order # For(t)
             /\ ~BeingPosted(tx[u].order)
  <2>1. tx[u].order \in Orders /\ tx[u].order # tx[t].order /\ ~BeingPosted(tx[u].order)
    BY <1>3, Fields DEF Ground, Turns, Alone
  <2>2. CASE tx[t].op = "post"
    BY <2>1, <2>2, PostsItsOrder DEF Ground
  <2>3. CASE tx[t].op # "post"
    BY <2>1, <2>3 DEF For
  <2>4. QED
    BY <2>1, <2>2, <2>3
<1>4. Alone'
  <2>1. ASSUME NEW u \in Txs
        PROVE  /\ tx'[u].op \in {"idle", "post"} => tx'[u].order = NoOrder
               /\ tx'[u].order # NoOrder => u # t
    BY <1>1, <2>1 DEF Turns, Alone, Idle, Begun
  <2>2. ASSUME NEW u \in Txs, NEW o \in Orders, tx'[u].order = o
        PROVE  (\A v \in Txs : tx'[v].order = o => v = u) /\ ~BeingPosted(o)'
    <3>1. u # t /\ tx'[u] = tx[u] /\ tx[u].order = o
      BY <1>1, <2>1, <2>2, NullsAssumption
    <3>2. \A v \in Txs : tx[v].order = o => v = u
      BY <3>1 DEF Turns, Alone
    <3>3. \A v \in Txs : tx'[v].order = o => v = u
      BY <1>1, <2>1, <3>2, NullsAssumption
    <3>4. ~BeingPosted(o)'
      BY <1>3, <3>1, NullsAssumption
    <3>5. QED
      BY <3>3, <3>4
  <2>3. QED
    BY <2>1, <2>2 DEF Alone
<1>5. Turn(t)'
  <2>1. \A l \in Lines : resv'[l].by # t /\ line'[l].by # t
    BY <1>1 DEF Ended, EndedRow
  <2>2. tx'[t].op = "idle"
    BY <1>1 DEF Idle, Begun
  <2>3. QED
    BY <2>1, <2>2 DEF Turn, Allowed, Holds, Decided, At
<1>6. ASSUME NEW u \in Txs, u # t
      PROVE  Turn(u)'
  <2>1. \A p \in Products : stock[p].by = u => stock'[p].by = u
    BY <1>1, <1>6 DEF Ended, EndedRow
  <2>2. \A l \in Lines : resv[l].by = u \/ resv'[l].by = u => resv'[l] = resv[l]
    BY <1>1, <1>6 DEF Ended, EndedRow
  <2>3. \A l \in Lines : line[l].by = u \/ line'[l].by = u => line'[l] = line[l]
    BY <1>1, <1>6 DEF Ended, EndedRow
  <2>4. tx[u].order \in Orders => SameStatus(tx[u].order)
    BY <1>3, <1>6, NullsAssumption DEF SameStatus
  <2>5. \A l \in LinesOf(tx[u].order) : resv'[l].com = resv[l].com /\ line'[l].com = line[l].com
    BY <1>2, <1>3, <1>6, NullsAssumption, LinesAssumption DEF LinesOf
  <2>6. Spared(u)
    BY <1>1, <1>6, <2>1, <2>2, <2>3, <2>4, <2>5 DEF Spared
  <2>7. QED
    BY <2>6, TurnIsKept DEF Ground, Turns
<1>7. Posting'
  <2>1. ASSUME NEW o \in Orders, BeingPosted(o)'
        PROVE  status'[o] \in {"PARTIALLY_FULFILLED", "FULFILLED"}
    <3>1. SUFFICES ASSUME BeingPosted(o)
                   PROVE  status'[o] \in {"PARTIALLY_FULFILLED", "FULFILLED"}
      BY <2>1
    <3>2. status[o] \in {"PARTIALLY_FULFILLED", "FULFILLED"}
      BY <3>1 DEF Turns, Posting
    <3>3. o # tx[t].order
      BY <3>1, NullsAssumption DEF Turns, Alone
    <3>4. QED
      BY <3>2, <3>3
  <2>2. QED
    BY <2>1 DEF Posting
<1>8. ASSUME NEW o \in Orders
      PROVE  Tells(o)'
  <2>1. CASE o # For(t)
    <3>1. \A l \in LinesOf(o) : resv'[l].com = resv[l].com /\ line'[l].com = line[l].com
      BY <1>2, <2>1 DEF LinesOf
    <3>2. CASE o # tx[t].order
      BY <3>1, <3>2, TellsIsKept DEF Turns, SameStatus
    <3>3. CASE o = tx[t].order
      <4>1. tx[t].op = "post"
        BY <2>1, <3>3 DEF For
      <4>2. tx[t].order = NoOrder
        BY <4>1 DEF Turns, Alone
      <4>3. QED
        BY <3>3, <4>2, NullsAssumption
    <3>4. QED
      BY <3>2, <3>3
  <2>2. QED
    BY <2>1, <1>8
<1>9. QED
  BY <1>4, <1>5, <1>6, <1>7, <1>8 DEF Turns

LEMMA RollbackKeepsTurns ==
    ASSUME Ground, Turns, NEW t \in Txs, Rollback(t)
    PROVE  Turns'
<1>1. Ended(t, FALSE) /\ UNCHANGED <<sent, bus, status>>
  BY RollbackEnds DEF Ground, Rollback
<1>2. \A l \in Lines : resv'[l].com = resv[l].com /\ line'[l].com = line[l].com
  BY <1>1 DEF Ended, EndedRow
<1>3. \A o \in Orders : Tells(o)'
  BY <1>1, <1>2, TellsIsKept DEF Turns, SameStatus, LinesOf
<1>4. \A o \in Orders : BeingPosted(o)' => BeingPosted(o)
  <2>1. \A u \in Txs : tx'[u].op = "post" => tx[u].op = "post" /\ tx'[u].work = tx[u].work
    BY <1>1 DEF Ended, Idle, Begun
  <2>2. QED
    BY <1>1, <2>1, NoNewPosting
<1>5. OneOrder'
  BY <1>1 DEF Turns, OneOrder
<1>6. QED
  BY <1>1, <1>3, <1>4, <1>5, EndKeepsTurns

-----------------------------------------------------------------------------
(* The steps that begin a transaction.                                     *)

\* The request for o that t has begun, and what it has read.
Began(t, o, op, at, w) ==
    /\ tx' = [tx EXCEPT ![t] = Begun(op, at, o, 0, w)]
    /\ op \in {"confirm", "allocate", "cancel", "fulfill"}
    /\ op = "confirm" => status[o] = "DRAFT"
    /\ op = "allocate" => status[o] = "CONFIRMED"
    /\ op = "cancel" => /\ <<status[o], "CANCELLED">> \in Transitions
                        /\ w = <<>> /\ at \in {"find", "commit"}
                        /\ at = "find" <=> status[o] \in FULFILLABLE_STATUSES
    /\ op = "fulfill" => at = "work" /\ status[o] \in FULFILLABLE_STATUSES /\ w \in Requests

LEMMA RequestKeepsTurns ==
    ASSUME Ground, Turns, NEW t \in Txs, Request(t), TakeTurns
    PROVE  Turns'
<1>1. UNCHANGED <<status, stock, resv, line, claim, sent, bus>> /\ tx[t] = Idle
  BY DEF Request, ConfirmRead, AllocateRead, CancelRead, Begins, FulfillRead,
     inventoryVars, busVars
<1>2. PICK o \in Orders : \/ ConfirmRead(t, o) \/ AllocateRead(t, o) \/ CancelRead(t, o)
                          \/ \E r \in Requests : FulfillRead(t, o, r)
  BY DEF Request
<1>3. PICK op, at, w : Began(t, o, op, at, w)
  <2>1. CASE ConfirmRead(t, o)
    <3>1. Began(t, o, "confirm", "commit", <<>>)
      BY <2>1 DEF ConfirmRead, Begins, Transitions, SalesTransitions, Began
    <3>2. QED
      BY <3>1
  <2>2. CASE AllocateRead(t, o)
    <3>1. PICK w : tx' = [tx EXCEPT ![t] = Begun("allocate", "work", o, 0, w)]
      BY <2>2 DEF AllocateRead
    <3>2. Began(t, o, "allocate", "work", w)
      BY <2>2, <3>1 DEF AllocateRead, Begins, Transitions, SalesTransitions, Began
    <3>3. QED
      BY <3>2
  <2>3. CASE CancelRead(t, o)
    <3> DEFINE at == IF status[o] \in FULFILLABLE_STATUSES THEN "find" ELSE "commit"
    <3>1. Began(t, o, "cancel", at, <<>>)
      BY <2>3 DEF CancelRead, Begins, FULFILLABLE_STATUSES, Began
    <3>2. QED
      BY <3>1
  <2>4. CASE \E r \in Requests : FulfillRead(t, o, r)
    <3>1. PICK r \in Requests : FulfillRead(t, o, r)
      BY <2>4
    <3>2. Began(t, o, "fulfill", "work", r)
      BY <3>1 DEF FulfillRead, Began
    <3>3. QED
      BY <3>2
  <2>5. QED
    BY <1>2, <2>1, <2>2, <2>3, <2>4
<1>4. Worked(t) /\ tx'[t] = Begun(op, at, o, 0, w)
  <2>1. UNCHANGED <<inventoryVars, busVars, line>>
    BY <1>1 DEF inventoryVars, busVars
  <2>2. QED
    BY <1>3, <2>1, ReadsOnly DEF Began, Ground
<1>5. /\ tx'[t].op = op /\ tx'[t].at = at /\ tx'[t].order = o
      /\ tx'[t].work = w /\ tx'[t].next = 1
  BY <1>4 DEF Begun
<1>6. (\A u \in Txs : tx[u].order # o) /\ ~BeingPosted(o)
  <2>1. ~InTransaction(o) /\ ~BeingPosted(o)
    BY <1>1, <1>5 DEF TakeTurns
  <2>2. QED
    BY <2>1 DEF InTransaction
<1>7. \A q \in Orders : BeingPosted(q)' => BeingPosted(q)
  <2>1. \A u \in Txs : tx'[u].op = "post" => tx[u].op = "post" /\ tx'[u].work = tx[u].work
    BY <1>3, <1>4, <1>5 DEF Began, Worked
  <2>2. QED
    BY <1>1, <2>1, NoNewPosting
<1>8. Alone'
  <2>1. \A u \in Txs \ {t} : tx'[u] = tx[u]
    BY <1>4 DEF Worked
  <2>2. ASSUME NEW u \in Txs
        PROVE  tx'[u].op \in {"idle", "post"} => tx'[u].order = NoOrder
    BY <1>3, <1>5, <2>1, <2>2 DEF Began, Turns, Alone
  <2>3. ASSUME NEW u \in Txs, NEW q \in Orders, tx'[u].order = q
        PROVE  (\A v \in Txs : tx'[v].order = q => v = u) /\ ~BeingPosted(q)'
    <3>1. CASE u = t
      BY <1>5, <1>6, <1>7, <2>1, <2>3, <3>1
    <3>2. CASE u # t
      <4>1. tx[u].order = q /\ q # o
        BY <1>6, <2>1, <2>3, <3>2
      <4>2. ~BeingPosted(q) /\ \A v \in Txs : tx[v].order = q => v = u
        BY <4>1 DEF Turns, Alone
      <4>3. QED
        BY <1>5, <1>7, <2>1, <4>1, <4>2
    <3>3. QED
      BY <3>1, <3>2
  <2>4. QED
    BY <2>2, <2>3 DEF Alone
<1>9. Allowed(t)'
  BY <1>1, <1>3, <1>5 DEF Began, Allowed
<1>10. \A l \in Lines : resv'[l].by # t /\ line'[l].by # t
  <2>1. tx[t].op = "idle" /\ Own(t)
    BY <1>1 DEF Idle, Begun, Ground, Discipline
  <2>2. QED
    BY <1>1, <2>1, IdleHoldsNothing
<1>11. Holds(t)'
  BY <1>10 DEF Holds
<1>12. op = "cancel" => Releases(t)'
  <2>1. SUFFICES ASSUME op = "cancel" PROVE Releases(t)'
    OBVIOUS
  <2>2. Positions(t)' = {} /\ tx'[t].next = Len(tx'[t].work) + 1
    BY <1>3, <1>5, <2>1, EmptySeq DEF Began, Positions
  <2>3. ASSUME at = "commit"
        PROVE  \A l \in LinesOf(o) : ~Exists(l) /\ line[l].com = NoUnits
    <3>1. status[o] \in {"DRAFT", "CONFIRMED"}
      BY <1>3, <2>1, <2>3 DEF Began, Transitions, SalesTransitions, FULFILLABLE_STATUSES
    <3>2. QED
      BY <3>1 DEF Turns, Tells
  <2>4. tx'[t].at # "find" =>
          \A l \in LinesOf(o) : resv'[l].com.status # "ACTIVE"
    BY <1>1, <1>3, <1>5, <2>1, <2>3 DEF Began, Exists
  <2>5. tx'[t].at = "commit" => \A l \in LinesOf(o) : Sees(line'[l], t).reserved = 0
    BY <1>1, <1>5, <1>10, <2>3 DEF Sees, NoUnits, LinesOf
  <2>6. LinesOf(tx[t].order)' = LinesOf(o)
    BY <1>5 DEF LinesOf
  <2>7. QED
    BY <2>2, <2>4, <2>5, <2>6 DEF Releases
<1>13. Turn(t)'
  BY <1>3, <1>5, <1>9, <1>11, <1>12 DEF Began, Turn, Decided, At
<1>14. QED
  BY <1>1, <1>4, <1>7, <1>8, <1>13, WorkKeepsTurns

\* A delivery opens a transaction for an event that was on the bus.
LEMMA ClaimKeepsTurns ==
    ASSUME Ground, Turns, NEW t \in Txs, NEW e \in Events, Claim(t, e),
           UNCHANGED <<status, line>>
    PROVE  Turns'
<1>1. /\ UNCHANGED <<stock, resv, sent>> /\ tx[t] = Idle /\ bus[e] > 0
      /\ bus' = [bus EXCEPT ![e] = @ - 1] /\ bus \in [Events -> Nat]
  BY DEF Claim, Ground, TypeOK, InventoryTypeOK
<1>2. Worked(t) /\ \A u \in Txs \ {t} : tx'[u] = tx[u]
  BY ClaimKeepsDiscipline DEF Ground, Worked
<1>3. tx'[t] = Idle \/ tx'[t] = Begun("post", "work", NoOrder, e, sent[e])
  <2>1. tx' = tx \/ tx' = [tx EXCEPT ![t] = Begun("post", "work", NoOrder, e, sent[e])]
    BY DEF Claim
  <2>2. QED
    BY <1>1, <2>1, Tables DEF Ground
<1>4. /\ tx[t].op = "idle" /\ tx[t].order = NoOrder
      /\ tx'[t].op \in {"idle", "post"} /\ tx'[t].order = NoOrder
      /\ tx'[t].op = "post" => tx'[t].work = sent[e]
  BY <1>1, <1>3 DEF Idle, Begun
<1>5. ASSUME NEW o \in Orders, BeingPosted(o)'
      PROVE  BeingPosted(o)
  <2>1. CASE \E u \in Txs : tx'[u].op = "post" /\ OrderOf[tx'[u].work[1].line] = o
    <3>1. PICK u \in Txs : tx'[u].op = "post" /\ OrderOf[tx'[u].work[1].line] = o
      BY <2>1
    <3>2. CASE u = t
      BY <1>1, <1>4, <3>1, <3>2 DEF BeingPosted
    <3>3. CASE u # t
      BY <1>2, <3>1, <3>3 DEF BeingPosted
    <3>4. QED
      BY <3>2, <3>3
  <2>2. CASE \E d \in Events : bus'[d] > 0 /\ OrderOf[sent'[d][1].line] = o
    <3>1. PICK d \in Events : bus'[d] > 0 /\ OrderOf[sent'[d][1].line] = o
      BY <2>2
    <3>2. bus[d] > 0
      BY <1>1, <3>1
    <3>3. QED
      BY <1>1, <3>1, <3>2 DEF BeingPosted
  <2>3. QED
    BY <1>5, <2>1, <2>2 DEF BeingPosted
<1>6. Alone'
  BY <1>2, <1>4, <1>5, NullsAssumption DEF Turns, Alone
<1>7. \A l \in Lines : resv'[l].by # t /\ line'[l].by # t
  BY <1>1, <1>4, IdleHoldsNothing DEF Ground, Discipline
<1>8. Turn(t)'
  BY <1>4, <1>7 DEF Turn, Allowed, Holds, Decided, At
<1>9. QED
  BY <1>2, <1>5, <1>6, <1>8, WorkKeepsTurns

-----------------------------------------------------------------------------
(* The steps of work.                                                      *)

LEMMA StepKeepsTurns ==
    ASSUME Ground, Turns, NEW t \in Txs, Worked(t), UNCHANGED <<status, bus>>,
           tx'[t].op = tx[t].op, tx'[t].order = tx[t].order,
           tx[t].op = "post" => tx'[t].work = tx[t].work, Turn(t)'
    PROVE  Turns'
<1>1. sent' = sent /\ \A u \in Txs \ {t} : tx'[u] = tx[u]
  BY DEF Worked
<1>2. \A o \in Orders : BeingPosted(o)' => BeingPosted(o)
  <2>1. \A u \in Txs : tx'[u].op = "post" => tx[u].op = "post" /\ tx'[u].work = tx[u].work
    BY <1>1
  <2>2. QED
    BY <1>1, <2>1, NoNewPosting
<1>3. Alone'
  <2>1. \A u \in Txs : tx'[u].op = tx[u].op /\ tx'[u].order = tx[u].order
    BY <1>1
  <2>2. QED
    BY <1>2, <2>1 DEF Turns, Alone
<1>4. QED
  BY <1>2, <1>3, WorkKeepsTurns

LEMMA FulfillDecideKeepsTurns ==
    ASSUME Ground, Turns, NEW t \in Txs, FulfillDecide(t)
    PROVE  Turns'
<1> DEFINE to == IF FullyFulfilled(t, tx[t].order) THEN "FULFILLED" ELSE "PARTIALLY_FULFILLED"
<1>1. /\ tx[t].op = "fulfill" /\ UNCHANGED <<stock, resv, claim, status, line, bus>>
      /\ tx' = [tx EXCEPT ![t].at = "commit", ![t].to = to]
  BY DEF FulfillDecide, At, inventoryVars, busVars
<1>2. Worked(t)
  BY FulfillDecideKeepsDiscipline DEF Ground
<1> HIDE DEF to
<1>3. /\ tx'[t].op = tx[t].op /\ tx'[t].order = tx[t].order
      /\ tx'[t].work = tx[t].work /\ tx'[t].to = to
  <2>1. /\ tx \in [Txs -> TxRecords]
        /\ DOMAIN tx[t] = {"op", "at", "order", "event", "work", "next", "to"}
    BY Tables DEF Ground, TxRecords, TxFields
  <2>2. QED
    BY <1>1, <2>1
<1>4. Turn(t)'
  <2>1. For(t)' = For(t)
    BY <1>1, <1>3 DEF For
  <2>2. Holds(t)'
    BY <1>1, <1>3, <2>1 DEF Turns, Turn, Holds, Regular
  <2>3. Allowed(t)'
    BY <1>1, <1>3 DEF Turns, Turn, Allowed
  <2>4. FullyFulfilled(t, tx[t].order)' = FullyFulfilled(t, tx[t].order)
    BY <1>1, <1>3 DEF FullyFulfilled, LinesOf
  <2>5. Decided(t)'
    BY <1>3, <2>4 DEF Decided, to
  <2>6. QED
    BY <1>1, <1>3, <2>2, <2>3, <2>5 DEF Turn
<1>5. QED
  BY <1>1, <1>2, <1>3, <1>4, StepKeepsTurns

LEMMA FulfillLineKeepsTurns ==
    ASSUME Ground, Turns, NEW t \in Txs, FulfillLine(t)
    PROVE  Turns'
<1> DEFINE l == Item(t).line
           q == Item(t).qty
           now == Sees(line[l], t)
           v == [reserved |-> now.reserved - q, fulfilled |-> now.fulfilled + q]
<1>1. /\ tx[t].op = "fulfill" /\ tx[t].at = "work" /\ OrderOf[l] = tx[t].order
      /\ UNCHANGED <<stock, resv, claim, status, bus>>
      /\ line' = [line EXCEPT ![l] = Put(@, t, v)]
      /\ tx' = [tx EXCEPT ![t] = Advanced(t, "decide")]
  BY DEF FulfillLine, At, CanFulfill, inventoryVars, busVars
<1>2. Worked(t)
  BY FulfillLineKeepsDiscipline DEF Ground
<1>3. GoesOn(t, "decide")
  BY <1>1, Advances DEF Ground
<1>4. l \in Lines /\ q \in Int /\ now \in Quantities
  BY <1>1, AtPosition DEF Ground
<1>5. Wrote(line, line', Lines, l, v, t)
  BY <1>1, <1>4, LineWritten DEF Ground
<1>6. v.reserved + v.fulfilled = now.reserved + now.fulfilled
  BY <1>4 DEF Quantities
<1> HIDE DEF l, q, v, now
<1>7. tx'[t].op = "fulfill" /\ tx'[t].order = tx[t].order /\ tx'[t].work = tx[t].work
  BY <1>1, <1>3 DEF GoesOn
<1>8. now.reserved + now.fulfilled = line[l].com.reserved + line[l].com.fulfilled
  BY <1>1, <1>4 DEF now, Sees, Turns, Turn, Holds
<1>9. Holds(t)'
  <2>1. For(t) = tx[t].order /\ For(t)' = tx[t].order
    BY <1>1, <1>7 DEF For
  <2>2. ASSUME NEW m \in Lines
        PROVE  /\ resv'[m].by # t
               /\ line'[m].by = t => OrderOf[m] = tx[t].order
               /\ line'[m].by = t =>
                   line'[m].cur.reserved + line'[m].cur.fulfilled
                       = line'[m].com.reserved + line'[m].com.fulfilled
    <3>1. resv'[m].by # t
      BY <1>1 DEF Ground, Discipline, Own, Locks
    <3>2. CASE m = l
      BY <1>1, <1>5, <1>6, <1>8, <3>1, <3>2 DEF Wrote
    <3>3. CASE m # l
      BY <1>1, <1>5, <2>1, <3>1, <3>3 DEF Wrote, Turns, Turn, Holds
    <3>4. QED
      BY <3>2, <3>3
  <2>3. QED
    BY <1>7, <2>1, <2>2 DEF Holds
<1>10. Allowed(t)'
  BY <1>1, <1>7 DEF Turns, Turn, Allowed
<1>11. Turn(t)'
  BY <1>3, <1>7, <1>9, <1>10 DEF Turn, Decided, At, GoesOn
<1>12. QED
  BY <1>1, <1>2, <1>7, <1>11, StepKeepsTurns

LEMMA AllocateLineKeepsTurns ==
    ASSUME Ground, Turns, NEW t \in Txs, AllocateLine(t)
    PROVE  Turns'
<1> DEFINE i == Item(t)
           l == i.line
           p == ProductOf[l]
           level == [Sees(stock[p], t) EXCEPT !.reserved = @ + i.qty]
           r == [qty |-> i.qty, fulfilled |-> 0, status |-> "ACTIVE"]
           v == [Sees(line[l], t) EXCEPT !.reserved = i.qty]
<1>1. /\ tx[t].op = "allocate" /\ tx[t].at = "work" /\ UNCHANGED <<claim, status, bus>>
      /\ resv' = [resv EXCEPT ![l] = Put(@, t, r)]
      /\ line' = [line EXCEPT ![l] = Put(@, t, v)]
      /\ tx' = [tx EXCEPT ![t] = Advanced(t, "commit")]
  BY DEF AllocateLine, Reserve, At, busVars
<1>2. Worked(t)
  BY AllocateLineKeepsDiscipline DEF Ground
<1>3. GoesOn(t, "commit")
  BY <1>1, Advances DEF Ground
<1>4. /\ l \in Lines /\ i.qty \in Int /\ Sees(line[l], t) \in Quantities
      /\ i = tx[t].work[tx[t].next] /\ l = LineAt(t, tx[t].next) /\ tx[t].next \in Positions(t)
  BY <1>1, AtPosition DEF Ground
<1>5. i.qty = Ordered[l] /\ OrderOf[l] = tx[t].order
  <2>1. Allocates(t)
    BY <1>1 DEF Ground, Discipline, Own, Working
  <2>2. QED
    BY <1>4, <2>1 DEF Allocates
<1>6. Regular(r, l) /\ v.reserved = Ordered[l]
  <2>1. Ordered[l] \in Nat \ {0}
    BY <1>4, LinesAssumption
  <2>2. QED
    BY <1>4, <1>5, <2>1 DEF Regular, Quantities
<1> HIDE DEF i, l, p, level, r, v
<1>7. Wrote(resv, resv', Lines, l, r, t) /\ Wrote(line, line', Lines, l, v, t)
  BY <1>1, <1>4, ResvWritten, LineWritten DEF Ground
<1>8. /\ tx'[t].op = "allocate" /\ tx'[t].order = tx[t].order
      /\ For(t) = tx[t].order /\ For(t)' = tx[t].order
  BY <1>1, <1>3 DEF GoesOn, For
<1>9. Holds(t)'
  <2>1. ASSUME NEW m \in Lines
        PROVE  /\ resv'[m].by = t \/ line'[m].by = t => OrderOf[m] = tx[t].order
               /\ resv'[m].by = t => /\ Regular(resv'[m].cur, m)
                                     /\ line'[m].by = t /\ line'[m].cur.reserved = Ordered[m]
    <3>1. CASE m = l
      BY <1>5, <1>6, <1>7, <3>1 DEF Wrote
    <3>2. CASE m # l
      <4>1. resv'[m] = resv[m] /\ line'[m] = line[m]
        BY <1>7, <3>2 DEF Wrote
      <4>2. Holds(t)
        BY DEF Turns, Turn
      <4>3. QED
        BY <1>1, <1>8, <4>1, <4>2 DEF Holds
    <3>3. QED
      BY <3>1, <3>2
  <2>2. QED
    BY <1>8, <2>1 DEF Holds, Regular
<1>10. Allowed(t)'
  BY <1>1, <1>8 DEF Turns, Turn, Allowed
<1>11. Turn(t)'
  BY <1>8, <1>9, <1>10 DEF Turn, Decided, At
<1>12. QED
  BY <1>1, <1>2, <1>8, <1>11, StepKeepsTurns

\* The order of a cancellation that has reservations to release, and what
\* those are.
LEMMA CancelsAllocated ==
    ASSUME Ground, Turns, NEW t \in Txs, tx[t].op = "cancel", tx[t].at # "commit"
    PROVE  /\ tx[t].order \in Orders /\ status[tx[t].order] \in FULFILLABLE_STATUSES
           /\ \A l \in LinesOf(tx[t].order) : resv[l].com.status = "ACTIVE" =>
                /\ Regular(resv[l].com, l)
                /\ resv[l].com.qty - resv[l].com.fulfilled > 0
<1>1. tx[t].order \in Orders
  BY Fields DEF Ground
<1>2. status[tx[t].order] \in FULFILLABLE_STATUSES
  BY DEF Turns, Turn, Allowed
<1>3. ASSUME NEW l \in LinesOf(tx[t].order), resv[l].com.status = "ACTIVE"
      PROVE  /\ Regular(resv[l].com, l)
             /\ resv[l].com.qty - resv[l].com.fulfilled > 0
  <2>1. Regular(resv[l].com, l)
    BY <1>1, <1>2, <1>3 DEF Turns, Tells, Exists, FULFILLABLE_STATUSES
  <2>2. resv[l].com \in Reservations
    BY Tables DEF Ground, LinesOf, RowOf
  <2>3. QED
    BY <1>3, <2>1, <2>2 DEF Regular, Reservations
<1>4. QED
  BY <1>1, <1>2, <1>3

LEMMA CancelFindKeepsTurns ==
    ASSUME Ground, Turns, NEW t \in Txs, CancelFind(t)
    PROVE  Turns'
<1> DEFINE o == tx[t].order
           S == {l \in LinesOf(o) : Active(t, l)}
<1>1. /\ tx[t].op = "cancel" /\ tx[t].at = "find"
      /\ UNCHANGED <<stock, resv, claim, status, line, bus>>
  BY DEF CancelFind, At, inventoryVars, busVars
<1>2. Worked(t)
  BY CancelFindKeepsDiscipline DEF Ground
<1>3. PICK w \in ActiveReservations(t, o) :
        tx' = [tx EXCEPT ![t].work = w, ![t].at = IF w = <<>> THEN "lines" ELSE "work"]
  BY DEF CancelFind
<1>4. PICK s \in Arrangements(S) :
        w = [k \in DOMAIN s |-> [line |-> s[k], qty |-> Remaining(t, s[k])]]
  BY DEF ActiveReservations
<1> DEFINE at == IF w = <<>> THEN "lines" ELSE "work"
<1>5. /\ tx'[t].op = "cancel" /\ tx'[t].order = o /\ tx'[t].next = 1
      /\ tx'[t].work = w /\ tx'[t].at = at
  <2>1. /\ tx \in [Txs -> TxRecords]
        /\ DOMAIN tx[t] = {"op", "at", "order", "event", "work", "next", "to"}
    BY Tables DEF Ground, TxRecords, TxFields
  <2>2. tx' = [tx EXCEPT ![t].work = w, ![t].at = at]
    BY <1>3
  <2>3. tx[t].next = 1
    BY <1>1, Fields DEF Ground
  <2>4. QED
    BY <1>1, <2>1, <2>2, <2>3
<1>6. IsFiniteSet(S) /\ S \subseteq Lines
  <2>1. IsFiniteSet(LinesOf(o)) /\ LinesOf(o) \subseteq Lines
    BY LinesAssumption, FS_Subset DEF LinesOf
  <2>2. QED
    BY <2>1, FS_Subset
<1>7. /\ s \in Seq(S) /\ Len(s) = Cardinality(S) /\ Len(s) \in Nat
      /\ \A l \in S : \E k \in 1 .. Len(s) : s[k] = l
      /\ DOMAIN s = 1 .. Len(s) /\ s \in [1 .. Len(s) -> S]
      /\ \A j, k \in DOMAIN s : s[j] = s[k] => j = k
  <2>1. /\ s \in Seq(S) /\ Len(s) = Cardinality(S)
        /\ \A l \in S : \E k \in 1 .. Len(s) : s[k] = l
    BY <1>6, ArrangementsCover
  <2>2. DOMAIN s = 1 .. Len(s) /\ s \in [1 .. Len(s) -> S] /\ Len(s) \in Nat
    BY <2>1, LenProperties
  <2>3. \A j, k \in DOMAIN s : s[j] = s[k] => j = k
    BY DEF Arrangements
  <2>4. QED
    BY <2>1, <2>2, <2>3
<1>8. Len(w) = Len(s) /\ (w = <<>> => Len(s) = 0)
  <2>1. s \in Seq(Lines)
    BY <1>6, <1>7
  <2>2. [k \in DOMAIN s |-> Remaining(t, s[k])] \in [DOMAIN s -> Int]
    <3>1. ASSUME NEW k \in DOMAIN s PROVE Remaining(t, s[k]) \in Int
      <4>1. resv[s[k]] \in RowOf(Reservations, Txs)
        BY <1>6, <1>7, <3>1, Tables DEF Ground
      <4>2. QED
        BY <4>1 DEF Remaining, RowOf, Sees, Reservations
    <3>2. QED
      BY <3>1
  <2> DEFINE q == [k \in DOMAIN s |-> Remaining(t, s[k])]
             w2 == [k \in DOMAIN s |-> [line |-> s[k], qty |-> q[k]]]
  <2>3. w2 = w
    BY <1>4
  <2>4. Len(w2) = Len(s) /\ w2 \in Seq(Items)
    <3> HIDE DEF q
    <3>1. QED
      BY <2>1, <2>2, WorkIsASequence DEF q
  <2>5. QED
    BY <2>3, <2>4, EmptySeq
<1>9. \A l \in Lines : resv[l].by # t
  <2>1. tx[t].next = 1 /\ Holds(t) /\ \A k \in Positions(t) : ~(k < 1)
    BY <1>1, Fields DEF Ground, Turns, Turn, Positions
  <2>2. QED
    BY <1>1, <2>1 DEF Holds
<1>10. \A l \in Lines : Sees(resv[l], t) = resv[l].com
  BY <1>9 DEF Sees
<1>11. /\ Positions(t)' = 1 .. Len(s)
       /\ \A k \in 1 .. Len(s) : LineAt(t, k)' = s[k] /\ tx'[t].work[k].qty = Remaining(t, s[k])
  BY <1>5, <1>7, <1>8, <1>4 DEF Positions, LineAt
<1> HIDE DEF at
<1>12. Releases(t)'
  <2>1. ASSUME NEW k \in 1 .. Len(s)
        PROVE  /\ OrderOf[s[k]] = o /\ resv'[s[k]].com.status = "ACTIVE"
               /\ tx'[t].work[k].qty = resv'[s[k]].com.qty - resv'[s[k]].com.fulfilled
    BY <1>1, <1>7, <1>10, <1>11, <2>1 DEF Active, LinesOf, Remaining
  <2>2. \A l \in LinesOf(o) : resv'[l].com.status = "ACTIVE" => \E k \in 1 .. Len(s) : s[k] = l
    BY <1>1, <1>7, <1>10 DEF Active, LinesOf
  <2>3. tx'[t].at \notin {"find", "work"} => tx'[t].next = Len(tx'[t].work) + 1
    BY <1>5, <1>8, <1>7 DEF at
  <2>4. tx'[t].at # "commit"
    BY <1>5 DEF at
  <2>5. LinesOf(tx[t].order)' = LinesOf(o)
    BY <1>5 DEF LinesOf
  <2>6. \A j, k \in 1 .. Len(s) : s[j] = s[k] => j = k
    BY <1>7
  <2>7. \A k \in 1 .. Len(s) : ~(k < tx'[t].next)
    BY <1>5, <1>7
  <2> HIDE DEF o, S
  <2>8. QED
    BY <1>5, <1>11, <2>1, <2>2, <2>3, <2>4, <2>5, <2>6, <2>7 DEF Releases, o
<1>13. Holds(t)'
  <2>1. For(t)' = For(t)
    BY <1>1, <1>5 DEF For
  <2>2. \A l \in Lines : resv'[l].by # t /\ (line'[l].by = t => OrderOf[l] = For(t))
    BY <1>1, <1>9 DEF Turns, Turn, Holds
  <2>3. QED
    BY <1>5, <2>1, <2>2 DEF Holds
<1>14. Allowed(t)'
  <2>1. status[o] \in FULFILLABLE_STATUSES /\ <<status[o], "CANCELLED">> \in Transitions
    BY <1>1 DEF Turns, Turn, Allowed
  <2>2. QED
    BY <1>1, <1>5, <2>1 DEF Allowed
<1>15. Turn(t)'
  BY <1>5, <1>12, <1>13, <1>14 DEF Turn, Decided, At
<1>16. QED
  BY <1>1, <1>2, <1>5, <1>15, StepKeepsTurns

\* The reservation that a cancellation has come to.
LEMMA CancelsItem ==
    ASSUME Ground, Turns, NEW t \in Txs, At(t, "cancel", "work")
    PROVE  LET r == resv[Item(t).line]
           IN  /\ OrderOf[Item(t).line] = tx[t].order
               /\ r.com.status = "ACTIVE" /\ r.by # t
               /\ Item(t).qty = r.com.qty - r.com.fulfilled /\ Item(t).qty > 0
               /\ \A j \in Positions(t) : LineAt(t, j) = Item(t).line => j = tx[t].next
<1> DEFINE n == tx[t].next
           i == Item(t)
           l == i.line
<1>1. tx[t].op = "cancel" /\ tx[t].at = "work" /\ Releases(t) /\ Holds(t)
  BY DEF At, Turns, Turn
<1>2. /\ l \in Lines /\ i = tx[t].work[n] /\ l = LineAt(t, n) /\ n \in Positions(t)
  BY <1>1, AtPosition DEF Ground
<1>3. /\ OrderOf[l] = tx[t].order /\ resv[l].com.status = "ACTIVE"
      /\ i.qty = resv[l].com.qty - resv[l].com.fulfilled
      /\ \A j \in Positions(t) : LineAt(t, j) = l => j = n
  BY <1>1, <1>2 DEF Releases
<1>4. i.qty > 0
  <2>1. l \in LinesOf(tx[t].order)
    BY <1>2, <1>3 DEF LinesOf
  <2>2. QED
    BY <1>1, <1>3, <2>1, CancelsAllocated
<1>5. resv[l].by # t
  <2>1. SUFFICES ASSUME resv[l].by = t PROVE FALSE
    OBVIOUS
  <2>2. PICK j \in Positions(t) : j < n /\ LineAt(t, j) = l
    BY <1>1, <1>2, <2>1 DEF Holds
  <2>3. j = n /\ n \in Nat
    BY <1>3, <2>2, Fields DEF Ground
  <2>4. QED
    BY <2>2, <2>3
<1>6. QED
  BY <1>3, <1>4, <1>5

LEMMA CancelLineKeepsTurns ==
    ASSUME Ground, Turns, NEW t \in Txs, CancelLine(t)
    PROVE  Turns'
<1> DEFINE n == tx[t].next
           i == Item(t)
           l == i.line
           p == ProductOf[l]
           level == [Sees(stock[p], t) EXCEPT !.reserved = @ - i.qty]
           r == [Sees(resv[l], t) EXCEPT !.status = "CANCELLED"]
<1>1. /\ tx[t].op = "cancel" /\ tx[t].at = "work"
      /\ UNCHANGED <<claim, line, status, bus>>
      /\ resv' = [resv EXCEPT ![l] = Put(@, t, r)]
      /\ tx' = [tx EXCEPT ![t] = Advanced(t, "lines")]
      /\ i.qty > 0 => stock' = [stock EXCEPT ![p] = Put(@, t, level)]
  BY DEF CancelLine, Release, At, busVars
<1>2. Worked(t)
  BY CancelLineKeepsDiscipline DEF Ground
<1>3. GoesOn(t, "lines")
  BY <1>1, Advances DEF Ground
<1>4. /\ l \in Lines /\ i.qty \in Int /\ p \in Products
      /\ i = tx[t].work[n] /\ l = LineAt(t, n) /\ n \in Positions(t)
      /\ Releases(t) /\ Holds(t) /\ Allowed(t)
  BY <1>1, AtPosition DEF Ground, Turns, Turn
<1>5. /\ OrderOf[l] = tx[t].order /\ resv[l].com.status = "ACTIVE" /\ resv[l].by # t
      /\ i.qty = resv[l].com.qty - resv[l].com.fulfilled /\ i.qty > 0
      /\ \A j \in Positions(t) : LineAt(t, j) = l => j = n
  BY <1>1, CancelsItem DEF At
<1>6. r = [resv[l].com EXCEPT !.status = "CANCELLED"]
  BY <1>5 DEF Sees
<1>7. /\ tx'[t].op = "cancel" /\ tx'[t].order = tx[t].order /\ tx'[t].work = tx[t].work
      /\ tx'[t].next = n + 1 /\ n \in Nat
      /\ tx'[t].at = IF n = Len(tx[t].work) THEN "lines" ELSE "work"
      /\ Len(tx[t].work) \in Nat
      /\ For(t) = tx[t].order /\ For(t)' = tx[t].order
      /\ Positions(t)' = Positions(t) /\ \A k : LineAt(t, k)' = LineAt(t, k)
  BY <1>1, <1>3, Fields DEF Ground, GoesOn, For, Positions, LineAt
<1> HIDE DEF n, i, l, p, level, r
<1>8. /\ Wrote(resv, resv', Lines, l, r, t)
      /\ Wrote(stock, stock', Products, p, level, t)
  BY <1>1, <1>4, <1>5, ResvWritten, StockWritten DEF Ground
<1>9. \A k \in Positions(t) : k \in Nat /\ LineAt(t, k) \in Lines
  BY PositionsAreLines DEF Ground
<1>10. Holds(t)'
  <2>1. ASSUME NEW m \in Lines, resv'[m].by = t
        PROVE  /\ OrderOf[m] = tx[t].order
               /\ stock'[ProductOf[m]].by = t
               /\ \E k \in Positions(t) : k < n + 1 /\ LineAt(t, k) = m
               /\ resv'[m].cur = [resv'[m].com EXCEPT !.status = "CANCELLED"]
    <3>1. CASE m = l
      <4>1. n < n + 1
        BY <1>7
      <4>2. resv'[m].cur = [resv'[m].com EXCEPT !.status = "CANCELLED"]
        BY <1>6, <1>8, <3>1 DEF Wrote
      <4>3. QED
        BY <1>4, <1>5, <1>8, <3>1, <4>1, <4>2 DEF Wrote, p
    <3>2. CASE m # l
      <4>1. resv'[m] = resv[m] /\ resv[m].by = t
        BY <1>8, <2>1, <3>2 DEF Wrote
      <4>2. /\ OrderOf[m] = tx[t].order /\ stock[ProductOf[m]].by = t
            /\ \E k \in Positions(t) : k < n /\ LineAt(t, k) = m
            /\ resv[m].cur = [resv[m].com EXCEPT !.status = "CANCELLED"]
        BY <1>1, <1>4, <1>7, <4>1 DEF Holds, n
      <4>3. stock'[ProductOf[m]].by = t
        BY <1>8, <4>2, LinesAssumption DEF Wrote
      <4>4. \E k \in Positions(t) : k < n + 1 /\ LineAt(t, k) = m
        BY <1>7, <1>9, <4>2
      <4>5. QED
        BY <4>1, <4>2, <4>3, <4>4
    <3>3. QED
      BY <3>1, <3>2
  <2>2. \A m \in Lines : line'[m].by = t => OrderOf[m] = tx[t].order
    BY <1>1, <1>4, <1>7 DEF Holds
  <2>3. ASSUME NEW m \in Lines, resv'[m].by = t
        PROVE  (\E k \in Positions(t) : k < tx[t].next /\ LineAt(t, k) = m)'
    <3>1. PICK k \in Positions(t) : k < n + 1 /\ LineAt(t, k) = m
      BY <2>1, <2>3
    <3>2. k \in Positions(t)' /\ k < tx'[t].next
      BY <1>7, <3>1
    <3>3. LineAt(t, k)' = m
      BY <1>7, <3>1
    <3>4. QED
      BY <3>2, <3>3
  <2>4. QED
    BY <1>7, <2>1, <2>2, <2>3 DEF Holds
<1>11. Releases(t)'
  <2>1. ASSUME NEW k \in Positions(t)
        PROVE  /\ OrderOf[LineAt(t, k)] = tx[t].order
               /\ resv'[LineAt(t, k)].com.status = "ACTIVE"
               /\ tx[t].work[k].qty
                      = resv'[LineAt(t, k)].com.qty - resv'[LineAt(t, k)].com.fulfilled
               /\ k < n + 1 => resv'[LineAt(t, k)].by = t
               /\ \A j \in Positions(t) : LineAt(t, j) = LineAt(t, k) => j = k
    <3>1. resv'[LineAt(t, k)].com = resv[LineAt(t, k)].com
      BY <1>8, <1>9, <2>1 DEF Wrote
    <3>2. k < n + 1 => resv'[LineAt(t, k)].by = t
      <4>1. CASE k = n
        BY <1>4, <1>8, <4>1 DEF Wrote
      <4>2. CASE k # n
        <5>1. LineAt(t, k) # l
          BY <1>5, <2>1, <4>2
        <5>2. k < n + 1 => k < n
          BY <1>7, <1>9, <2>1, <4>2
        <5>3. resv'[LineAt(t, k)] = resv[LineAt(t, k)]
          BY <1>8, <1>9, <2>1, <5>1 DEF Wrote
        <5>4. QED
          BY <1>4, <2>1, <5>2, <5>3 DEF Releases, n
      <4>3. QED
        BY <4>1, <4>2
    <3>3. QED
      BY <1>4, <2>1, <3>1, <3>2 DEF Releases
  <2>2. ASSUME NEW m \in LinesOf(tx[t].order), resv'[m].com.status = "ACTIVE"
        PROVE  \E k \in Positions(t) : LineAt(t, k) = m
    <3>1. resv'[m].com = resv[m].com
      BY <1>8, <2>2 DEF Wrote, LinesOf
    <3>2. QED
      BY <1>1, <1>4, <2>2, <3>1 DEF Releases
  <2>3. tx'[t].at \notin {"find", "work"} => tx'[t].next = Len(tx'[t].work) + 1
    BY <1>7
  <2>4. tx'[t].at # "commit" /\ LinesOf(tx[t].order)' = LinesOf(tx[t].order)
    BY <1>7 DEF LinesOf
  <2>5. QED
    BY <1>7, <2>1, <2>2, <2>3, <2>4 DEF Releases
<1>12. Allowed(t)'
  BY <1>1, <1>4, <1>7 DEF Allowed
<1>13. Turn(t)'
  BY <1>7, <1>10, <1>11, <1>12 DEF Turn, Decided, At
<1>14. QED
  BY <1>1, <1>2, <1>7, <1>13, StepKeepsTurns

LEMMA CancelLinesKeepsTurns ==
    ASSUME Ground, Turns, NEW t \in Txs, CancelLines(t)
    PROVE  Turns'
<1>1. /\ tx[t].op = "cancel" /\ tx[t].at = "lines"
      /\ UNCHANGED <<stock, resv, claim, status, bus>>
      /\ tx' = [tx EXCEPT ![t].at = "commit"]
  BY DEF CancelLines, At, inventoryVars, busVars
<1>2. Worked(t)
  BY CancelLinesKeepsDiscipline DEF Ground
<1>3. /\ tx'[t].op = "cancel" /\ tx'[t].order = tx[t].order /\ tx'[t].work = tx[t].work
      /\ tx'[t].next = tx[t].next /\ tx'[t].at = "commit"
      /\ For(t) = tx[t].order /\ For(t)' = tx[t].order
      /\ Positions(t)' = Positions(t) /\ \A k : LineAt(t, k)' = LineAt(t, k)
      /\ LinesOf(tx[t].order)' = LinesOf(tx[t].order)
  <2>1. /\ tx \in [Txs -> TxRecords]
        /\ DOMAIN tx[t] = {"op", "at", "order", "event", "work", "next", "to"}
    BY Tables DEF Ground, TxRecords, TxFields
  <2>2. /\ tx'[t].op = "cancel" /\ tx'[t].order = tx[t].order /\ tx'[t].work = tx[t].work
        /\ tx'[t].next = tx[t].next /\ tx'[t].at = "commit"
    BY <1>1, <2>1
  <2>3. QED
    BY <1>1, <2>2 DEF For, Positions, LineAt, LinesOf
<1>4. /\ \A l \in Lines : OrderOf[l] # tx[t].order => line'[l] = line[l]
      /\ \A l \in LinesOf(tx[t].order) : line'[l].by = t /\ line'[l].cur.reserved = 0
  <2>1. line' = [l \in Lines |->
                  IF OrderOf[l] = tx[t].order
                  THEN Put(line[l], t, [Sees(line[l], t) EXCEPT !.reserved = 0])
                  ELSE line[l]]
    BY DEF CancelLines
  <2>2. \A l \in Lines : /\ line[l] \in RowOf(Quantities, Txs)
                         /\ Sees(line[l], t) \in Quantities
    BY Tables DEF Ground, RowOf, Sees
  <2>3. ASSUME NEW l \in LinesOf(tx[t].order)
        PROVE  line'[l].by = t /\ line'[l].cur.reserved = 0
    <3>1. l \in Lines /\ OrderOf[l] = tx[t].order
      BY <2>3 DEF LinesOf
    <3> DEFINE v == [Sees(line[l], t) EXCEPT !.reserved = 0]
    <3>2. v.reserved = 0
      BY <2>2, <3>1 DEF Quantities
    <3> HIDE DEF v
    <3>3. line'[l] = Put(line[l], t, v)
      BY <2>1, <3>1 DEF v
    <3>4. QED
      BY <2>2, <3>1, <3>2, <3>3 DEF Put, RowOf
  <2>4. QED
    BY <2>1, <2>3
<1>5. Releases(t) /\ Holds(t) /\ Allowed(t)
  BY <1>1 DEF Turns, Turn
<1>6. Holds(t)'
  <2>1. \A m \in Lines : line'[m].by = t => OrderOf[m] = tx[t].order
    BY <1>3, <1>4, <1>5 DEF Holds
  <2>2. QED
    BY <1>1, <1>3, <1>5, <2>1 DEF Holds
<1>7. Releases(t)'
  <2>1. \A l \in LinesOf(tx[t].order) : Sees(line'[l], t).reserved = 0
    BY <1>4 DEF Sees
  <2>2. QED
    BY <1>1, <1>3, <1>5, <2>1 DEF Releases
<1>8. Allowed(t)'
  BY <1>1, <1>3, <1>5 DEF Allowed
<1>9. Turn(t)'
  BY <1>3, <1>6, <1>7, <1>8 DEF Turn, Decided, At
<1>10. QED
  BY <1>1, <1>2, <1>3, <1>9, StepKeepsTurns

-----------------------------------------------------------------------------
(* Shipping.  A line has room for what is still to be posted of it: units  *)
(* that were fulfilled are posted once, and no more than ordered.          *)

\* A part of a sum of numbers that are not negative.
LEMMA SumOfPart ==
    ASSUME NEW F, NEW S, IsFiniteSet(S), \A x \in S : F[x] \in Nat, NEW T, T \subseteq S
    PROVE  /\ SumFunctionOnSet(F, T) \in Nat /\ SumFunctionOnSet(F, S) \in Nat
           /\ SumFunctionOnSet(F, T) <= SumFunctionOnSet(F, S)
<1>1. IsFiniteSet(T) /\ IsFiniteSet(S \ T)
  BY FS_Subset
<1>2. SumFunctionOnSet(F, T) \in Nat /\ SumFunctionOnSet(F, S \ T) \in Nat
  BY <1>1, SumType
<1>3. SumFunctionOnSet(F, S) = SumFunctionOnSet(F, T) + SumFunctionOnSet(F, S \ T)
  BY SumSplit
<1>4. QED
  BY <1>2, <1>3

LEMMA TakenOfPart ==
    ASSUME NEW w \in Seq(Items), \A k \in 1 .. Len(w) : w[k].qty > 0,
           NEW D, D \subseteq 1 .. Len(w), NEW l
    PROVE  Taken(w, D, l) \in Nat /\ Taken(w, D, l) <= Taken(w, 1 .. Len(w), l)
<1> DEFINE S == OfLine(w, 1 .. Len(w), l)
           T == OfLine(w, D, l)
           F == [k \in S |-> w[k].qty]
           G == [k \in T |-> w[k].qty]
<1>1. T \subseteq S /\ S \subseteq 1 .. Len(w)
  BY DEF OfLine
<1>2. IsFiniteSet(S) /\ IsFiniteSet(T)
  BY UnitsTaken, ItemsAreNumbered
<1>3. \A k \in S : F[k] \in Nat
  <2>1. \A k \in S : w[k].qty \in Int
    BY UnitsTaken, ItemsAreNumbered
  <2>2. QED
    BY <1>1, <2>1
<1>4. \A k \in T : F[k] \in Int /\ G[k] = F[k]
  BY <1>1, <1>3
<1> HIDE DEF S, T, F, G
<1>5. SumFunctionOnSet(F, T) \in Nat /\ SumFunctionOnSet(F, T) <= SumFunctionOnSet(F, S)
  BY <1>1, <1>2, <1>3, SumOfPart
<1>6. SumFunctionOnSet(G, T) = SumFunctionOnSet(F, T)
  BY <1>2, <1>4, SumEqual
<1>7. QED
  BY <1>5, <1>6 DEF Taken, S, T, F, G

\* Every event takes a number of units of a line.
LEMMA PayloadsTakeNaturals ==
    ASSUME TypeOK, Discipline, NEW l
    PROVE  \A e \in Events : Taken(sent[e], DOMAIN sent[e], l) \in Nat
<1>1. ASSUME NEW e \in Events
      PROVE  Taken(sent[e], DOMAIN sent[e], l) \in Nat
  <2>1. sent[e] \in Seq(Items) /\ DOMAIN sent[e] = 1 .. Len(sent[e])
    BY Tables, LenProperties
  <2>2. \A k \in 1 .. Len(sent[e]) : sent[e][k].qty > 0
    BY DEF Discipline, Announced
  <2>3. QED
    BY <2>1, <2>2, TakenOfPart
<1>2. QED
  BY <1>1

\* What is posted of a line, and what an event that is not yet claimed takes
\* of it, was fulfilled.
LEMMA RoomToPost ==
    ASSUME Ground, NEW e \in Events, ~claim[e].com, NEW l \in Lines
    PROVE  /\ Taken(sent[e], DOMAIN sent[e], l) \in Nat
           /\ resv[l].com.fulfilled \in Nat
           /\ resv[l].com.fulfilled + Taken(sent[e], DOMAIN sent[e], l) <= Ordered[l]
<1> DEFINE F == [d \in Events |-> Taken(sent[d], DOMAIN sent[d], l)]
           C == Claimed \cup {e}
<1>1. \A d \in Events : F[d] \in Nat
  BY PayloadsTakeNaturals DEF Ground
<1>2. /\ IsFiniteSet(Events) /\ C \subseteq Events /\ Claimed \subseteq Events
      /\ IsFiniteSet(C) /\ IsFiniteSet(Claimed)
  BY EventsAreFinite DEF Claimed
<1>3. e \notin Claimed
  BY Zenon DEF Claimed
<1>4. ASSUME NEW E, E \subseteq Events
      PROVE  EventSum(sent, E, l) = SumFunctionOnSet(F, E)
  <2> DEFINE G == [d \in E |-> Taken(sent[d], DOMAIN sent[d], l)]
  <2>1. IsFiniteSet(E)
    BY <1>2, <1>4, FS_Subset
  <2>2. \A d \in E : F[d] \in Int /\ G[d] = F[d]
    BY <1>1, <1>4
  <2> HIDE DEF F, G
  <2>3. SumFunctionOnSet(G, E) = SumFunctionOnSet(F, E)
    BY <2>1, <2>2, SumEqual
  <2>4. QED
    BY <2>3 DEF EventSum, G
<1>5. F[e] = Taken(sent[e], DOMAIN sent[e], l)
  OBVIOUS
<1> HIDE DEF F
<1>6. /\ SumFunctionOnSet(F, C) <= SumFunctionOnSet(F, Events)
      /\ SumFunctionOnSet(F, C) \in Nat /\ SumFunctionOnSet(F, Events) \in Nat
  BY <1>1, <1>2, SumOfPart
<1>7. SumFunctionOnSet(F, C) = F[e] + SumFunctionOnSet(F, Claimed)
  <2>1. \A y \in Claimed \cup {e} : F[y] \in Int
    BY <1>1, <1>2
  <2>2. QED
    BY <1>2, <1>3, <2>1, SumAdd
<1>8. SumFunctionOnSet(F, Claimed) \in Nat
  BY <1>1, <1>2, SumType
<1>9. /\ resv[l].com.fulfilled = SumFunctionOnSet(F, Claimed)
      /\ line[l].com.fulfilled = SumFunctionOnSet(F, Events)
  BY <1>2, <1>4 DEF Ground, Ledger, Posted, Sold
<1>10. line[l].com.fulfilled <= Ordered[l] /\ Ordered[l] \in Nat
  <2>1. line[l].com \in Quantities
    BY Tables DEF Ground, RowOf
  <2>2. Within(line[l].com, l)
    BY DEF Ground, Budgets
  <2>3. QED
    BY <2>1, <2>2, LinesAssumption DEF Within, Quantities
<1>11. F[e] \in Nat
  BY <1>1
<1>12. resv[l].com.fulfilled + F[e] <= Ordered[l]
  BY <1>6, <1>7, <1>8, <1>9, <1>10, <1>11
<1>13. QED
  BY <1>5, <1>8, <1>9, <1>11, <1>12

\* What t sees posted of the line it has come to, with the item it posts.
LEMMA ItemHasRoom ==
    ASSUME Ground, NEW t \in Txs, At(t, "post", "work")
    PROVE  /\ Sees(resv[Item(t).line], t).fulfilled \in Nat
           /\ Item(t).qty > 0 /\ Item(t).qty \in Int
           /\ Sees(resv[Item(t).line], t).fulfilled + Item(t).qty <= Ordered[Item(t).line]
<1> DEFINE w == tx[t].work
           n == tx[t].next
           l == Item(t).line
           e == tx[t].event
<1>1. tx[t].op = "post" /\ tx[t].at = "work" /\ Posts(t)
  BY DEF At, Ground, Discipline, Own, Working
<1>2. /\ w \in Seq(Items) /\ n \in Nat \ {0} /\ n <= Len(w) /\ Len(w) \in Nat
      /\ DOMAIN w = 1 .. Len(w)
  BY <1>1, Fields DEF Ground, Positions
<1>3. l \in Lines /\ Item(t).qty \in Int /\ Item(t) = w[n]
  BY <1>1, AtPosition DEF Ground
<1>4. e \in Events /\ w = sent[e]
  BY <1>1 DEF Posts
<1>5. ~claim[e].com
  BY <1>1, Zenon DEF Posts
<1>6. \A k \in 1 .. Len(w) : w[k].qty > 0
  BY <1>4 DEF Ground, Discipline, Announced
<1>7. /\ Taken(w, 1 .. n, l) \in Nat
      /\ Taken(w, 1 .. n, l) <= Taken(w, 1 .. Len(w), l)
      /\ Taken(w, 1 .. (n - 1), l) \in Nat
  <2>1. 1 .. n \subseteq 1 .. Len(w) /\ 1 .. (n - 1) \subseteq 1 .. Len(w)
    BY <1>2
  <2>2. QED
    BY <1>2, <1>6, <2>1, TakenOfPart
<1>8. Taken(w, 1 .. n, l) = Taken(w, 1 .. (n - 1), l) + Item(t).qty
  <2>1. Taken(w, 1 .. n, l) = Taken(w, 1 .. (n - 1), l) + (IF w[n].line = l THEN w[n].qty ELSE 0)
    BY <1>2, TakenNext
  <2>2. QED
    BY <1>3, <2>1
<1>9. Sees(resv[l], t).fulfilled = resv[l].com.fulfilled + Taken(w, 1 .. (n - 1), l)
  <2>1. Sees(resv[l], t).fulfilled = resv[l].com.fulfilled + PostedBy(t, l)
    BY <1>3, SoFar DEF Ground
  <2>2. QED
    BY <1>1, <2>1 DEF PostedBy, Part
<1>10. /\ resv[l].com.fulfilled \in Nat
       /\ resv[l].com.fulfilled + Taken(w, 1 .. Len(w), l) <= Ordered[l]
       /\ Taken(w, 1 .. Len(w), l) \in Nat
  BY <1>2, <1>3, <1>4, <1>5, RoomToPost
<1>11. Item(t).qty > 0
  BY <1>2, <1>3, <1>6
<1>12. Ordered[l] \in Nat
  BY <1>3, LinesAssumption
<1> HIDE DEF w, n, l, e
<1>13. /\ Sees(resv[l], t).fulfilled \in Nat
       /\ Sees(resv[l], t).fulfilled + Item(t).qty <= Ordered[l]
  <2>1. ASSUME NEW f \in Nat, NEW a \in Nat, NEW b \in Nat, NEW c \in Nat, NEW q \in Int,
               NEW s \in Nat, b = a + q, b <= c, f + c <= s
        PROVE  f + a \in Nat /\ (f + a) + q <= s
    BY <2>1
  <2>2. /\ resv[l].com.fulfilled + Taken(w, 1 .. (n - 1), l) \in Nat
        /\ (resv[l].com.fulfilled + Taken(w, 1 .. (n - 1), l)) + Item(t).qty <= Ordered[l]
    BY <1>3, <1>7, <1>8, <1>10, <1>12, <2>1
  <2>3. QED
    BY <1>9, <2>2
<1>14. QED
  BY <1>3, <1>11, <1>13 DEF l

\* A handler posts lines of its order, which are as they were reserved.
LEMMA PostsRegularLines ==
    ASSUME Ground, Turns, NEW t \in Txs, tx[t].op = "post", NEW k \in Positions(t)
    PROVE  LET l == LineAt(t, k)
           IN  /\ l \in Lines /\ OrderOf[l] = For(t)
               /\ Regular(resv[l].com, l) /\ Regular(Sees(resv[l], t), l)
<1> DEFINE l == LineAt(t, k)
           o == For(t)
<1>1. Posts(t)
  BY DEF Ground, Discipline, Own, Working
<1>2. /\ l \in Lines /\ DOMAIN tx[t].work = Positions(t)
  BY PositionsAreLines, Fields DEF Ground
<1>3. OrderOf[l] = o
  BY <1>1, <1>2 DEF Posts, Turns, OneOrder, For, LineAt
<1>4. o \in Orders /\ BeingPosted(o)
  BY PostsItsOrder DEF Ground
<1>5. status[o] \in {"PARTIALLY_FULFILLED", "FULFILLED"}
  BY <1>4 DEF Turns, Posting
<1>6. Exists(l)
  <2>1. sent[tx[t].event][k].line = l
    BY <1>1 DEF Posts, LineAt
  <2>2. k \in 1 .. Len(sent[tx[t].event])
    BY <1>1 DEF Posts, Positions
  <2>3. QED
    BY <1>1, <2>1, <2>2 DEF Posts, Ground, Discipline, Announced
<1>7. Regular(resv[l].com, l)
  BY <1>2, <1>3, <1>4, <1>5, <1>6 DEF Turns, Tells, LinesOf
<1>8. Regular(Sees(resv[l], t), l)
  <2>1. CASE resv[l].by = t
    <3>1. Regular(resv[l].cur, l)
      BY <1>2, <2>1 DEF Turns, Turn, Holds
    <3>2. QED
      BY <2>1, <3>1 DEF Sees
  <2>2. CASE resv[l].by # t
    BY <1>7, <2>2 DEF Sees
  <2>3. QED
    BY <2>1, <2>2
<1>9. QED
  BY <1>2, <1>3, <1>7, <1>8

\* What a handler writes into the reservation it has come to.
LEMMA PostsItem ==
    ASSUME Ground, Turns, NEW t \in Txs, At(t, "post", "work")
    PROVE  LET l == Item(t).line
               now == Sees(resv[l], t)
           IN  /\ l \in Lines /\ OrderOf[l] = For(t)
               /\ Regular(now, l) /\ now.status = "ACTIVE" /\ now.fulfilled \in Nat
               /\ Item(t).qty \in Nat /\ now.fulfilled + Item(t).qty <= Ordered[l]
               /\ Regular(Consumed(now, Item(t).qty), l)
<1> DEFINE i == Item(t)
           l == i.line
<1>1. tx[t].op = "post" /\ tx[t].at = "work"
  BY DEF At
<1>2. /\ l \in Lines /\ l = LineAt(t, tx[t].next) /\ tx[t].next \in Positions(t)
  BY <1>1, AtPosition DEF Ground
<1>3. OrderOf[l] = For(t) /\ Regular(Sees(resv[l], t), l)
  BY <1>1, <1>2, PostsRegularLines
<1>4. /\ Sees(resv[l], t).fulfilled \in Nat
      /\ i.qty > 0 /\ i.qty \in Int /\ Sees(resv[l], t).fulfilled + i.qty <= Ordered[l]
  BY ItemHasRoom
<1>5. Sees(resv[l], t).qty = Ordered[l] /\ Ordered[l] \in Nat
  BY <1>2, <1>3, LinesAssumption DEF Regular
<1>6. Sees(resv[l], t).status = "ACTIVE"
  BY <1>2, <1>3, <1>4, <1>5 DEF Regular
<1>7. Regular(Consumed(Sees(resv[l], t), i.qty), l)
  BY <1>4, <1>5, <1>6 DEF Regular, Consumed
<1>8. i.qty \in Nat
  BY <1>4
<1>9. QED
  BY <1>2, <1>3, <1>4, <1>6, <1>7, <1>8

LEMMA PostLineKeepsTurns ==
    ASSUME Ground, Turns, NEW t \in Txs, PostLine(t), UNCHANGED <<status, line>>
    PROVE  Turns'
<1> DEFINE i == Item(t)
           l == i.line
           r == Consumed(Sees(resv[l], t), i.qty)
<1>1. /\ tx[t].op = "post" /\ tx[t].at = "work" /\ UNCHANGED <<claim, line, status, bus>>
      /\ resv' = [resv EXCEPT ![l] = Put(@, t, r)]
      /\ tx' = [tx EXCEPT ![t] = Advanced(t, "commit")]
  BY DEF PostLine, At
<1>2. Worked(t)
  BY PostLineKeepsDiscipline DEF Ground
<1>3. GoesOn(t, "commit")
  BY <1>1, Advances DEF Ground
<1>4. l \in Lines /\ OrderOf[l] = For(t) /\ Regular(r, l)
  BY <1>1, PostsItem DEF At
<1> HIDE DEF i, l, r
<1>5. Wrote(resv, resv', Lines, l, r, t)
  BY <1>1, <1>4, ResvWritten DEF Ground
<1>6. /\ tx'[t].op = "post" /\ tx'[t].order = tx[t].order /\ tx'[t].work = tx[t].work
      /\ For(t)' = For(t)
  BY <1>1, <1>3 DEF GoesOn, For
<1>7. Holds(t)'
  <2>1. ASSUME NEW m \in Lines
        PROVE  /\ resv'[m].by = t \/ line'[m].by = t => OrderOf[m] = For(t)
               /\ resv'[m].by = t => Regular(resv'[m].cur, m)
    <3>1. CASE m = l
      BY <1>4, <1>5, <3>1 DEF Wrote
    <3>2. CASE m # l
      <4>1. resv'[m] = resv[m] /\ line'[m] = line[m] /\ Holds(t)
        BY <1>1, <1>5, <3>2 DEF Wrote, Turns, Turn
      <4>2. QED
        BY <1>1, <4>1 DEF Holds
    <3>3. QED
      BY <3>1, <3>2
  <2>2. QED
    BY <1>6, <2>1 DEF Holds, Regular
<1>8. Turn(t)'
  BY <1>6, <1>7 DEF Turn, Allowed, Decided, At
<1>9. QED
  BY <1>1, <1>2, <1>6, <1>8, StepKeepsTurns

-----------------------------------------------------------------------------
(* The commits: what the status says that is written with the rows.        *)

\* What t leaves behind of the rows of its order.
LEMMA CommitLeaves ==
    ASSUME Ground, Turns, NEW t \in Txs, Ended(t, TRUE)
    PROVE  \A l \in Lines :
             /\ resv'[l].com = Sees(resv[l], t) /\ line'[l].com = Sees(line[l], t)
             /\ tx[t].op # "fulfill" => Sees(line[l], t).fulfilled = line[l].com.fulfilled
             /\ line[l].com.fulfilled \in Int
<1>1. \A l \in Lines : resv'[l].com = Sees(resv[l], t) /\ line'[l].com = Sees(line[l], t)
  BY DEF Ended, EndedRow, Sees
<1>2. ASSUME NEW l \in Lines
      PROVE  /\ tx[t].op # "fulfill" => Sees(line[l], t).fulfilled = line[l].com.fulfilled
             /\ line[l].com.fulfilled \in Int
  <2>1. line[l].com \in Quantities
    BY Tables DEF Ground, RowOf
  <2>2. line[l].com.fulfilled \in Int
    BY <2>1 DEF Quantities
  <2>3. Sees(line[l], t).fulfilled = line[l].com.fulfilled + SoldBy(t, l)
    BY SoFar DEF Ground
  <2>4. QED
    BY <2>2, <2>3 DEF SoldBy
<1>3. QED
  BY <1>1, <1>2

LEMMA ConfirmTells ==
    ASSUME Ground, Turns, NEW t \in Txs, Ended(t, TRUE), At(t, "confirm", "commit"),
           NEW o \in Orders, o = tx[t].order, status'[o] = "CONFIRMED"
    PROVE  Tells(o)'
<1>1. tx[t].op = "confirm" /\ status[o] = "DRAFT" /\ Tells(o)
  BY DEF At, Turns, Turn, Allowed
<1>2. \A l \in Lines : resv'[l].com = resv[l].com /\ line'[l].com = line[l].com
  BY <1>1 DEF Ground, Discipline, Own, Locks, Ended, EndedRow
<1>3. \A l \in Lines : Exists(l)' <=> Exists(l)
  BY <1>2 DEF Exists
<1>4. QED
  BY <1>1, <1>2, <1>3 DEF Tells, LinesOf

LEMMA AllocateTells ==
    ASSUME Ground, Turns, NEW t \in Txs, Ended(t, TRUE), At(t, "allocate", "commit"),
           NEW o \in Orders, o = tx[t].order, status'[o] = "ALLOCATED"
    PROVE  Tells(o)'
<1>1. tx[t].op = "allocate" /\ status[o] = "CONFIRMED" /\ Tells(o) /\ Holds(t)
  BY DEF At, Turns, Turn, Allowed
<1>2. ASSUME NEW l \in LinesOf(o)
      PROVE  /\ line'[l].com.fulfilled = 0
             /\ Exists(l)' => Regular(resv'[l].com, l)
  <2>1. l \in Lines /\ line[l].com = NoUnits /\ ~Exists(l)
    BY <1>1, <1>2 DEF Tells, LinesOf
  <2> DEFINE now == Sees(line[l], t)
             r == Sees(resv[l], t)
  <2> HIDE DEF now, r
  <2>6. /\ resv'[l].com = r /\ line'[l].com = now
        /\ tx[t].op # "fulfill" => now.fulfilled = line[l].com.fulfilled
    BY <2>1, CommitLeaves DEF now, r
  <2>2. line'[l].com.fulfilled = 0
    BY <1>1, <2>1, <2>6 DEF NoUnits
  <2>3. CASE resv[l].by = t
    BY <1>1, <2>1, <2>2, <2>3, <2>6 DEF Holds, Sees, r
  <2>4. CASE resv[l].by # t
    BY <2>1, <2>2, <2>4, <2>6 DEF Exists, Sees, r
  <2>5. QED
    BY <2>2, <2>3, <2>4
<1>3. PICK m \in LinesOf(o) : Ordered[m] \in Nat \ {0}
  BY LinesAssumption DEF LinesOf
<1>4. ~(line'[m].com.fulfilled >= Ordered[m])
  BY <1>2, <1>3
<1>5. QED
  BY <1>2, <1>3, <1>4 DEF Tells, LinesOf, Regular

LEMMA CancelTells ==
    ASSUME Ground, Turns, NEW t \in Txs, Ended(t, TRUE), At(t, "cancel", "commit"),
           NEW o \in Orders, o = tx[t].order, status'[o] = "CANCELLED"
    PROVE  Tells(o)'
<1>1. tx[t].op = "cancel" /\ tx[t].at = "commit" /\ Tells(o) /\ Holds(t) /\ Releases(t)
  BY DEF At, Turns, Turn
<1>2. status[o] \in {"DRAFT", "CONFIRMED", "ALLOCATED", "PARTIALLY_FULFILLED"}
  BY <1>1 DEF Turns, Turn, Allowed, Transitions, SalesTransitions
<1>3. PICK m \in LinesOf(o) : ~(line[m].com.fulfilled >= Ordered[m])
  BY <1>1, <1>2 DEF Tells
<1>4. ~(line'[m].com.fulfilled >= Ordered[m])
  BY <1>1, <1>3, CommitLeaves DEF LinesOf
<1>5. ASSUME NEW l \in LinesOf(o)
      PROVE  line'[l].com.reserved = 0 /\ resv'[l].com.status # "ACTIVE"
  <2>1. l \in Lines
    BY <1>5 DEF LinesOf
  <2>2. line'[l].com.reserved = 0
    BY <1>1, <1>5, <2>1, CommitLeaves DEF Releases
  <2>3. CASE resv[l].by = t
    <3>1. resv'[l].com = resv[l].cur
      BY <2>1, <2>3, CommitLeaves DEF Sees
    <3>2. resv[l].cur = [resv[l].com EXCEPT !.status = "CANCELLED"]
      BY <1>1, <2>1, <2>3 DEF Holds
    <3>3. resv[l].com \in Reservations
      BY <2>1, Tables DEF Ground, RowOf
    <3>4. QED
      BY <2>2, <3>1, <3>2, <3>3 DEF Reservations
  <2>4. CASE resv[l].by # t
    <3>1. resv'[l].com = resv[l].com
      BY <2>1, <2>4, CommitLeaves DEF Sees
    <3>2. SUFFICES ASSUME resv[l].com.status = "ACTIVE" PROVE FALSE
      BY <2>2, <3>1
    <3>3. PICK k \in Positions(t) : LineAt(t, k) = l
      BY <1>1, <1>5, <3>2 DEF Releases
    <3>4. k < tx[t].next
      BY <1>1, <3>3, Fields DEF Ground, Releases, Positions
    <3>5. QED
      BY <1>1, <2>4, <3>3, <3>4 DEF Releases
  <2>5. QED
    BY <2>3, <2>4
<1>6. QED
  BY <1>3, <1>4, <1>5 DEF Tells, LinesOf

LEMMA FulfillTells ==
    ASSUME Ground, Turns, NEW t \in Txs, Ended(t, TRUE), At(t, "fulfill", "commit"),
           NEW o \in Orders, o = tx[t].order, status'[o] = tx[t].to
    PROVE  Tells(o)' /\ status'[o] \in {"PARTIALLY_FULFILLED", "FULFILLED"}
<1>1. tx[t].op = "fulfill" /\ Tells(o) /\ status[o] \in FULFILLABLE_STATUSES
  BY DEF At, Turns, Turn, Allowed
<1>2. tx[t].to = IF FullyFulfilled(t, o) THEN "FULFILLED" ELSE "PARTIALLY_FULFILLED"
  BY DEF Turns, Turn, Decided
<1>3. \A l \in Lines : resv'[l].com = resv[l].com
  BY <1>1 DEF Ground, Discipline, Own, Locks, Ended, EndedRow
<1>4. \A l \in LinesOf(o) : /\ Exists(l)' <=> Exists(l)
                            /\ Regular(resv'[l].com, l) <=> Regular(resv[l].com, l)
  BY <1>3 DEF Exists, LinesOf, Regular
<1>5. (\A l \in LinesOf(o) : line'[l].com.fulfilled >= Ordered[l]) <=> FullyFulfilled(t, o)
  BY CommitLeaves DEF FullyFulfilled, LinesOf
<1>6. \A l \in LinesOf(o) : Exists(l) => Regular(resv[l].com, l)
  BY <1>1 DEF Tells, FULFILLABLE_STATUSES
<1>7. QED
  BY <1>2, <1>4, <1>5, <1>6 DEF Tells, LinesOf, Regular

LEMMA PostTells ==
    ASSUME Ground, Turns, NEW t \in Txs, Ended(t, TRUE), tx[t].op = "post",
           NEW o \in Orders, o = For(t), status'[o] = status[o]
    PROVE  Tells(o)'
<1>1. Holds(t) /\ Tells(o)
  BY DEF Turns, Turn
<1>2. \A l \in Lines : line'[l].com = line[l].com
  BY DEF Ground, Discipline, Own, Locks, Ended, EndedRow
<1>3. status[o] \in {"PARTIALLY_FULFILLED", "FULFILLED"}
  BY PostsItsOrder DEF Ground, Turns, Posting
<1>4. ASSUME NEW l \in LinesOf(o), Exists(l)'
      PROVE  Regular(resv'[l].com, l)
  <2>1. CASE resv[l].by = t
    <3>1. resv'[l].com = resv[l].cur
      BY <2>1, CommitLeaves DEF Sees, LinesOf
    <3>2. QED
      BY <1>1, <2>1, <3>1 DEF Holds, LinesOf
  <2>2. CASE resv[l].by # t
    <3>1. resv'[l].com = resv[l].com
      BY <2>2, CommitLeaves DEF Sees, LinesOf
    <3>2. Exists(l)
      BY <1>4, <3>1 DEF Exists
    <3>3. QED
      BY <1>1, <1>3, <3>1, <3>2 DEF Tells
  <2>3. QED
    BY <2>1, <2>2
<1>5. QED
  BY <1>1, <1>2, <1>3, <1>4 DEF Tells, LinesOf, Regular

\* The fulfilment that t announces is of its order.
LEMMA FulfillTellsOrder ==
    ASSUME Ground, Turns, NEW t \in Txs, FulfillCommit(t)
    PROVE  /\ OneOrder'
           /\ \A o \in Orders : BeingPosted(o)' => BeingPosted(o) \/ o = tx[t].order
<1>1. PICK e \in Events : Emit(e, tx[t].work)
  BY DEF FulfillCommit
<1>2. /\ sent[e] = <<>> /\ sent'[e] = tx[t].work
      /\ \A d \in Events : d # e => sent'[d] = sent[d] /\ bus'[d] = bus[d]
  BY <1>1, Tables DEF Emit, Ground, TypeOK, InventoryTypeOK
<1>3. /\ tx[t].op = "fulfill" /\ tx[t].at = "commit" /\ Finishes(t) /\ Fulfills(t)
  BY DEF FulfillCommit, At, Ground, Discipline, Own, Working
<1>4. /\ tx[t].work # <<>> /\ tx[t].work \in Seq(Items) /\ Len(tx[t].work) \in Nat
      /\ DOMAIN tx[t].work = Positions(t)
  BY <1>3, Fields DEF Ground
<1>5. \A k \in DOMAIN tx[t].work : OrderOf[tx[t].work[k].line] = tx[t].order
  <2>1. \A k \in Positions(t) : k < tx[t].next
    BY <1>3, <1>4 DEF Finishes, Positions
  <2>2. QED
    BY <1>3, <1>4, <2>1 DEF Fulfills, LineAt
<1>6. 1 \in DOMAIN tx[t].work
  <2>1. Len(tx[t].work) >= 1
    BY <1>4, EmptySeq
  <2>2. QED
    BY <1>4, <2>1 DEF Positions
<1>7. OneOrder'
  <2>1. SUFFICES ASSUME NEW d \in Events, NEW k \in DOMAIN sent'[d]
                 PROVE  OrderOf[sent'[d][k].line] = OrderOf[sent'[d][1].line]
    BY DEF OneOrder, Events
  <2>2. CASE d = e
    BY <1>2, <1>5, <1>6, <2>1, <2>2
  <2>3. CASE d # e
    BY <1>2, <2>1, <2>3 DEF Turns, OneOrder
  <2>4. QED
    BY <2>2, <2>3
<1>8. ASSUME NEW o \in Orders, BeingPosted(o)'
      PROVE  BeingPosted(o) \/ o = tx[t].order
  <2>1. tx'[t] = Idle /\ \A u \in Txs \ {t} : tx'[u] = tx[u]
    BY Tables DEF FulfillCommit, Commit, Closed, Ground
  <2>2. CASE \E u \in Txs : tx'[u].op = "post" /\ OrderOf[tx'[u].work[1].line] = o
    BY <2>1, <2>2 DEF Idle, Begun, BeingPosted
  <2>3. CASE \E d \in Events : bus'[d] > 0 /\ OrderOf[sent'[d][1].line] = o
    <3>1. PICK d \in Events : bus'[d] > 0 /\ OrderOf[sent'[d][1].line] = o
      BY <2>3
    <3>2. CASE d = e
      BY <1>2, <1>5, <1>6, <3>1, <3>2
    <3>3. CASE d # e
      BY <1>2, <3>1, <3>3 DEF BeingPosted
    <3>4. QED
      BY <3>2, <3>3
  <2>4. QED
    BY <1>8, <2>2, <2>3 DEF BeingPosted, Events
<1>9. QED
  BY <1>7, <1>8

Commits(t) ==
    \/ ConfirmCommit(t) \/ AllocateCommit(t) \/ CancelCommit(t) \/ FulfillCommit(t)
    \/ PostCommit(t) /\ UNCHANGED <<status, line>>

LEMMA CommitKeepsTurns ==
    ASSUME Ground, Turns, NEW t \in Txs, Commits(t)
    PROVE  Turns'
<1>1. Ended(t, TRUE)
  <2>1. Locks(t)
    BY DEF Ground, Discipline, Own
  <2>2. QED
    BY <2>1, CommitEnds DEF Ground, Commits, ConfirmCommit, AllocateCommit, CancelCommit,
       FulfillCommit
<1>2. status \in [Orders -> Statuses \cup {"NONE"}] /\ tx[t].order \in Orders \cup {NoOrder}
  BY Fields DEF Ground, TypeOK
<1>3. \A o \in Orders : o # tx[t].order => status'[o] = status[o]
  BY <1>2 DEF Commits, ConfirmCommit, AllocateCommit, CancelCommit, FulfillCommit
<1>4. ASSUME NEW o \in Orders, o = For(t)
      PROVE  Tells(o)'
  <2>1. CASE ConfirmCommit(t)
    <3>1. At(t, "confirm", "commit") /\ o = tx[t].order
      BY <1>4, <2>1 DEF ConfirmCommit, At, For
    <3>2. status'[o] = "CONFIRMED"
      BY <1>2, <2>1, <3>1 DEF ConfirmCommit
    <3>3. QED
      BY <1>1, <3>1, <3>2, ConfirmTells
  <2>2. CASE AllocateCommit(t)
    <3>1. At(t, "allocate", "commit") /\ o = tx[t].order
      BY <1>4, <2>2 DEF AllocateCommit, At, For
    <3>2. status'[o] = "ALLOCATED"
      BY <1>2, <2>2, <3>1 DEF AllocateCommit
    <3>3. QED
      BY <1>1, <3>1, <3>2, AllocateTells
  <2>3. CASE CancelCommit(t)
    <3>1. At(t, "cancel", "commit") /\ o = tx[t].order
      BY <1>4, <2>3 DEF CancelCommit, At, For
    <3>2. status'[o] = "CANCELLED"
      BY <1>2, <2>3, <3>1 DEF CancelCommit
    <3>3. QED
      BY <1>1, <3>1, <3>2, CancelTells
  <2>4. CASE FulfillCommit(t)
    <3>1. At(t, "fulfill", "commit") /\ o = tx[t].order
      BY <1>4, <2>4 DEF FulfillCommit, At, For
    <3>2. status'[o] = tx[t].to
      BY <1>2, <2>4, <3>1 DEF FulfillCommit
    <3>3. QED
      BY <1>1, <3>1, <3>2, FulfillTells
  <2>5. CASE PostCommit(t) /\ UNCHANGED <<status, line>>
    <3>1. tx[t].op = "post"
      BY <2>5 DEF PostCommit, At
    <3>2. QED
      BY <1>1, <1>4, <2>5, <3>1, PostTells
  <2>6. QED
    BY <2>1, <2>2, <2>3, <2>4, <2>5 DEF Commits
<1>5. CASE FulfillCommit(t)
  <2>1. /\ OneOrder'
        /\ \A o \in Orders : BeingPosted(o)' => BeingPosted(o) \/ o = tx[t].order
    BY <1>5, FulfillTellsOrder
  <2>2. ASSUME NEW o \in Orders, o = tx[t].order
        PROVE  status'[o] \in {"PARTIALLY_FULFILLED", "FULFILLED"}
    <3>1. At(t, "fulfill", "commit") /\ status'[o] = tx[t].to
      BY <1>2, <1>5, <2>2 DEF FulfillCommit
    <3>2. QED
      BY <1>1, <2>2, <3>1, FulfillTells
  <2>3. QED
    BY <1>1, <1>3, <1>4, <2>1, <2>2, EndKeepsTurns
<1>6. CASE ~FulfillCommit(t)
  <2>1. sent' = sent /\ bus' = bus
    BY <1>6 DEF Commits, ConfirmCommit, AllocateCommit, CancelCommit, PostCommit, busVars
  <2>2. \A u \in Txs : tx'[u].op = "post" => tx[u].op = "post" /\ tx'[u].work = tx[u].work
    BY <1>1 DEF Ended, Idle, Begun
  <2>3. \A o \in Orders : BeingPosted(o)' => BeingPosted(o)
    BY <2>1, <2>2, NoNewPosting
  <2>4. OneOrder'
    BY <2>1 DEF Turns, OneOrder, Events
  <2>5. QED
    BY <1>1, <1>3, <1>4, <2>3, <2>4, EndKeepsTurns
<1>7. QED
  BY <1>5, <1>6

-----------------------------------------------------------------------------
(* All steps.                                                              *)

LEMMA CrashKeepsTurns ==
    ASSUME Ground, Turns, Crash
    PROVE  Turns'
<1>1. \A l \in Lines : /\ resv'[l].com = resv[l].com /\ resv'[l].by = NoTx
                       /\ line'[l].com = line[l].com /\ line'[l].by = NoTx
  <2>1. resv' = Restarted(resv) /\ line' = Restarted(line)
    BY DEF Crash
  <2>2. \A l \in Lines : resv'[l].com = resv[l].com /\ resv'[l].by = NoTx
    BY <2>1, Tables, Rebooted DEF Ground
  <2>3. \A l \in Lines : line'[l].com = line[l].com /\ line'[l].by = NoTx
    BY <2>1, Tables, Rebooted DEF Ground
  <2>4. QED
    BY <2>2, <2>3
<1>2. /\ \A t \in Txs : tx'[t].op = "idle" /\ tx'[t].order = NoOrder
      /\ \A e \in Events : bus'[e] = 0
      /\ status' = status /\ sent' = sent
  BY DEF Crash, Idle, Begun
<1>3. \A o \in Orders : ~BeingPosted(o)'
  BY <1>2 DEF BeingPosted, Events
<1>4. Alone' /\ Posting'
  BY <1>2, <1>3, NullsAssumption DEF Alone, Posting
<1>5. OneOrder'
  BY <1>2 DEF Turns, OneOrder, Events
<1>6. \A t \in Txs : Turn(t)'
  BY <1>1, <1>2, NullsAssumption DEF Turn, Allowed, Holds, Decided, At
<1>7. \A o \in Orders : Tells(o)'
  BY <1>1, <1>2, TellsIsKept DEF Turns, SameStatus, LinesOf
<1>8. QED
  BY <1>4, <1>5, <1>6, <1>7 DEF Turns

LEMMA InitTurns == Init => Turns
<1>1. SUFFICES ASSUME Init PROVE Turns
  OBVIOUS
<1>2. /\ \A t \in Txs : tx[t].op = "idle" /\ tx[t].order = NoOrder
      /\ \A l \in Lines : /\ resv[l].by = NoTx /\ resv[l].com = NoResv
                          /\ line[l].by = NoTx /\ line[l].com = NoUnits
      /\ \A o \in Orders : status[o] = "NONE"
      /\ \A e \in Events : sent[e] = <<>> /\ bus[e] = 0
  BY <1>1 DEF Init, InventoryInit, Row, NoUnits, Idle, Begun
<1>3. \A t \in Txs : Turn(t)
  BY <1>2, NullsAssumption DEF Turn, Allowed, Holds, Decided, At
<1>4. \A o \in Orders : ~BeingPosted(o)
  BY <1>2 DEF BeingPosted
<1>5. Alone /\ Posting
  BY <1>2, <1>4, NullsAssumption DEF Alone, Posting
<1>6. OneOrder
  BY <1>2, EmptySeq DEF OneOrder
<1>7. ASSUME NEW o \in Orders
      PROVE  Tells(o)
  <2>1. PICK l \in LinesOf(o) : Ordered[l] \in Nat \ {0}
    BY LinesAssumption DEF LinesOf
  <2>2. line[l].com.fulfilled = 0 /\ ~(line[l].com.fulfilled >= Ordered[l])
    BY <1>2, <2>1 DEF LinesOf, NoUnits
  <2>3. \A m \in LinesOf(o) : line[m].com = NoUnits /\ ~Exists(m)
    BY <1>2 DEF LinesOf, Exists, NoResv
  <2>4. QED
    BY <1>2, <2>2, <2>3 DEF Tells
<1>8. QED
  BY <1>3, <1>5, <1>6, <1>7 DEF Turns

\* A step of no transaction that changes no row of an order.
LEMMA AsideKeepsTurns ==
    ASSUME Ground, Turns, UNCHANGED <<resv, line, tx, sent, bus>>,
           \A o \in Orders : SameStatus(o),
           \A u \in Txs, p \in Products : stock[p].by = u => stock'[p].by = u
    PROVE  Turns'
<1>1. \A o \in Orders : BeingPosted(o)' => BeingPosted(o)
  BY NoNewPosting
<1>2. Alone'
  BY <1>1 DEF Turns, Alone
<1>3. OneOrder'
  BY DEF Turns, OneOrder, Events
<1>4. Posting'
  BY <1>1 DEF Turns, Posting, SameStatus
<1>5. ASSUME NEW u \in Txs
      PROVE  Turn(u)'
  <2>1. Spared(u)
    BY DEF Spared, LinesOf
  <2>2. QED
    BY <2>1, TurnIsKept DEF Ground, Turns
<1>6. \A o \in Orders : Tells(o)'
  BY TellsIsKept DEF Turns, LinesOf
<1>7. QED
  BY <1>2, <1>3, <1>4, <1>5, <1>6 DEF Turns

LEMMA NextKeepsTurns ==
    ASSUME Ground, Turns, [Next /\ TakeTurns]_vars
    PROVE  Turns'
<1>1. CASE UNCHANGED vars
  BY <1>1, AsideKeepsTurns DEF vars, SameStatus
<1>2. ASSUME NEW o \in Orders, Create(o) PROVE Turns'
  <2>1. \A q \in Orders : SameStatus(q)
    BY <1>2 DEF Create, SameStatus, Ground, TypeOK
  <2>2. UNCHANGED <<stock, resv, line, tx, sent, bus>>
    BY <1>2 DEF Create, inventoryVars, busVars
  <2>3. QED
    BY <2>1, <2>2, AsideKeepsTurns
<1>3. ASSUME NEW p \in Products, Restock(p) PROVE Turns'
  <2>1. UNCHANGED <<resv, line, tx, sent, bus, status>>
    BY <1>3 DEF Restock, Receive
  <2>2. \A u \in Txs, s \in Products : stock[s].by = u => stock'[s].by = u
    BY <1>3, NullsAssumption, Tables DEF Restock, Receive, Ground
  <2>3. QED
    BY <2>1, <2>2, AsideKeepsTurns DEF SameStatus
<1>4. CASE Crash
  BY <1>4, CrashKeepsTurns
<1>5. ASSUME NEW t \in Txs, Request(t), TakeTurns PROVE Turns'
  BY <1>5, RequestKeepsTurns
<1>6. ASSUME NEW t \in Txs, Handle(t) PROVE Turns'
  BY <1>6, ClaimKeepsTurns, PostLineKeepsTurns, CommitKeepsTurns DEF Handle, Commits
<1>7. ASSUME NEW t \in Txs, Proceed(t) \/ Abort(t) PROVE Turns'
  BY <1>6, <1>7, RollbackKeepsTurns, CommitKeepsTurns, AllocateLineKeepsTurns,
     CancelFindKeepsTurns, CancelLineKeepsTurns, CancelLinesKeepsTurns,
     FulfillLineKeepsTurns, FulfillDecideKeepsTurns
  DEF Proceed, Abort, Commits, AllocateReject, FulfillReject, DeadlockVictim
<1>8. QED
  BY <1>1, <1>2, <1>3, <1>4, <1>5, <1>7 DEF Next, Step

\* A behaviour in which clients take turns is one of the flow.
LEMMA SerialIsSpec == SerialSpec => Spec
BY PTL DEF SerialSpec, Spec

\* What always holds of it does.
LEMMA GroundIsKept == Spec => []Ground
BY Typing, Disciplined, BudgetsAreKept, LedgerIsKept, PTL DEF Ground

LEMMA TurnsAreTaken == SerialSpec => []Turns
<1>1. Ground /\ Turns /\ [Next /\ TakeTurns]_vars => Turns'
  BY NextKeepsTurns
<1>2. QED
  BY <1>1, InitTurns, SerialIsSpec, GroundIsKept, PTL DEF SerialSpec

\* As long as clients take turns, the status of an order says what its lines
\* say, whatever fails, crashes or is delivered twice: FULFILLED exactly when
\* all was fulfilled, nothing fulfilled before that has begun, and neither
\* reserved units nor an ACTIVE reservation once it is CANCELLED.
THEOREM StatusTells == SerialSpec => []StatusTellsLines
<1>1. ASSUME Turns PROVE StatusTellsLines
  <2>1. \A o \in Orders : Tells(o)
    BY <1>1 DEF Turns
  <2>2. QED
    BY <2>1 DEF Tells, StatusTellsLines, NoUnits
<1>2. QED
  BY <1>1, TurnsAreTaken, PTL

-----------------------------------------------------------------------------
(* What is reserved of a product is what is due.                           *)

LEMMA DueTypes ==
    ASSUME NEW r \in [Lines -> RowOf(Reservations, Txs)], NEW t
    PROVE  /\ [l \in Lines |-> Due(r[l].com)] \in [Lines -> Int]
           /\ [l \in Lines |-> Due(Sees(r[l], t))] \in [Lines -> Int]
           /\ \A l \in Lines : Due(Sees(r[l], t)) \in Int
<1>1. \A l \in Lines : r[l].com \in Reservations /\ r[l].cur \in Reservations
  BY DEF RowOf
<1>2. \A l \in Lines : Due(r[l].com) \in Int /\ Due(r[l].cur) \in Int
  BY <1>1 DEF Reservations, Due
<1>3. QED
  BY <1>2 DEF Sees

\* Whoever holds a reservation holds the stock of its product.
LEMMA HeldTogether ==
    ASSUME Ground, Turns, NEW t \in Txs, NEW l \in Lines, resv[l].by = t
    PROVE  stock[ProductOf[l]].by = t
<1>1. tx[t].op \in {"allocate", "cancel", "post"}
  BY DEF Ground, Discipline, Own, Locks
<1>2. tx[t].op # "cancel" => stock[ProductOf[l]].by = t
  BY DEF Ground, Discipline, Own, Locks
<1>3. tx[t].op = "cancel" => stock[ProductOf[l]].by = t
  BY DEF Turns, Turn, Holds
<1>4. QED
  BY <1>1, <1>2, <1>3

\* Every product is in order for every transaction.
LEMMA AllDue ==
    ASSUME Ground, Turns, Outstanding, NEW t \in Txs, NEW p \in Products
    PROVE  Sees(stock[p], t).reserved = ProductSum(DueTo(t), p)
<1>1. CASE stock[p].by = t
  BY <1>1 DEF Outstanding, Sees
<1>2. CASE stock[p].by # t
  <2>1. DueNow \in [Lines -> Int] /\ DueTo(t) \in [Lines -> Int]
    BY DueTypes, Tables DEF Ground, DueNow, DueTo
  <2>2. ASSUME NEW l \in Lines, ProductOf[l] = p
        PROVE  DueTo(t)[l] = DueNow[l]
    <3>1. resv[l].by # t
      BY <1>2, <2>2, HeldTogether
    <3>2. QED
      BY <3>1 DEF DueTo, DueNow, Sees
  <2>3. ProductSum(DueTo(t), p) = ProductSum(DueNow, p)
    BY <2>1, <2>2, ProductSumSame
  <2>4. QED
    BY <1>2, <2>3 DEF Outstanding, Sees
<1>3. QED
  BY <1>1, <1>2

LEMMA WorkKeepsOutstanding ==
    ASSUME TypeOK, TypeOK', Outstanding, NEW t \in Txs, Worked(t),
           \A p \in Products :
               stock'[p].by = t => stock'[p].cur.reserved = ProductSum(DueTo(t)', p)
    PROVE  Outstanding'
<1>1. NoTx \notin Txs
  BY NullsAssumption
<1>2. DueNow' = DueNow
  BY DEF Worked, WrittenRow, DueNow
<1>3. ASSUME NEW u \in Txs, u # t
      PROVE  DueTo(u)' = DueTo(u)
  <2>1. \A l \in Lines : Sees(resv'[l], u) = Sees(resv[l], u)
    BY <1>1, <1>3 DEF Worked, WrittenRow, Sees
  <2>2. QED
    BY <2>1 DEF DueTo
<1>4. ASSUME NEW p \in Products
      PROVE  stock'[p].com.reserved = ProductSum(DueNow', p)
  BY <1>2 DEF Outstanding, Worked, WrittenRow
<1>5. ASSUME NEW u \in Txs, NEW p \in Products, stock'[p].by = u
      PROVE  stock'[p].cur.reserved = ProductSum(DueTo(u)', p)
  <2>1. CASE u = t
    BY <1>5, <2>1
  <2>2. CASE u # t
    <3>1. stock'[p] = stock[p]
      BY <1>1, <1>5, <2>2 DEF Worked, WrittenRow
    <3>2. stock[p].cur.reserved = ProductSum(DueTo(u), p)
      BY <1>5, <3>1 DEF Outstanding
    <3>3. QED
      BY <1>3, <2>2, <3>1, <3>2
  <2>3. QED
    BY <2>1, <2>2
<1>6. QED
  BY <1>4, <1>5 DEF Outstanding

\* A step of t that writes r for the reservation of line l, and changes what
\* is reserved of its product by as much.
LEMMA WriteKeepsOutstanding ==
    ASSUME Ground, TypeOK', Turns, Outstanding, NEW t \in Txs, Worked(t),
           NEW l \in Lines, NEW r, NEW level,
           Wrote(resv, resv', Lines, l, r, t),
           Wrote(stock, stock', Products, ProductOf[l], level, t),
           level.reserved
               = Sees(stock[ProductOf[l]], t).reserved + (Due(r) - Due(Sees(resv[l], t)))
    PROVE  Outstanding'
<1> DEFINE F == DueTo(t)
           E == DueTo(t)'
           p == ProductOf[l]
<1>1. p \in Products /\ stock'[p].cur = level
  BY LinesAssumption DEF Wrote
<1>2. resv' \in [Lines -> RowOf(Reservations, Txs)]
  BY DEF TypeOK, InventoryTypeOK
<1>3. F \in [Lines -> Int] /\ E \in [Lines -> Int]
  BY <1>2, DueTypes, Tables DEF DueTo, Ground
<1>4. F[l] = Due(Sees(resv[l], t)) /\ E[l] = Due(r) /\ \A m \in Lines : m # l => E[m] = F[m]
  BY DEF DueTo, Wrote, Sees
<1>5. \A s \in Products : Sees(stock[s], t).reserved = ProductSum(F, s)
  BY AllDue
<1> HIDE DEF F, E, p
<1>6. ASSUME NEW s \in Products, stock'[s].by = t
      PROVE  stock'[s].cur.reserved = ProductSum(E, s)
  <2>1. CASE s = p
    <3>1. ProductSum(E, p) = ProductSum(F, p) + (E[l] - F[l])
      BY <1>3, <1>4, ProductSumChange DEF p
    <3>2. QED
      BY <1>1, <1>4, <1>5, <2>1, <3>1 DEF p
  <2>2. CASE s # p
    <3>1. stock'[s] = stock[s]
      BY <2>2 DEF Wrote, p
    <3>2. \A m \in Lines : ProductOf[m] = s => E[m] = F[m]
      BY <1>4, <2>2 DEF p
    <3>3. ProductSum(E, s) = ProductSum(F, s)
      BY <1>3, <3>2, ProductSumSame
    <3>4. Sees(stock[s], t) = stock'[s].cur
      BY <1>6, <3>1 DEF Sees
    <3>5. QED
      BY <1>5, <3>3, <3>4
  <2>3. QED
    BY <2>1, <2>2
<1>7. QED
  BY <1>6, WorkKeepsOutstanding DEF Ground, E

LEMMA AllocateLineKeepsOutstanding ==
    ASSUME Ground, TypeOK', Turns, Outstanding, NEW t \in Txs, AllocateLine(t)
    PROVE  Outstanding'
<1> DEFINE i == Item(t)
           l == i.line
           level == [Sees(stock[ProductOf[l]], t) EXCEPT !.reserved = @ + i.qty]
           r == [qty |-> i.qty, fulfilled |-> 0, status |-> "ACTIVE"]
<1>1. /\ tx[t].op = "allocate" /\ tx[t].at = "work" /\ Sees(resv[l], t) = NoResv
      /\ stock' = [stock EXCEPT ![ProductOf[l]] = Put(@, t, level)]
      /\ resv' = [resv EXCEPT ![l] = Put(@, t, r)]
  BY DEF AllocateLine, At, AlreadyReserved, Reserve
<1>2. Worked(t)
  BY AllocateLineKeepsDiscipline DEF Ground
<1>3. /\ l \in Lines /\ ProductOf[l] \in Products /\ i.qty \in Int
      /\ Sees(stock[ProductOf[l]], t) \in StockLevels
  BY <1>1, AtPosition DEF Ground
<1>4. level.reserved
          = Sees(stock[ProductOf[l]], t).reserved + (Due(r) - Due(Sees(resv[l], t)))
  <2>1. Due(r) = i.qty /\ Due(Sees(resv[l], t)) = 0
    BY <1>1, <1>3 DEF Due, NoResv
  <2>2. QED
    BY <1>3, <2>1 DEF StockLevels
<1> HIDE DEF i, l, level, r
<1>5. /\ Wrote(resv, resv', Lines, l, r, t)
      /\ Wrote(stock, stock', Products, ProductOf[l], level, t)
  BY <1>1, <1>3, ResvWritten, StockWritten DEF Ground
<1>6. QED
  BY <1>2, <1>3, <1>4, <1>5, WriteKeepsOutstanding

LEMMA CancelLineKeepsOutstanding ==
    ASSUME Ground, TypeOK', Turns, Outstanding, NEW t \in Txs, CancelLine(t)
    PROVE  Outstanding'
<1> DEFINE i == Item(t)
           l == i.line
           level == [Sees(stock[ProductOf[l]], t) EXCEPT !.reserved = @ - i.qty]
           r == [Sees(resv[l], t) EXCEPT !.status = "CANCELLED"]
<1>1. /\ tx[t].op = "cancel" /\ tx[t].at = "work"
      /\ i.qty > 0 => stock' = [stock EXCEPT ![ProductOf[l]] = Put(@, t, level)]
      /\ resv' = [resv EXCEPT ![l] = Put(@, t, r)]
  BY DEF CancelLine, At, Release
<1>2. Worked(t)
  BY CancelLineKeepsDiscipline DEF Ground
<1>3. /\ l \in Lines /\ ProductOf[l] \in Products /\ i.qty \in Int
      /\ Sees(stock[ProductOf[l]], t) \in StockLevels /\ Sees(resv[l], t) \in Reservations
  BY <1>1, AtPosition DEF Ground
<1>4. /\ resv[l].com.status = "ACTIVE" /\ resv[l].by # t
      /\ i.qty = resv[l].com.qty - resv[l].com.fulfilled /\ i.qty > 0
  BY <1>1, CancelsItem DEF At
<1>5. level.reserved
          = Sees(stock[ProductOf[l]], t).reserved + (Due(r) - Due(Sees(resv[l], t)))
  <2>1. Due(r) = 0 /\ Due(Sees(resv[l], t)) = i.qty
    BY <1>3, <1>4 DEF Due, Reservations, Sees
  <2>2. QED
    BY <1>3, <2>1 DEF StockLevels
<1> HIDE DEF i, l, level, r
<1>6. /\ Wrote(resv, resv', Lines, l, r, t)
      /\ Wrote(stock, stock', Products, ProductOf[l], level, t)
  BY <1>1, <1>3, <1>4, ResvWritten, StockWritten DEF Ground
<1>7. QED
  BY <1>2, <1>3, <1>5, <1>6, WriteKeepsOutstanding

LEMMA PostLineKeepsOutstanding ==
    ASSUME Ground, TypeOK', Turns, Outstanding, NEW t \in Txs, PostLine(t),
           UNCHANGED <<status, line>>
    PROVE  Outstanding'
<1> DEFINE i == Item(t)
           l == i.line
           now == Sees(resv[l], t)
           level == Shipped(Sees(stock[ProductOf[l]], t), i.qty)
           r == Consumed(now, i.qty)
<1>1. /\ tx[t].op = "post" /\ tx[t].at = "work"
      /\ stock' = [stock EXCEPT ![ProductOf[l]] = Put(@, t, level)]
      /\ resv' = [resv EXCEPT ![l] = Put(@, t, r)]
  BY DEF PostLine, At
<1>2. Worked(t)
  BY PostLineKeepsDiscipline DEF Ground
<1>3. /\ l \in Lines /\ ProductOf[l] \in Products /\ i.qty \in Int
      /\ Sees(stock[ProductOf[l]], t) \in StockLevels
  BY <1>1, AtPosition DEF Ground
<1>4. /\ Regular(now, l) /\ now.status = "ACTIVE" /\ now.fulfilled \in Nat
      /\ i.qty \in Nat /\ now.fulfilled + i.qty <= Ordered[l] /\ Regular(r, l)
  BY <1>1, PostsItem DEF At
<1>5. level.reserved = Sees(stock[ProductOf[l]], t).reserved + (Due(r) - Due(now))
  <2>1. Ordered[l] \in Nat
    BY <1>3, LinesAssumption
  <2>2. r.fulfilled = now.fulfilled + i.qty
    BY DEF Consumed
  <2>3. Due(now) = Ordered[l] - now.fulfilled
    BY <1>4 DEF Regular, Due
  <2>4. Due(r) = Ordered[l] - r.fulfilled
    <3> HIDE DEF r
    <3>1. r.fulfilled \in Nat /\ r.fulfilled <= Ordered[l]
      BY <1>4, <2>2
    <3>2. QED
      BY <1>4, <2>1, <3>1 DEF Regular, Due
  <2>5. Sees(stock[ProductOf[l]], t).reserved \in Int
    BY <1>3 DEF StockLevels
  <2>6. level.reserved = Sees(stock[ProductOf[l]], t).reserved - i.qty
    BY DEF Shipped
  <2> HIDE DEF r, now, level
  <2>7. QED
    BY <1>3, <1>4, <2>1, <2>2, <2>3, <2>4, <2>5, <2>6
<1> HIDE DEF i, l, level, r, now
<1>6. /\ Wrote(resv, resv', Lines, l, r, t)
      /\ Wrote(stock, stock', Products, ProductOf[l], level, t)
  BY <1>1, <1>3, ResvWritten, StockWritten DEF Ground
<1>7. QED
  BY <1>2, <1>3, <1>5, <1>6, WriteKeepsOutstanding DEF now

\* The end of t: what is committed is what t saw, or what was.
LEMMA EndKeepsOutstanding ==
    ASSUME Ground, TypeOK', Turns, Outstanding, NEW t \in Txs, NEW ok \in BOOLEAN, Ended(t, ok)
    PROVE  Outstanding'
<1>1. NoTx \notin Txs
  BY NullsAssumption
<1>2. ASSUME NEW p \in Products
      PROVE  stock'[p].com.reserved = ProductSum(DueNow', p)
  <2>1. CASE ok
    <3>1. \A l \in Lines : resv'[l].com = Sees(resv[l], t)
      BY <2>1 DEF Ended, EndedRow, Sees
    <3>2. DueNow' = DueTo(t)
      BY <3>1 DEF DueNow, DueTo
    <3>3. stock'[p].com = Sees(stock[p], t)
      BY <2>1 DEF Ended, EndedRow, Sees
    <3>4. QED
      BY <3>2, <3>3, AllDue
  <2>2. CASE ~ok
    <3>1. DueNow' = DueNow
      BY <2>2 DEF Ended, EndedRow, DueNow
    <3>2. stock'[p].com = stock[p].com
      BY <2>2 DEF Ended, EndedRow
    <3>3. QED
      BY <3>1, <3>2 DEF Outstanding
  <2>3. QED
    BY <2>1, <2>2
<1>3. ASSUME NEW u \in Txs, NEW p \in Products, stock'[p].by = u
      PROVE  stock'[p].cur.reserved = ProductSum(DueTo(u)', p)
  <2>1. u # t /\ stock'[p] = stock[p] /\ stock[p].by = u
    BY <1>1, <1>3 DEF Ended, EndedRow
  <2>2. resv' \in [Lines -> RowOf(Reservations, Txs)]
    BY DEF TypeOK, InventoryTypeOK
  <2>3. DueTo(u) \in [Lines -> Int] /\ DueTo(u)' \in [Lines -> Int]
    BY <2>2, DueTypes, Tables DEF DueTo, Ground
  <2>4. ASSUME NEW l \in Lines, ProductOf[l] = p
        PROVE  DueTo(u)'[l] = DueTo(u)[l]
    <3>1. resv[l].by # t
      BY <2>1, <2>4, HeldTogether
    <3>2. resv'[l] = resv[l]
      BY <3>1 DEF Ended, EndedRow
    <3>3. QED
      BY <3>2 DEF DueTo
  <2>5. ProductSum(DueTo(u)', p) = ProductSum(DueTo(u), p)
    BY <2>3, <2>4, ProductSumSame
  <2>6. QED
    BY <2>1, <2>5 DEF Outstanding
<1>4. QED
  BY <1>2, <1>3 DEF Outstanding

LEMMA InitOutstanding == Init => Outstanding
<1>1. SUFFICES ASSUME Init PROVE Outstanding
  OBVIOUS
<1>2. /\ \A p \in Products : stock[p].by = NoTx /\ stock[p].com.reserved = 0
      /\ \A l \in Lines : DueNow[l] = 0
  BY <1>1 DEF Init, InventoryInit, Row, NoResv, DueNow, Due
<1>3. \A p : ProductSum(DueNow, p) = 0
  BY <1>2, LinesAssumption, GroupOfNone DEF ProductSum
<1>4. QED
  BY <1>2, <1>3, NullsAssumption DEF Outstanding

LEMMA CrashKeepsOutstanding ==
    ASSUME Ground, Outstanding, Crash
    PROVE  Outstanding'
<1>1. stock' = Restarted(stock) /\ resv' = Restarted(resv)
  BY DEF Crash
<1>2. \A p \in Products : stock'[p].com = stock[p].com /\ stock'[p].by = NoTx
  BY <1>1, Tables, Rebooted DEF Ground
<1>3. \A l \in Lines : resv'[l].com = resv[l].com
  BY <1>1, Tables, Rebooted DEF Ground
<1>4. DueNow' = DueNow
  BY <1>3 DEF DueNow
<1>5. QED
  BY <1>2, <1>4, NullsAssumption DEF Outstanding

LEMMA NextKeepsOutstanding ==
    ASSUME Ground, TypeOK', Turns, Outstanding, [Next /\ TakeTurns]_vars
    PROVE  Outstanding'
<1>1. ASSUME UNCHANGED resv,
             \A p \in Products : /\ stock'[p].com.reserved = stock[p].com.reserved
                                 /\ stock'[p].by \in Txs => stock'[p] = stock[p]
      PROVE  Outstanding'
  <2>1. DueNow' = DueNow /\ \A u : DueTo(u)' = DueTo(u)
    BY <1>1 DEF DueNow, DueTo
  <2>2. QED
    BY <1>1, <2>1 DEF Outstanding
<1>2. (\E o \in Orders : Create(o)) \/ UNCHANGED vars => Outstanding'
  BY <1>1 DEF Create, inventoryVars, vars
<1>3. ASSUME NEW p \in Products, Restock(p) PROVE Outstanding'
  <2> DEFINE v == [onHand |-> stock[p].com.onHand + 1, reserved |-> stock[p].com.reserved]
  <2>1. UNCHANGED resv /\ stock' = [stock EXCEPT ![p] = Row(v)]
    BY <1>3 DEF Restock, Receive
  <2>2. v.reserved = stock[p].com.reserved
    OBVIOUS
  <2> HIDE DEF v
  <2>3. QED
    BY <1>1, <2>1, <2>2, NullsAssumption, Tables DEF Row, Ground
<1>4. CASE Crash
  BY <1>4, CrashKeepsOutstanding
<1>5. ASSUME NEW t \in Txs, Request(t) \/ (\E e \in Events : Claim(t, e) /\ UNCHANGED line)
                            \/ CancelFind(t) \/ CancelLines(t) \/ FulfillLine(t)
                            \/ FulfillDecide(t)
      PROVE  Outstanding'
  <2>1. UNCHANGED <<stock, resv>>
    BY <1>5 DEF Request, ConfirmRead, AllocateRead, CancelRead, FulfillRead, Claim,
       CancelFind, CancelLines, FulfillLine, FulfillDecide, inventoryVars
  <2>2. QED
    BY <1>1, <2>1
<1>6. ASSUME NEW t \in Txs, Commits(t) \/ Rollback(t) PROVE Outstanding'
  <2>1. Commits(t) => Ended(t, TRUE)
    <3>1. Locks(t)
      BY DEF Ground, Discipline, Own
    <3>2. QED
      BY <3>1, CommitEnds DEF Ground, Commits, ConfirmCommit, AllocateCommit, CancelCommit,
         FulfillCommit
  <2>2. Rollback(t) => Ended(t, FALSE)
    BY RollbackEnds DEF Ground
  <2>3. QED
    BY <1>6, <2>1, <2>2, EndKeepsOutstanding
<1>7. ASSUME NEW t \in Txs, Handle(t) PROVE Outstanding'
  BY <1>5, <1>6, <1>7, PostLineKeepsOutstanding DEF Handle, Commits
<1>8. ASSUME NEW t \in Txs, Proceed(t) \/ Abort(t) PROVE Outstanding'
  BY <1>5, <1>6, <1>7, <1>8, AllocateLineKeepsOutstanding, CancelLineKeepsOutstanding
  DEF Proceed, Abort, Commits, AllocateReject, FulfillReject, DeadlockVictim
<1>9. QED
  BY <1>2, <1>3, <1>4, <1>5, <1>8 DEF Next, Step

-----------------------------------------------------------------------------
(* Reserved is outstanding, and nothing falls below zero.                  *)

LEMMA OutstandingIsKept == SerialSpec => []Outstanding
<1>1. Ground /\ TypeOK' /\ Turns /\ Outstanding /\ [Next /\ TakeTurns]_vars => Outstanding'
  BY NextKeepsOutstanding
<1>2. QED
  BY <1>1, InitOutstanding, Typing, SerialIsSpec, GroundIsKept, TurnsAreTaken, PTL
     DEF SerialSpec

\* The sum over the lines of a product, of a function that is 0 outside T.
LEMMA ProductSumWhere ==
    ASSUME NEW F \in [Lines -> Int], NEW p,
           NEW T, T \subseteq Lines, \A l \in T : ProductOf[l] = p,
           \A l \in Lines : ProductOf[l] = p /\ l \notin T => F[l] = 0,
           NEW G, \A l \in T : G[l] = F[l]
    PROVE  ProductSum(F, p) = SumFunctionOnSet(G, T)
<1> DEFINE L == MappedTo(Lines, ProductOf, p)
           E == [l \in L |-> F[l]]
<1>1. IsFiniteSet(L) /\ IsFiniteSet(T) /\ T \subseteq L
  BY LinesAssumption, FS_Subset DEF MappedTo
<1>2. /\ \A l \in L : E[l] \in Int
      /\ \A l \in L \ T : E[l] = 0
      /\ \A l \in T : E[l] \in Int /\ G[l] = E[l]
  BY <1>1 DEF MappedTo
<1>3. ProductSum(F, p) = SumFunctionOnSet(E, L)
  BY DEF ProductSum, GroupSum
<1> HIDE DEF L, E
<1>4. SumFunctionOnSet(E, L) = SumFunctionOnSet(E, T)
  BY <1>1, <1>2, SumWhere
<1>5. SumFunctionOnSet(G, T) = SumFunctionOnSet(E, T)
  BY <1>1, <1>2, SumEqual
<1>6. QED
  BY <1>3, <1>4, <1>5

\* As long as clients take turns, what is reserved of a product is, at every
\* step, what the ACTIVE reservations still have to ship: a cancellation
\* gives back exactly that, and no failure or repeated delivery lets any of
\* it leak.
THEOREM ReservedExactly == SerialSpec => []ReservedIsOutstanding
<1>1. ASSUME TypeOK, Outstanding PROVE ReservedIsOutstanding
  <2>1. ASSUME NEW p \in Products
        PROVE  stock[p].com.reserved =
                  SumOver({l \in Lines : ProductOf[l] = p /\ resv[l].com.status = "ACTIVE"},
                          LAMBDA l : resv[l].com.qty - resv[l].com.fulfilled)
    <3> DEFINE T == {l \in Lines : ProductOf[l] = p /\ resv[l].com.status = "ACTIVE"}
               G == [l \in T |-> resv[l].com.qty - resv[l].com.fulfilled]
    <3>1. /\ DueNow \in [Lines -> Int]
          /\ \A l \in Lines : ProductOf[l] = p /\ l \notin T => DueNow[l] = 0
      BY <1>1, DueTypes, Tables DEF DueNow, Due
    <3>2. T \subseteq Lines /\ \A l \in T : ProductOf[l] = p
      OBVIOUS
    <3>3. \A l \in T : G[l] = DueNow[l]
      BY DEF DueNow, Due
    <3> HIDE DEF T, G
    <3>4. ProductSum(DueNow, p) = SumFunctionOnSet(G, T)
      BY <3>1, <3>2, <3>3, ProductSumWhere
    <3>5. QED
      BY <1>1, <3>4 DEF Outstanding, SumOver, T, G
  <2>2. QED
    BY <2>1 DEF ReservedIsOutstanding
<1>2. QED
  BY <1>1, Typing, SerialIsSpec, OutstandingIsKept, PTL

\* As long as clients take turns, neither what is reserved of a product nor
\* what is on hand ever falls below zero: no line ships more than it has
\* reserved, whatever is delivered twice.
THEOREM NothingNegative == SerialSpec => []NeverNegative
<1>1. ASSUME TypeOK, Turns, Outstanding, NoOversell PROVE NeverNegative
  <2>1. ASSUME NEW l \in Lines
        PROVE  DueNow[l] \in Nat
    <3>1. resv[l].com \in Reservations /\ OrderOf[l] \in Orders
      BY <1>1, Tables, LinesAssumption DEF RowOf
    <3>2. Tells(OrderOf[l]) /\ l \in LinesOf(OrderOf[l])
      BY <1>1, <3>1 DEF Turns, LinesOf
    <3>3. resv[l].com.status = "ACTIVE" => Regular(resv[l].com, l)
      BY <3>2 DEF Tells, Exists
    <3>4. QED
      BY <3>1, <3>3 DEF Regular, Reservations, DueNow, Due
  <2>2. ASSUME NEW p \in Products
        PROVE  stock[p].com.reserved >= 0 /\ stock[p].com.onHand >= 0
    <3> DEFINE L == MappedTo(Lines, ProductOf, p)
               E == [l \in L |-> DueNow[l]]
    <3>1. IsFiniteSet(L) /\ \A l \in L : E[l] \in Nat
      BY <2>1, LinesAssumption, FS_Subset DEF MappedTo
    <3>2. stock[p].com.reserved = SumFunctionOnSet(E, L)
      BY <1>1 DEF Outstanding, ProductSum, GroupSum
    <3> HIDE DEF L, E
    <3>3. stock[p].com.reserved \in Nat
      BY <3>1, <3>2, SumType
    <3>4. stock[p].com \in StockLevels /\ stock[p].com.reserved <= stock[p].com.onHand
      BY <1>1, Tables DEF RowOf, NoOversell
    <3>5. QED
      BY <3>3, <3>4 DEF StockLevels
  <2>3. QED
    BY <2>2 DEF NeverNegative
<1>2. QED
  BY <1>1, Typing, SerialIsSpec, NeverOversold, TurnsAreTaken, OutstandingIsKept, PTL

-----------------------------------------------------------------------------
(* The refinement.                                                         *)

Levels == [p \in Products |-> stock[p].com]
Held == [l \in Lines |-> resv[l].com]
Left == [l \in Lines |-> line[l].com]

\* Its sums are the ones of this module.
LEMMA AtomicSum ==
    ASSUME NEW F, NEW S
    PROVE  Atomic!SumFunctionOnSet(F, S) = SumFunctionOnSet(F, S)
BY DEF Atomic!SumFunctionOnSet, Atomic!FoldFunctionOnSet, Atomic!MapThenFoldSet,
       SumFunctionOnSet, FoldFunctionOnSet, MapThenFoldSet

\* Units as AtomicOutbound counts them.
LEMMA AtomicUnits ==
    ASSUME NEW items, NEW l
    PROVE  Atomic!Units(items, l) = Taken(items, DOMAIN items, l)
BY AtomicSum DEF Atomic!Units, Atomic!SumOver, Taken, OfLine

LEMMA InitIsAtomic == Init => Atomic!Init
<1>1. SUFFICES ASSUME Init PROVE Atomic!Init
  OBVIOUS
<1>2. /\ Levels = [p \in Products |-> [onHand |-> OnHand[p], reserved |-> 0]]
      /\ Held = [l \in Lines |-> NoResv]
      /\ Left = [l \in Lines |-> [reserved |-> 0, fulfilled |-> 0]]
  BY <1>1 DEF Init, InventoryInit, Row, Levels, Held, Left
<1>3. Claimed = {}
  BY <1>1 DEF Init, InventoryInit, Row, Claimed
<1>4. QED
  BY <1>1, <1>2, <1>3 DEF Init, InventoryInit, Atomic!Init, Levels, Held, Left, Claimed

\* A step that commits nothing.
Unseen == UNCHANGED <<status, Levels, Held, Left, sent, Claimed>>

LEMMA UnseenIsStutter ==
    ASSUME Unseen
    PROVE  UNCHANGED Atomic!state
BY DEF Unseen, Atomic!state, Levels, Held, Left, Claimed

LEMMA SameRows ==
    ASSUME \A p \in Products : stock'[p].com = stock[p].com,
           \A l \in Lines : resv'[l].com = resv[l].com,
           \A l \in Lines : line'[l].com = line[l].com,
           \A e \in Events : claim'[e].com = claim[e].com
    PROVE  UNCHANGED <<Levels, Held, Left, Claimed>>
<1>1. Claimed' = Claimed
  BY Zenon DEF Claimed, Events
<1>2. QED
  BY <1>1 DEF Levels, Held, Left

\* A step of work commits nothing.
LEMMA WorkIsUnseen ==
    ASSUME NEW t \in Txs, Worked(t), UNCHANGED status
    PROVE  Unseen
<1>1. \A e \in Events : claim'[e].com = claim[e].com
  BY Zenon DEF Worked, WrittenRow
<1>2. QED
  BY <1>1, SameRows DEF Unseen, Worked, WrittenRow

LEMMA CrashIsUnseen ==
    ASSUME Ground, Crash
    PROVE  Unseen
<1>1. /\ stock' = Restarted(stock) /\ resv' = Restarted(resv)
      /\ line' = Restarted(line) /\ claim' = Restarted(claim)
      /\ UNCHANGED <<status, sent>>
  BY DEF Crash
<1>2. \A p \in Products : stock'[p].com = stock[p].com
  BY <1>1, Tables, Rebooted DEF Ground
<1>3. \A l \in Lines : resv'[l].com = resv[l].com
  BY <1>1, Tables, Rebooted DEF Ground
<1>4. \A l \in Lines : line'[l].com = line[l].com
  BY <1>1, Tables, Rebooted DEF Ground
<1>5. \A e \in Events : claim'[e].com = claim[e].com
  <2>1. claim \in [Events -> RowOf(BOOLEAN, Txs)]
    BY Tables DEF Ground
  <2>2. \A e \in Events : Restarted(claim)[e].com = claim[e].com
    BY <2>1, Rebooted
  <2>3. QED
    BY <1>1, <2>2, Zenon
<1>6. QED
  BY <1>1, <1>2, <1>3, <1>4, <1>5, SameRows DEF Unseen

\* What the end of t leaves of the committed rows.
LEMMA EndLeaves ==
    ASSUME Ground, NEW t \in Txs, NEW ok \in BOOLEAN, Ended(t, ok)
    PROVE  /\ ~ok \/ tx[t].op # "post" => Claimed' = Claimed
           /\ ~ok \/ tx[t].op \notin {"allocate", "cancel", "fulfill"} => Left' = Left
           /\ ~ok \/ tx[t].op \notin {"allocate", "cancel", "post"} =>
                Levels' = Levels /\ Held' = Held
<1>1. Locks(t)
  BY DEF Ground, Discipline, Own
<1>2. ASSUME ~ok \/ tx[t].op # "post"
      PROVE  Claimed' = Claimed
  <2>1. ok => \A e \in Events : claim[e].by # t
    BY <1>1, <1>2 DEF Locks
  <2>2. \A e \in Events : claim'[e].com = claim[e].com
    BY <2>1, Zenon DEF Ended, EndedRow
  <2>3. QED
    BY <2>2, Zenon DEF Claimed, Events
<1>3. ASSUME ~ok \/ tx[t].op \notin {"allocate", "cancel", "fulfill"}
      PROVE  \A l \in Lines : line'[l].com = line[l].com
  BY <1>1, <1>3 DEF Locks, Ended, EndedRow
<1>4. ASSUME ~ok \/ tx[t].op \notin {"allocate", "cancel", "post"}
      PROVE  /\ \A p \in Products : stock'[p].com = stock[p].com
             /\ \A l \in Lines : resv'[l].com = resv[l].com
  BY <1>1, <1>4 DEF Locks, Ended, EndedRow
<1>5. QED
  BY <1>2, <1>3, <1>4 DEF Levels, Held, Left

LEMMA RollbackIsUnseen ==
    ASSUME Ground, NEW t \in Txs, Rollback(t)
    PROVE  Unseen
<1>1. Ended(t, FALSE) /\ UNCHANGED <<status, sent>>
  BY RollbackEnds DEF Ground, Rollback
<1>2. QED
  BY <1>1, EndLeaves DEF Unseen

-----------------------------------------------------------------------------
(* The commits, one by one.                                                *)

\* A commit makes of each row what t saw of it.  The stock follows the
\* reservations: it changes by what they lose, and by what they are shipped.
LEMMA CommitLeavesSums ==
    ASSUME Ground, Turns, Outstanding, NEW t \in Txs, Ended(t, TRUE), NEW p \in Products
    PROVE  /\ Levels'[p] = Sees(stock[p], t) /\ Levels'[p] \in StockLevels
           /\ Levels[p] \in StockLevels
           /\ Levels[p].reserved = ProductSum(DueNow, p)
           /\ Levels'[p].reserved = ProductSum(DueTo(t), p)
           /\ Levels'[p].onHand
                = Levels[p].onHand - (ProductSum(Seen(t), p) - ProductSum(Stored, p))
<1>1. Levels'[p] = Sees(stock[p], t) /\ Levels[p] = stock[p].com
  BY DEF Ended, EndedRow, Sees, Levels
<1>2. stock[p].com \in StockLevels /\ Sees(stock[p], t) \in StockLevels
  BY Tables DEF Ground, RowOf, Sees
<1>3. stock[p].com.reserved = ProductSum(DueNow, p)
  BY DEF Outstanding
<1>4. Sees(stock[p], t).reserved = ProductSum(DueTo(t), p)
  BY AllDue
<1>5. OnHand[p] + received[p] - Sees(stock[p], t).onHand = ProductSum(Seen(t), p)
  BY InBalance DEF Ground
<1>6. OnHand[p] + received[p] - stock[p].com.onHand = ProductSum(Stored, p)
  BY DEF Ground, Ledger, Shelved
<1>7. OnHand[p] \in Int /\ received[p] \in Int
  BY StockAssumption DEF Ground, TypeOK, InventoryTypeOK
<1>8. Sees(stock[p], t).onHand = stock[p].com.onHand - (ProductSum(Seen(t), p) - ProductSum(Stored, p))
  <2>1. stock[p].com.onHand \in Int /\ Sees(stock[p], t).onHand \in Int
    BY <1>2 DEF StockLevels
  <2>2. QED
    BY <1>5, <1>6, <1>7, <2>1
<1>9. QED
  BY <1>1, <1>2, <1>3, <1>4, <1>8

\* The end of t does not ship: only a handler does.
LEMMA ShipsNothing ==
    ASSUME Ground, NEW t \in Txs, tx[t].op # "post"
    PROVE  /\ \A l \in Lines : Sees(resv[l], t).fulfilled = resv[l].com.fulfilled
           /\ Seen(t) = Stored
<1>1. ASSUME NEW l \in Lines
      PROVE  Sees(resv[l], t).fulfilled = resv[l].com.fulfilled
  <2>1. Sees(resv[l], t).fulfilled = resv[l].com.fulfilled + 0
    BY SoFar DEF PostedBy, Ground
  <2>2. resv[l].com \in Reservations
    BY Tables DEF RowOf, Ground
  <2>3. QED
    BY <2>1, <2>2 DEF Reservations
<1>2. QED
  BY <1>1 DEF Seen, Stored

\* If the reservations change what is due by Delta, so does what is reserved.
LEMMA CommitRereserves ==
    ASSUME Ground, Turns, Outstanding, NEW t \in Txs, Ended(t, TRUE),
           NEW Delta \in [Lines -> Int],
           \A l \in Lines : DueTo(t)[l] = DueNow[l] + Delta[l],
           NEW p \in Products
    PROVE  Levels'[p].reserved = Levels[p].reserved + ProductSum(Delta, p)
<1>1. DueNow \in [Lines -> Int] /\ DueTo(t) \in [Lines -> Int]
  BY DueTypes, Tables DEF Ground, DueNow, DueTo
<1>2. ProductSum(DueTo(t), p) = ProductSum(DueNow, p) + ProductSum(Delta, p)
  <2> DEFINE D == DueTo(t)
             F == DueNow
  <2>1. /\ D \in [Lines -> Int] /\ F \in [Lines -> Int]
        /\ \A l \in Lines : D[l] = F[l] + Delta[l]
    BY <1>1
  <2> HIDE DEF D, F
  <2>2. GroupSum(D, Lines, ProductOf, p)
            = GroupSum(F, Lines, ProductOf, p) + GroupSum(Delta, Lines, ProductOf, p)
    BY <2>1, LinesAssumption, GroupPlus
  <2>3. QED
    BY <2>2 DEF ProductSum, D, F
<1>3. QED
  BY <1>2, CommitLeavesSums

LEMMA CommitKeepsOnHand ==
    ASSUME Ground, Turns, Outstanding, NEW t \in Txs, Ended(t, TRUE), tx[t].op # "post",
           NEW p \in Products
    PROVE  Levels'[p].onHand = Levels[p].onHand
<1>1. Levels'[p].onHand = Levels[p].onHand - (ProductSum(Stored, p) - ProductSum(Stored, p))
  BY CommitLeavesSums, ShipsNothing
<1>2. Stored \in [Lines -> Int]
  BY FulfilledTypes, Tables DEF Ground, Stored
<1>3. ProductSum(Stored, p) \in Int
  BY <1>2, ProductSumType
<1>4. Levels[p].onHand \in Int
  BY CommitLeavesSums DEF StockLevels
<1>5. QED
  BY <1>1, <1>3, <1>4

LEMMA Rereserves ==
    ASSUME NEW x \in StockLevels, NEW y \in StockLevels, NEW s,
           y.reserved = x.reserved + s, y.onHand = x.onHand
    PROVE  y = [x EXCEPT !.reserved = @ + s]
BY DEF StockLevels

LEMMA ConfirmIsAtomic ==
    ASSUME Ground, Turns, NEW t \in Txs, ConfirmCommit(t)
    PROVE  \E o \in Orders : Atomic!Confirm(o)
<1>1. tx[t].op = "confirm" /\ tx[t].order \in Orders /\ Allowed(t)
  BY Fields DEF ConfirmCommit, At, Ground, Turns, Turn
<1>2. Ended(t, TRUE) /\ sent' = sent
  <2>1. Locks(t)
    BY DEF Ground, Discipline, Own
  <2>2. QED
    BY <2>1, CommitEnds DEF ConfirmCommit, Ground, busVars
<1>3. UNCHANGED <<Levels, Held, Left, Claimed>>
  BY <1>1, <1>2, EndLeaves
<1>4. PICK o \in Orders : o = tx[t].order
  BY <1>1
<1>5. <<status[o], "CONFIRMED">> \in Transitions /\ status' = [status EXCEPT ![o] = "CONFIRMED"]
  BY <1>1, <1>4 DEF ConfirmCommit, Allowed, Transitions, SalesTransitions
<1>6. Atomic!Confirm(o)
  BY <1>2, <1>3, <1>5 DEF Atomic!Confirm, Atomic!Moves, Levels, Held, Left, Claimed
<1>7. QED
  BY <1>6

\* An allocation commits a reservation of every line of its order.
LEMMA AllocateIsAtomic ==
    ASSUME Ground, Turns, Outstanding, NoOversell, NEW t \in Txs, AllocateCommit(t)
    PROVE  \E o \in Orders : Atomic!Allocate(o)
<1>1. /\ tx[t].op = "allocate" /\ tx[t].at = "commit" /\ tx[t].order \in Orders
      /\ Allowed(t) /\ Holds(t) /\ Own(t)
  BY Fields DEF AllocateCommit, At, Ground, Turns, Turn, Discipline
<1>2. Ended(t, TRUE) /\ sent' = sent
  BY <1>1, CommitEnds DEF AllocateCommit, Ground, busVars, Own
<1>3. Claimed' = Claimed
  BY <1>1, <1>2, EndLeaves
<1>4. PICK o \in Orders : o = tx[t].order
  BY <1>1
<1>5. <<status[o], "ALLOCATED">> \in Transitions /\ status' = [status EXCEPT ![o] = "ALLOCATED"]
  BY <1>1, <1>4 DEF AllocateCommit, Allowed, Transitions, SalesTransitions
<1>6. ASSUME NEW l \in LinesOf(o)
      PROVE  /\ resv[l].com = NoResv
             /\ resv'[l].com = [qty |-> Ordered[l], fulfilled |-> 0, status |-> "ACTIVE"]
             /\ Sees(resv[l], t) = resv'[l].com
             /\ line'[l].com = [line[l].com EXCEPT !.reserved = Ordered[l]]
  <2>1. l \in Lines /\ Ordered[l] \in Nat /\ Ordered[l] > 0
    BY LinesAssumption DEF LinesOf
  <2>2. resv[l].by = t
    <3>1. PICK k \in Positions(t) : LineAt(t, k) = l
      BY <1>1, <1>4 DEF Own, Working, Allocates
    <3>2. k < tx[t].next
      BY <1>1, Fields DEF Own, Finishes, Positions, Ground
    <3>3. QED
      BY <1>1, <3>1, <3>2 DEF Own, Working, Allocates
  <2>3. resv[l].com = NoResv
    BY <1>1, <2>1, <2>2 DEF Own, Writes, Exists, Ground, Discipline, Reserved
  <2>4. /\ Regular(resv[l].cur, l) /\ line[l].by = t /\ line[l].cur.reserved = Ordered[l]
    BY <1>1, <2>1, <2>2 DEF Holds
  <2>5. /\ resv[l].cur \in Reservations
        /\ line[l].cur \in Quantities /\ line[l].com \in Quantities
    BY <2>1, Tables DEF RowOf, Ground
  <2>6. resv[l].cur.fulfilled = 0
    BY <1>1, <2>1, <2>2, <2>3, ShipsNothing DEF Sees, NoResv
  <2>7. resv[l].cur = [qty |-> Ordered[l], fulfilled |-> 0, status |-> "ACTIVE"]
    BY <2>1, <2>4, <2>5, <2>6 DEF Regular, Reservations
  <2>8. line[l].cur.fulfilled = line[l].com.fulfilled
    <3>1. Sees(line[l], t).fulfilled = line[l].com.fulfilled + 0
      BY <1>1, <2>1, SoFar DEF SoldBy, Ground
    <3>2. QED
      BY <2>4, <2>5, <3>1 DEF Sees, Quantities
  <2>9. line[l].cur = [line[l].com EXCEPT !.reserved = Ordered[l]]
    BY <2>4, <2>5, <2>8 DEF Quantities
  <2>10. resv'[l].com = resv[l].cur /\ line'[l].com = line[l].cur
    BY <1>2, <2>1, <2>2, <2>4 DEF Ended, EndedRow
  <2>11. QED
    BY <2>2, <2>3, <2>7, <2>9, <2>10 DEF Sees
<1>7. ASSUME NEW l \in Lines, l \notin LinesOf(o)
      PROVE  /\ resv'[l].com = resv[l].com /\ line'[l].com = line[l].com
             /\ Sees(resv[l], t) = resv[l].com
  <2>1. resv[l].by # t /\ line[l].by # t
    BY <1>1, <1>4, <1>7 DEF Own, Locks, LinesOf
  <2>2. QED
    BY <1>2, <2>1 DEF Ended, EndedRow, Sees
<1> DEFINE Delta == [l \in Lines |-> IF l \in LinesOf(o) THEN Ordered[l] ELSE 0]
<1>8. /\ Delta \in [Lines -> Int]
      /\ \A l \in Lines \ LinesOf(o) : Delta[l] = 0
      /\ \A l \in LinesOf(o) : Delta[l] = Ordered[l]
      /\ LinesOf(o) \subseteq Lines
  BY LinesAssumption DEF LinesOf
<1>9. ASSUME NEW l \in Lines
      PROVE  DueTo(t)[l] = DueNow[l] + Delta[l]
  <2>1. resv[l].com \in Reservations /\ Ordered[l] \in Int
    BY Tables, LinesAssumption DEF RowOf, Ground
  <2>2. DueNow[l] \in Int
    BY <2>1 DEF Reservations, DueNow, Due
  <2>3. CASE l \in LinesOf(o)
    <3>0. /\ resv[l].com = NoResv
          /\ Sees(resv[l], t) = [qty |-> Ordered[l], fulfilled |-> 0, status |-> "ACTIVE"]
      BY <1>6, <2>3, Zenon
    <3>1. DueNow[l] = 0
      BY <3>0 DEF DueNow, Due, NoResv
    <3>2. DueTo(t)[l] = Due([qty |-> Ordered[l], fulfilled |-> 0, status |-> "ACTIVE"])
      BY <3>0 DEF DueTo
    <3>3. DueTo(t)[l] = Ordered[l]
      BY <2>1, <3>2 DEF Due
    <3>4. QED
      BY <1>8, <2>1, <2>3, <3>1, <3>3
  <2>4. CASE l \notin LinesOf(o)
    <3>1. DueTo(t)[l] = DueNow[l]
      BY <1>7, <2>4 DEF DueTo, DueNow
    <3>2. QED
      BY <1>8, <2>2, <2>4, <3>1
  <2>5. QED
    BY <2>3, <2>4
<1> HIDE DEF Delta
<1>10. ASSUME NEW p \in Products
       PROVE  /\ Levels'[p] = [Levels[p] EXCEPT !.reserved = @
                    + Atomic!SumOver({l \in LinesOf(o) : ProductOf[l] = p}, LAMBDA l : Ordered[l])]
              /\ Levels'[p].reserved <= Levels[p].onHand
  <2> DEFINE T == {l \in LinesOf(o) : ProductOf[l] = p}
             G == [l \in T |-> Ordered[l]]
  <2>1. /\ T \subseteq Lines /\ \A l \in T : ProductOf[l] = p /\ G[l] = Delta[l]
        /\ \A l \in Lines : ProductOf[l] = p /\ l \notin T => Delta[l] = 0
    BY <1>8
  <2>2. /\ Levels'[p].reserved = Levels[p].reserved + SumFunctionOnSet(G, T)
        /\ Levels'[p].onHand = Levels[p].onHand
        /\ Levels'[p] \in StockLevels /\ Levels[p] \in StockLevels
    <3> HIDE DEF G, T
    <3>1. tx[t].op # "post" /\ Ended(t, TRUE) /\ Delta \in [Lines -> Int]
      BY <1>1, <1>2, <1>8
    <3>2. Levels'[p].reserved = Levels[p].reserved + ProductSum(Delta, p)
      BY <1>9, <3>1, CommitRereserves
    <3>3. ProductSum(Delta, p) = SumFunctionOnSet(G, T)
      BY <2>1, <3>1, ProductSumWhere
    <3>4. QED
      BY <3>1, <3>2, <3>3, CommitKeepsOnHand, CommitLeavesSums
  <2>3. Atomic!SumOver(T, LAMBDA l : Ordered[l]) = SumFunctionOnSet(G, T)
    BY AtomicSum DEF Atomic!SumOver
  <2>4. Levels'[p].reserved <= Levels'[p].onHand
    BY <1>2, CommitLeavesSums, SeesCovered DEF Ground
  <2>5. Levels'[p] = [Levels[p] EXCEPT !.reserved = @ + SumFunctionOnSet(G, T)]
    BY <2>2, Rereserves
  <2>6. QED
    BY <2>2, <2>3, <2>4, <2>5
<1>11. Atomic!Allocate(o)
  <2>1. Atomic!LinesOf(o) = LinesOf(o)
    BY DEF Atomic!LinesOf, LinesOf
  <2>2. /\ \A l \in LinesOf(o) : Held[l] = NoResv
        /\ Held' = [l \in Lines |->
              IF l \in LinesOf(o)
              THEN [qty |-> Ordered[l], fulfilled |-> 0, status |-> "ACTIVE"] ELSE Held[l]]
        /\ Left' = [l \in Lines |->
              IF l \in LinesOf(o) THEN [Left[l] EXCEPT !.reserved = Ordered[l]] ELSE Left[l]]
    BY <1>6, <1>7 DEF Held, Left, LinesOf
  <2>3. Levels' = [p \in Products |-> [Levels[p] EXCEPT !.reserved = @
            + Atomic!SumOver({l \in LinesOf(o) : ProductOf[l] = p}, LAMBDA l : Ordered[l])]]
    <3>1. Levels' = [p \in Products |-> Levels'[p]]
      BY DEF Levels
    <3>2. QED
      BY <1>10, <3>1
  <2>4. \A p \in Products : Levels'[p] # Levels[p] => Levels'[p].reserved <= Levels[p].onHand
    BY <1>10
  <2>5. <<status[o], "ALLOCATED">> \in Transitions
    BY <1>5
  <2>6. Atomic!Allocate(o)!1
    BY <1>5 DEF Atomic!Moves
  <2>7. Atomic!Allocate(o)!2
    BY <2>1, <2>2 DEF Held
  <2>8. Atomic!Allocate(o)!3
    BY <2>1, <2>3 DEF Levels, Atomic!Rereserved, Atomic!SumOver
  <2>9. Atomic!Allocate(o)!4
    BY <2>4 DEF Levels
  <2>10. Atomic!Allocate(o)!5
    BY <2>1, <2>2 DEF Held
  <2>11. Atomic!Allocate(o)!6
    BY <2>1, <2>2 DEF Left
  <2>12. Atomic!Allocate(o)!7
    BY <1>2, <1>3 DEF Claimed
  <2>13. QED
    BY <2>6, <2>7, <2>8, <2>9, <2>10, <2>11, <2>12 DEF Atomic!Allocate
<1>12. QED
  BY <1>11

\* A cancellation commits the release of every reservation that was open.
LEMMA CancelIsAtomic ==
    ASSUME Ground, Turns, Outstanding, NEW t \in Txs, CancelCommit(t)
    PROVE  \E o \in Orders : Atomic!Cancel(o)
<1>1. /\ tx[t].op = "cancel" /\ tx[t].at = "commit" /\ tx[t].order \in Orders
      /\ Allowed(t) /\ Holds(t) /\ Own(t) /\ Releases(t)
  BY Fields DEF CancelCommit, At, Ground, Turns, Turn, Discipline
<1>2. Ended(t, TRUE) /\ sent' = sent
  BY <1>1, CommitEnds DEF CancelCommit, Ground, busVars, Own
<1>3. Claimed' = Claimed
  BY <1>1, <1>2, EndLeaves
<1>4. PICK o \in Orders : o = tx[t].order
  BY <1>1
<1>5. <<status[o], "CANCELLED">> \in Transitions /\ status' = [status EXCEPT ![o] = "CANCELLED"]
  BY <1>1, <1>4 DEF CancelCommit, Allowed
<1> DEFINE open == {l \in LinesOf(o) : resv[l].com.status = "ACTIVE"}
<1>6. ASSUME NEW l \in open
      PROVE  Sees(resv[l], t) = [resv[l].com EXCEPT !.status = "CANCELLED"]
  <2>1. l \in Lines
    BY DEF LinesOf
  <2>2. PICK k \in Positions(t) : LineAt(t, k) = l
    BY <1>1, <1>4 DEF Releases
  <2>3. k < tx[t].next
    BY <1>1, Fields DEF Releases, Positions, Ground
  <2>4. resv[l].by = t
    BY <1>1, <2>2, <2>3 DEF Releases
  <2>5. QED
    BY <1>1, <2>1, <2>4 DEF Holds, Sees
<1>7. ASSUME NEW l \in Lines, l \notin open
      PROVE  Sees(resv[l], t) = resv[l].com
  <2>1. ASSUME resv[l].by = t PROVE FALSE
    <3>1. PICK k \in Positions(t) : LineAt(t, k) = l
      BY <1>1, <2>1 DEF Holds
    <3>2. OrderOf[l] = tx[t].order /\ resv[l].com.status = "ACTIVE"
      BY <1>1, <3>1 DEF Releases
    <3>3. QED
      BY <1>4, <1>7, <3>2 DEF LinesOf
  <2>2. QED
    BY <2>1 DEF Sees
<1>8. ASSUME NEW l \in Lines
      PROVE  /\ resv[l].com \in Reservations /\ resv[l].com.qty \in Int
             /\ resv[l].com.fulfilled \in Int
             /\ line[l].com \in Quantities /\ Sees(line[l], t) \in Quantities
             /\ Sees(line[l], t).fulfilled = line[l].com.fulfilled
  <2>1. Sees(line[l], t).fulfilled = line[l].com.fulfilled + 0
    BY <1>1, SoFar DEF SoldBy, Ground
  <2>2. /\ resv[l].com \in Reservations /\ line[l].com \in Quantities
        /\ Sees(line[l], t) \in Quantities
    BY Tables DEF RowOf, Ground, Sees
  <2>3. QED
    BY <2>1, <2>2 DEF Quantities, Reservations
<1>9. ASSUME NEW l \in Lines
      PROVE  line'[l].com = IF l \in LinesOf(o) THEN [line[l].com EXCEPT !.reserved = 0]
                            ELSE line[l].com
  <2>1. line'[l].com = Sees(line[l], t)
    BY <1>2 DEF Ended, EndedRow, Sees
  <2>2. l \in LinesOf(o) => Sees(line[l], t).reserved = 0
    BY <1>1, <1>4 DEF Releases
  <2>3. l \in LinesOf(o) => Sees(line[l], t) = [line[l].com EXCEPT !.reserved = 0]
    BY <1>8, <2>2 DEF Quantities
  <2>4. l \notin LinesOf(o) => Sees(line[l], t) = line[l].com
    BY <1>1, <1>4 DEF Holds, For, LinesOf, Sees
  <2>5. QED
    BY <2>1, <2>3, <2>4
<1>10. \A l \in Lines : resv'[l].com = Sees(resv[l], t)
  BY <1>2 DEF Ended, EndedRow, Sees
<1> DEFINE Delta == [l \in Lines |->
                IF l \in open THEN resv[l].com.fulfilled - resv[l].com.qty ELSE 0]
<1>11. /\ open \subseteq Lines
       /\ Delta \in [Lines -> Int]
       /\ \A l \in Lines \ open : Delta[l] = 0
       /\ \A l \in open : Delta[l] = resv[l].com.fulfilled - resv[l].com.qty
  BY <1>8 DEF LinesOf
<1>12. ASSUME NEW l \in Lines
       PROVE  DueTo(t)[l] = DueNow[l] + Delta[l]
  <2>1. DueTo(t)[l] = Due(Sees(resv[l], t)) /\ DueNow[l] = Due(resv[l].com)
    BY DEF DueTo, DueNow
  <2>2. CASE l \in open
    <3>1. resv[l].com.status = "ACTIVE"
      BY <2>2
    <3>2. Due(Sees(resv[l], t)) = 0
      BY <1>6, <1>8, <2>2 DEF Due, Reservations
    <3>3. Due(resv[l].com) = resv[l].com.qty - resv[l].com.fulfilled
      BY <3>1 DEF Due
    <3>4. Delta[l] = resv[l].com.fulfilled - resv[l].com.qty
      BY <1>11, <2>2
    <3> HIDE DEF Delta, open
    <3>5. QED
      BY <1>8, <2>1, <3>2, <3>3, <3>4
  <2>3. CASE l \notin open
    <3>1. Due(Sees(resv[l], t)) = Due(resv[l].com) /\ Delta[l] = 0
      BY <1>7, <1>11, <2>3
    <3>2. Due(resv[l].com) \in Int
      BY <1>8 DEF Due, Reservations
    <3> HIDE DEF Delta, open
    <3>3. QED
      BY <2>1, <3>1, <3>2
  <2>4. QED
    BY <2>2, <2>3
<1> HIDE DEF Delta
<1>13. ASSUME NEW p \in Products
       PROVE  Levels'[p] = [Levels[p] EXCEPT !.reserved = @
                  + Atomic!SumOver({l \in open : ProductOf[l] = p},
                                   LAMBDA l : Held[l].fulfilled - Held[l].qty)]
  <2> DEFINE T == {l \in open : ProductOf[l] = p}
             G == [l \in T |-> Held[l].fulfilled - Held[l].qty]
  <2>1. /\ T \subseteq Lines /\ \A l \in T : ProductOf[l] = p /\ G[l] = Delta[l]
        /\ \A l \in Lines : ProductOf[l] = p /\ l \notin T => Delta[l] = 0
    BY <1>11 DEF Held
  <2>2. Atomic!SumOver(T, LAMBDA l : Held[l].fulfilled - Held[l].qty)
            = SumFunctionOnSet(G, T)
    BY AtomicSum DEF Atomic!SumOver
  <2>3. /\ Levels'[p].reserved = Levels[p].reserved + SumFunctionOnSet(G, T)
        /\ Levels'[p].onHand = Levels[p].onHand
        /\ Levels'[p] \in StockLevels /\ Levels[p] \in StockLevels
    <3> HIDE DEF G, T
    <3>1. tx[t].op # "post" /\ Ended(t, TRUE) /\ Delta \in [Lines -> Int]
      BY <1>1, <1>2, <1>11
    <3>2. Levels'[p].reserved = Levels[p].reserved + ProductSum(Delta, p)
      BY <1>12, <3>1, CommitRereserves
    <3>3. ProductSum(Delta, p) = SumFunctionOnSet(G, T)
      BY <2>1, <3>1, ProductSumWhere
    <3>4. QED
      BY <3>1, <3>2, <3>3, CommitKeepsOnHand, CommitLeavesSums
  <2>4. Levels'[p] = [Levels[p] EXCEPT !.reserved = @ + SumFunctionOnSet(G, T)]
    BY <2>3, Rereserves
  <2>5. QED
    BY <2>2, <2>4
<1>14. Atomic!Cancel(o)
  <2>1. Atomic!LinesOf(o) = LinesOf(o) /\ LinesOf(o) \subseteq Lines
    BY DEF Atomic!LinesOf, LinesOf
  <2>2. Held' = [l \in Lines |-> IF l \in open THEN [Held[l] EXCEPT !.status = "CANCELLED"]
                                 ELSE Held[l]]
    BY <1>6, <1>7, <1>10, <1>11 DEF Held
  <2>3. Left' = [l \in Lines |-> IF l \in LinesOf(o) THEN [Left[l] EXCEPT !.reserved = 0]
                                 ELSE Left[l]]
    BY <1>9 DEF Left
  <2>4. Levels' = [p \in Products |-> [Levels[p] EXCEPT !.reserved = @
            + Atomic!SumOver({l \in open : ProductOf[l] = p},
                             LAMBDA l : Held[l].fulfilled - Held[l].qty)]]
    <3>1. Levels' = [p \in Products |-> Levels'[p]]
      BY DEF Levels
    <3>2. QED
      BY <1>13, <3>1
  <2>5. open = {l \in Atomic!LinesOf(o) : Held[l].status = "ACTIVE"}
    BY <2>1 DEF Held
  <2>6. Atomic!Cancel(o)!1!1
    BY <1>5 DEF Atomic!Moves
  <2>7. Atomic!Cancel(o)!1!2
    <3> HIDE DEF open
    <3>1. QED
      BY <2>4, <2>5 DEF Levels, Held, Atomic!Rereserved, Atomic!SumOver
  <2>8. Atomic!Cancel(o)!1!3
    <3> HIDE DEF open
    <3>1. QED
      BY <2>2, <2>5 DEF Held
  <2>9. Atomic!Cancel(o)!1!4
    BY <2>1, <2>3 DEF Left
  <2>10. Atomic!Cancel(o)!1!5
    BY <1>2, <1>3 DEF Claimed
  <2>11. QED
    BY <2>6, <2>7, <2>8, <2>9, <2>10 DEF Atomic!Cancel
<1>15. QED
  BY <1>14

\* A fulfilment commits what it took of its lines, and announces it.
LEMMA FulfillIsAtomic ==
    ASSUME Ground, Turns, NEW t \in Txs, FulfillCommit(t)
    PROVE  \E o \in Orders, r \in Requests, e \in Events : Atomic!Fulfill(o, r, e)
<1>1. /\ tx[t].op = "fulfill" /\ tx[t].at = "commit" /\ tx[t].order \in Orders
      /\ Allowed(t) /\ Holds(t) /\ Own(t) /\ Decided(t)
  BY Fields DEF FulfillCommit, At, Ground, Turns, Turn, Discipline
<1>2. PICK o \in Orders : o = tx[t].order
  BY <1>1
<1>3. PICK r \in Requests : r = tx[t].work
  BY <1>1 DEF Allowed
<1>4. PICK e \in Events : Emit(e, r)
  BY <1>3 DEF FulfillCommit
<1>5. sent[e] = <<>> /\ sent' = [sent EXCEPT ![e] = r]
  BY <1>4 DEF Emit
<1>6. Ended(t, TRUE)
  BY <1>1, CommitEnds DEF FulfillCommit, Ground, Own
<1>7. UNCHANGED <<Levels, Held, Claimed>>
  BY <1>1, <1>6, EndLeaves
<1>8. status[o] \in FULFILLABLE_STATUSES
  BY <1>1, <1>2 DEF Allowed
<1>9. \A k \in DOMAIN r : OrderOf[r[k].line] = o
  <2>1. DOMAIN r = Positions(t)
    BY <1>3, Fields DEF Ground
  <2>2. \A k \in Positions(t) : k < tx[t].next
    BY <1>1, Fields DEF Own, Finishes, Positions, Ground
  <2>3. QED
    BY <1>1, <1>2, <1>3, <2>1, <2>2 DEF Own, Working, Fulfills, LineAt
<1>10. ASSUME NEW l \in Lines
       PROVE  /\ Atomic!Units(r, l) <= line[l].com.reserved
              /\ line'[l].com = [reserved |-> line[l].com.reserved - Atomic!Units(r, l),
                                 fulfilled |-> line[l].com.fulfilled + Atomic!Units(r, l)]
              /\ line'[l].com = Sees(line[l], t)
  <2> DEFINE u == Atomic!Units(r, l)
             now == Sees(line[l], t)
             was == line[l].com
  <2>1. u = Part(t, l) /\ u \in Int
    <3>1. Part(t, l) = Taken(tx[t].work, DOMAIN tx[t].work, l)
      BY <1>1, AllOfIt DEF Own, Ground
    <3>2. SoldBy(t, l) \in Int /\ SoldBy(t, l) = Part(t, l)
      BY <1>1, PartType DEF Ground, Own, SoldBy
    <3>3. QED
      BY <1>3, <3>1, <3>2, AtomicUnits
  <2>2. now.fulfilled = was.fulfilled + u
    BY <1>1, <2>1, SoFar DEF SoldBy, Ground
  <2>3. now.reserved + now.fulfilled = was.reserved + was.fulfilled
    BY <1>1 DEF Holds, Sees
  <2>4. now \in Quantities /\ was \in Quantities /\ now.reserved >= 0
    BY Tables DEF Ground, RowOf, Sees, Budgets, Within
  <2>5. line'[l].com = now
    BY <1>6 DEF Ended, EndedRow, Sees
  <2> HIDE DEF u, now, was
  <2>6. /\ now.reserved \in Int /\ now.fulfilled \in Int
        /\ was.reserved \in Int /\ was.fulfilled \in Int
        /\ now = [reserved |-> now.reserved, fulfilled |-> now.fulfilled]
    BY <2>4 DEF Quantities
  <2>7. now.reserved = was.reserved - u /\ u <= was.reserved
    BY <2>1, <2>2, <2>3, <2>4, <2>6
  <2>8. now = [reserved |-> was.reserved - u, fulfilled |-> was.fulfilled + u]
    BY <2>2, <2>6, <2>7
  <2>9. QED
    BY <2>5, <2>7, <2>8 DEF u, now, was
<1>11. status' = [status EXCEPT ![o] =
                     IF \A l \in LinesOf(o) : Left'[l].fulfilled >= Ordered[l]
                     THEN "FULFILLED" ELSE "PARTIALLY_FULFILLED"]
  <2>1. status' = [status EXCEPT ![o] = tx[t].to]
    BY <1>2 DEF FulfillCommit
  <2>2. tx[t].to = IF FullyFulfilled(t, o) THEN "FULFILLED" ELSE "PARTIALLY_FULFILLED"
    BY <1>1, <1>2 DEF Decided, At
  <2>3. FullyFulfilled(t, o) <=> \A l \in LinesOf(o) : Left'[l].fulfilled >= Ordered[l]
    BY <1>10 DEF FullyFulfilled, Left, LinesOf
  <2>4. QED
    BY <2>1, <2>2, <2>3
<1>12. Atomic!Fulfill(o, r, e)
  <2>1. Atomic!LinesOf(o) = LinesOf(o) /\ LinesOf(o) \subseteq Lines
    BY DEF Atomic!LinesOf, LinesOf
  <2>2. Atomic!Fulfill(o, r, e)!1
    BY <1>8 DEF FULFILLABLE_STATUSES
  <2>3. Atomic!Fulfill(o, r, e)!2 /\ Atomic!Fulfill(o, r, e)!7
    BY <1>5
  <2>4. Atomic!Fulfill(o, r, e)!3
    BY <1>9
  <2>5. Atomic!Fulfill(o, r, e)!4
    BY <1>10, <2>1
  <2>6. Atomic!Fulfill(o, r, e)!5
    BY <1>10
  <2>7. Atomic!Fulfill(o, r, e)!6
    BY <1>11, <2>1 DEF Left
  <2>8. Atomic!Fulfill(o, r, e)!8
    BY <1>7 DEF Levels, Held, Claimed
  <2>9. QED
    BY <2>2, <2>3, <2>4, <2>5, <2>6, <2>7, <2>8 DEF Atomic!Fulfill
<1>13. QED
  BY <1>12

\* What transaction t takes of line l off the shelves, and a reservation
\* after u units of it have shipped.
Out(t, l) == Taken(tx[t].work, DOMAIN tx[t].work, l)

AfterShipping(r, u) ==
    IF u = 0 THEN r
    ELSE [r EXCEPT !.fulfilled = r.fulfilled + u,
                   !.status = IF r.fulfilled + u >= r.qty THEN "FULFILLED" ELSE @]

\* What a handler takes off the shelves is what its event announced, and the
\* reservations it takes it from were open.
LEMMA PostCommitShips ==
    ASSUME Ground, Turns, NEW t \in Txs, Ended(t, TRUE),
           tx[t].op = "post", tx[t].at = "commit", NEW l \in Lines
    PROVE  /\ Out(t, l) \in Nat
           /\ Seen(t)[l] = Stored[l] + Out(t, l)
           /\ DueTo(t)[l] = DueNow[l] - Out(t, l)
           /\ resv'[l].com = AfterShipping(resv[l].com, Out(t, l))
<1> DEFINE now == Sees(resv[l], t)
           was == resv[l].com
           u == Out(t, l)
<1>1. Own(t) /\ Holds(t) /\ Posts(t)
  BY DEF Ground, Turns, Turn, Discipline, Own, Working
<1>2. PICK e \in Events : e = tx[t].event
  BY <1>1 DEF Posts
<1>3. ~claim[e].com
  BY <1>1, <1>2, Zenon DEF Posts
<1>4. /\ u \in Nat /\ was.fulfilled \in Nat /\ was.fulfilled + u <= Ordered[l]
  <2>1. u = Taken(sent[e], DOMAIN sent[e], l)
    BY <1>1, <1>2 DEF Posts, Out
  <2>2. QED
    BY <1>3, <2>1, RoomToPost
<1>5. now.fulfilled = was.fulfilled + u
  <2>1. now.fulfilled = was.fulfilled + PostedBy(t, l)
    BY SoFar DEF Ground
  <2>2. PostedBy(t, l) = u
    BY <1>1, AllOfIt DEF PostedBy, Own, Ground, Out
  <2>3. QED
    BY <2>1, <2>2
<1>6. was \in Reservations /\ now \in Reservations /\ Ordered[l] \in Nat
  BY Tables, LinesAssumption DEF RowOf, Ground, Sees
<1>7. resv'[l].com = now
  BY DEF Ended, EndedRow, Sees
<1>8. now = was \/ (Regular(now, l) /\ Regular(was, l))
  <2>1. CASE resv[l].by # t
    BY <2>1 DEF Sees
  <2>2. CASE resv[l].by = t
    <3>1. Regular(now, l)
      BY <1>1, <2>2 DEF Holds, Sees
    <3>2. Exists(l) /\ OrderOf[l] = For(t)
      BY <1>1, <2>2 DEF Own, Writes, Holds
    <3>3. For(t) \in Orders /\ BeingPosted(For(t))
      BY PostsItsOrder DEF Ground
    <3>4. status[For(t)] # "CANCELLED"
      BY <3>3 DEF Turns, Posting
    <3>5. Tells(For(t)) /\ l \in LinesOf(For(t))
      BY <3>2, <3>3 DEF Turns, LinesOf
    <3>6. Regular(was, l)
      BY <3>2, <3>4, <3>5 DEF Tells
    <3>7. QED
      BY <3>1, <3>6
  <2>3. QED
    BY <2>1, <2>2
<1> HIDE DEF now, was, u
<1>9. /\ was.fulfilled \in Nat /\ now.fulfilled \in Nat /\ now.fulfilled <= Ordered[l]
      /\ was.fulfilled <= now.fulfilled
  BY <1>4, <1>5, <1>6
<1>10. Due(now) = Due(was) - u
  <2>1. CASE now = was
    <3>1. u = 0 /\ Due(was) \in Int
      BY <1>4, <1>5, <1>9, <1>6, <2>1 DEF Due, Reservations
    <3>2. QED
      BY <2>1, <3>1
  <2>2. CASE Regular(now, l) /\ Regular(was, l)
    <3>1. Due(now) = Ordered[l] - now.fulfilled
      BY <1>6, <1>9, <2>2 DEF Due, Regular
    <3>2. Due(was) = Ordered[l] - was.fulfilled
      BY <1>6, <1>9, <2>2 DEF Due, Regular
    <3>3. QED
      BY <1>4, <1>5, <1>6, <1>9, <3>1, <3>2
  <2>3. QED
    BY <1>8, <2>1, <2>2
<1>11. u = 0 => now = was
  <2>1. SUFFICES ASSUME u = 0, Regular(now, l), Regular(was, l) PROVE now = was
    BY <1>8
  <2>2. now.fulfilled = was.fulfilled
    BY <1>5, <1>9, <2>1
  <2>3. now.qty = was.qty /\ now.status = was.status
    BY <2>1, <2>2 DEF Regular
  <2>4. QED
    BY <1>6, <2>2, <2>3 DEF Reservations
<1>12. u # 0 => now = [was EXCEPT !.fulfilled = was.fulfilled + u,
                                  !.status = IF was.fulfilled + u >= was.qty
                                             THEN "FULFILLED" ELSE @]
  <2>1. SUFFICES ASSUME u # 0
                 PROVE  now = [was EXCEPT !.fulfilled = was.fulfilled + u,
                                          !.status = IF was.fulfilled + u >= was.qty
                                                     THEN "FULFILLED" ELSE @]
    OBVIOUS
  <2>2. now # was
    BY <1>4, <1>5, <1>9, <2>1
  <2>3. /\ now.qty = Ordered[l] /\ was.qty = Ordered[l]
        /\ now.status = IF now.fulfilled >= Ordered[l] THEN "FULFILLED" ELSE "ACTIVE"
        /\ was.status = "ACTIVE"
    <3>1. Regular(now, l) /\ Regular(was, l)
      BY <1>8, <2>2
    <3>2. was.fulfilled < Ordered[l]
      BY <1>4, <1>6, <2>1
    <3>3. QED
      BY <1>6, <1>9, <3>1, <3>2 DEF Regular
  <2>4. QED
    BY <1>5, <1>6, <2>3 DEF Reservations
<1>13. Seen(t)[l] = now.fulfilled /\ Stored[l] = was.fulfilled
  BY DEF Seen, Stored, now, was
<1>14. DueTo(t)[l] = Due(now) /\ DueNow[l] = Due(was)
  BY DEF DueTo, DueNow, now, was
<1>15. now = AfterShipping(was, u)
  BY <1>11, <1>12, Zenon DEF AfterShipping
<1>16. QED
  BY <1>4, <1>5, <1>7, <1>10, <1>13, <1>14, <1>15 DEF was, u

\* A handler commits what its event announced, and claims the event.
LEMMA PostIsAtomic ==
    ASSUME Ground, Turns, Outstanding, NEW t \in Txs, PostCommit(t), UNCHANGED <<status, line>>
    PROVE  \E e \in Events : Atomic!Post(e)
<1>1. tx[t].op = "post" /\ tx[t].at = "commit" /\ tx[t].work # <<>> /\ sent' = sent
  BY Fields DEF PostCommit, At, Ground
<1>2. Ended(t, TRUE)
  <2>1. Locks(t)
    BY DEF Ground, Discipline, Own
  <2>2. QED
    BY <2>1, CommitEnds DEF Ground
<1>3. Left' = Left
  BY DEF Left
<1>4. PICK e \in Events : /\ e = tx[t].event /\ tx[t].work = sent[e]
                          /\ e \notin Claimed /\ Claimed' = Claimed \cup {e}
  BY <1>1, <1>2, PostCommitClaims DEF Ground
<1> DEFINE U == [l \in Lines |-> Atomic!Units(sent[e], l)]
<1>5. ASSUME NEW l \in Lines
      PROVE  /\ U[l] \in Nat
             /\ Seen(t)[l] = Stored[l] + U[l]
             /\ DueTo(t)[l] = DueNow[l] - U[l]
             /\ resv'[l].com = AfterShipping(resv[l].com, U[l])
  <2>1. U[l] = Out(t, l)
    BY <1>4, AtomicUnits DEF Out
  <2>2. QED
    BY <1>1, <1>2, <2>1, PostCommitShips
<1>6. \A l \in Lines : U[l] = Atomic!Units(sent[e], l)
  OBVIOUS
<1>7. /\ U \in [Lines -> Int] /\ DOMAIN U = Lines
      /\ DueNow \in [Lines -> Int] /\ DueTo(t) \in [Lines -> Int]
      /\ Stored \in [Lines -> Int] /\ Seen(t) \in [Lines -> Int]
  <2>1. U \in [Lines -> Int]
    BY <1>5
  <2>2. DueNow \in [Lines -> Int] /\ DueTo(t) \in [Lines -> Int]
    BY DueTypes, Tables DEF Ground, DueNow, DueTo
  <2>3. Stored \in [Lines -> Int] /\ Seen(t) \in [Lines -> Int]
    BY FulfilledTypes, Tables DEF Ground, Stored, Seen
  <2>4. QED
    BY <2>1, <2>2, <2>3
<1> HIDE DEF U
<1>8. ASSUME NEW p \in Products
      PROVE  Levels'[p] = [onHand |-> Levels[p].onHand - ProductSum(U, p),
                           reserved |-> Levels[p].reserved - ProductSum(U, p)]
  <2>1. ProductSum(Seen(t), p) = ProductSum(Stored, p) + ProductSum(U, p)
    <3> DEFINE D == Seen(t)
               F == Stored
    <3>1. D \in [Lines -> Int] /\ F \in [Lines -> Int] /\ \A l \in Lines : D[l] = F[l] + U[l]
      BY <1>5, <1>7
    <3> HIDE DEF D, F
    <3>2. GroupSum(D, Lines, ProductOf, p)
              = GroupSum(F, Lines, ProductOf, p) + GroupSum(U, Lines, ProductOf, p)
      BY <1>7, <3>1, LinesAssumption, GroupPlus
    <3>3. QED
      BY <3>2 DEF ProductSum, D, F
  <2>2. ProductSum(DueNow, p) = ProductSum(DueTo(t), p) + ProductSum(U, p)
    <3> DEFINE D == DueNow
               F == DueTo(t)
    <3>1. D \in [Lines -> Int] /\ F \in [Lines -> Int] /\ \A l \in Lines : D[l] = F[l] + U[l]
      BY <1>5, <1>7
    <3> HIDE DEF D, F
    <3>2. GroupSum(D, Lines, ProductOf, p)
              = GroupSum(F, Lines, ProductOf, p) + GroupSum(U, Lines, ProductOf, p)
      BY <1>7, <3>1, LinesAssumption, GroupPlus
    <3>3. QED
      BY <3>2 DEF ProductSum, D, F
  <2>3. /\ ProductSum(U, p) \in Int /\ ProductSum(Stored, p) \in Int
        /\ ProductSum(DueTo(t), p) \in Int
    BY <1>7, ProductSumType
  <2>4. /\ Levels'[p] \in StockLevels /\ Levels[p] \in StockLevels
        /\ Levels[p].reserved = ProductSum(DueNow, p)
        /\ Levels'[p].reserved = ProductSum(DueTo(t), p)
        /\ Levels'[p].onHand
             = Levels[p].onHand - (ProductSum(Seen(t), p) - ProductSum(Stored, p))
    BY <1>2, CommitLeavesSums
  <2>5. Levels[p].onHand \in Int
    BY <2>4 DEF StockLevels
  <2>6. /\ Levels'[p].onHand = Levels[p].onHand - ProductSum(U, p)
        /\ Levels'[p].reserved = Levels[p].reserved - ProductSum(U, p)
    BY <2>1, <2>2, <2>3, <2>4, <2>5
  <2>7. QED
    BY <2>4, <2>6 DEF StockLevels
<1>9. ASSUME NEW p \in Products
      PROVE  ProductSum(U, p) = Atomic!SumOver({l \in Lines : ProductOf[l] = p},
                                               LAMBDA l : Atomic!Units(sent[e], l))
  <2> DEFINE L == {l \in Lines : ProductOf[l] = p}
  <2>1. [l \in L |-> U[l]] = [l \in L |-> Atomic!Units(sent[e], l)]
    BY <1>6
  <2>2. ProductSum(U, p) = SumFunctionOnSet([l \in L |-> U[l]], L)
    BY DEF ProductSum, GroupSum, MappedTo
  <2>3. Atomic!SumOver(L, LAMBDA l : Atomic!Units(sent[e], l))
          = SumFunctionOnSet([l \in L |-> Atomic!Units(sent[e], l)], L)
    BY AtomicSum DEF Atomic!SumOver
  <2>4. QED
    BY <2>1, <2>2, <2>3
<1>10. Atomic!Post(e)
  <2>1. Atomic!Post(e)!1
    BY <1>1, <1>4 DEF Claimed
  <2>2. Atomic!Post(e)!2
    BY <1>4 DEF Claimed
  <2>3. Atomic!Post(e)!3
    <3>1. Levels' = [p \in Products |-> Levels'[p]]
      BY DEF Levels
    <3>2. QED
      BY <1>8, <1>9, <3>1 DEF Levels
  <2>4. Atomic!Post(e)!4
    BY <1>5, <1>6 DEF AfterShipping
  <2>5. Atomic!Post(e)!5
    BY <1>1, <1>3 DEF Left
  <2>6. QED
    BY <2>1, <2>2, <2>3, <2>4, <2>5 DEF Atomic!Post
<1>11. QED
  BY <1>10

LEMMA RestockIsAtomic ==
    ASSUME Ground, NEW p \in Products, Restock(p)
    PROVE  Atomic!Receive(p)
<1>1. /\ stock' = [stock EXCEPT ![p] =
                     Row([onHand |-> @.com.onHand + 1, reserved |-> @.com.reserved])]
      /\ UNCHANGED <<resv, line, claim, status, sent>>
  BY DEF Restock, Receive
<1>2. UNCHANGED <<Held, Left, Claimed>>
  BY <1>1 DEF Held, Left, Claimed, Events
<1>3. ASSUME NEW q \in Products
      PROVE  stock'[q].com = IF q = p THEN [stock[p].com EXCEPT !.onHand = @ + 1]
                             ELSE stock[q].com
  <2>1. stock[p].com \in StockLevels
    BY Tables DEF Ground, RowOf
  <2>2. stock'[p].com = [onHand |-> stock[p].com.onHand + 1, reserved |-> stock[p].com.reserved]
    BY <1>1, Tables DEF Ground, Row
  <2>3. stock'[p].com = [stock[p].com EXCEPT !.onHand = @ + 1]
    BY <2>1, <2>2 DEF StockLevels
  <2>4. q # p => stock'[q] = stock[q]
    BY <1>1, Tables DEF Ground
  <2>5. QED
    BY <2>3, <2>4
<1>4. Levels' = [Levels EXCEPT ![p].onHand = @ + 1]
  BY <1>3 DEF Levels
<1>5. QED
  BY <1>1, <1>2, <1>4 DEF Atomic!Receive, Levels, Held, Left, Claimed

LEMMA NextIsAtomic ==
    ASSUME Ground, Turns, Outstanding, NoOversell, [Next]_vars
    PROVE  [Atomic!Next]_(Atomic!state)
<1>1. CASE Unseen
  BY <1>1, UnseenIsStutter
<1>2. ASSUME UNCHANGED <<stock, resv, line, claim>>
      PROVE  UNCHANGED <<Levels, Held, Left, Claimed>>
  BY <1>2 DEF Levels, Held, Left, Claimed, Events
<1>3. CASE UNCHANGED vars
  BY <1>1, <1>2, <1>3 DEF vars, Unseen
<1>4. ASSUME NEW o \in Orders, Create(o) PROVE Atomic!Next
  <2>1. Atomic!Create(o)
    BY <1>2, <1>4 DEF Create, inventoryVars, busVars, Atomic!Create,
       Levels, Held, Left, Claimed
  <2>2. QED
    BY <2>1 DEF Atomic!Next
<1>5. ASSUME NEW p \in Products, Restock(p) PROVE Atomic!Next
  BY <1>5, RestockIsAtomic DEF Atomic!Next
<1>6. CASE Crash
  BY <1>1, <1>6, CrashIsUnseen
<1>7. ASSUME NEW t \in Txs, Request(t) \/ CancelFind(t) \/ FulfillDecide(t) PROVE Unseen
  <2>1. UNCHANGED <<status, stock, resv, line, claim, sent>>
    BY <1>7 DEF Request, ConfirmRead, AllocateRead, CancelRead, FulfillRead,
       CancelFind, FulfillDecide, inventoryVars, busVars
  <2>2. QED
    BY <1>2, <2>1 DEF Unseen
<1>8. ASSUME NEW t \in Txs, AllocateLine(t) \/ CancelLine(t) \/ CancelLines(t) \/ FulfillLine(t)
      PROVE  Unseen
  <2>1. UNCHANGED status
    BY <1>8 DEF AllocateLine, CancelLine, CancelLines, FulfillLine
  <2>2. Worked(t)
    BY <1>8, AllocateLineKeepsDiscipline, CancelLineKeepsDiscipline,
       CancelLinesKeepsDiscipline, FulfillLineKeepsDiscipline DEF Ground
  <2>3. QED
    BY <2>1, <2>2, WorkIsUnseen
<1>9. ASSUME NEW t \in Txs, UNCHANGED <<status, line>>,
             PostLine(t) \/ \E e \in Events : Claim(t, e)
      PROVE  Unseen
  BY <1>9, PostLineKeepsDiscipline, ClaimKeepsDiscipline, WorkIsUnseen DEF Ground
<1>10. ASSUME NEW t \in Txs, Commits(t) PROVE Atomic!Next
  BY <1>10, ConfirmIsAtomic, AllocateIsAtomic, CancelIsAtomic, FulfillIsAtomic, PostIsAtomic
     DEF Commits, Atomic!Next
<1>11. ASSUME NEW t \in Txs, Handle(t)
       PROVE  Unseen \/ Atomic!Next
  <2>1. CASE PostCommit(t)
    BY <1>10, <1>11, <2>1 DEF Handle, Commits
  <2>2. CASE PostLine(t) \/ \E e \in Events : Claim(t, e)
    BY <1>9, <1>11, <2>2 DEF Handle
  <2>3. QED
    BY <1>11, <2>1, <2>2 DEF Handle
<1>12. ASSUME NEW t \in Txs, Proceed(t) \/ Abort(t)
       PROVE  Unseen \/ Atomic!Next
  BY <1>7, <1>8, <1>10, <1>11, <1>12, RollbackIsUnseen
     DEF Proceed, Abort, Commits, AllocateReject, FulfillReject, DeadlockVictim
<1>13. QED
  BY <1>1, <1>3, <1>4, <1>5, <1>6, <1>7, <1>12 DEF Next, Step

\* The refinement: whatever interleaves, fails, crashes or is delivered
\* twice, as long as clients take turns every step of the flow is a step of
\* AtomicOutbound on the committed rows, or changes none of them, for any
\* orders, lines, products, connections and requests.
THEOREM OutboundIsAtomic == SerialSpec => ActsAtomically
<1>1. Ground /\ Turns /\ Outstanding /\ NoOversell /\ [Next]_vars
        => [Atomic!Next]_(Atomic!state)
  BY NextIsAtomic
<1>2. QED
  BY <1>1, InitIsAtomic, SerialIsSpec, GroundIsKept, NeverOversold, TurnsAreTaken,
     OutstandingIsKept, PTL DEF Spec, ActsAtomically, Atomic!Spec
=============================================================================
