---------------------------- MODULE SalesOrders ----------------------------
(***************************************************************************)
(* SalesOrdersService on top of InventoryService: the outbound flow from   *)
(* a draft order to shipped goods.  confirm, allocate, cancel and fulfill  *)
(* each run in one READ COMMITTED transaction, cut here into the steps     *)
(* between which another transaction can commit or take a row.  fulfill    *)
(* emits sales-order.fulfilled after its commit, on a bus that lives in    *)
(* the memory of the process.                                              *)
(*                                                                         *)
(* No method locks the order row it reads its status from, and the row is  *)
(* written right before the commit, so `status' is a plain variable: no    *)
(* transaction ever waits for it between two of these steps.               *)
(***************************************************************************)
EXTENDS Inventory, Lifecycles

CONSTANT Requests    \* fulfil requests: non-empty sequences of Items

ASSUME RequestsAssumption ==
    Requests \subseteq {r \in Seq([line : Lines, qty : Nat \ {0}]) : r # <<>>}

VARIABLES
    status,     \* SalesOrder.status
    line        \* SalesOrderLine: line -> row of [reserved, fulfilled]

vars == <<stock, resv, claim, sent, bus, received, tx, status, line>>

Statuses == {"DRAFT", "CONFIRMED", "ALLOCATED", "PARTIALLY_FULFILLED",
             "FULFILLED", "CANCELLED"}

Transitions == SalesTransitions

Quantities == [reserved : Int, fulfilled : Int]

\* The callback t has begun reads the order and finds it in a state the
\* operation accepts; otherwise it throws, and nothing has happened.
Begins(t, o, to) ==
    /\ tx[t] = Idle
    /\ <<status[o], to>> \in Transitions

Commit(t) == CommitInventory(t) /\ line' = CommitAll(line, t) /\ Closed(t)

\* A thrown error, a timeout or a lost connection: PostgreSQL undoes it all.
Rollback(t) ==
    /\ RollbackInventory(t)
    /\ line' = RollbackAll(line, t)
    /\ Closed(t)
    /\ UNCHANGED <<sent, bus, received, status>>

-----------------------------------------------------------------------------
(* create: the order and its lines appear in one commit.  An order that    *)
(* has not been created is "NONE".                                         *)

Create(o) ==
    /\ status[o] = "NONE"
    /\ status' = [status EXCEPT ![o] = "DRAFT"]
    /\ UNCHANGED <<inventoryVars, busVars, received, tx, line>>

(* confirm *)

ConfirmRead(t, o) ==
    /\ Begins(t, o, "CONFIRMED")
    /\ tx' = [tx EXCEPT ![t] = Begun("confirm", "commit", o, 0, <<>>)]
    /\ UNCHANGED <<inventoryVars, busVars, received, status, line>>

ConfirmCommit(t) ==
    /\ At(t, "confirm", "commit")
    /\ status' = [status EXCEPT ![tx[t].order] = "CONFIRMED"]
    /\ Commit(t)
    /\ UNCHANGED <<busVars, received>>

-----------------------------------------------------------------------------
(* allocate.  The lines come back from findFirst in any order and are then *)
(* sorted by product; lines of one product keep the order they came in.    *)

\* Mutant: the lines are worked off in the order they came in.
UnsortedLines(o) == Arrangements(LinesOf(o))

SortedLines(o) ==
    {s \in Arrangements(LinesOf(o)) :
        \A i, j \in DOMAIN s : i < j => ProductOf[s[i]] <= ProductOf[s[j]]}

AllocateRead(t, o) ==
    /\ Begins(t, o, "ALLOCATED")
    /\ \E s \in SortedLines(o) :
        LET work == [k \in DOMAIN s |-> [line |-> s[k], qty |-> Ordered[s[k]]]]
        IN  tx' = [tx EXCEPT ![t] = Begun("allocate", "work", o, 0, work)]
    /\ UNCHANGED <<inventoryVars, busVars, received, status, line>>

\* reserveForSalesOrder and the update of the line's qtyReserved.
AllocateLine(t) ==
    LET i == Item(t)
    IN  /\ At(t, "allocate", "work")
        /\ ReserveRowsFree(t, i) /\ Free(line[i.line], t)
        /\ CanReserve(t, i) /\ ~AlreadyReserved(t, i)
        /\ Reserve(t, i)
        /\ line' = [line EXCEPT ![i.line] =
                       Put(@, t, [Sees(@, t) EXCEPT !.reserved = i.qty])]
        /\ tx' = [tx EXCEPT ![t] = Advanced(t, "commit")]
        /\ UNCHANGED <<claim, busVars, received, status>>

\* Mutant: a line that cannot be reserved is skipped.
AllocateSkip(t) ==
    /\ At(t, "allocate", "work")
    /\ ReserveRowsFree(t, Item(t))
    /\ ~CanReserve(t, Item(t)) \/ AlreadyReserved(t, Item(t))
    /\ tx' = [tx EXCEPT ![t] = Advanced(t, "commit")]
    /\ UNCHANGED <<inventoryVars, busVars, received, status, line>>

\* Not enough is available, or a reservation of the line exists already.
AllocateReject(t) ==
    /\ At(t, "allocate", "work")
    /\ ReserveRowsFree(t, Item(t))
    /\ ~CanReserve(t, Item(t)) \/ AlreadyReserved(t, Item(t))
    /\ Rollback(t)

AllocateCommit(t) ==
    /\ At(t, "allocate", "commit")
    /\ status' = [status EXCEPT ![tx[t].order] = "ALLOCATED"]
    /\ Commit(t)
    /\ UNCHANGED <<busVars, received>>

-----------------------------------------------------------------------------
(* cancel.  Whether there is anything to release is decided by the status  *)
(* that was read; the reservations are read by a second statement.         *)

CancelRead(t, o) ==
    /\ Begins(t, o, "CANCELLED")
    /\ LET hadAllocation == status[o] \in {"ALLOCATED", "PARTIALLY_FULFILLED"}
           at == IF hadAllocation THEN "find" ELSE "commit"
       IN  tx' = [tx EXCEPT ![t] = Begun("cancel", at, o, 0, <<>>)]
    /\ UNCHANGED <<inventoryVars, busVars, received, status, line>>

CancelFind(t) ==
    /\ At(t, "cancel", "find")
    /\ \E work \in ActiveReservations(t, tx[t].order) :
        tx' = [tx EXCEPT ![t].work = work,
                         ![t].at = IF work = <<>> THEN "lines" ELSE "work"]
    /\ UNCHANGED <<inventoryVars, busVars, received, status, line>>

CancelLine(t) ==
    /\ At(t, "cancel", "work")
    /\ ReleaseRowsFree(t, Item(t))
    /\ Release(t, Item(t))
    /\ tx' = [tx EXCEPT ![t] = Advanced(t, "lines")]
    /\ UNCHANGED <<claim, busVars, received, status, line>>

\* Sets qtyReserved of every line to 0.
CancelLines(t) ==
    /\ At(t, "cancel", "lines")
    /\ \A l \in LinesOf(tx[t].order) : Free(line[l], t)
    /\ line' = [l \in Lines |->
                  IF OrderOf[l] = tx[t].order
                  THEN Put(line[l], t, [Sees(line[l], t) EXCEPT !.reserved = 0])
                  ELSE line[l]]
    /\ tx' = [tx EXCEPT ![t].at = "commit"]
    /\ UNCHANGED <<inventoryVars, busVars, received, status>>

CancelCommit(t) ==
    /\ At(t, "cancel", "commit")
    /\ status' = [status EXCEPT ![tx[t].order] = "CANCELLED"]
    /\ Commit(t)
    /\ UNCHANGED <<busVars, received>>

-----------------------------------------------------------------------------
(* fulfill.  Each requested line is one conditional UPDATE; the status is  *)
(* decided by re-reading all lines, and the event is emitted once the      *)
(* transaction has committed.                                              *)

FulfillRead(t, o, request) ==
    /\ tx[t] = Idle
    /\ status[o] \in FULFILLABLE_STATUSES
    /\ tx' = [tx EXCEPT ![t] = Begun("fulfill", "work", o, 0, request)]
    /\ UNCHANGED <<inventoryVars, busVars, received, status, line>>

\* Mutant: the UPDATE is not conditional on what is left.
CanFulfillAny(t, i) == OrderOf[i.line] = tx[t].order

\* WHERE id = line AND qtyReserved >= qty, for a line of this order.
CanFulfill(t, i) ==
    /\ OrderOf[i.line] = tx[t].order
    /\ Sees(line[i.line], t).reserved >= i.qty

FulfillLine(t) ==
    LET i == Item(t)
        now == Sees(line[i.line], t)
    IN  /\ At(t, "fulfill", "work")
        /\ Free(line[i.line], t)
        /\ CanFulfill(t, i)
        /\ line' = [line EXCEPT ![i.line] =
                       Put(@, t, [reserved |-> now.reserved - i.qty,
                                  fulfilled |-> now.fulfilled + i.qty])]
        /\ tx' = [tx EXCEPT ![t] = Advanced(t, "decide")]
        /\ UNCHANGED <<inventoryVars, busVars, received, status>>

\* Mutant: the UPDATE that matched no row is tried again.
FulfillRetry(t) ==
    /\ At(t, "fulfill", "work")
    /\ OrderOf[Item(t).line] = tx[t].order => Free(line[Item(t).line], t)
    /\ ~CanFulfill(t, Item(t))
    /\ UNCHANGED vars

\* The line is not the order's, or the UPDATE matched no row.
FulfillReject(t) ==
    /\ At(t, "fulfill", "work")
    /\ OrderOf[Item(t).line] = tx[t].order => Free(line[Item(t).line], t)
    /\ ~CanFulfill(t, Item(t))
    /\ Rollback(t)

\* Mutant: one line that is done is enough.
PartlyFulfilled(t, o) ==
    \E l \in LinesOf(o) : Sees(line[l], t).fulfilled >= Ordered[l]

FullyFulfilled(t, o) ==
    \A l \in LinesOf(o) : Sees(line[l], t).fulfilled >= Ordered[l]

FulfillDecide(t) ==
    /\ At(t, "fulfill", "decide")
    /\ tx' = [tx EXCEPT ![t].at = "commit",
                        ![t].to = IF FullyFulfilled(t, tx[t].order)
                                  THEN "FULFILLED" ELSE "PARTIALLY_FULFILLED"]
    /\ UNCHANGED <<inventoryVars, busVars, received, status, line>>

\* emitAsync with a fresh eventId, once the transaction has committed.
Emit(e, items) ==
    /\ sent[e] = <<>> /\ \A d \in Events : d < e => sent[d] # <<>>
    /\ sent' = [sent EXCEPT ![e] = items]
    /\ bus' = [bus EXCEPT ![e] = MaxDeliveries]

FulfillCommit(t) ==
    /\ At(t, "fulfill", "commit")
    /\ status' = [status EXCEPT ![tx[t].order] = tx[t].to]
    /\ Commit(t)
    /\ \E e \in Events : Emit(e, tx[t].work)
    /\ UNCHANGED received

-----------------------------------------------------------------------------
(* Waiting, and what goes wrong.                                           *)

\* The transactions that hold a row the next statement of t needs.
Holders(t) ==
    LET i == Item(t)
        stockOf == stock[ProductOf[i.line]].by
    IN  CASE At(t, "allocate", "work") -> {stockOf, resv[i.line].by, line[i.line].by}
          [] At(t, "post", "work") -> {stockOf, resv[i.line].by}
          [] At(t, "cancel", "work") ->
                {resv[i.line].by} \cup (IF i.qty > 0 THEN {stockOf} ELSE {})
          [] At(t, "cancel", "lines") -> {line[l].by : l \in LinesOf(tx[t].order)}
          [] At(t, "fulfill", "work") ->
                IF OrderOf[i.line] = tx[t].order THEN {line[i.line].by} ELSE {}
          [] OTHER -> {}

WaitsFor(t, u) == u \in Holders(t) \ {t}

\* PostgreSQL's deadlock detector makes one member of a cycle fail.
DeadlockVictim(t) ==
    /\ \E S \in SUBSET Txs : t \in S /\ Deadlocked(S, WaitsFor)
    /\ Rollback(t)

\* A statement or the 30 s limit of the transaction fails.  Nobody sees the
\* error of a failed handler, and nothing delivers its event again.
Abort(t) ==
    /\ tx[t] # Idle
    /\ Rollback(t)

\* The API process stops: its connections drop and its bus is forgotten.
Crash ==
    /\ \E t \in Txs : tx[t] # Idle \/ \E e \in Events : bus[e] > 0
    /\ stock' = Restarted(stock)
    /\ resv' = Restarted(resv)
    /\ claim' = Restarted(claim)
    /\ line' = Restarted(line)
    /\ tx' = [t \in Txs |-> Idle]
    /\ bus' = [e \in Events |-> 0]
    /\ UNCHANGED <<sent, received, status>>

-----------------------------------------------------------------------------
Init ==
    /\ InventoryInit
    /\ status = [o \in Orders |-> "NONE"]
    /\ line = [l \in Lines |-> Row([reserved |-> 0, fulfilled |-> 0])]

\* A request reaches the API.
Request(t) ==
    \E o \in Orders :
        \/ ConfirmRead(t, o)
        \/ AllocateRead(t, o)
        \/ CancelRead(t, o)
        \/ \E r \in Requests : FulfillRead(t, o, r)

\* The event handler, which never touches an order or its lines.
Handle(t) ==
    /\ \/ \E e \in Events : Claim(t, e)
       \/ PostLine(t)
       \/ PostCommit(t)
    /\ UNCHANGED <<status, line>>

\* An open transaction takes its next step, or a delivery begins.
Proceed(t) ==
    \/ ConfirmCommit(t)
    \/ AllocateLine(t) \/ AllocateReject(t) \/ AllocateCommit(t)
    \/ CancelFind(t) \/ CancelLine(t) \/ CancelLines(t) \/ CancelCommit(t)
    \/ FulfillLine(t) \/ FulfillReject(t) \/ FulfillDecide(t) \/ FulfillCommit(t)
    \/ Handle(t)
    \/ DeadlockVictim(t)

Restock(p) == Receive(p) /\ UNCHANGED <<status, line>>

Step ==
    \/ \E o \in Orders : Create(o)
    \/ \E p \in Products : Restock(p)
    \/ \E t \in Txs : Request(t) \/ Proceed(t)

Next == Step \/ Crash \/ \E t \in Txs : Abort(t)

Spec == Init /\ [][Next]_vars
=============================================================================
