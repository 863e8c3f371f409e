--------------------------- MODULE AtomicOutbound ---------------------------
(***************************************************************************)
(* What the outbound flow promises to a user who thinks of every request   *)
(* as one indivisible step: no transactions, no locks, no crashes.  An     *)
(* order reserves all of its lines or is refused, a cancellation gives     *)
(* back exactly what is outstanding, and each fulfilment is taken off the  *)
(* shelves at most once, some time after it was accepted.                  *)
(***************************************************************************)
EXTENDS Integers, Sequences, Functions

CONSTANTS Products, Orders, Lines, OrderOf, ProductOf, Ordered, OnHand,
          Requests, Events, Transitions, NoResv

VARIABLES
    level,      \* product -> [onHand, reserved]
    hold,       \* line -> its reservation, NoResv before it has one
    order,      \* order -> status, "NONE" before it exists
    left,       \* line -> [reserved, fulfilled]
    announced,  \* event -> what was fulfilled, <<>> before it happens
    posted      \* events taken off the shelves

state == <<level, hold, order, left, announced, posted>>

LinesOf(o) == {l \in Lines : OrderOf[l] = o}
SumOver(S, f(_)) == SumFunctionOnSet([x \in S |-> f(x)], S)

\* Units of line l in a sequence of items.
Units(items, l) ==
    SumOver({k \in DOMAIN items : items[k].line = l}, LAMBDA k : items[k].qty)

\* Reserved stock after the lines in S change theirs by Delta.
Rereserved(S, Delta(_)) ==
    [p \in Products |->
        [level[p] EXCEPT !.reserved = @ + SumOver({l \in S : ProductOf[l] = p}, Delta)]]

Moves(o, s) == <<order[o], s>> \in Transitions /\ order' = [order EXCEPT ![o] = s]

-----------------------------------------------------------------------------
Create(o) ==
    /\ order[o] = "NONE"
    /\ order' = [order EXCEPT ![o] = "DRAFT"]
    /\ UNCHANGED <<level, hold, left, announced, posted>>

Confirm(o) ==
    /\ Moves(o, "CONFIRMED")
    /\ UNCHANGED <<level, hold, left, announced, posted>>

Allocate(o) ==
    /\ Moves(o, "ALLOCATED")
    /\ \A l \in LinesOf(o) : hold[l] = NoResv
    /\ level' = Rereserved(LinesOf(o), LAMBDA l : Ordered[l])
    /\ \A p \in Products : level'[p] # level[p] => level'[p].reserved <= level[p].onHand
    /\ hold' = [l \in Lines |->
                  IF l \in LinesOf(o)
                  THEN [qty |-> Ordered[l], fulfilled |-> 0, status |-> "ACTIVE"]
                  ELSE hold[l]]
    /\ left' = [l \in Lines |->
                  IF l \in LinesOf(o) THEN [left[l] EXCEPT !.reserved = Ordered[l]]
                  ELSE left[l]]
    /\ UNCHANGED <<announced, posted>>

Cancel(o) ==
    LET open == {l \in LinesOf(o) : hold[l].status = "ACTIVE"}
    IN  /\ Moves(o, "CANCELLED")
        /\ level' = Rereserved(open, LAMBDA l : hold[l].fulfilled - hold[l].qty)
        /\ hold' = [l \in Lines |->
                      IF l \in open THEN [hold[l] EXCEPT !.status = "CANCELLED"]
                      ELSE hold[l]]
        /\ left' = [l \in Lines |->
                      IF l \in LinesOf(o) THEN [left[l] EXCEPT !.reserved = 0]
                      ELSE left[l]]
        /\ UNCHANGED <<announced, posted>>

Fulfill(o, items, e) ==
    /\ order[o] \in {"ALLOCATED", "PARTIALLY_FULFILLED"}
    /\ announced[e] = <<>>
    /\ \A k \in DOMAIN items : OrderOf[items[k].line] = o
    /\ \A l \in LinesOf(o) : Units(items, l) <= left[l].reserved
    /\ left' = [l \in Lines |-> [reserved |-> left[l].reserved - Units(items, l),
                                 fulfilled |-> left[l].fulfilled + Units(items, l)]]
    /\ order' = [order EXCEPT ![o] =
                   IF \A l \in LinesOf(o) : left'[l].fulfilled >= Ordered[l]
                   THEN "FULFILLED" ELSE "PARTIALLY_FULFILLED"]
    /\ announced' = [announced EXCEPT ![e] = items]
    /\ UNCHANGED <<level, hold, posted>>

Post(e) ==
    /\ announced[e] # <<>> /\ e \notin posted
    /\ posted' = posted \cup {e}
    /\ level' = [p \in Products |->
                   LET out == SumOver({l \in Lines : ProductOf[l] = p},
                                      LAMBDA l : Units(announced[e], l))
                   IN  [onHand |-> level[p].onHand - out,
                        reserved |-> level[p].reserved - out]]
    /\ hold' = [l \in Lines |->
                  LET done == hold[l].fulfilled + Units(announced[e], l)
                  IN  IF Units(announced[e], l) = 0 THEN hold[l]
                      ELSE [hold[l] EXCEPT
                              !.fulfilled = done,
                              !.status = IF done >= hold[l].qty THEN "FULFILLED" ELSE @]]
    /\ UNCHANGED <<order, left, announced>>

Receive(p) ==
    /\ level' = [level EXCEPT ![p].onHand = @ + 1]
    /\ UNCHANGED <<hold, order, left, announced, posted>>

-----------------------------------------------------------------------------
Init ==
    /\ level = [p \in Products |-> [onHand |-> OnHand[p], reserved |-> 0]]
    /\ hold = [l \in Lines |-> NoResv]
    /\ order = [o \in Orders |-> "NONE"]
    /\ left = [l \in Lines |-> [reserved |-> 0, fulfilled |-> 0]]
    /\ announced = [e \in Events |-> <<>>]
    /\ posted = {}

Next ==
    \/ \E o \in Orders : Create(o) \/ Confirm(o) \/ Allocate(o) \/ Cancel(o)
    \/ \E o \in Orders, r \in Requests, e \in Events : Fulfill(o, r, e)
    \/ \E e \in Events : Post(e)
    \/ \E p \in Products : Receive(p)

Spec == Init /\ [][Next]_state
=============================================================================
