----------------------------- MODULE Callbacks -----------------------------
(***************************************************************************)
(* The callbacks that services pass to withTenant: what each connection    *)
(* has read in the transaction it has open, and what it still has to do.   *)
(* A callback that works through a list keeps it in `work' and its         *)
(* position in `next', one item per step; `at' names its next step.        *)
(***************************************************************************)
EXTENDS Integers, Sequences

CONSTANTS
    Txs,        \* database transactions that may be open at one time
    NoOrder     \* the order of a transaction that works for none

VARIABLE tx

\* A transaction that has just begun; `to' is a status it will decide on.
Begun(op, at, order, event, work) ==
    [op |-> op, at |-> at, order |-> order, event |-> event,
     work |-> work, next |-> 1, to |-> "NONE"]

Idle == Begun("idle", "start", NoOrder, 0, <<>>)

Item(t) == tx[t].work[tx[t].next]
At(t, op, at) == tx[t].op = op /\ tx[t].at = at

\* Mutant: the loop runs one past the last item.
AdvancedPastEnd(t, then) ==
    [tx[t] EXCEPT !.next = @ + 1,
                  !.at = IF tx[t].next > Len(tx[t].work) THEN then ELSE "work"]

\* The transaction once it is done with Item(t); after the last it is at `then'.
Advanced(t, then) ==
    [tx[t] EXCEPT !.next = @ + 1,
                  !.at = IF tx[t].next = Len(tx[t].work) THEN then ELSE "work"]

Closed(t) == tx' = [tx EXCEPT ![t] = Idle]
=============================================================================
