----------------------------- MODULE MCOutbound -----------------------------
(***************************************************************************)
(* Two orders that want the same two products.  Order OA has a line per    *)
(* product and comes back from the database in either order; A2 is for two *)
(* units, so that it can be fulfilled in parts.                            *)
(***************************************************************************)
EXTENDS Outbound, TLC

CONSTANTS A1, A2, B1, B2, OA, OB

MCProducts == {1, 2}
MCOrders == {OA, OB}

\* OB has one line, and there is enough for one of the two orders only.
MCLines == {A1, A2, B1}
MCOrderOf == A1 :> OA @@ A2 :> OA @@ B1 :> OB
MCProductOf == A1 :> 2 @@ A2 :> 1 @@ B1 :> 1
MCOrdered == A1 :> 1 @@ A2 :> 2 @@ B1 :> 1
MCOnHand == 1 :> 2 @@ 2 :> 1
MCRequests == {<<[line |-> A1, qty |-> 1], [line |-> A2, qty |-> 1]>>,
               <<[line |-> A2, qty |-> 1]>>, <<[line |-> B1, qty |-> 1]>>}

\* OB has two lines, shipped together; a goods receipt makes up for what is
\* missing at first.
WideLines == {A1, A2, B1, B2}
WideOrderOf == MCOrderOf @@ B2 :> OB
WideProductOf == MCProductOf @@ B2 :> 2
WideOrdered == MCOrdered @@ B2 :> 1
WideOnHand == 1 :> 2 @@ 2 :> 2
WideRequests == MCRequests \cup {<<[line |-> B2, qty |-> 1], [line |-> B1, qty |-> 1]>>,
                                 <<[line |-> A1, qty |-> 1]>>}

\* MCRequests, and a request that names the other line of OA alone.
MixedRequests == MCRequests \cup {<<[line |-> A1, qty |-> 1]>>}

\* Orders of one line each: whoever waits, waits for one row at a time.
OneProduct == {1}
OneLineLines == {A2, B1}
OneLineOrderOf == A2 :> OA @@ B1 :> OB
OneLineProductOf == A2 :> 1 @@ B1 :> 1
OneLineOrdered == A2 :> 2 @@ B1 :> 1
OneLineOnHand == 1 :> 1
OneLineRequests == {<<[line |-> A2, qty |-> 1]>>, <<[line |-> B1, qty |-> 1]>>}

Symmetric == Permutations(Txs)
=============================================================================
