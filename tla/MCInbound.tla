------------------------------ MODULE MCInbound ------------------------------
(***************************************************************************)
(* Two purchase orders.  PA has a line for each of two products, one of    *)
(* them for two units; PB has one line, for a product of PA's.             *)
(***************************************************************************)
EXTENDS Inbound, TLC

CONSTANTS A1, A2, B1, B2, PA, PB, X, Y

\* PA alone, received in parts or in either order: requests may deadlock.
PairRequests == {<<[line |-> A1, qty |-> 1], [line |-> A2, qty |-> 1]>>,
                 <<[line |-> A2, qty |-> 1], [line |-> A1, qty |-> 1]>>,
                 <<[line |-> A1, qty |-> 1]>>}
PairLines == {A1, A2}
PairOrderOf == A1 :> PA @@ A2 :> PA
PairProductOf == A1 :> X @@ A2 :> Y
PairOrdered == A1 :> 2 @@ A2 :> 1

\* PB wants PA's products in the opposite order: handlers may deadlock.
WideLines == {A1, A2, B1, B2}
WideOrderOf == A1 :> PA @@ A2 :> PA @@ B1 :> PB @@ B2 :> PB
WideProductOf == A1 :> X @@ A2 :> Y @@ B1 :> X @@ B2 :> Y
WideOrdered == A1 :> 2 @@ A2 :> 1 @@ B1 :> 1 @@ B2 :> 2
WideRequests == {<<[line |-> A1, qty |-> 1], [line |-> A2, qty |-> 1]>>,
                 <<[line |-> A1, qty |-> 1]>>,
                 <<[line |-> B2, qty |-> 1], [line |-> B1, qty |-> 1]>>,
                 <<[line |-> B2, qty |-> 1]>>, <<[line |-> A1, qty |-> 2]>>}

\* One product, one line per order.
OneLines == {A1, B1}
OneOrderOf == A1 :> PA @@ B1 :> PB
OneProductOf == A1 :> X @@ B1 :> X
OneOrdered == A1 :> 2 @@ B1 :> 1
OneRequests == {<<[line |-> A1, qty |-> 1]>>, <<[line |-> B1, qty |-> 1]>>}

Symmetric == Permutations(Txs)
=============================================================================
