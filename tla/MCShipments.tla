---------------------------- MODULE MCShipments ----------------------------
(***************************************************************************)
(* One shipment that goes through its lifecycle while its ETA changes, or  *)
(* while it gets events and may be cancelled, or that is cancelled before  *)
(* it leaves; or two, so that lists have more than one to do.              *)
(***************************************************************************)
EXTENDS Shipments, TLC

MCPlans ==
    {1 :> Requests \ {"CANCELLED", "EVENT", "DATED"} @@ 2 :> {},
     1 :> Requests \ {"ETA"} @@ 2 :> {},
     1 :> {"CREATED", "BOOKED", "CANCELLED", "ETA"} @@ 2 :> {},
     1 :> {"CREATED", "BOOKED", "CANCELLED"} @@ 2 :> {"CREATED"}}

Symmetric == Permutations(Txs)
=============================================================================
