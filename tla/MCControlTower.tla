--------------------------- MODULE MCControlTower ---------------------------
(***************************************************************************)
(* The seed runs at ten in the morning of a Wednesday, 300 days into the   *)
(* calendar; a behaviour is about purchasing, selling or carrying.         *)
(***************************************************************************)
EXTENDS ControlTower

MCSeedTime == 300 * Day + 10
MCMonthStarts == {0, 31, 59, 90, 120, 151, 181, 212, 243, 273, 304, 334}

MCPlans ==
    {work \cup {<<"days", 0>>} : work \in
        {{<<"PO", 1>>, <<"PO", 101>>},
         {<<"PO", 102>>, <<"seed", 0>>},
         {<<"PO", 104>>, <<"SO", 104>>, <<"seed", 0>>},
         {<<"PO", 2>>, <<"create", 3>>, <<"seed", 0>>},
         {<<"PO", 1>>, <<"SO", 1>>},
         {<<"PO", 102>>, <<"SO", 1>>, <<"SHP", 1>>},
         {<<"PO", 90>>, <<"SHP", 90>>, <<"seed", 0>>}}}
    \cup {{<<"create", 92>>, <<"seed", 0>>}}

-----------------------------------------------------------------------------
(* The figures of the golden fixtures, as documents and tests give them.   *)

Golden == Seeded(EmptyDb, MCSeedTime)
Wide == Custom(MCSeedTime - 40 * Day, MCSeedTime + 20 * Day)
            @@ [supplier |-> All, customer |-> All, warehouse |-> All]

ASSUME OtifIsAThird == FulfillmentSummary(Golden, Wide).otif.percent = 3333
ASSUME SuppliersScored ==
    /\ SupplierRows(Golden, Wide)["SUP-001"].onTime = 10000
    /\ SupplierRows(Golden, Wide)["SUP-003"].onTime = 0
ASSUME RiskClassified ==
    /\ InventoryRow(Golden, "ELEC-002").projected = -500
    /\ InventoryRow(Golden, "ELEC-002").risk = "PROJECTED_STOCKOUT"
    /\ InventoryRow(Golden, "ELEC-003").projected = 300
    /\ InventoryRow(Golden, "ELEC-003").risk = "HEALTHY"
ASSUME OneOrderOverdue == ProcurementSummary(Golden, Wide, MCSeedTime).overdue = 1
ASSUME MonthIsDaily == TrendBucket(Preset("30d", MCSeedTime)) = "day"
=============================================================================
