SPECIFICATION FaultFreeSpec
CONSTANTS
    NoTx = NoTx
    NoOrder = NoOrder
    A1 = A1
    A2 = A2
    B1 = B1
    B2 = B2
    OA = OA
    OB = OB
    Products <- MCProducts
    Orders <- MCOrders
    Lines <- MCLines
    OrderOf <- MCOrderOf
    ProductOf <- MCProductOf
    Ordered <- MCOrdered
    OnHand <- MCOnHand
    Requests <- MixedRequests
    Txs = {t1, t2}
    MaxEvents = 4
    MaxDeliveries = 1
    MaxReceived = 0
SYMMETRY Symmetric
INVARIANTS
    CancelledHoldsNothing
CHECK_DEADLOCK FALSE
