SPECIFICATION Spec
CONSTANTS
    NoTx = NoTx
    NoOrder = NoOrder
    A1 = A1
    A2 = A2
    B1 = B1
    B2 = B2
    OA = OA
    OB = OB
    Products <- MCProducts
    Orders <- MCOrders
    Lines <- MCLines
    OrderOf <- MCOrderOf
    ProductOf <- MCProductOf
    Ordered <- MCOrdered
    OnHand <- MCOnHand
    Requests <- MCRequests
    Txs = {t1, t2}
    MaxEvents = 3
    MaxDeliveries = 2
    MaxReceived = 0
SYMMETRY Symmetric
INVARIANTS
    TypeOK
    NoOversell
    LineBudget
    PostedExactlyOnce
    AllOrNothing
    AllocationsNeverDeadlock
CHECK_DEADLOCK FALSE
