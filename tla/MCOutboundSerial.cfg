SPECIFICATION SerialSpec
CONSTANTS
    NoTx = NoTx
    NoOrder = NoOrder
    A1 = A1
    A2 = A2
    B1 = B1
    B2 = B2
    OA = OA
    OB = OB
    Products <- MCProducts
    Orders <- MCOrders
    Lines <- WideLines
    OrderOf <- WideOrderOf
    ProductOf <- WideProductOf
    Ordered <- WideOrdered
    OnHand <- WideOnHand
    Requests <- WideRequests
    Txs = {t1, t2}
    MaxEvents = 4
    MaxDeliveries = 2
    MaxReceived = 1
SYMMETRY Symmetric
INVARIANTS
    ReservedIsOutstanding
    NeverNegative
    StatusTellsLines
PROPERTIES
    ActsAtomically
CHECK_DEADLOCK FALSE
