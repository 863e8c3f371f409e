SPECIFICATION Spec
CONSTANTS
    NoTx = NoTx
    NoOrder = NoOrder
    A1 = A1
    A2 = A2
    B1 = B1
    B2 = B2
    PA = PA
    PB = PB
    X = X
    Y = Y
    Products = {X, Y}
    Orders = {PA}
    Lines <- PairLines
    OrderOf <- PairOrderOf
    ProductOf <- PairProductOf
    Ordered <- PairOrdered
    Requests <- PairRequests
    Txs = {t1, t2}
    MaxEvents = 3
    MaxDeliveries = 2
SYMMETRY Symmetric
INVARIANTS
    TypeOK
    ReceiptsPostedOnce
    ReceivedOnlyIfShipped
CHECK_DEADLOCK FALSE
