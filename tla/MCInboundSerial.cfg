SPECIFICATION SerialSpec
CONSTANTS
    NoTx = NoTx
    NoOrder = NoOrder
    A1 = A1
    A2 = A2
    B1 = B1
    B2 = B2
    PA = PA
    PB = PB
    X = X
    Y = Y
    Products = {X, Y}
    Orders = {PA, PB}
    Lines <- WideLines
    OrderOf <- WideOrderOf
    ProductOf <- WideProductOf
    Ordered <- WideOrdered
    Requests <- WideRequests
    Txs = {t1, t2}
    MaxEvents = 4
    MaxDeliveries = 2
SYMMETRY Symmetric
INVARIANTS
    NeverOverReceived
    StatusTellsLines
PROPERTIES
    ActsAtomically
CHECK_DEADLOCK FALSE
