SPECIFICATION LiveSerialSpec
CONSTANTS
    NoTx = NoTx
    NoOrder = NoOrder
    A1 = A1
    A2 = A2
    B1 = B1
    B2 = B2
    PA = PA
    PB = PB
    X = X
    Y = Y
    Products = {X}
    Orders = {PA, PB}
    Lines <- OneLines
    OrderOf <- OneOrderOf
    ProductOf <- OneProductOf
    Ordered <- OneOrdered
    Requests <- OneRequests
    Txs = {t1, t2}
    MaxEvents = 3
    MaxDeliveries = 2
PROPERTIES
    ReceiptsReachStock
    ShipmentMovesOrder
CHECK_DEADLOCK FALSE
