SPECIFICATION LiveSpec
CONSTANTS
    NoTx = NoTx
    NoOrder = NoOrder
    A1 = A1
    A2 = A2
    B1 = B1
    B2 = B2
    OA = OA
    OB = OB
    Products <- OneProduct
    Orders <- MCOrders
    Lines <- OneLineLines
    OrderOf <- OneLineOrderOf
    ProductOf <- OneLineProductOf
    Ordered <- OneLineOrdered
    OnHand <- OneLineOnHand
    Requests <- OneLineRequests
    Txs = {t1, t2}
    MaxEvents = 3
    MaxDeliveries = 1
    MaxReceived = 1
PROPERTIES
    TransactionsEnd
    LedgerCatchesUp
CHECK_DEADLOCK FALSE
