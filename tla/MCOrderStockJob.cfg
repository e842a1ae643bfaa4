SPECIFICATION CreateAndSync
CONSTANTS
    Products = {p1, p2}
    Orders = {o1, o2}
    Workers = {w1}
    AnyWorker = w1
    Requests = {r1}
    MaxQty = 2
    DailyLimit = 3
    StockPerProduct = 2
    BatchPerProduct = 1
    Owner <- MCOwner
    InitStock <- MCStock
    InitBatch <- MCBatch
INVARIANT PendingCovered
