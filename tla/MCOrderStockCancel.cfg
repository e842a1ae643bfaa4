SPECIFICATION Spec
CONSTANTS
    Products = {p1}
    Orders = {o1}
    Workers = {w1}
    AnyWorker = w1
    Requests = {r1, r2}
    MaxQty = 2
    DailyLimit = 3
    StockPerProduct = 2
    BatchPerProduct = 1
    Owner <- MCOwner
    InitStock <- MCStock
    InitBatch <- MCBatch
INVARIANT CancelledNeverIssued
