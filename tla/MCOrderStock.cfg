SPECIFICATION Spec
CONSTANTS
    Products = {p1, p2}
    Orders = {o1, o2, o3}
    Workers = {w1}
    AnyWorker = w1
    Requests = {r1, r2}
    MaxQty = 2
    DailyLimit = 1
    StockPerProduct = 1
    BatchPerProduct = 1
    Owner <- MCOwner
    InitStock <- MCStock
    InitBatch <- MCBatch
SYMMETRY Symmetry
INVARIANTS
    TypeOK
    NoReservationLeak
    StockNeverLost
    LedgerMatchesMovements
    OverrunBounded
