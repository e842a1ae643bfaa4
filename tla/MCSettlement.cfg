SPECIFICATION Spec
CONSTANTS
    Products = {p1}
    Settlements = {d1}
    Requests = {r1, r2}
    MaxQty = 1
    MaxCash = 1
    MaxCharge = 2
    MaxDay = 2
    Price <- MCPrice
SYMMETRY Symmetry
INVARIANTS
    TypeOK
    DuesMatchLedger
    DecidedIsCharged
    StockCoversReceipts
CHECK_DEADLOCK FALSE
