SPECIFICATION Spec
CONSTANTS
    NoPass = NoPass
    Ids = {1, 2}
    Passes = {p1, p2}
    Requests = {r1, r2}
    Kinds = {"sale", "collection"}
    AutoTries = 2
    MaxManualRetry = 3
    MaxEntries = 1
    MaxRows = 2
    MaxStarts = 2
SYMMETRY MCSymmetry
INVARIANTS
    TypeOK
    RemovedWasRecorded
    SalesPerKeyBounded
    FlagHasHolder
\* The store is empty or waits for a reload that the bound no longer allows.
CHECK_DEADLOCK FALSE
