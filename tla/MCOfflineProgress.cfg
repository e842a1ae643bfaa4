SPECIFICATION FairSpec
CONSTANTS
    NoPass = NoPass
    Ids = {1, 2}
    Passes = {p1, p2}
    Requests = {r1}
    Kinds = {"sale"}
    AutoTries = 2
    MaxManualRetry = 3
    MaxEntries = 1
    MaxRows = 1
    MaxStarts = 1
PROPERTIES
    ImplementsOutbox
    FlagReleased
    PendingSettles
\* The store is empty or waits for a reload that the bound no longer allows.
CHECK_DEADLOCK FALSE
