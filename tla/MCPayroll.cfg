SPECIFICATION Spec
SYMMETRY Symmetry
CONSTANTS
    h1 = h1
    h2 = h2
    s1 = s1
    s2 = s2
    d1 = d1
    A = A
    B = B
    Days = {d1}
    MaxSold = 2
    Commission <- MCCommission
    Slips = {s1, s2}
    Refs = {A, B}
    FirstDues = 1
    MaxDues = 2
    Handlers = {h1, h2}
INVARIANTS
    TypeOK
    SettledDayAgrees
    PayoutsMatchRows
    DuesNeverLost
PROPERTIES
    PaidAmountFixed
