SPECIFICATION Spec
CONSTANTS
    Ann = Ann
    Ben = Ben
    OldPayment = none
    Customers = {Ann}
    Sales = {1}
    Payments = {p1}
    Direct = {}
    Legacy = {}
    Requests = {r1, r2}
    Choices = {{}}
    MaxAmount = 2
    CreditLimit = 2
    Tolerance = 0
    Chosen <- MCChosen
    Customer <- MCCustomer
    Opening <- MCOpening
INVARIANT BalanceRestored
CHECK_DEADLOCK FALSE
