SPECIFICATION Spec
CONSTANTS
    Ann = Ann
    Ben = Ben
    OldPayment = old
    Customers = {Ann, Ben}
    Sales = {1, 2, 3}
    Payments = {p1, d1, old}
    Direct = {d1}
    Legacy = {old}
    Requests = {r1, r2}
    Choices = {{}, {2}}
    MaxAmount = 2
    CreditLimit = 2
    Tolerance = 1
    Chosen <- MCChosen
    Customer <- MCCustomer
    Opening <- MCOpening
SYMMETRY Symmetry
INVARIANTS
    TypeOK
    InvoiceNotOverpaid
    PaymentNotOverspent
    RejectedSettlesNothing
    DebtNeverLost
PROPERTY ImplementsBook
CHECK_DEADLOCK FALSE
