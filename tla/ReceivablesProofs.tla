------------------------- MODULE ReceivablesProofs -------------------------
(***************************************************************************)
(* Theorems about Receivables, for every set of customers, invoices,       *)
(* payments and concurrent handlers.                                       *)
(***************************************************************************)
EXTENDS Receivables, SumsProofs

(* What the kind of a request says about its other fields.                 *)
LEMMA RequestKinds ==
  ASSUME NEW q \in Request
  PROVE  /\ q.kind = "pay" => q \in PayRequest
         /\ q.kind \in {"verify", "reject"} => q \in DecideRequest
BY DEF Request, Idle, PayRequest, DecideRequest

(* A column of the allocations is a column of numbers; what remains of an  *)
(* invoice is at most its bill.                                            *)
LEMMA ColumnType ==
  ASSUME TypeOK, NEW s \in Sales
  PROVE  /\ Column(s) \in [Payments -> Nat]
         /\ Total(Column(s)) \in Nat
         /\ Remaining(s) \in Int
         /\ Remaining(s) <= credit[s]
         /\ credit[s] \in 0..MaxAmount
<1> USE RowTypes, LimitTypes
<1>1. Column(s) \in [Payments -> Nat]
  BY DEF TypeOK, Column
<1>2. Total(Column(s)) \in Nat
  BY <1>1, TotalType
<1> QED
  BY <1>1, <1>2 DEF TypeOK, Remaining

(* planFifoAllocation gives an invoice no more than remains of it, and     *)
(* nothing to an invoice that is not open.                                 *)
LEMMA PlanBounded ==
  ASSUME TypeOK, NEW c \in Customers, NEW n \in Nat, NEW preferred, NEW s \in Sales
  PROVE  /\ Plan(c, n, preferred)[s] \in 0..MaxAmount
         /\ Plan(c, n, preferred)[s] > 0 =>
               Customer[s] = c /\ Plan(c, n, preferred)[s] <= Remaining(s)
<1> USE RowTypes, LimitTypes
<1> DEFINE taken == [t \in Sales |-> IF t \in OpenSales(c) /\ Before(preferred, t, s)
                                     THEN Remaining(t) ELSE 0]
<1>1. taken \in [Sales -> Nat]
  <2>1. \A t \in OpenSales(c) : Remaining(t) \in Nat
    BY ColumnType DEF OpenSales
  <2> QED
    BY <2>1
<1>2. Total(taken) \in Nat
  BY <1>1, TotalType
<1>3. Left(c, n, preferred, s) \in Nat
  BY <1>2 DEF Left, Greatest0
<1>4. CASE s \in OpenSales(c)
  <2>1. Remaining(s) \in 1..MaxAmount
    BY <1>4, ColumnType DEF OpenSales
  <2>2. Plan(c, n, preferred)[s] = Least(Left(c, n, preferred, s), Remaining(s))
    BY <1>4 DEF Plan
  <2> QED
    BY <1>3, <1>4, <2>1, <2>2 DEF Least, OpenSales
<1>5. CASE s \notin OpenSales(c)
  BY <1>5 DEF Plan
<1> QED
  BY <1>4, <1>5

(* The order in which planFifoAllocation goes through the invoices, and    *)
(* what each of them can still take from a payment of customer c.          *)
Order(preferred) == {w \in Sales \X Sales : Before(preferred, w[1], w[2])}
Room(c) == [s \in Sales |-> IF s \in OpenSales(c) THEN Remaining(s) ELSE 0]

LEMMA OrderStrict ==
  ASSUME NEW preferred
  PROVE  /\ \A s, t \in Sales : <<s, t>> \in Order(preferred) <=> Before(preferred, s, t)
         /\ \A x \in Sales : <<x, x>> \notin Order(preferred)
         /\ \A x, y \in Sales : x # y => <<x, y>> \in Order(preferred) \/ <<y, x>> \in Order(preferred)
         /\ \A x, y, z \in Sales :
               <<x, y>> \in Order(preferred) /\ <<y, z>> \in Order(preferred)
                 => <<x, z>> \in Order(preferred)
<1>1. \A s, t \in Sales : <<s, t>> \in Order(preferred) <=> Before(preferred, s, t)
  BY DEF Order
<1>2. /\ \A x \in Sales : ~Before(preferred, x, x)
      /\ \A x, y \in Sales : x # y => Before(preferred, x, y) \/ Before(preferred, y, x)
      /\ \A x, y, z \in Sales :
            Before(preferred, x, y) /\ Before(preferred, y, z) => Before(preferred, x, z)
  BY RowTypes DEF Before
<1> QED
  BY <1>1, <1>2

LEMMA RoomType ==
  ASSUME TypeOK, NEW c \in Customers
  PROVE  Room(c) \in [Sales -> Nat]
<1>1. \A t \in OpenSales(c) : Remaining(t) \in Nat
  BY ColumnType DEF OpenSales
<1> QED
  BY <1>1 DEF Room

(* What is left of the amount when the loop reaches invoice s.             *)
LEMMA LeftOver ==
  ASSUME TypeOK, NEW c \in Customers, NEW n \in Nat, NEW preferred, NEW s \in Sales
  PROVE  LET ahead == RoomBefore(Sales, Order(preferred), Room(c), s) IN
         /\ ahead \in [Sales -> Nat] /\ Total(ahead) \in Nat
         /\ Left(c, n, preferred, s) = Greatest0(n - Total(ahead))
         /\ Plan(c, n, preferred)[s] = Least(Left(c, n, preferred, s), Room(c)[s])
<1> DEFINE ahead == RoomBefore(Sales, Order(preferred), Room(c), s)
           taken == [t \in Sales |-> IF t \in OpenSales(c) /\ Before(preferred, t, s)
                                     THEN Remaining(t) ELSE 0]
<1>1. Room(c) \in [Sales -> Nat]
  BY RoomType
<1>2. ahead = taken
  BY OrderStrict DEF RoomBefore, Room
<1>3. ahead \in [Sales -> Nat]
  BY <1>1 DEF RoomBefore
<1>4. Total(ahead) \in Nat
  BY <1>3, RowTypes, TotalType
<1>5. Left(c, n, preferred, s) = Greatest0(n - Total(ahead))
  BY <1>2 DEF Left
<1>6. Plan(c, n, preferred)[s] = Least(Left(c, n, preferred, s), Room(c)[s])
  <2>1. Left(c, n, preferred, s) \in Nat
    BY <1>4, <1>5 DEF Greatest0
  <2> QED
    BY <2>1 DEF Plan, Room, Least
<1> QED
  BY <1>3, <1>4, <1>5, <1>6

LEMMA PlanType ==
  ASSUME TypeOK, NEW c \in Customers, NEW n \in Nat, NEW preferred
  PROVE  Plan(c, n, preferred) \in [Sales -> Nat]
<1>1. \A s \in Sales : Plan(c, n, preferred)[s] \in Nat
  BY PlanBounded, LimitTypes
<1> QED
  BY <1>1 DEF Plan

(* planFifoAllocation spends no more than the amount: it fills the open    *)
(* invoices one after another, in the order of orderWithPreferred.         *)
LEMMA PlanWithinAmount ==
  ASSUME TypeOK, NEW c \in Customers, NEW n \in Nat, NEW preferred
  PROVE  Total(Plan(c, n, preferred)) <= n
<1> DEFINE give == Plan(c, n, preferred)
           room == Room(c)
           R == Order(preferred)
<1>1. give \in [Sales -> Nat] /\ room \in [Sales -> Nat]
  BY PlanType, RoomType
<1>2. \A s \in Sales : /\ give[s] <= room[s]
                       /\ give[s] > 0 => Total(RoomBefore(Sales, R, room, s)) + give[s] <= n
  <2> TAKE s \in Sales
  <2>1. PICK m \in Nat : m = Total(RoomBefore(Sales, R, room, s))
    BY LeftOver
  <2>2. give[s] = Least(Greatest0(n - m), room[s])
    BY <2>1, LeftOver
  <2> HIDE DEF give, room, R
  <2> QED
    BY <1>1, <2>1, <2>2 DEF Least, Greatest0
<1>3. /\ \A x \in Sales : <<x, x>> \notin R
      /\ \A x, y \in Sales : x # y => <<x, y>> \in R \/ <<y, x>> \in R
      /\ \A x, y, z \in Sales : <<x, y>> \in R /\ <<y, z>> \in R => <<x, z>> \in R
  BY OrderStrict
<1> HIDE DEF give, room, R
<1>4. Total(give) <= n
  BY <1>1, <1>2, <1>3, RowTypes, TotalFilled
<1> QED
  BY <1>4 DEF give

(* The plan is what the loop of planFifoAllocation computes: the first     *)
(* open invoice is offered the whole amount, and each further one what the *)
(* one before it left (left -= take).                                      *)
THEOREM PlanIsLoop ==
  ASSUME TypeOK, NEW c \in Customers, NEW n \in Nat, NEW preferred, NEW s \in OpenSales(c)
  PROVE  /\ (\A t \in OpenSales(c) : ~Before(preferred, t, s)) => Left(c, n, preferred, s) = n
         /\ \A t \in OpenSales(c) :
              /\ Before(preferred, s, t)
              /\ \A u \in OpenSales(c) : ~(Before(preferred, s, u) /\ Before(preferred, u, t))
              => Left(c, n, preferred, t) = Left(c, n, preferred, s) - Plan(c, n, preferred)[s]
<1> DEFINE room == Room(c)
           R == Order(preferred)
           ahead(x) == RoomBefore(Sales, R, room, x)
<1>1. s \in Sales /\ room \in [Sales -> Nat]
  BY RoomType DEF OpenSales
<1>2. ASSUME \A t \in OpenSales(c) : ~Before(preferred, t, s)
      PROVE  Left(c, n, preferred, s) = n
  <2>1. \A t \in Sales : ahead(s)[t] = 0
    BY <1>1, <1>2, OrderStrict DEF RoomBefore, Room
  <2>2. Total(ahead(s)) = 0
    BY <1>1, <2>1, LeftOver, TotalZero
  <2>3. Left(c, n, preferred, s) = Greatest0(n - 0)
    BY <1>1, <2>2, LeftOver
  <2> QED
    BY <2>3 DEF Greatest0
<1>3. ASSUME NEW t \in OpenSales(c), Before(preferred, s, t),
             \A u \in OpenSales(c) : ~(Before(preferred, s, u) /\ Before(preferred, u, t))
      PROVE  Left(c, n, preferred, t) = Left(c, n, preferred, s) - Plan(c, n, preferred)[s]
  <2>1. t \in Sales
    BY DEF OpenSales
  <2>2. <<s, t>> \in R /\ <<s, s>> \notin R
    BY <1>1, <1>3, <2>1, OrderStrict
  <2>3. \A u \in Sales : <<u, s>> \in R => <<u, t>> \in R
    BY <1>1, <2>1, <2>2, OrderStrict
  <2>4. \A u \in Sales : <<u, t>> \in R /\ u # s /\ <<u, s>> \notin R => room[u] = 0
    <3>1. \A u \in Sales : <<u, t>> \in R /\ u # s /\ <<u, s>> \notin R =>
            Before(preferred, s, u) /\ Before(preferred, u, t)
      BY <1>1, <2>1, OrderStrict
    <3> QED
      BY <1>3, <3>1 DEF Room
  <2>5. NextAfter(Sales, R, room, s, t)
    BY <2>2, <2>3, <2>4 DEF NextAfter
  <2> HIDE DEF room, R
  <2>6. Total(ahead(t)) = Total(ahead(s)) + room[s]
    <3>1. IsFiniteSet(Sales) /\ s \in Sales /\ t \in Sales /\ room \in [Sales -> Nat]
      BY <1>1, <2>1, RowTypes
    <3> QED
      BY <2>5, <3>1, RoomOfNext
  <2>7. PICK m \in Nat, k \in Nat : m = Total(ahead(s)) /\ k = Total(ahead(t))
    BY <1>1, <2>1, LeftOver DEF room, R
  <2>8. /\ Left(c, n, preferred, s) = Greatest0(n - m)
        /\ Left(c, n, preferred, t) = Greatest0(n - k)
        /\ Plan(c, n, preferred)[s] = Least(Greatest0(n - m), room[s])
    BY <1>1, <2>1, <2>7, LeftOver DEF room, R
  <2>9. k = m + room[s] /\ room[s] \in Nat
    BY <1>1, <2>6, <2>7
  <2> QED
    BY <2>7, <2>8, <2>9 DEF Least, Greatest0
<1> QED
  BY <1>2, <1>3

(* An allocation settles all it can: either the whole amount, or all that  *)
(* is still open (unallocated is what no open invoice could take).         *)
THEOREM PlanUsesAmount ==
  ASSUME TypeOK, NEW c \in Customers, NEW n \in Nat, NEW preferred
  PROVE  Total(Plan(c, n, preferred)) = Least(n, Total(Room(c)))
<1> DEFINE give == Plan(c, n, preferred)
           room == Room(c)
           R == Order(preferred)
<1>1. give \in [Sales -> Nat] /\ room \in [Sales -> Nat]
  BY PlanType, RoomType
<1>2. \A s \in Sales : /\ give[s] <= room[s]
                       /\ give[s] < room[s] => n <= Total(RoomBefore(Sales, R, room, s)) + give[s]
  <2> TAKE s \in Sales
  <2>1. PICK m \in Nat : m = Total(RoomBefore(Sales, R, room, s))
    BY LeftOver
  <2>2. give[s] = Least(Greatest0(n - m), room[s])
    BY <2>1, LeftOver
  <2> HIDE DEF give, room, R
  <2> QED
    BY <1>1, <2>1, <2>2 DEF Least, Greatest0
<1>3. /\ \A x \in Sales : <<x, x>> \notin R
      /\ \A x, y, z \in Sales : <<x, y>> \in R /\ <<y, z>> \in R => <<x, z>> \in R
  BY OrderStrict
<1>4. Total(give) <= n
  BY PlanWithinAmount
<1> HIDE DEF give, room, R
<1>5. give = room \/ n <= Total(give)
  <2>1. \A s \in Sales : give[s] <= room[s]
    BY <1>2
  <2>2. \A s \in Sales : give[s] < room[s] => n <= Total(RoomBefore(Sales, R, room, s)) + give[s]
    BY <1>2
  <2>3. IsFiniteSet(Sales)
    BY RowTypes
  <2> QED
    BY <1>1, <1>3, <2>1, <2>2, <2>3, TotalFilledUp, Zenon
<1>6. Total(give) <= Total(room)
  BY <1>1, <1>2, RowTypes, TotalMonotone
<1>7. Total(give) \in Nat /\ Total(room) \in Nat
  BY <1>1, RowTypes, TotalType
<1>8. Total(give) = Least(n, Total(room))
  BY <1>4, <1>5, <1>6, <1>7 DEF Least
<1> QED
  BY <1>8 DEF give, room

(* allocatePaymentSafe either leaves the rows of a payment alone, or gives *)
(* a payment without rows what remains of invoices of its customer, up to  *)
(* the amount.                                                             *)
LEMMA AllocatedRow ==
  ASSUME TypeOK, NEW p \in Payments, NEW n \in Nat, NEW preferred, NEW ok \in BOOLEAN
  PROVE  LET row == Allocated(p, n, preferred, ok) IN
         /\ row \in [Sales -> 0..MaxAmount]
         /\ \/ row = alloc[p]
            \/ /\ alloc[p] = Nothing
               /\ Total(row) <= n
               /\ \A s \in Sales : row[s] > 0 =>
                     Customer[s] = Customer[p] /\ row[s] <= Remaining(s)
<1> USE RowTypes, LimitTypes
<1>1. Customer[p] \in Customers /\ alloc[p] \in [Sales -> 0..MaxAmount]
  BY DEF TypeOK
<1>2. CASE ~ok \/ AlreadyAllocated(p)
  BY <1>1, <1>2 DEF Allocated
<1>3. CASE ok /\ ~AlreadyAllocated(p)
  <2>1. \A s \in Sales : alloc[p][s] = 0
    BY <1>1, <1>3 DEF AlreadyAllocated
  <2>2. alloc[p] = Nothing
    BY <1>1, <2>1 DEF Nothing
  <2>3. Allocated(p, n, preferred, ok) = [s \in Sales |-> Plan(Customer[p], n, preferred)[s]]
    BY <1>3, <2>1 DEF Allocated
  <2>4. Allocated(p, n, preferred, ok) = Plan(Customer[p], n, preferred)
    BY <2>3 DEF Plan
  <2> QED
    BY <1>1, <2>2, <2>3, <2>4, PlanBounded, PlanWithinAmount
<1> QED
  BY <1>2, <1>3

(* What a committed payment does: a new row, a balance lowered by at most  *)
(* its amount, and allocations of what remains of its customer's invoices. *)
LEMMA PayEffect ==
  ASSUME TypeOK, NEW r \in Requests, NEW ok \in BOOLEAN,
         CommitCollection(r, ok) \/ CommitDirect(r, ok)
  PROVE  \E p \in Payments, n \in Amounts, row \in [Sales -> 0..MaxAmount], d \in Nat :
            /\ status[p] = "none"
            /\ \E st \in {"pending", "paid"} : status' = [status EXCEPT ![p] = st]
            /\ amount' = [amount EXCEPT ![p] = n]
            /\ d >= due[Customer[p]] - n
            /\ due' = [due EXCEPT ![Customer[p]] = d]
            /\ \/ row = alloc[p]
               \/ /\ alloc[p] = Nothing
                  /\ Total(row) <= n
                  /\ \A s \in Sales : row[s] > 0 =>
                        Customer[s] = Customer[p] /\ row[s] <= Remaining(s)
            /\ alloc' = [alloc EXCEPT ![p] = row]
            /\ req' = [req EXCEPT ![r] = Idle]
            /\ credit' = credit
<1> USE RowTypes, LimitTypes
<1>1. PICK p \in Payments : p = req[r].payment
  BY RequestKinds DEF CommitCollection, CommitDirect, TypeOK, PayRequest
<1>2. PICK n \in Amounts : n = req[r].amount
  BY RequestKinds DEF CommitCollection, CommitDirect, TypeOK, PayRequest
<1>3. PICK row : row = Allocated(p, n, req[r].preferred, ok)
  OBVIOUS
<1>4. /\ row \in [Sales -> 0..MaxAmount]
      /\ \/ row = alloc[p]
         \/ /\ alloc[p] = Nothing
            /\ Total(row) <= n
            /\ \A s \in Sales : row[s] > 0 =>
                  Customer[s] = Customer[p] /\ row[s] <= Remaining(s)
  BY <1>2, <1>3, AllocatedRow DEF Amounts
<1>5. Customer[p] \in Customers /\ due[Customer[p]] \in Nat /\ n \in Nat
  BY <1>2 DEF TypeOK, Amounts
<1>6. CASE CommitCollection(r, ok)
  <2>1. Greatest0(due[Customer[p]] - n) \in Nat
        /\ Greatest0(due[Customer[p]] - n) >= due[Customer[p]] - n
    BY <1>5 DEF Greatest0
  <2>2. /\ status[p] = "none"
        /\ status' = [status EXCEPT ![p] = "pending"]
        /\ amount' = [amount EXCEPT ![p] = n]
        /\ due' = [due EXCEPT ![Customer[p]] = Greatest0(due[Customer[p]] - n)]
        /\ alloc' = [alloc EXCEPT ![p] = row]
        /\ req' = [req EXCEPT ![r] = Idle]
        /\ credit' = credit
    BY <1>1, <1>2, <1>3, <1>6 DEF CommitCollection
  <2> QED
    BY <1>4, <2>1, <2>2
<1>7. CASE CommitDirect(r, ok)
  <2>1. /\ status[p] = "none"
        /\ n <= due[Customer[p]]
        /\ status' = [status EXCEPT ![p] = "paid"]
        /\ amount' = [amount EXCEPT ![p] = n]
        /\ due' = [due EXCEPT ![Customer[p]] = due[Customer[p]] - n]
        /\ alloc' = [alloc EXCEPT ![p] = row]
        /\ req' = [req EXCEPT ![r] = Idle]
        /\ credit' = credit
    BY <1>1, <1>2, <1>3, <1>7 DEF CommitDirect
  <2>2. PICK d \in Nat : d = due[Customer[p]] - n
    BY <1>5, <2>1
  <2>3. d >= due[Customer[p]] - n /\ due' = [due EXCEPT ![Customer[p]] = d]
    BY <2>1, <2>2
  <2> QED
    BY <1>4, <2>1, <2>3
<1> QED
  BY <1>6, <1>7

(* What a committed verification does.                                     *)
LEMMA VerifyEffect ==
  ASSUME TypeOK, NEW r \in Requests, NEW ok \in BOOLEAN, CommitVerify(r, ok)
  PROVE  \E p \in Payments, row \in [Sales -> 0..MaxAmount], d \in Nat :
            /\ status' = [status EXCEPT ![p] = "verified"]
            /\ p \notin Legacy => d = due[Customer[p]] /\ row = alloc[p]
            /\ due' = [due EXCEPT ![Customer[p]] = d]
            /\ \/ row = alloc[p]
               \/ /\ alloc[p] = Nothing
                  /\ Total(row) <= amount[p]
                  /\ \A s \in Sales : row[s] > 0 =>
                        Customer[s] = Customer[p] /\ row[s] <= Remaining(s)
            /\ alloc' = [alloc EXCEPT ![p] = row]
            /\ req' = [req EXCEPT ![r] = Idle]
            /\ UNCHANGED <<credit, amount>>
<1> USE RowTypes, LimitTypes
<1>1. PICK p \in Payments : p = req[r].payment
  BY RequestKinds DEF CommitVerify, TypeOK, DecideRequest
<1>2. PICK row : row = IF p \in Legacy THEN Allocated(p, amount[p], Chosen[p], ok) ELSE alloc[p]
  OBVIOUS
<1>3. amount[p] \in Nat /\ due[Customer[p]] \in Nat /\ alloc[p] \in [Sales -> 0..MaxAmount]
  BY DEF TypeOK
<1>4. /\ row \in [Sales -> 0..MaxAmount]
      /\ p \notin Legacy => row = alloc[p]
      /\ \/ row = alloc[p]
         \/ /\ alloc[p] = Nothing
            /\ Total(row) <= amount[p]
            /\ \A s \in Sales : row[s] > 0 =>
                  Customer[s] = Customer[p] /\ row[s] <= Remaining(s)
  BY <1>2, <1>3, AllocatedRow
<1>5. PICK d \in Nat : d = Greatest0(due[Customer[p]] - DeductedOnVerify(p))
  BY <1>3 DEF Greatest0, DeductedOnVerify
<1>6. p \notin Legacy => d = due[Customer[p]]
  BY <1>3, <1>5 DEF Greatest0, DeductedOnVerify
<1>7. /\ status' = [status EXCEPT ![p] = "verified"]
      /\ due' = [due EXCEPT ![Customer[p]] = d]
      /\ req' = [req EXCEPT ![r] = Idle]
      /\ UNCHANGED <<credit, amount>>
  BY <1>1, <1>5 DEF CommitVerify
<1>8. alloc' = [alloc EXCEPT ![p] = row]
  BY <1>1, <1>2 DEF CommitVerify, TypeOK
<1> QED
  BY <1>4, <1>6, <1>7, <1>8

(* What a committed rejection does.                                        *)
LEMMA RejectEffect ==
  ASSUME TypeOK, NEW r \in Requests, CommitReject(r)
  PROVE  \E p \in Payments :
            /\ status' = [status EXCEPT ![p] = "rejected"]
            /\ due' = [due EXCEPT ![Customer[p]] =
                          due[Customer[p]] + IF p \in Legacy THEN 0 ELSE amount[p]]
            /\ alloc' = [alloc EXCEPT ![p] = AllocAfterReject(p)]
            /\ req' = [req EXCEPT ![r] = Idle]
            /\ UNCHANGED <<credit, amount>>
<1>1. PICK p \in Payments : p = req[r].payment
  BY RequestKinds DEF CommitReject, TypeOK, DecideRequest
<1> QED
  BY <1>1 DEF CommitReject

(* Every state has the types the database columns have.                    *)
THEOREM TypeCorrect == Spec => []TypeOK
<1> USE RowTypes, LimitTypes
<1>1. Init => TypeOK
  BY DEF Init, TypeOK, Nothing, Status, Request
<1>2. TypeOK /\ [Next]_vars => TypeOK'
  <2> SUFFICES ASSUME TypeOK, [Next]_vars
               PROVE  TypeOK'
    OBVIOUS
  <2>1. ASSUME NEW s \in Sales, NEW n \in Amounts, CreditSale(s, n)
        PROVE  TypeOK'
    BY <2>1 DEF CreditSale, TypeOK, payments, Amounts
  <2>2. ASSUME NEW rs \in SUBSET Payments, Submit(rs)
        PROVE  TypeOK'
    BY <2>2 DEF Submit, TypeOK, Status
  <2>3. ASSUME NEW r \in Requests, NEW p \in Payments, NEW n \in Amounts,
               NEW preferred \in Choices, BeginPay(r, p, n, preferred)
        PROVE  TypeOK'
    <3>1. [kind |-> "pay", payment |-> p, amount |-> n, preferred |-> preferred] \in Request
      BY DEF Request, PayRequest
    <3> QED
      BY <2>3, <3>1 DEF BeginPay, TypeOK, payments
  <2>4. ASSUME NEW r \in Requests, NEW ok \in BOOLEAN,
               CommitCollection(r, ok) \/ CommitDirect(r, ok)
        PROVE  TypeOK'
    <3>1. PICK p \in Payments, n \in Amounts, row \in [Sales -> 0..MaxAmount], d \in Nat :
            /\ \E st \in {"pending", "paid"} : status' = [status EXCEPT ![p] = st]
            /\ amount' = [amount EXCEPT ![p] = n]
            /\ due' = [due EXCEPT ![Customer[p]] = d]
            /\ alloc' = [alloc EXCEPT ![p] = row]
            /\ req' = [req EXCEPT ![r] = Idle]
            /\ credit' = credit
      BY <2>4, PayEffect
    <3>2. Idle \in Request /\ n \in 0..MaxAmount
      BY DEF Request, Amounts
    <3>3. status' \in [Payments -> Status]
      BY <3>1 DEF TypeOK, Status
    <3> QED
      BY <3>1, <3>2, <3>3 DEF TypeOK
  <2>5. ASSUME NEW r \in Requests, NEW p \in Payments, NEW k \in {"verify", "reject"},
               BeginDecide(r, k, p)
        PROVE  TypeOK'
    <3>1. [kind |-> k, payment |-> p] \in Request
      BY DEF Request, DecideRequest
    <3> QED
      BY <2>5, <3>1 DEF BeginDecide, TypeOK, payments
  <2>6. ASSUME NEW r \in Requests, NEW ok \in BOOLEAN, CommitVerify(r, ok)
        PROVE  TypeOK'
    <3>1. PICK p \in Payments, row \in [Sales -> 0..MaxAmount], d \in Nat :
            /\ status' = [status EXCEPT ![p] = "verified"]
            /\ due' = [due EXCEPT ![Customer[p]] = d]
            /\ alloc' = [alloc EXCEPT ![p] = row]
            /\ req' = [req EXCEPT ![r] = Idle]
            /\ UNCHANGED <<credit, amount>>
      BY <2>6, VerifyEffect
    <3>2. Idle \in Request
      BY DEF Request
    <3> QED
      BY <3>1, <3>2 DEF TypeOK, Status
  <2>7. ASSUME NEW r \in Requests, CommitReject(r)
        PROVE  TypeOK'
    <3>1. \A p \in Payments : AllocAfterReject(p) \in [Sales -> 0..MaxAmount]
      BY DEF AllocAfterReject, TypeOK, Nothing
    <3>2. PICK p \in Payments :
            /\ status' = [status EXCEPT ![p] = "rejected"]
            /\ due' = [due EXCEPT ![Customer[p]] =
                          due[Customer[p]] + IF p \in Legacy THEN 0 ELSE amount[p]]
            /\ alloc' = [alloc EXCEPT ![p] = AllocAfterReject(p)]
            /\ req' = [req EXCEPT ![r] = Idle]
            /\ UNCHANGED <<credit, amount>>
      BY <2>7, RejectEffect
    <3>3. Idle \in Request /\ amount[p] \in Nat
      BY DEF Request, TypeOK
    <3>4. due' \in [Customers -> Nat]
      BY <3>2, <3>3 DEF TypeOK
    <3> QED
      BY <3>1, <3>2, <3>3, <3>4 DEF TypeOK, Status
  <2>8. ASSUME NEW r \in Requests, Abort(r)
        PROVE  TypeOK'
    BY <2>8 DEF Abort, TypeOK, payments, Request
  <2>9. CASE UNCHANGED vars
    BY <2>9 DEF vars, TypeOK, payments
  <2> QED
    BY <2>1, <2>2, <2>3, <2>4, <2>5, <2>6, <2>7, <2>8, <2>9 DEF Next, Pay, Decide
<1> QED
  BY <1>1, <1>2, PTL DEF Spec

-----------------------------------------------------------------------------
(* Replacing the rows of one payment by rows that settle no more than      *)
(* remains of each invoice keeps every invoice within its bill.            *)
LEMMA SettleKeepsBills ==
  ASSUME TypeOK, TypeOK', InvoiceNotOverpaid, NEW p \in Payments,
         NEW row \in [Sales -> 0..MaxAmount],
         row = alloc[p] \/ (\A s \in Sales : row[s] > 0 => alloc[p][s] = 0 /\ row[s] <= Remaining(s)),
         alloc' = [alloc EXCEPT ![p] = row],
         credit' = credit
  PROVE  InvoiceNotOverpaid'
<1> USE RowTypes, LimitTypes
<1> SUFFICES ASSUME NEW s \in Sales
             PROVE  Total(Column(s)') <= credit[s]
  BY DEF InvoiceNotOverpaid, Column
<1>1. Column(s) \in [Payments -> Nat] /\ Column(s)' \in [Payments -> Nat]
  BY DEF TypeOK, Column
<1>2. Column(s)'[p] = row[s] /\ \A q \in Payments : q # p => Column(s)'[q] = Column(s)[q]
  BY DEF Column, TypeOK
<1>3. /\ Total(Column(s)) \in Nat
      /\ Total(Column(s)') = Total(Column(s)) - Column(s)[p] + row[s]
  BY <1>1, <1>2, TotalUpdate
<1>4. Total(Column(s)) <= credit[s] /\ credit[s] \in Nat
  BY DEF InvoiceNotOverpaid, TypeOK
<1>5. Column(s)[p] = alloc[p][s] /\ alloc[p][s] \in Nat /\ row[s] \in Nat
  BY DEF Column, TypeOK
<1>6. row[s] = alloc[p][s] \/ row[s] = 0 \/ (alloc[p][s] = 0 /\ row[s] <= credit[s] - Total(Column(s)))
  BY <1>5 DEF Remaining
<1> QED
  BY <1>3, <1>4, <1>5, <1>6

(* No invoice is settled beyond its bill.                                  *)
THEOREM NotOverpaid == Spec => []InvoiceNotOverpaid
<1> USE RowTypes, LimitTypes
<1>1. Init => InvoiceNotOverpaid
  <2> SUFFICES ASSUME Init, NEW s \in Sales
               PROVE  Total(Column(s)) <= credit[s]
    BY DEF InvoiceNotOverpaid
  <2>1. Column(s) \in [Payments -> Nat] /\ \A p \in Payments : Column(s)[p] = 0
    BY DEF Init, Column, Nothing
  <2>2. Total(Column(s)) = 0
    BY <2>1, TotalZero
  <2> QED
    BY <2>2 DEF Init, Nothing
<1>2. TypeOK /\ TypeOK' /\ InvoiceNotOverpaid /\ [Next]_vars => InvoiceNotOverpaid'
  <2> SUFFICES ASSUME TypeOK, TypeOK', InvoiceNotOverpaid, [Next]_vars
               PROVE  InvoiceNotOverpaid'
    OBVIOUS
  <2>1. ASSUME NEW s \in Sales, NEW n \in Amounts, CreditSale(s, n)
        PROVE  InvoiceNotOverpaid'
    <3> SUFFICES ASSUME NEW t \in Sales
                 PROVE  Total(Column(t)) <= credit'[t]
      BY <2>1 DEF InvoiceNotOverpaid, Column, CreditSale
    <3>1. Total(Column(t)) <= credit[t] /\ Total(Column(t)) \in Nat
      BY ColumnType DEF InvoiceNotOverpaid
    <3>2. credit[t] <= credit'[t] /\ credit[t] \in Nat /\ credit'[t] \in Nat
      BY <2>1 DEF CreditSale, TypeOK, Amounts
    <3> QED
      BY <3>1, <3>2
  <2>2. ASSUME NEW r \in Requests, NEW ok \in BOOLEAN,
               CommitCollection(r, ok) \/ CommitDirect(r, ok)
        PROVE  InvoiceNotOverpaid'
    BY <2>2, PayEffect, SettleKeepsBills DEF Nothing
  <2>3. ASSUME NEW r \in Requests, NEW ok \in BOOLEAN, CommitVerify(r, ok)
        PROVE  InvoiceNotOverpaid'
    BY <2>3, VerifyEffect, SettleKeepsBills DEF Nothing
  <2>4. ASSUME NEW r \in Requests, CommitReject(r)
        PROVE  InvoiceNotOverpaid'
    <3>1. PICK p \in Payments : alloc' = [alloc EXCEPT ![p] = AllocAfterReject(p)] /\ credit' = credit
      BY <2>4, RejectEffect
    <3>2. PICK row : row = AllocAfterReject(p)
      OBVIOUS
    <3>3. Nothing \in [Sales -> 0..MaxAmount] /\ \A s \in Sales : ~(Nothing[s] > 0)
      BY DEF Nothing
    <3>4. row \in [Sales -> 0..MaxAmount] /\ (row = alloc[p] \/ row = Nothing)
      BY <3>2, <3>3 DEF AllocAfterReject, TypeOK
    <3> QED
      BY <3>1, <3>2, <3>3, <3>4, SettleKeepsBills
  <2>5. CASE UNCHANGED <<credit, alloc>>
    BY <2>5 DEF InvoiceNotOverpaid, Column
  <2> QED
    BY <2>1, <2>2, <2>3, <2>4, <2>5
    DEF Next, Pay, Decide, BeginPay, BeginDecide, Submit, Abort, vars, payments
<1> QED
  BY <1>1, <1>2, TypeCorrect, PTL DEF Spec

-----------------------------------------------------------------------------
(* A payment settles no more than its amount, and a payment without a row  *)
(* in its table nothing.                                                   *)
SpendInv ==
  /\ PaymentNotOverspent
  /\ \A p \in Payments : status[p] = "none" => alloc[p] = Nothing

(* Rows that settle as much as before or as much as was paid.              *)
LEMMA SettleKeepsSpend ==
  ASSUME TypeOK, TypeOK', SpendInv, NEW p \in Payments, NEW n \in Nat,
         NEW row \in [Sales -> 0..MaxAmount], NEW st,
         Total(row) <= n,
         \A s \in Sales : row[s] > 0 => Customer[s] = Customer[p],
         alloc' = [alloc EXCEPT ![p] = row],
         \A q \in Payments : q # p => amount'[q] = amount[q],
         amount'[p] = n,
         status' = [status EXCEPT ![p] = st], st # "none"
  PROVE  SpendInv'
<1> USE RowTypes, LimitTypes
<1>1. alloc'[p] = row /\ \A q \in Payments : q # p => alloc'[q] = alloc[q]
  BY DEF TypeOK
<1>2. ASSUME NEW q \in Payments
      PROVE  /\ Total(alloc'[q]) <= amount'[q]
             /\ \A s \in Sales : alloc'[q][s] > 0 => Customer[s] = Customer[q]
  <2>1. CASE q = p
    BY <1>1, <2>1
  <2>2. CASE q # p
    BY <1>1, <2>2 DEF SpendInv, PaymentNotOverspent
  <2> QED
    BY <2>1, <2>2
<1>3. \A q \in Payments : status'[q] = "none" => alloc'[q] = Nothing
  BY <1>1 DEF SpendInv, TypeOK
<1> QED
  BY <1>2, <1>3 DEF SpendInv, PaymentNotOverspent, Nothing

(* No payment settles more than its amount, or invoices of others.         *)
THEOREM NotOverspent == Spec => []PaymentNotOverspent
<1> USE RowTypes, LimitTypes
<1>0. Total(Nothing) = 0 /\ Nothing \in [Sales -> 0..MaxAmount]
  <2>1. Nothing \in [Sales -> Nat] /\ \A s \in Sales : Nothing[s] = 0
    BY DEF Nothing
  <2>2. Total(Nothing) = 0
    BY <2>1, TotalZero
  <2> QED
    BY <2>2 DEF Nothing
<1>1. Init => SpendInv
  <2> SUFFICES ASSUME Init
               PROVE  SpendInv
    OBVIOUS
  <2>1. \A p \in Payments : alloc[p] = Nothing /\ amount[p] \in Nat
    BY DEF Init
  <2>2. \A s \in Sales : ~(Nothing[s] > 0)
    BY DEF Nothing
  <2>3. \A p \in Payments : Total(alloc[p]) = 0
    BY <1>0, <2>1
  <2> QED
    BY <2>1, <2>2, <2>3 DEF SpendInv, PaymentNotOverspent
<1>2. TypeOK /\ TypeOK' /\ SpendInv /\ [Next]_vars => SpendInv'
  <2> SUFFICES ASSUME TypeOK, TypeOK', SpendInv, [Next]_vars
               PROVE  SpendInv'
    OBVIOUS
  <2>1. ASSUME NEW rs \in SUBSET Payments, Submit(rs)
        PROVE  SpendInv'
    BY <2>1 DEF Submit, SpendInv, PaymentNotOverspent, Nothing
  <2>2. ASSUME NEW r \in Requests, NEW ok \in BOOLEAN,
               CommitCollection(r, ok) \/ CommitDirect(r, ok)
        PROVE  SpendInv'
    <3>1. PICK p \in Payments, n \in Amounts, row \in [Sales -> 0..MaxAmount], d \in Nat :
            /\ status[p] = "none"
            /\ \E st \in {"pending", "paid"} : status' = [status EXCEPT ![p] = st]
            /\ amount' = [amount EXCEPT ![p] = n]
            /\ \/ row = alloc[p]
               \/ /\ alloc[p] = Nothing
                  /\ Total(row) <= n
                  /\ \A s \in Sales : row[s] > 0 =>
                        Customer[s] = Customer[p] /\ row[s] <= Remaining(s)
            /\ alloc' = [alloc EXCEPT ![p] = row]
      BY <2>2, PayEffect
    <3>2. PICK st \in {"pending", "paid"} : status' = [status EXCEPT ![p] = st]
      BY <3>1
    <3>3. alloc[p] = Nothing /\ n \in Nat
      BY <3>1 DEF SpendInv, Amounts
    <3>4. Total(row) <= n /\ \A s \in Sales : row[s] > 0 => Customer[s] = Customer[p]
      <4>1. CASE row = Nothing
        BY <1>0, <3>3, <4>1 DEF Nothing
      <4>2. CASE row # Nothing
        BY <3>1, <3>3, <4>2
      <4> QED
        BY <4>1, <4>2
    <3>5. amount'[p] = n /\ \A q \in Payments : q # p => amount'[q] = amount[q]
      BY <3>1 DEF TypeOK
    <3> QED
      BY <3>1, <3>2, <3>3, <3>4, <3>5, SettleKeepsSpend
  <2>3. ASSUME NEW r \in Requests, NEW ok \in BOOLEAN, CommitVerify(r, ok)
        PROVE  SpendInv'
    <3>1. PICK p \in Payments, row \in [Sales -> 0..MaxAmount], d \in Nat :
            /\ status' = [status EXCEPT ![p] = "verified"]
            /\ \/ row = alloc[p]
               \/ /\ alloc[p] = Nothing
                  /\ Total(row) <= amount[p]
                  /\ \A s \in Sales : row[s] > 0 =>
                        Customer[s] = Customer[p] /\ row[s] <= Remaining(s)
            /\ alloc' = [alloc EXCEPT ![p] = row]
            /\ UNCHANGED amount
      BY <2>3, VerifyEffect
    <3>2. Total(row) <= amount[p] /\ \A s \in Sales : row[s] > 0 => Customer[s] = Customer[p]
      <4>1. CASE row = alloc[p]
        <5>1. Total(alloc[p]) <= amount[p]
              /\ \A s \in Sales : alloc[p][s] > 0 => Customer[s] = Customer[p]
          BY DEF SpendInv, PaymentNotOverspent
        <5> QED
          BY <4>1, <5>1
      <4>2. CASE row # alloc[p]
        BY <3>1, <4>2
      <4> QED
        BY <4>1, <4>2
    <3>3. amount[p] \in Nat /\ amount'[p] = amount[p]
          /\ \A q \in Payments : q # p => amount'[q] = amount[q]
      BY <3>1 DEF TypeOK
    <3> QED
      BY <3>1, <3>2, <3>3, SettleKeepsSpend
  <2>4. ASSUME NEW r \in Requests, CommitReject(r)
        PROVE  SpendInv'
    <3>1. PICK p \in Payments :
             /\ status' = [status EXCEPT ![p] = "rejected"]
             /\ alloc' = [alloc EXCEPT ![p] = AllocAfterReject(p)]
             /\ UNCHANGED amount
      BY <2>4, RejectEffect
    <3>2. PICK row : row = AllocAfterReject(p)
      OBVIOUS
    <3>3. row \in [Sales -> 0..MaxAmount] /\ (row = alloc[p] \/ row = Nothing)
      BY <1>0, <3>2 DEF AllocAfterReject, TypeOK
    <3>4. amount[p] \in Nat /\ amount'[p] = amount[p]
          /\ \A q \in Payments : q # p => amount'[q] = amount[q]
      BY <3>1 DEF TypeOK
    <3>5. \A s \in Sales : ~(Nothing[s] > 0)
      BY DEF Nothing
    <3>6. Total(row) <= amount[p] /\ \A s \in Sales : row[s] > 0 => Customer[s] = Customer[p]
      BY <1>0, <3>3, <3>4, <3>5 DEF SpendInv, PaymentNotOverspent
    <3> QED
      BY <3>1, <3>2, <3>3, <3>4, <3>6, SettleKeepsSpend
  <2>5. CASE UNCHANGED <<status, amount, alloc>>
    BY <2>5 DEF SpendInv, PaymentNotOverspent, Nothing
  <2> QED
    BY <2>1, <2>2, <2>3, <2>4, <2>5
    DEF Next, Pay, Decide, BeginPay, BeginDecide, CreditSale, Abort, vars, payments
<1>3. SpendInv => PaymentNotOverspent
  BY DEF SpendInv
<1> QED
  BY <1>1, <1>2, <1>3, TypeCorrect, PTL DEF Spec

-----------------------------------------------------------------------------
(* A rejected collection of this version settles nothing.                  *)
THEOREM RejectedIsWithdrawn == Spec => []RejectedSettlesNothing
<1> USE RowTypes, LimitTypes
<1>1. Init => RejectedSettlesNothing
  BY DEF Init, RejectedSettlesNothing
<1>2. TypeOK /\ RejectedSettlesNothing /\ [Next]_vars => RejectedSettlesNothing'
  <2> SUFFICES ASSUME TypeOK, RejectedSettlesNothing, [Next]_vars
               PROVE  RejectedSettlesNothing'
    OBVIOUS
  <2> USE DEF RejectedSettlesNothing
  <2>1. ASSUME NEW rs \in SUBSET Payments, Submit(rs)
        PROVE  RejectedSettlesNothing'
    BY <2>1 DEF Submit, Nothing
  <2>2. ASSUME NEW r \in Requests, NEW ok \in BOOLEAN,
               CommitCollection(r, ok) \/ CommitDirect(r, ok)
        PROVE  RejectedSettlesNothing'
    <3>1. PICK p \in Payments, row \in [Sales -> 0..MaxAmount] :
             /\ \E st \in {"pending", "paid"} : status' = [status EXCEPT ![p] = st]
             /\ alloc' = [alloc EXCEPT ![p] = row]
      BY <2>2, PayEffect
    <3> QED
      BY <3>1 DEF TypeOK, Nothing
  <2>3. ASSUME NEW r \in Requests, NEW ok \in BOOLEAN, CommitVerify(r, ok)
        PROVE  RejectedSettlesNothing'
    <3>1. PICK p \in Payments, row \in [Sales -> 0..MaxAmount] :
             /\ status' = [status EXCEPT ![p] = "verified"]
             /\ alloc' = [alloc EXCEPT ![p] = row]
      BY <2>3, VerifyEffect
    <3> QED
      BY <3>1 DEF TypeOK, Nothing
  <2>4. ASSUME NEW r \in Requests, CommitReject(r)
        PROVE  RejectedSettlesNothing'
    <3>1. PICK p \in Payments :
             /\ status' = [status EXCEPT ![p] = "rejected"]
             /\ alloc' = [alloc EXCEPT ![p] = AllocAfterReject(p)]
      BY <2>4, RejectEffect
    <3> QED
      BY <3>1 DEF TypeOK, Nothing, AllocAfterReject
  <2>5. CASE UNCHANGED <<status, alloc>>
    BY <2>5 DEF Nothing
  <2> QED
    BY <2>1, <2>2, <2>3, <2>4, <2>5
    DEF Next, Pay, Decide, BeginPay, BeginDecide, CreditSale, Abort, vars, payments
<1> QED
  BY <1>1, <1>2, TypeCorrect, PTL DEF Spec

-----------------------------------------------------------------------------
(* The two columns of a customer's account.                                *)
LEMMA AccountType ==
  ASSUME TypeOK, NEW c \in Customers
  PROVE  /\ Sold(c) \in [Sales -> Nat] /\ Total(Sold(c)) \in Nat
         /\ Paid(c) \in [Payments -> Nat] /\ Total(Paid(c)) \in Nat
         /\ due[c] \in Nat /\ Opening[c] \in Nat
<1> USE RowTypes, LimitTypes
<1>1. Sold(c) \in [Sales -> Nat] /\ Paid(c) \in [Payments -> Nat]
  BY DEF Sold, Paid, TypeOK
<1> QED
  BY <1>1, TotalType DEF TypeOK

(* When one payment p of a customer changes, the balance must change by at *)
(* least as much the other way.                                            *)
LEMMA PaymentKeepsDebt ==
  ASSUME TypeOK, TypeOK', NEW c \in Customers, NEW p \in Payments,
         due[c] + Total(Paid(c)) >= Opening[c] + Total(Sold(c)),
         credit' = credit,
         \A q \in Payments : q # p => Paid(c)'[q] = Paid(c)[q],
         due'[c] + Paid(c)'[p] >= due[c] + Paid(c)[p]
  PROVE  due'[c] + Total(Paid(c)') >= Opening[c] + Total(Sold(c)')
<1> USE RowTypes, LimitTypes
<1>1. Paid(c) \in [Payments -> Nat] /\ Paid(c)' \in [Payments -> Nat]
  BY DEF Paid, TypeOK
<1>2. /\ Total(Paid(c)) \in Nat
      /\ Total(Paid(c)') = Total(Paid(c)) - Paid(c)[p] + Paid(c)'[p]
  BY <1>1, TotalUpdate
<1>3. Sold(c)' = Sold(c)
  BY DEF Sold
<1>4. due[c] \in Nat /\ due'[c] \in Nat /\ Opening[c] \in Nat /\ Total(Sold(c)) \in Nat
      /\ Paid(c)[p] \in Nat /\ Paid(c)'[p] \in Nat
  BY <1>1, AccountType DEF TypeOK
<1> HIDE DEF Paid, Sold
<1> QED
  BY <1>2, <1>3, <1>4

Covered(c) == due[c] + Total(Paid(c)) >= Opening[c] + Total(Sold(c))

(* A customer's debt stays covered while nothing of the account changes.   *)
LEMMA AccountUnchanged ==
  ASSUME NEW c \in Customers, Covered(c),
         due'[c] = due[c], UNCHANGED <<Paid(c), Sold(c)>>
  PROVE  Covered(c)'
BY DEF Covered

(* What a customer owes plus the payments that stand covers what was sold. *)
THEOREM DebtCovered == Spec => []DebtNeverLost
<1> USE RowTypes, LimitTypes
<1>1. Init => DebtNeverLost
  <2> SUFFICES ASSUME Init, NEW c \in Customers, \A p \in Legacy : Customer[p] # c
               PROVE  Covered(c)
    BY DEF DebtNeverLost, Covered
  <2>1. Sold(c) \in [Sales -> Nat] /\ \A s \in Sales : Sold(c)[s] = 0
    BY DEF Init, Sold, Nothing
  <2>2. Paid(c) \in [Payments -> Nat] /\ \A p \in Payments : Paid(c)[p] = 0
    BY DEF Init, Paid
  <2>3. Total(Sold(c)) = 0 /\ Total(Paid(c)) = 0
    BY <2>1, <2>2, TotalZero
  <2> QED
    BY <2>3 DEF Init, Covered
<1>2. TypeOK /\ TypeOK' /\ DebtNeverLost /\ [Next]_vars => DebtNeverLost'
  <2> SUFFICES ASSUME TypeOK, TypeOK', [Next]_vars, NEW c \in Customers,
                      \A p \in Legacy : Customer[p] # c, Covered(c)
               PROVE  Covered(c)'
    BY DEF DebtNeverLost, Covered
  <2>1. ASSUME NEW s \in Sales, NEW n \in Amounts, CreditSale(s, n)
        PROVE  Covered(c)'
    <3>1. Paid(c)' = Paid(c)
      BY <2>1 DEF CreditSale, payments, Paid
    <3>2. CASE Customer[s] # c
      <4>1. Sold(c)' = Sold(c) /\ due'[c] = due[c]
        BY <2>1, <3>2 DEF CreditSale, Sold, TypeOK
      <4> QED
        BY <3>1, <4>1, AccountUnchanged
    <3>3. CASE Customer[s] = c
      <4>1. Sold(c) \in [Sales -> Nat] /\ Sold(c)' \in [Sales -> Nat]
        BY DEF Sold, TypeOK
      <4>2. /\ Sold(c)[s] = 0 /\ Sold(c)'[s] = n
            /\ \A t \in Sales : t # s => Sold(c)'[t] = Sold(c)[t]
        BY <2>1, <3>3 DEF CreditSale, Sold, TypeOK
      <4>3. Total(Sold(c)') = Total(Sold(c)) + n
        <5>1. /\ Total(Sold(c)) \in Nat
              /\ Total(Sold(c)') = Total(Sold(c)) - Sold(c)[s] + Sold(c)'[s]
          <6> IsFiniteSet(Sales) /\ \A t \in Sales : t # s => Sold(c)'[t] = Sold(c)[t]
            BY <4>2
          <6> HIDE DEF Sold
          <6> QED
            BY ONLY <4>1, TotalUpdate, s \in Sales, IsFiniteSet(Sales),
                    \A t \in Sales : t # s => Sold(c)'[t] = Sold(c)[t]
        <5> QED
          BY <4>2, <5>1 DEF Amounts
      <4>4. due'[c] = due[c] + n
        BY <2>1, <3>3 DEF CreditSale, TypeOK
      <4>5. due[c] \in Nat /\ Opening[c] \in Nat /\ Total(Paid(c)) \in Nat
            /\ Total(Sold(c)) \in Nat /\ n \in Nat
        BY AccountType DEF Amounts
      <4> QED
        BY <3>1, <4>3, <4>4, <4>5 DEF Covered
    <3> QED
      BY <3>2, <3>3
  <2>2. ASSUME NEW rs \in SUBSET Payments, Submit(rs)
        PROVE  Covered(c)'
    <3>1. \A p \in Payments : status'[p] \in {"none", "rejected"} <=> status[p] \in {"none", "rejected"}
      BY <2>2 DEF Submit, TypeOK
    <3>2. Paid(c)' = Paid(c) /\ Sold(c)' = Sold(c) /\ due' = due
      BY <2>2, <3>1 DEF Submit, Paid, Sold
    <3> QED
      BY <3>2, AccountUnchanged
  <2>3. ASSUME NEW r \in Requests, NEW ok \in BOOLEAN,
               CommitCollection(r, ok) \/ CommitDirect(r, ok)
        PROVE  Covered(c)'
    <3>1. PICK p \in Payments, n \in Amounts, d \in Nat :
             /\ status[p] = "none"
             /\ \E st \in {"pending", "paid"} : status' = [status EXCEPT ![p] = st]
             /\ amount' = [amount EXCEPT ![p] = n]
             /\ d >= due[Customer[p]] - n
             /\ due' = [due EXCEPT ![Customer[p]] = d]
             /\ credit' = credit
      BY <2>3, PayEffect
    <3>2. \A q \in Payments : q # p => Paid(c)'[q] = Paid(c)[q]
      BY <3>1 DEF Paid, TypeOK
    <3>3. due'[c] + Paid(c)'[p] >= due[c] + Paid(c)[p]
      <4>1. Paid(c)[p] = 0
        BY <3>1 DEF Paid
      <4>2. Paid(c)'[p] = IF Customer[p] = c THEN n ELSE 0
        BY <3>1 DEF Paid, TypeOK
      <4>3. due'[c] = IF Customer[p] = c THEN d ELSE due[c]
        BY <3>1 DEF TypeOK
      <4>4. due[c] \in Nat /\ n \in Nat
        BY DEF TypeOK, Amounts
      <4> QED
        BY <3>1, <4>1, <4>2, <4>3, <4>4
    <3> QED
      BY <3>1, <3>2, <3>3, PaymentKeepsDebt DEF Covered
  <2>4. ASSUME NEW r \in Requests, NEW ok \in BOOLEAN, CommitVerify(r, ok)
        PROVE  Covered(c)'
    <3>1. PICK p \in Payments, d \in Nat :
             /\ status' = [status EXCEPT ![p] = "verified"]
             /\ p \notin Legacy => d = due[Customer[p]]
             /\ due' = [due EXCEPT ![Customer[p]] = d]
             /\ UNCHANGED <<credit, amount>>
      BY <2>4, VerifyEffect
    <3>2. \A q \in Payments : q # p => Paid(c)'[q] = Paid(c)[q]
      BY <3>1 DEF Paid, TypeOK
    <3>3. due'[c] = due[c]
      BY <3>1 DEF TypeOK
    <3>4. Paid(c)[p] \in {0, Paid(c)'[p]} /\ Paid(c)'[p] \in Nat
      BY <3>1 DEF Paid, TypeOK
    <3>5. due'[c] + Paid(c)'[p] >= due[c] + Paid(c)[p]
      BY <3>3, <3>4 DEF TypeOK
    <3> QED
      BY <3>1, <3>2, <3>5, PaymentKeepsDebt DEF Covered
  <2>5. ASSUME NEW r \in Requests, CommitReject(r)
        PROVE  Covered(c)'
    <3>1. PICK p \in Payments :
             /\ status' = [status EXCEPT ![p] = "rejected"]
             /\ due' = [due EXCEPT ![Customer[p]] =
                           due[Customer[p]] + IF p \in Legacy THEN 0 ELSE amount[p]]
             /\ UNCHANGED <<credit, amount>>
      BY <2>5, RejectEffect
    <3>2. \A q \in Payments : q # p => Paid(c)'[q] = Paid(c)[q]
      BY <3>1 DEF Paid, TypeOK
    <3>3. due'[c] + Paid(c)'[p] >= due[c] + Paid(c)[p]
      <4>1. Paid(c)'[p] = 0 /\ Paid(c)[p] \in {0, amount[p]} /\ amount[p] \in Nat /\ due[c] \in Nat
        BY <3>1 DEF Paid, TypeOK
      <4>2. CASE Customer[p] = c
        <5>1. due'[c] = due[c] + amount[p]
          BY <3>1, <4>2 DEF TypeOK
        <5> QED
          BY <4>1, <5>1
      <4>3. CASE Customer[p] # c
        <5>1. due'[c] = due[c] /\ Paid(c)[p] = 0
          BY <3>1, <4>3 DEF TypeOK, Paid
        <5> QED
          BY <4>1, <5>1
      <4> QED
        BY <4>2, <4>3
    <3> QED
      BY <3>1, <3>2, <3>3, PaymentKeepsDebt DEF Covered
  <2>6. CASE UNCHANGED <<credit, due, payments>>
    <3>1. Paid(c)' = Paid(c) /\ Sold(c)' = Sold(c) /\ due' = due
      BY <2>6 DEF Paid, Sold, payments
    <3> QED
      BY <3>1, AccountUnchanged
  <2> QED
    BY <2>1, <2>2, <2>3, <2>4, <2>5, <2>6
    DEF Next, Pay, Decide, BeginPay, BeginDecide, Abort, vars
<1> QED
  BY <1>1, <1>2, TypeCorrect, PTL DEF Spec

-----------------------------------------------------------------------------
(* A payment without rows that is given what remains of invoices of its    *)
(* customer, or keeps its rows, is a step of the book of invoices.         *)
LEMMA SettleStep ==
  ASSUME TypeOK, NEW p \in Payments, NEW row \in [Sales -> 0..MaxAmount],
         \/ row = alloc[p]
         \/ /\ alloc[p] = Nothing
            /\ \A s \in Sales : row[s] > 0 =>
                  Customer[s] = Customer[p] /\ row[s] <= Remaining(s),
         alloc' = [alloc EXCEPT ![p] = row], credit' = credit
  PROVE  [Book!Next]_<<credit, alloc>>
<1> USE RowTypes, LimitTypes
<1>1. CASE row = alloc[p]
  <2>1. alloc' = alloc
    BY <1>1 DEF TypeOK
  <2> QED
    BY <2>1
<1>2. CASE /\ alloc[p] = Nothing
           /\ \A s \in Sales : row[s] > 0 => Customer[s] = Customer[p] /\ row[s] <= Remaining(s)
  <2>1. ASSUME NEW s \in Sales, row[s] > 0
        PROVE  Customer[s] = Customer[p] /\ Book!Total(Book!Column(s)) + row[s] <= credit[s]
    <3>1. Book!Column(s) = Column(s)
      BY DEF Book!Column, Column
    <3>2. Total(Column(s)) \in Nat /\ credit[s] \in Nat /\ row[s] \in Nat
      BY ColumnType
    <3>3. Book!Total(Column(s)) = Total(Column(s))
      BY DEF Book!Total, Book!Units, Book!Cardinality, Total, Units, Cardinality
    <3> QED
      BY <1>2, <2>1, <3>1, <3>2, <3>3 DEF Remaining
  <2>2. Book!Settle(p, row)
    BY <1>2, <2>1 DEF Book!Settle, Book!Nothing, Nothing
  <2>3. row \in [Sales -> {0} \cup Amounts]
    BY DEF Amounts
  <2> QED
    BY <2>2, <2>3 DEF Book!Next
<1> QED
  BY <1>1, <1>2

(* Receivables implements the book of invoices.                            *)
THEOREM BookImplemented == Spec => ImplementsBook
<1> USE RowTypes, LimitTypes
<1>1. Init => Book!Init
  BY DEF Init, Book!Init, Book!Nothing, Nothing
<1>2. TypeOK /\ [Next]_vars => [Book!Next]_<<credit, alloc>>
  <2> SUFFICES ASSUME TypeOK, [Next]_vars
               PROVE  [Book!Next]_<<credit, alloc>>
    OBVIOUS
  <2>1. ASSUME NEW s \in Sales, NEW n \in Amounts, CreditSale(s, n)
        PROVE  Book!Bill(s, n)
    BY <2>1 DEF CreditSale, Book!Bill
  <2>2. ASSUME NEW r \in Requests, NEW ok \in BOOLEAN,
               CommitCollection(r, ok) \/ CommitDirect(r, ok)
        PROVE  [Book!Next]_<<credit, alloc>>
    BY <2>2, PayEffect, SettleStep
  <2>3. ASSUME NEW r \in Requests, NEW ok \in BOOLEAN, CommitVerify(r, ok)
        PROVE  [Book!Next]_<<credit, alloc>>
    BY <2>3, VerifyEffect, SettleStep
  <2>4. ASSUME NEW r \in Requests, CommitReject(r)
        PROVE  [Book!Next]_<<credit, alloc>>
    <3>1. PICK p \in Payments : alloc' = [alloc EXCEPT ![p] = AllocAfterReject(p)] /\ credit' = credit
      BY <2>4, RejectEffect
    <3>2. CASE p \in Legacy
      <4>1. alloc' = alloc
        BY <3>1, <3>2 DEF AllocAfterReject, TypeOK
      <4> QED
        BY <3>1, <4>1
    <3>3. CASE p \notin Legacy
      <4>1. Book!Withdraw(p)
        BY <3>1, <3>3 DEF AllocAfterReject, Book!Withdraw, Book!Nothing, Nothing
      <4> QED
        BY <4>1 DEF Book!Next
    <3> QED
      BY <3>2, <3>3
  <2>5. CASE UNCHANGED <<credit, alloc>>
    BY <2>5
  <2> QED
    BY <2>1, <2>2, <2>3, <2>4, <2>5
    DEF Next, Pay, Decide, BeginPay, BeginDecide, Submit, Abort, vars, payments, Book!Next
<1> QED
  BY <1>1, <1>2, TypeCorrect, PTL DEF Spec, ImplementsBook, Book!Spec

-----------------------------------------------------------------------------
(* What only races break.  collection.controller.js:370-371 says that a    *)
(* rejection puts the account back in its earlier state; a rejection and a *)
(* verification of one collection in flight do not.  As long as each       *)
(* decision still finds its collection submitted, the account is exact but *)
(* for the tolerance createCollection allows (one taka a collection).      *)

DecidesSubmitted ==
    \A r \in Requests : CommitReject(r) \/ (\E ok \in BOOLEAN : CommitVerify(r, ok)) =>
        status[req[r].payment] = "submitted"

Slack(c) == [p \in Payments |->
    IF Customer[p] = c /\ p \notin Direct /\ status[p] # "none" THEN Tolerance ELSE 0]

Exact(c) ==
    due[c] + Total(Paid(c)) <= Opening[c] + Total(Sold(c)) + Total(Slack(c))

AccountsExact ==
    \A c \in Customers : (\A p \in Legacy : Customer[p] # c) => Exact(c)

LEMMA SlackType ==
  ASSUME TypeOK, NEW c \in Customers
  PROVE  Slack(c) \in [Payments -> Nat] /\ Total(Slack(c)) \in Nat
<1>1. Slack(c) \in [Payments -> Nat]
  BY LimitTypes DEF Slack
<1> QED
  BY <1>1, RowTypes, TotalType

(* One payment changes, and the account by no more the other way.          *)
LEMMA PaymentKeepsExact ==
  ASSUME TypeOK, TypeOK', NEW c \in Customers, NEW p \in Payments, Exact(c),
         credit' = credit,
         \A q \in Payments : q # p => /\ status'[q] = status[q]
                                      /\ amount'[q] = amount[q],
         due'[c] + Paid(c)'[p] + Slack(c)[p] <= due[c] + Paid(c)[p] + Slack(c)'[p]
  PROVE  Exact(c)'
<1> USE RowTypes, LimitTypes
<1>1. Paid(c) \in [Payments -> Nat] /\ Paid(c)' \in [Payments -> Nat]
  BY DEF Paid, TypeOK
<1>2. Slack(c) \in [Payments -> Nat] /\ Slack(c)' \in [Payments -> Nat]
  BY DEF Slack, TypeOK
<1>3. \A q \in Payments : q # p => Paid(c)'[q] = Paid(c)[q] /\ Slack(c)'[q] = Slack(c)[q]
  BY DEF Paid, Slack
<1>4. Sold(c)' = Sold(c)
  BY DEF Sold
<1>5. due[c] \in Nat /\ due'[c] \in Nat /\ Opening[c] \in Nat /\ Total(Sold(c)) \in Nat
  BY AccountType DEF TypeOK
<1>6. /\ Total(Paid(c)) \in Nat
      /\ Total(Paid(c)') = Total(Paid(c)) - Paid(c)[p] + Paid(c)'[p]
  <2> HIDE DEF Paid
  <2> QED
    BY <1>1, <1>3, TotalUpdate
<1>7. /\ Total(Slack(c)) \in Nat
      /\ Total(Slack(c)') = Total(Slack(c)) - Slack(c)[p] + Slack(c)'[p]
  BY <1>2, <1>3, TotalUpdate
<1>8. Paid(c)[p] \in Nat /\ Paid(c)'[p] \in Nat /\ Slack(c)[p] \in Nat /\ Slack(c)'[p] \in Nat
  BY <1>1, <1>2
<1> QED
  BY <1>4, <1>5, <1>6, <1>7, <1>8 DEF Exact

LEMMA ExactSale ==
  ASSUME TypeOK, TypeOK', NEW c \in Customers, Exact(c),
         NEW s \in Sales, NEW n \in Amounts, CreditSale(s, n)
  PROVE  Exact(c)'
<1> USE RowTypes, LimitTypes
<1>1. Paid(c)' = Paid(c) /\ Slack(c)' = Slack(c)
  BY DEF CreditSale, payments, Paid, Slack
<1>2. CASE Customer[s] # c
  <2>1. Sold(c)' = Sold(c) /\ due'[c] = due[c]
    BY <1>2 DEF CreditSale, Sold, TypeOK
  <2> QED
    BY <1>1, <2>1 DEF Exact
<1>3. CASE Customer[s] = c
  <2>1. Sold(c) \in [Sales -> Nat] /\ Sold(c)' \in [Sales -> Nat] /\ IsFiniteSet(Sales)
    BY DEF Sold, TypeOK
  <2>2. /\ Sold(c)[s] = 0 /\ Sold(c)'[s] = n
        /\ \A t \in Sales : t # s => Sold(c)'[t] = Sold(c)[t]
    BY <1>3 DEF CreditSale, Sold, TypeOK
  <2>3. /\ Total(Sold(c)) \in Nat
        /\ Total(Sold(c)') = Total(Sold(c)) - Sold(c)[s] + Sold(c)'[s]
    BY ONLY <2>1, <2>2, TotalUpdate, s \in Sales
  <2>4. due'[c] = due[c] + n
    BY <1>3 DEF CreditSale, TypeOK
  <2>5. due[c] \in Nat /\ Opening[c] \in Nat /\ Total(Paid(c)) \in Nat
        /\ Total(Slack(c)) \in Nat /\ n \in Nat
    BY AccountType, SlackType DEF Amounts
  <2> QED
    BY <1>1, <2>2, <2>3, <2>4, <2>5 DEF Exact
<1> QED
  BY <1>2, <1>3

LEMMA ExactPay ==
  ASSUME TypeOK, TypeOK', NEW c \in Customers, Exact(c), NEW r \in Requests, NEW ok \in BOOLEAN,
         CommitCollection(r, ok) \/ CommitDirect(r, ok)
  PROVE  Exact(c)'
<1> USE RowTypes, LimitTypes
<1>1. PICK p \in Payments, n \in Amounts : p = req[r].payment /\ n = req[r].amount
  BY RequestKinds DEF CommitCollection, CommitDirect, TypeOK, PayRequest
<1>2. Customer[p] \in Customers /\ due[Customer[p]] \in Nat /\ n \in Nat
  BY DEF TypeOK, Amounts
<1>3. /\ status[p] = "none" /\ status'[p] \in {"pending", "paid"} /\ amount'[p] = n
      /\ credit' = credit
      /\ \A q \in Payments : q # p => status'[q] = status[q] /\ amount'[q] = amount[q]
      /\ \A d \in Customers : d # Customer[p] => due'[d] = due[d]
  BY <1>1, <1>2 DEF CommitCollection, CommitDirect, TypeOK
<1>4. due'[Customer[p]] <= due[Customer[p]] - n + (IF p \in Direct THEN 0 ELSE Tolerance)
  <2>1. CASE CommitCollection(r, ok)
    BY <1>1, <1>2, <2>1 DEF CommitCollection, Greatest0, TypeOK
  <2>2. CASE CommitDirect(r, ok)
    BY <1>1, <1>2, <2>2 DEF CommitDirect, TypeOK
  <2> QED
    BY <2>1, <2>2
<1>5. /\ Paid(c)[p] = 0 /\ Slack(c)[p] = 0
      /\ Paid(c)'[p] = IF Customer[p] = c THEN n ELSE 0
      /\ Slack(c)'[p] = IF Customer[p] = c /\ p \notin Direct THEN Tolerance ELSE 0
  BY <1>3 DEF Paid, Slack
<1>6. due'[c] + Paid(c)'[p] + Slack(c)[p] <= due[c] + Paid(c)[p] + Slack(c)'[p]
  <2>1. due[c] \in Nat /\ due'[c] \in Nat
    BY DEF TypeOK
  <2> QED
    BY <1>2, <1>3, <1>4, <1>5, <2>1
<1> QED
  BY <1>3, <1>6, PaymentKeepsExact

(* A decision that finds its collection submitted.                         *)
LEMMA ExactDecide ==
  ASSUME TypeOK, TypeOK', NEW c \in Customers, \A q \in Legacy : Customer[q] # c, Exact(c),
         DecidesSubmitted, NEW r \in Requests,
         CommitReject(r) \/ \E ok \in BOOLEAN : CommitVerify(r, ok)
  PROVE  Exact(c)'
<1> USE RowTypes, LimitTypes
<1>1. PICK p \in Payments : p = req[r].payment
  BY RequestKinds DEF CommitReject, CommitVerify, TypeOK, DecideRequest
<1>2. status[p] = "submitted"
  BY <1>1 DEF DecidesSubmitted
<1>3. Customer[p] \in Customers /\ due[c] \in Nat /\ amount[p] \in Nat
  BY DEF TypeOK
<1>4. /\ credit' = credit /\ amount' = amount
      /\ \A q \in Payments : q # p => status'[q] = status[q]
  BY <1>1 DEF CommitReject, CommitVerify, TypeOK
<1>5. Slack(c)'[p] = Slack(c)[p] /\ Slack(c)[p] \in Nat
  <2>1. status'[p] \in {"rejected", "verified"}
    BY <1>1 DEF CommitReject, CommitVerify, TypeOK
  <2> QED
    BY <1>2, <2>1 DEF Slack
<1>6. Paid(c)[p] = IF Customer[p] = c THEN amount[p] ELSE 0
  BY <1>2 DEF Paid
<1>7. due'[c] + Paid(c)'[p] = due[c] + Paid(c)[p]
  <2>1. CASE CommitReject(r)
    <3>1. status'[p] = "rejected"
      BY <1>1, <2>1 DEF CommitReject, TypeOK
    <3>2. Paid(c)'[p] = 0
      BY <3>1 DEF Paid
    <3>3. due'[c] = IF Customer[p] = c THEN due[c] + amount[p] ELSE due[c]
      BY <1>1, <1>3, <2>1 DEF CommitReject, TypeOK
    <3> QED
      BY <1>3, <1>6, <3>2, <3>3
  <2>2. ASSUME NEW ok \in BOOLEAN, CommitVerify(r, ok)
        PROVE  due'[c] + Paid(c)'[p] = due[c] + Paid(c)[p]
    <3>1. status'[p] = "verified"
      BY <1>1, <2>2 DEF CommitVerify, TypeOK
    <3>2. Paid(c)'[p] = Paid(c)[p]
      BY <1>4, <1>6, <3>1 DEF Paid
    <3>3. due'[c] = due[c]
      BY <1>1, <1>3, <2>2 DEF CommitVerify, DeductedOnVerify, Greatest0, TypeOK
    <3> QED
      BY <3>2, <3>3
  <2> QED
    BY <2>1, <2>2
<1>8. Paid(c)[p] \in Nat /\ Paid(c)'[p] \in Nat /\ due'[c] \in Nat
  <2>1. Paid(c)' \in [Payments -> Nat]
    BY DEF Paid, TypeOK
  <2> QED
    BY <1>3, <1>6, <2>1 DEF TypeOK
<1>9. due'[c] + Paid(c)'[p] + Slack(c)[p] <= due[c] + Paid(c)[p] + Slack(c)'[p]
  BY <1>3, <1>5, <1>7, <1>8
<1> QED
  BY <1>4, <1>9, PaymentKeepsExact

(* As long as each decision finds its collection submitted, no customer is *)
(* charged for more than he bought and did not pay, up to the tolerance of *)
(* each collection (verifyCollection puts a rejected payment back once).   *)
THEOREM ExactIfDecidedOnce == Spec /\ [][DecidesSubmitted]_vars => []AccountsExact
<1> USE RowTypes, LimitTypes
<1>1. Init => AccountsExact
  <2> SUFFICES ASSUME Init, NEW c \in Customers, \A p \in Legacy : Customer[p] # c
               PROVE  Exact(c)
    BY DEF AccountsExact
  <2>1. Sold(c) \in [Sales -> Nat] /\ \A s \in Sales : Sold(c)[s] = 0
    BY DEF Init, Sold, Nothing
  <2>2. Paid(c) \in [Payments -> Nat] /\ \A p \in Payments : Paid(c)[p] = 0
    BY DEF Init, Paid
  <2>3. Slack(c) \in [Payments -> Nat] /\ \A p \in Payments : Slack(c)[p] = 0
    BY DEF Init, Slack
  <2>4. Total(Sold(c)) = 0 /\ Total(Paid(c)) = 0 /\ Total(Slack(c)) = 0
    BY <2>1, <2>2, <2>3, TotalZero
  <2> QED
    BY <2>4 DEF Init, Exact
<1>2. TypeOK /\ TypeOK' /\ AccountsExact /\ [Next]_vars /\ [DecidesSubmitted]_vars
        => AccountsExact'
  <2> SUFFICES ASSUME TypeOK, TypeOK', [Next]_vars, [DecidesSubmitted]_vars, NEW c \in Customers,
                      \A p \in Legacy : Customer[p] # c, Exact(c)
               PROVE  Exact(c)'
    BY DEF AccountsExact
  <2>1. CASE UNCHANGED <<credit, due, payments>>
    BY <2>1 DEF Paid, Sold, Slack, Exact, payments
  <2>2. ASSUME NEW s \in Sales, NEW n \in Amounts, CreditSale(s, n)
        PROVE  Exact(c)'
    BY <2>2, ExactSale
  <2>3. ASSUME NEW rs \in SUBSET Payments, Submit(rs)
        PROVE  Exact(c)'
    <3>1. \A p \in Payments : /\ status'[p] \in {"none", "rejected"} <=> status[p] \in {"none", "rejected"}
                              /\ status'[p] = "none" <=> status[p] = "none"
      BY <2>3 DEF Submit, TypeOK
    <3>2. Paid(c)' = Paid(c) /\ Sold(c)' = Sold(c) /\ Slack(c)' = Slack(c) /\ due' = due
      BY <2>3, <3>1 DEF Submit, Paid, Sold, Slack
    <3> QED
      BY <3>2 DEF Exact
  <2>4. ASSUME NEW r \in Requests, NEW ok \in BOOLEAN,
               CommitCollection(r, ok) \/ CommitDirect(r, ok)
        PROVE  Exact(c)'
    BY <2>4, ExactPay
  <2>5. ASSUME NEW r \in Requests, CommitReject(r) \/ \E ok \in BOOLEAN : CommitVerify(r, ok)
        PROVE  Exact(c)'
    <3>1. CASE UNCHANGED vars
      BY <2>1, <3>1 DEF vars
    <3>2. CASE DecidesSubmitted
      BY <2>5, <3>2, ExactDecide
    <3> QED
      BY <3>1, <3>2
  <2> QED
    BY <2>1, <2>2, <2>3, <2>4, <2>5
    DEF Next, Pay, Decide, BeginPay, BeginDecide, Abort, vars
<1> QED
  BY <1>1, <1>2, TypeCorrect, PTL DEF Spec

(* A handler that works alone finds the collection as it read it.          *)
StillSubmitted ==
    \A r \in Requests : req[r].kind \in {"verify", "reject"} =>
        status[req[r].payment] = "submitted"

LEMMA AloneStep ==
  ASSUME NEW r, Requests = {r}, TypeOK, StillSubmitted, [Next]_vars
  PROVE  StillSubmitted' /\ DecidesSubmitted
<1>1. DecidesSubmitted
  BY DEF StillSubmitted, DecidesSubmitted, CommitReject, CommitVerify
<1>2. ASSUME req'[r].kind \notin {"verify", "reject"}
      PROVE  StillSubmitted'
  BY <1>2 DEF StillSubmitted
<1>3. ASSUME UNCHANGED <<status, req>>
      PROVE  StillSubmitted'
  BY <1>3 DEF StillSubmitted
<1>4. ASSUME NEW p \in Payments, NEW kind \in {"verify", "reject"}, BeginDecide(r, kind, p)
      PROVE  StillSubmitted'
  BY <1>4 DEF BeginDecide, payments, StillSubmitted, TypeOK
<1>5. ASSUME NEW rs \in SUBSET Payments, Submit(rs)
      PROVE  StillSubmitted'
  <2>1. req[r].kind \in {"verify", "reject"} => req[r].payment \in Payments
    BY RequestKinds DEF TypeOK, DecideRequest
  <2> QED
    BY <1>5, <2>1 DEF Submit, StillSubmitted, TypeOK
<1>6. req \in [Requests -> Request] /\ r \in Requests /\ Idle.kind \notin {"verify", "reject"}
  BY DEF TypeOK, Idle
<1>7. ASSUME NEW s \in Sales, NEW n \in Amounts, CreditSale(s, n)
      PROVE  StillSubmitted'
  BY <1>3, <1>7 DEF CreditSale, payments
<1>8. ASSUME NEW p \in Payments, NEW n \in Amounts, NEW preferred \in Choices,
             BeginPay(r, p, n, preferred)
      PROVE  StillSubmitted'
  <2>1. req'[r].kind = "pay"
    BY <1>6, <1>8 DEF BeginPay
  <2> QED
    BY <1>2, <2>1
<1>9. ASSUME NEW ok \in BOOLEAN,
             \/ CommitCollection(r, ok) \/ CommitDirect(r, ok)
             \/ CommitVerify(r, ok) \/ CommitReject(r) \/ Abort(r)
      PROVE  StillSubmitted'
  <2>1. req' = [req EXCEPT ![r] = Idle]
    BY <1>9 DEF CommitCollection, CommitDirect, CommitVerify, CommitReject, Abort
  <2>2. req'[r] = Idle
    BY <1>6, <2>1
  <2> QED
    BY <1>2, <1>6, <2>2
<1>10. ASSUME UNCHANGED vars
       PROVE  StillSubmitted'
  BY <1>3, <1>10 DEF vars, payments
<1>11. CASE \E x \in Requests : Pay(x) \/ Decide(x) \/ Abort(x)
  <2>1. Pay(r) \/ Decide(r) \/ Abort(r)
    BY <1>11
  <2>2. Pay(r) => StillSubmitted'
    BY <1>8, <1>9 DEF Pay
  <2>3. Decide(r) => StillSubmitted'
    BY <1>4, <1>9 DEF Decide
  <2>4. Abort(r) => StillSubmitted'
    BY <1>9
  <2> QED
    BY <1>1, <2>1, <2>2, <2>3, <2>4
<1> QED
  BY <1>1, <1>5, <1>7, <1>10, <1>11 DEF Next

(* One handler at a time: a rejection puts the account back.  The payment  *)
(* that is both credited back and verified needs handlers that overlap.    *)
THEOREM OneByOne ==
  ASSUME NEW r, Requests = {r}
  PROVE  Spec => []AccountsExact
<1>1. Init => StillSubmitted
  BY DEF Init, StillSubmitted, Idle
<1>2. TypeOK /\ StillSubmitted /\ [Next]_vars => StillSubmitted' /\ DecidesSubmitted
  BY AloneStep
<1> QED
  BY <1>1, <1>2, ExactIfDecidedOnce, TypeCorrect, PTL DEF Spec
=============================================================================
