-------------------------- MODULE OrderStockProofs --------------------------
(***************************************************************************)
(* Theorems about OrderStock, for every number of products, orders, SRs    *)
(* and concurrent handlers.                                                *)
(***************************************************************************)
EXTENDS OrderStock, SumsProofs

(* What the kind of a request says about its other fields.                 *)
LEMMA RequestKinds ==
  ASSUME NEW q \in Request
  PROVE  /\ q.kind = "create" => q \in CreateRequest
         /\ q.kind \in {"approve", "cancel"} => q \in DecideRequest
         /\ q.kind = "reject" => q \in RejectRequest
         /\ q.kind = "idle" => q = Idle
BY DEF Request, Idle, CreateRequest, DecideRequest, RejectRequest

(* The helpers of the actions stay within their types.                     *)
LEMMA HelperTypes ==
  ASSUME TypeOK, NEW p \in Products, NEW n \in Nat, NEW o \in Orders
  PROVE  /\ Greatest0(stock[p] - n) \in Nat
         /\ Greatest0(whStock[p] - n) \in Nat
         /\ Released(p, n) \in Nat
         /\ Consumed(p, n) \in 0..n
         /\ batch[p] - Consumed(p, n) \in Nat
         /\ Untracked(p, n) \in Nat
         /\ issued[o][p] + n \in Nat
BY DEF TypeOK, Greatest0, Least, Released, Consumed, Untracked

(* Every state has the types the database columns have.                    *)
THEOREM TypeCorrect == Spec => []TypeOK
<1> USE FiniteRows, Bounds, OwnerType, StockType
<1>1. Init => TypeOK
  BY DEF Init, TypeOK, Status, Qty, Request
<1>2. TypeOK /\ [Next]_vars => TypeOK'
  <2> SUFFICES ASSUME TypeOK, [Next]_vars
               PROVE  TypeOK'
    OBVIOUS
  <2> USE DEF TypeOK
  <2>1. ASSUME NEW r \in Requests, NEW w \in Workers, NEW qty \in [Products -> Qty],
               BeginCreate(r, w, qty)
        PROVE  TypeOK'
    <3>1. [kind |-> "create", worker |-> w, qty |-> qty] \in Request
      BY DEF Request, CreateRequest
    <3> QED
      BY <2>1, <3>1 DEF BeginCreate, rows, goods
  <2>2. ASSUME NEW r \in Requests, NEW o \in Orders, CommitCreate(r, o)
        PROVE  TypeOK'
    <3>1. req[r].qty \in [Products -> Qty]
      BY <2>2, RequestKinds DEF CommitCreate, CreateRequest
    <3>2. requested' \in [Orders -> [Products -> Qty]]
      BY <2>2, <3>1 DEF CommitCreate
    <3>3. reserved' \in [Products -> Nat]
      BY <2>2, <3>1 DEF CommitCreate, Qty
    <3>4. status' \in [Orders -> Status] /\ req' \in [Requests -> Request]
      BY <2>2 DEF CommitCreate, Status, Request
    <3> QED
      BY <2>2, <3>2, <3>3, <3>4 DEF CommitCreate, goods
  <2>3. ASSUME NEW r \in Requests, NEW o \in Orders, NEW k \in {"approve", "cancel"},
               BeginDecide(r, k, o)
        PROVE  TypeOK'
    <3>1. [kind |-> k, order |-> o] \in Request
      BY DEF Request, DecideRequest
    <3> QED
      BY <2>3, <3>1 DEF BeginDecide, rows, goods
  <2>4. ASSUME NEW r \in Requests, NEW qty \in [Products -> Qty], CommitApprove(r, qty)
        PROVE  TypeOK'
    <3> DEFINE o == req[r].order
    <3>1. o \in Orders
      BY <2>4, RequestKinds DEF CommitApprove, ReleasedByApproval, Debited, DecideRequest
    <3>2. \A p \in Products : qty[p] \in Nat /\ requested[o][p] \in Nat
      BY <3>1 DEF Qty
    <3>3. /\ stock' \in [Products -> Nat]
          /\ whStock' \in [Products -> Nat]
          /\ reserved' \in [Products -> Nat]
      BY <2>4, <3>1, <3>2, HelperTypes DEF CommitApprove, ReleasedByApproval, Debited
    <3>4. /\ batch' \in [Products -> Nat]
          /\ outBatch' \in [Products -> Nat]
          /\ outLoose' \in [Products -> Nat]
      <4>1. \A p \in Products : /\ batch[p] - Consumed(p, qty[p]) \in Nat
                                /\ outBatch[p] + Consumed(p, qty[p]) \in Nat
                                /\ outLoose[p] + Untracked(p, qty[p]) \in Nat
        BY <3>1, <3>2, HelperTypes
      <4> QED
        BY <2>4, <4>1 DEF CommitApprove, ReleasedByApproval, Debited
    <3>5. issued' \in [Orders -> [Products -> Nat]]
      BY <2>4, <3>1, <3>2, HelperTypes DEF CommitApprove, ReleasedByApproval, Debited
    <3>6. /\ status' \in [Orders -> Status]
          /\ requested' \in [Orders -> [Products -> Qty]]
          /\ req' \in [Requests -> Request]
      BY <2>4 DEF CommitApprove, ReleasedByApproval, Debited, Status, Request
    <3> QED
      BY <3>3, <3>4, <3>5, <3>6
  <2>5. ASSUME NEW r \in Requests, CommitCancel(r)
        PROVE  TypeOK'
    <3>1. req[r].order \in Orders
      BY <2>5, RequestKinds DEF CommitCancel, DecideRequest
    <3>2. \A p \in Products : requested[req[r].order][p] \in Nat
      BY <3>1 DEF Qty
    <3>3. reserved' \in [Products -> Nat]
      BY <2>5, <3>1, <3>2, HelperTypes DEF CommitCancel
    <3>4. status' \in [Orders -> Status] /\ req' \in [Requests -> Request]
      BY <2>5 DEF CommitCancel, Status, Request
    <3> QED
      BY <2>5, <3>3, <3>4 DEF CommitCancel, goods
  <2>6. ASSUME NEW r \in Requests, NEW o \in Orders, BeginReject(r, o)
        PROVE  TypeOK'
    <3>1. [kind |-> "reject", order |-> o, todo |-> Lines(o)] \in Request
      BY DEF Request, RejectRequest, Lines
    <3> QED
      BY <2>6, <3>1 DEF BeginReject, rows, goods
  <2>7. ASSUME NEW r \in Requests, NEW p \in Products, ReleaseLine(r, p)
        PROVE  TypeOK'
    <3>1. req[r] \in RejectRequest
      BY <2>7, RequestKinds DEF ReleaseLine
    <3>2. [req[r] EXCEPT !.todo = req[r].todo \ {p}] \in Request
      BY <3>1 DEF Request, RejectRequest
    <3>3. requested[req[r].order][p] \in Nat
      BY <3>1 DEF RejectRequest, Qty
    <3>4. reserved' \in [Products -> Nat]
      BY <2>7, <3>1, <3>3, HelperTypes DEF ReleaseLine, RejectRequest
    <3> QED
      BY <2>7, <3>2, <3>4 DEF ReleaseLine, rows, goods
  <2>8. ASSUME NEW r \in Requests, FinishReject(r)
        PROVE  TypeOK'
    BY <2>8 DEF FinishReject, goods, Status, Request
  <2>9. ASSUME NEW r \in Requests, Abort(r)
        PROVE  TypeOK'
    BY <2>9 DEF Abort, rows, goods, Request
  <2>10. CASE SyncReservedStock
    <3>1. \A p \in Products :
            Total([o \in Orders |-> IF status[o] \in Counted
                                    THEN LineQuantity(o, p) ELSE 0]) = 0
      BY TotalZero DEF LineQuantity
    <3> QED
      BY <2>10, <3>1 DEF SyncReservedStock, rows, goods
  <2>11. CASE UNCHANGED vars
    BY <2>11 DEF vars, rows, goods
  <2> QED
    BY <2>1, <2>2, <2>3, <2>4, <2>5, <2>6, <2>7, <2>8, <2>9, <2>10, <2>11
    DEF Next, CreateOrder, ApproveOrder, CancelOrder, RejectOrder
<1> QED
  BY <1>1, <1>2, PTL DEF Spec

-----------------------------------------------------------------------------
(* A pending order whose line a rejectOrder in flight has released is      *)
(* still pending, but owes no reservation for that line: counting it would *)
(* hide a leak when the handler sets the status.                           *)

ReleasedBy(o, p) ==
    \E r \in Requests : /\ req[r].kind = "reject"
                       /\ req[r].order = o
                       /\ p \notin req[r].todo

Owes(o, p) == IF status[o] = "pending" /\ ~ReleasedBy(o, p) THEN requested[o][p] ELSE 0

Owed(p) == [o \in Orders |-> Owes(o, p)]

(* The inductive invariant behind NoReservationLeak.                       *)
ReservationInv ==
    /\ \A r \in Requests : req[r].kind = "reject" => status[req[r].order] # "none"
    /\ \A p \in Products : reserved[p] <= Total(Owed(p))

LEMMA OwedType ==
  ASSUME TypeOK, NEW p \in Products
  PROVE  /\ Owed(p) \in [Orders -> Nat]
         /\ Pending(p) \in [Orders -> Nat]
         /\ Total(Owed(p)) \in Nat
BY FiniteRows, TotalType, Bounds DEF TypeOK, Owed, Owes, Pending, Qty

(* A step that changes what one order owes for p, and the reservation of p *)
(* by no more than that (or sets it to 0), keeps the bound.                *)
LEMMA OneOrderStep ==
  ASSUME TypeOK, TypeOK', NEW p \in Products, NEW o \in Orders,
         reserved[p] <= Total(Owed(p)),
         \A x \in Orders \ {o} : Owes(x, p)' = Owes(x, p),
         \/ reserved'[p] = 0
         \/ reserved'[p] <= reserved[p] + Owes(o, p)' - Owes(o, p)
  PROVE  reserved'[p] <= Total(Owed(p)')
<1> DEFINE f == Owed(p)
           g == Owed(p)'
<1>1. f \in [Orders -> Nat]
  BY OwedType
<1>2. g \in [Orders -> Nat]
  BY FiniteRows, Bounds DEF TypeOK, Owed, Owes, Qty
<1>3. \A y \in Orders : y # o => g[y] = f[y]
  BY DEF Owed
<1>4. /\ Total(f) \in Nat
      /\ Total(g) \in Nat
      /\ Total(g) = Total(f) - f[o] + g[o]
  <2> HIDE DEF f, g
  <2> QED
    BY <1>1, <1>2, <1>3, FiniteRows, TotalUpdate
<1>5. f[o] = Owes(o, p) /\ g[o] = Owes(o, p)'
  BY DEF Owed
<1>6. f[o] \in Nat /\ g[o] \in Nat /\ reserved[p] \in Nat /\ reserved'[p] \in Nat
  BY <1>1, <1>2 DEF TypeOK
<1> HIDE DEF f, g
<1>7. reserved'[p] <= Total(g)
  <2>1. reserved[p] <= Total(f)
    BY DEF f
  <2> QED
    BY <1>4, <1>5, <1>6, <2>1
<1> QED
  BY <1>7 DEF g

(* Releasing what an order asked for lowers the reservation by at least    *)
(* what the order still owed.                                              *)
LEMMA ReleaseBound ==
  ASSUME TypeOK, NEW p \in Products, NEW o \in Orders
  PROVE  /\ Owes(o, p) \in 0..requested[o][p]
         /\ \/ Released(p, requested[o][p]) = 0
            \/ Released(p, requested[o][p]) <= reserved[p] - Owes(o, p)
BY Bounds DEF TypeOK, Owes, Released, Greatest0, Qty

(* A step that concerns no rejectOrder.                                    *)
NoRejectMoves ==
    \A s \in Requests : req'[s] = req[s] \/ (req'[s].kind # "reject" /\ req[s].kind # "reject")

LEMMA QuietStep ==
  ASSUME TypeOK, ReservationInv, NoRejectMoves, UNCHANGED <<rows, reserved>>
  PROVE  ReservationInv'
<1>1. \A o \in Orders, p \in Products : Owes(o, p)' = Owes(o, p)
  BY DEF NoRejectMoves, rows, Owes, ReleasedBy
<1>2. \A p \in Products : Owed(p)' = Owed(p)
  BY <1>1 DEF Owed
<1> QED
  BY <1>2 DEF NoRejectMoves, ReservationInv, rows

(* The transactions of approveOrder and cancelOrder: the order leaves      *)
(* "pending" and its lines are released.                                   *)
LEMMA DecideStep ==
  ASSUME TypeOK, TypeOK', ReservationInv, NoRejectMoves,
         NEW o \in Orders, NEW d \in {"approved", "cancelled"},
         status' = [status EXCEPT ![o] = d],
         UNCHANGED requested,
         \A p \in Products : reserved'[p] = Released(p, requested[o][p])
  PROVE  ReservationInv'
<1>1. \A p \in Products, x \in Orders \ {o} : Owes(x, p)' = Owes(x, p)
  BY DEF NoRejectMoves, Owes, ReleasedBy, TypeOK
<1>2. \A p \in Products : Owes(o, p)' = 0
  BY DEF Owes, TypeOK
<1>3. \A p \in Products : \/ reserved'[p] = 0
                          \/ reserved'[p] <= reserved[p] + Owes(o, p)' - Owes(o, p)
  <2> TAKE p \in Products
  <2>1. Owes(o, p) \in Int /\ reserved[p] \in Int
    BY ReleaseBound, Bounds DEF TypeOK, Qty
  <2>2. \/ Released(p, requested[o][p]) = 0
        \/ Released(p, requested[o][p]) <= reserved[p] - Owes(o, p)
    BY ReleaseBound
  <2> QED
    BY <1>2, <2>1, <2>2
<1>4. \A p \in Products : reserved'[p] <= Total(Owed(p)')
  BY <1>1, <1>3, OneOrderStep DEF ReservationInv
<1>5. \A s \in Requests : req'[s].kind = "reject" => status'[req'[s].order] # "none"
  BY RequestKinds DEF NoRejectMoves, ReservationInv, TypeOK, RejectRequest
<1> QED
  BY <1>4, <1>5 DEF ReservationInv

LEMMA ReservationInvInductive ==
  TypeOK /\ TypeOK' /\ ReservationInv /\ [Next]_vars => ReservationInv'
<1> SUFFICES ASSUME TypeOK, TypeOK', ReservationInv, [Next]_vars
             PROVE  ReservationInv'
  OBVIOUS
<1>1. ASSUME NEW r \in Requests, NEW w \in Workers, NEW qty \in [Products -> Qty],
             BeginCreate(r, w, qty)
      PROVE  ReservationInv'
  <2>1. NoRejectMoves
    BY <1>1 DEF BeginCreate, TypeOK, Idle, NoRejectMoves
  <2> QED
    BY <1>1, <2>1, QuietStep DEF BeginCreate
<1>2. ASSUME NEW r \in Requests, NEW o \in Orders, CommitCreate(r, o)
      PROVE  ReservationInv'
  <2>1. req[r] \in CreateRequest
    BY <1>2, RequestKinds DEF CommitCreate, TypeOK
  <2>2. NoRejectMoves
    BY <1>2 DEF CommitCreate, TypeOK, Idle, NoRejectMoves
  <2>3. \A s \in Requests : req[s].kind = "reject" => req[s].order # o
    BY <1>2 DEF CommitCreate, ReservationInv
  <2>4. \A p \in Products : /\ Owes(o, p) = 0
                            /\ Owes(o, p)' = req[r].qty[p]
    BY <1>2, <2>2, <2>3 DEF CommitCreate, Owes, ReleasedBy, TypeOK, NoRejectMoves
  <2>5. \A p \in Products, x \in Orders \ {o} : Owes(x, p)' = Owes(x, p)
    BY <1>2, <2>2 DEF CommitCreate, Owes, ReleasedBy, TypeOK, NoRejectMoves
  <2>6. \A p \in Products : reserved'[p] <= reserved[p] + Owes(o, p)' - Owes(o, p)
    BY <1>2, <2>1, <2>4, Bounds DEF CommitCreate, TypeOK, CreateRequest, Qty
  <2>7. \A p \in Products : reserved'[p] <= Total(Owed(p)')
    BY <2>5, <2>6, OneOrderStep DEF ReservationInv
  <2>8. \A s \in Requests : req'[s].kind = "reject" => status'[req'[s].order] # "none"
    BY <1>2, <2>2, RequestKinds
    DEF CommitCreate, TypeOK, RejectRequest, NoRejectMoves, ReservationInv
  <2> QED
    BY <2>7, <2>8 DEF ReservationInv
<1>3. ASSUME NEW r \in Requests, NEW o \in Orders, NEW k \in {"approve", "cancel"},
             BeginDecide(r, k, o)
      PROVE  ReservationInv'
  <2>1. NoRejectMoves
    BY <1>3 DEF BeginDecide, TypeOK, Idle, NoRejectMoves
  <2> QED
    BY <1>3, <2>1, QuietStep DEF BeginDecide
<1>4. ASSUME NEW r \in Requests, NEW qty \in [Products -> Qty], CommitApprove(r, qty)
      PROVE  ReservationInv'
  <2>1. req[r].order \in Orders
    BY <1>4, RequestKinds DEF CommitApprove, ReleasedByApproval, Debited, TypeOK, DecideRequest
  <2>2. NoRejectMoves
    BY <1>4 DEF CommitApprove, ReleasedByApproval, Debited, TypeOK, Idle, NoRejectMoves
  <2> QED
    BY <1>4, <2>1, <2>2, DecideStep DEF CommitApprove, ReleasedByApproval, Debited
<1>5. ASSUME NEW r \in Requests, CommitCancel(r)
      PROVE  ReservationInv'
  <2>1. req[r].order \in Orders
    BY <1>5, RequestKinds DEF CommitCancel, TypeOK, DecideRequest
  <2>2. NoRejectMoves
    BY <1>5 DEF CommitCancel, TypeOK, Idle, NoRejectMoves
  <2> QED
    BY <1>5, <2>1, <2>2, DecideStep DEF CommitCancel
<1>6. ASSUME NEW r \in Requests, NEW o \in Orders, BeginReject(r, o)
      PROVE  ReservationInv'
  <2> DEFINE q == [kind |-> "reject", order |-> o, todo |-> Lines(o)]
  <2>1. \A s \in Requests : req'[s] = IF s = r THEN q ELSE req[s]
    BY <1>6 DEF BeginReject, TypeOK
  <2>2. req[r].kind # "reject"
    BY <1>6 DEF BeginReject, Idle
  <2>3. ASSUME NEW x \in Orders, NEW p \in Products
        PROVE  Owes(x, p)' = Owes(x, p)
    <3>1. CASE x = o /\ p \notin Lines(o)
      <4>1. requested[x][p] = 0
        BY <3>1, Bounds DEF Lines, TypeOK, Qty
      <4> QED
        BY <1>6, <4>1 DEF BeginReject, Owes, rows
    <3>2. CASE x # o \/ p \in Lines(o)
      <4>1. ReleasedBy(x, p)' <=> ReleasedBy(x, p)
        BY <2>1, <2>2, <3>2 DEF ReleasedBy
      <4> QED
        BY <1>6, <4>1 DEF BeginReject, Owes, rows
    <3> QED
      BY <3>1, <3>2
  <2>4. \A p \in Products : Owed(p)' = Owed(p)
    BY <2>3 DEF Owed
  <2>5. \A s \in Requests : req'[s].kind = "reject" => status'[req'[s].order] # "none"
    BY <1>6, <2>1 DEF BeginReject, rows, ReservationInv
  <2> QED
    BY <1>6, <2>4, <2>5 DEF BeginReject, ReservationInv
<1>7. ASSUME NEW r \in Requests, NEW q \in Products, ReleaseLine(r, q)
      PROVE  ReservationInv'
  <2>0. req[r] \in RejectRequest
    BY <1>7, RequestKinds DEF ReleaseLine, TypeOK
  <2>1. PICK o \in Orders : o = req[r].order
    BY <2>0 DEF RejectRequest
  <2>2. /\ req'[r].kind = "reject" /\ req'[r].order = o
        /\ req'[r].todo = req[r].todo \ {q}
        /\ \A s \in Requests \ {r} : req'[s] = req[s]
    BY <1>7, <2>0, <2>1 DEF ReleaseLine, TypeOK, RejectRequest
  <2>3. \A x \in Orders, p \in Products : x # o \/ p # q => Owes(x, p)' = Owes(x, p)
    <3> TAKE x \in Orders, p \in Products
    <3> HAVE x # o \/ p # q
    <3>1. ReleasedBy(x, p)' <=> ReleasedBy(x, p)
      BY <1>7, <2>2 DEF ReleasedBy, ReleaseLine
    <3> QED
      BY <1>7, <3>1 DEF ReleaseLine, Owes, rows
  <2>4. Owes(o, q)' = 0
    BY <2>2 DEF Owes, ReleasedBy
  <2>5. ASSUME NEW p \in Products
        PROVE  reserved'[p] <= Total(Owed(p)')
    <3>1. CASE p # q
      <4>1. Owed(p)' = Owed(p)
        BY <2>3, <3>1 DEF Owed
      <4>2. reserved'[p] = reserved[p]
        BY <1>7, <3>1 DEF ReleaseLine, TypeOK
      <4> QED
        BY <4>1, <4>2 DEF ReservationInv
    <3>2. CASE p = q
      <4>1. reserved'[p] = Released(p, requested[o][p])
        BY <1>7, <2>1, <3>2 DEF ReleaseLine, TypeOK
      <4>2. Owes(o, p) \in Int /\ reserved[p] \in Int
        BY <2>1, ReleaseBound, Bounds DEF TypeOK, Qty
      <4>3. \/ Released(p, requested[o][p]) = 0
            \/ Released(p, requested[o][p]) <= reserved[p] - Owes(o, p)
        BY <2>1, ReleaseBound
      <4>4. \/ reserved'[p] = 0
            \/ reserved'[p] <= reserved[p] + Owes(o, p)' - Owes(o, p)
        BY <2>4, <3>2, <4>1, <4>2, <4>3
      <4>5. \A x \in Orders \ {o} : Owes(x, p)' = Owes(x, p)
        BY <2>3
      <4> QED
        BY <2>1, <4>4, <4>5, OneOrderStep DEF ReservationInv
    <3> QED
      BY <3>1, <3>2
  <2>6. \A s \in Requests : req'[s].kind = "reject" => status'[req'[s].order] # "none"
    BY <1>7, <2>0, <2>1, <2>2 DEF ReleaseLine, rows, ReservationInv, RejectRequest
  <2> QED
    BY <2>5, <2>6 DEF ReservationInv
<1>8. ASSUME NEW r \in Requests, FinishReject(r)
      PROVE  ReservationInv'
  <2>1. PICK o \in Orders : o = req[r].order
    BY <1>8, RequestKinds DEF FinishReject, TypeOK, RejectRequest
  <2>2. /\ req'[r].kind # "reject"
        /\ \A s \in Requests \ {r} : req'[s] = req[s]
        /\ status' = [status EXCEPT ![o] = "rejected"]
        /\ requested' = requested
        /\ reserved' = reserved
    BY <1>8, <2>1 DEF FinishReject, TypeOK, Idle
  <2>3. \A p \in Products : Owes(o, p) = 0 /\ Owes(o, p)' = 0
    BY <1>8, <2>1, <2>2 DEF FinishReject, Owes, ReleasedBy, TypeOK
  <2>4. \A x \in Orders \ {o}, p \in Products : Owes(x, p)' = Owes(x, p)
    <3> TAKE x \in Orders \ {o}, p \in Products
    <3>1. ReleasedBy(x, p)' <=> ReleasedBy(x, p)
      BY <2>1, <2>2 DEF ReleasedBy
    <3> QED
      BY <2>2, <3>1 DEF Owes, TypeOK
  <2>5. \A x \in Orders, p \in Products : Owes(x, p)' = Owes(x, p)
    BY <2>3, <2>4
  <2>6. \A p \in Products : Owed(p)' = Owed(p)
    BY <2>5 DEF Owed
  <2>7. \A s \in Requests : req'[s].kind = "reject" => status'[req'[s].order] # "none"
    <3> TAKE s \in Requests
    <3> HAVE req'[s].kind = "reject"
    <3>1. req'[s] = req[s] /\ req[s].kind = "reject"
      BY <2>2
    <3>2. req[s].order \in Orders /\ status[req[s].order] # "none"
      BY <3>1, RequestKinds DEF TypeOK, ReservationInv, RejectRequest
    <3> QED
      BY <2>2, <3>1, <3>2 DEF TypeOK
  <2> QED
    BY <2>2, <2>6, <2>7 DEF ReservationInv
<1>9. ASSUME NEW r \in Requests, Abort(r)
      PROVE  ReservationInv'
  <2>1. CASE req[r].kind # "reject"
    <3>1. NoRejectMoves
      BY <1>9, <2>1 DEF Abort, TypeOK, Idle, NoRejectMoves
    <3> QED
      BY <1>9, <3>1, QuietStep DEF Abort
  <2>2. CASE req[r].kind = "reject"
    <3>1. PICK o \in Orders : o = req[r].order
      BY <2>2, RequestKinds DEF TypeOK, RejectRequest
    <3>2. /\ req'[r].kind # "reject"
          /\ \A s \in Requests \ {r} : req'[s] = req[s]
      BY <1>9 DEF Abort, TypeOK, Idle
    <3>3. \A x \in Orders \ {o}, p \in Products : Owes(x, p)' = Owes(x, p)
      <4> TAKE x \in Orders \ {o}, p \in Products
      <4>1. ReleasedBy(x, p)' <=> ReleasedBy(x, p)
        BY <3>1, <3>2 DEF ReleasedBy
      <4> QED
        BY <1>9, <4>1 DEF Abort, Owes, rows
    <3>4. \A p \in Products : Owes(o, p) <= Owes(o, p)'
      <4> TAKE p \in Products
      <4>1. ReleasedBy(o, p)' => ReleasedBy(o, p)
        BY <3>2 DEF ReleasedBy
      <4> QED
        BY <1>9, <3>1, <4>1, Bounds DEF Abort, Owes, rows, TypeOK, Qty
    <3>5. \A p \in Products :
            reserved'[p] <= reserved[p] + Owes(o, p)' - Owes(o, p)
      <4> TAKE p \in Products
      <4>1. Owes(o, p) \in Int /\ Owes(o, p)' \in Int /\ reserved[p] \in Int
        BY <1>9, <3>1, ReleaseBound, Bounds DEF Abort, rows, TypeOK, Qty, Owes
      <4> QED
        BY <1>9, <3>4, <4>1 DEF Abort
    <3>6. \A p \in Products : reserved'[p] <= Total(Owed(p)')
      BY <3>3, <3>5, OneOrderStep DEF ReservationInv
    <3>7. \A s \in Requests : req'[s].kind = "reject" => status'[req'[s].order] # "none"
      BY <1>9, <3>2 DEF Abort, rows, ReservationInv
    <3> QED
      BY <3>6, <3>7 DEF ReservationInv
  <2> QED
    BY <2>1, <2>2
<1>10. CASE SyncReservedStock
  <2>1. /\ rows' = rows /\ req' = req
        /\ \A p \in Products : reserved'[p] = 0
    <3>1. \A p \in Products :
            Total([o \in Orders |-> IF status[o] \in Counted
                                    THEN LineQuantity(o, p) ELSE 0]) = 0
      BY TotalZero DEF LineQuantity
    <3> QED
      BY <1>10, <3>1 DEF SyncReservedStock
  <2>2. \A p \in Products : Owed(p)' = Owed(p)
    BY <2>1 DEF Owed, Owes, ReleasedBy, rows
  <2>3. \A p \in Products : 0 <= Total(Owed(p))
    BY OwedType
  <2> QED
    BY <2>1, <2>2, <2>3 DEF rows, ReservationInv
<1>11. CASE UNCHANGED vars
  <2>1. NoRejectMoves
    BY <1>11 DEF vars, NoRejectMoves
  <2> QED
    BY <1>11, <2>1, QuietStep DEF vars
<1> QED
  BY <1>1, <1>2, <1>3, <1>4, <1>5, <1>6, <1>7, <1>8, <1>9, <1>10, <1>11
  DEF Next, CreateOrder, ApproveOrder, CancelOrder, RejectOrder

(* No reservation leaks, for any number of racing and failing handlers.    *)
THEOREM NoLeak == Spec => []NoReservationLeak
<1>1. Init => ReservationInv
  <2> SUFFICES ASSUME Init
               PROVE  ReservationInv
    OBVIOUS
  <2>1. \A p \in Products : Total(Owed(p)) = 0
    BY TotalZero DEF Init, Owed, Owes
  <2> QED
    BY <2>1 DEF Init, ReservationInv, Idle
<1>2. TypeOK /\ ReservationInv => NoReservationLeak
  <2> SUFFICES ASSUME TypeOK, ReservationInv, NEW p \in Products
               PROVE  reserved[p] <= Total(Pending(p))
    BY DEF NoReservationLeak
  <2>1. Owed(p) \in [Orders -> Nat] /\ Pending(p) \in [Orders -> Nat]
    BY OwedType
  <2>2. \A o \in Orders : Owed(p)[o] <= Pending(p)[o]
    BY Bounds DEF Owed, Owes, Pending, TypeOK, Qty
  <2>3. Total(Owed(p)) <= Total(Pending(p))
    BY <2>1, <2>2, FiniteRows, TotalMonotone
  <2>4. Total(Owed(p)) \in Nat /\ Total(Pending(p)) \in Nat /\ reserved[p] \in Nat
    BY <2>1, FiniteRows, TotalType DEF TypeOK
  <2> QED
    BY <2>3, <2>4 DEF ReservationInv
<1> QED
  BY <1>1, <1>2, TypeCorrect, ReservationInvInductive, PTL DEF Spec

-----------------------------------------------------------------------------
(* Only approveOrder moves goods.  For one order and one product it moves  *)
(* the same n everywhere.                                                  *)

LEMMA GoodsMove ==
  ASSUME TypeOK, TypeOK', [Next]_vars, NEW p \in Products
  PROVE  \/ UNCHANGED goods
         \/ \E o \in Orders, n \in Nat :
               /\ stock'[p] >= stock[p] - n
               /\ batch'[p] + outBatch'[p] = batch[p] + outBatch[p]
               /\ outBatch'[p] + outLoose'[p] = outBatch[p] + outLoose[p] + n
               /\ Issued(p)'[o] = Issued(p)[o] + n
               /\ \A x \in Orders : x # o => Issued(p)'[x] = Issued(p)[x]
<1>1. ASSUME NEW r \in Requests, NEW qty \in [Products -> Qty], CommitApprove(r, qty)
      PROVE  \E o \in Orders, n \in Nat :
               /\ stock'[p] >= stock[p] - n
               /\ batch'[p] + outBatch'[p] = batch[p] + outBatch[p]
               /\ outBatch'[p] + outLoose'[p] = outBatch[p] + outLoose[p] + n
               /\ Issued(p)'[o] = Issued(p)[o] + n
               /\ \A x \in Orders : x # o => Issued(p)'[x] = Issued(p)[x]
  <2>1. PICK o \in Orders : o = req[r].order
    BY <1>1, RequestKinds DEF CommitApprove, ReleasedByApproval, Debited, TypeOK, DecideRequest
  <2>2. PICK n \in Nat : n = qty[p]
    BY Bounds DEF Qty
  <2>3. stock'[p] >= stock[p] - n
    BY <1>1, <2>2 DEF CommitApprove, ReleasedByApproval, Debited, Greatest0, TypeOK
  <2>4. /\ Consumed(p, n) \in Nat
        /\ Untracked(p, n) = n - Consumed(p, n)
        /\ batch[p] \in Nat /\ outBatch[p] \in Nat /\ outLoose[p] \in Nat
    BY HelperTypes, <2>1 DEF TypeOK, Untracked
  <2>5. /\ batch'[p] = batch[p] - Consumed(p, n)
        /\ outBatch'[p] = outBatch[p] + Consumed(p, n)
        /\ outLoose'[p] = outLoose[p] + Untracked(p, n)
    BY <1>1, <2>2 DEF CommitApprove, ReleasedByApproval, Debited
  <2>6. /\ batch'[p] + outBatch'[p] = batch[p] + outBatch[p]
        /\ outBatch'[p] + outLoose'[p] = outBatch[p] + outLoose[p] + n
    BY <2>4, <2>5
  <2>7. /\ Issued(p)'[o] = Issued(p)[o] + n
        /\ \A x \in Orders : x # o => Issued(p)'[x] = Issued(p)[x]
    BY <1>1, <2>1, <2>2 DEF CommitApprove, ReleasedByApproval, Debited, TypeOK, Issued
  <2> QED
    BY <2>3, <2>6, <2>7
<1>2. \/ UNCHANGED goods
      \/ \E r \in Requests, qty \in [Products -> Qty] : CommitApprove(r, qty)
  BY DEF Next, vars, CreateOrder, ApproveOrder, CancelOrder, RejectOrder, BeginCreate,
         CommitCreate, BeginDecide, CommitCancel, BeginReject, ReleaseLine,
         FinishReject, Abort, SyncReservedStock
<1> QED
  BY <1>1, <1>2

GoodsInv == StockNeverLost /\ LedgerMatchesMovements

LEMMA GoodsInvInductive ==
  TypeOK /\ TypeOK' /\ GoodsInv /\ [Next]_vars => GoodsInv'
<1> SUFFICES ASSUME TypeOK, TypeOK', GoodsInv, [Next]_vars, NEW p \in Products
             PROVE  /\ stock'[p] + Total(Issued(p)') >= InitStock[p]
                    /\ Total(Issued(p)') = outBatch'[p] + outLoose'[p]
                    /\ batch'[p] + outBatch'[p] = InitBatch[p]
  BY DEF GoodsInv, StockNeverLost, LedgerMatchesMovements
<1>1. /\ stock[p] + Total(Issued(p)) >= InitStock[p]
      /\ Total(Issued(p)) = outBatch[p] + outLoose[p]
      /\ batch[p] + outBatch[p] = InitBatch[p]
  BY DEF GoodsInv, StockNeverLost, LedgerMatchesMovements
<1>2. CASE UNCHANGED goods
  <2>1. Issued(p)' = Issued(p)
    BY <1>2 DEF goods, Issued
  <2> QED
    BY <1>1, <1>2, <2>1 DEF goods
<1>3. ASSUME NEW o \in Orders, NEW n \in Nat,
             stock'[p] >= stock[p] - n,
             batch'[p] + outBatch'[p] = batch[p] + outBatch[p],
             outBatch'[p] + outLoose'[p] = outBatch[p] + outLoose[p] + n,
             Issued(p)'[o] = Issued(p)[o] + n,
             \A x \in Orders : x # o => Issued(p)'[x] = Issued(p)[x]
      PROVE  /\ stock'[p] + Total(Issued(p)') >= InitStock[p]
             /\ Total(Issued(p)') = outBatch'[p] + outLoose'[p]
             /\ batch'[p] + outBatch'[p] = InitBatch[p]
  <2> DEFINE f == Issued(p)
             g == Issued(p)'
  <2>1. f \in [Orders -> Nat] /\ g \in [Orders -> Nat]
    BY DEF TypeOK, Issued
  <2>2. f[o] \in Nat /\ g[o] = f[o] + n /\ \A x \in Orders : x # o => g[x] = f[x]
    BY <1>3, <2>1
  <2> HIDE DEF f, g
  <2>3. Total(f) \in Nat /\ Total(g) = Total(f) - f[o] + g[o]
    BY <2>1, <2>2, FiniteRows, TotalUpdate
  <2>4. Total(g) = Total(f) + n
    BY <2>2, <2>3
  <2>5. stock[p] \in Nat /\ stock'[p] \in Nat /\ InitStock[p] \in Nat
    BY StockType DEF TypeOK
  <2>6. stock[p] + Total(f) >= InitStock[p] /\ Total(f) = outBatch[p] + outLoose[p]
    BY <1>1 DEF f
  <2>7. stock'[p] + Total(g) >= InitStock[p] /\ Total(g) = outBatch'[p] + outLoose'[p]
    BY <1>3, <2>3, <2>4, <2>5, <2>6
  <2> QED
    BY <1>1, <1>3, <2>7 DEF g
<1> QED
  BY <1>2, <1>3, GoodsMove

LEMMA GoodsInvAlways == Spec => []GoodsInv
<1>1. Init => GoodsInv
  <2> SUFFICES ASSUME Init, NEW p \in Products
               PROVE  /\ stock[p] + Total(Issued(p)) >= InitStock[p]
                      /\ Total(Issued(p)) = outBatch[p] + outLoose[p]
                      /\ batch[p] + outBatch[p] = InitBatch[p]
    BY DEF GoodsInv, StockNeverLost, LedgerMatchesMovements
  <2>1. Total(Issued(p)) = 0
    BY TotalZero DEF Init, Issued
  <2> QED
    BY <2>1, StockType DEF Init
<1> QED
  BY <1>1, TypeCorrect, GoodsInvInductive, PTL DEF Spec

(* The opening stock is in the warehouse or in the SRs' ledgers.           *)
THEOREM NothingLost == Spec => []StockNeverLost
BY GoodsInvAlways, PTL DEF GoodsInv

(* The SRs' ledgers record exactly what the warehouse's movements record.  *)
THEOREM LedgerIsMovements == Spec => []LedgerMatchesMovements
BY GoodsInvAlways, PTL DEF GoodsInv

-----------------------------------------------------------------------------
(* What may still count against an SR's daily limit: the orders that are   *)
(* counted, those that an approval under way may make count again after a  *)
(* rejection or a cancellation, and the requests about to insert one.      *)
Creating(w) == {r \in Requests : req[r].kind = "create" /\ req[r].worker = w}
Approving(w) == {r \in Requests : req[r].kind = "approve" /\ Owner[req[r].order] = w}
Reviving(w) == {o \in Orders : \E r \in Approving(w) : o = req[r].order}
Claimed(w) == CountedOrders(w) \cup Reviving(w)

LimitInv ==
  \A w \in Workers :
    Cardinality(Claimed(w)) + Cardinality(Creating(w)) < DailyLimit + Cardinality(Requests)

LEMMA ClaimsFinite ==
  ASSUME NEW w \in Workers
  PROVE  /\ IsFiniteSet(Claimed(w)) /\ Cardinality(Claimed(w)) \in Nat
         /\ IsFiniteSet(Creating(w)) /\ Cardinality(Creating(w)) \in Nat
         /\ IsFiniteSet(CountedOrders(w)) /\ Cardinality(CountedOrders(w)) \in Nat
         /\ IsFiniteSet(Reviving(w)) /\ Cardinality(Reviving(w)) \in Nat
         /\ Cardinality(Requests) \in Nat
<1>1. /\ Claimed(w) \subseteq Orders /\ CountedOrders(w) \subseteq Orders
      /\ Reviving(w) \subseteq Orders /\ Creating(w) \subseteq Requests
  BY DEF Claimed, CountedOrders, Reviving, Creating
<1>2. /\ IsFiniteSet(Claimed(w)) /\ IsFiniteSet(CountedOrders(w))
      /\ IsFiniteSet(Reviving(w)) /\ IsFiniteSet(Creating(w))
  BY <1>1, FiniteRows, FS_Subset
<1> QED
  BY <1>2, FiniteRows, FS_CardinalityType

(* A handler either creates or approves: both together fit in Requests.    *)
LEMMA HandlersFit ==
  ASSUME NEW approving \in SUBSET Requests, NEW creating \in SUBSET Requests,
         approving \cap creating = {},
         NEW orders, NEW order \in Surjection(approving, orders)
  PROVE  Cardinality(orders) + Cardinality(creating) <= Cardinality(Requests)
<1>1. /\ IsFiniteSet(approving) /\ Cardinality(approving) \in Nat
      /\ IsFiniteSet(creating) /\ Cardinality(creating) \in Nat
      /\ IsFiniteSet(approving \cup creating)
  BY FiniteRows, FS_Subset, FS_CardinalityType
<1>2. Cardinality(orders) <= Cardinality(approving) /\ IsFiniteSet(orders)
  BY <1>1, FS_Surjection
<1>3. Cardinality(approving \cup creating) = Cardinality(approving) + Cardinality(creating)
  <2>1. Cardinality(approving \cup creating) =
          Cardinality(approving) + Cardinality(creating) - Cardinality({})
    BY <1>1, FS_Union
  <2> QED
    BY <1>1, <2>1, FS_EmptySet
<1>4. Cardinality(approving \cup creating) <= Cardinality(Requests)
  BY FiniteRows, FS_Subset
<1>5. Cardinality(orders) \in Nat /\ Cardinality(Requests) \in Nat
  BY <1>2, FiniteRows, FS_CardinalityType
<1> QED
  BY <1>1, <1>2, <1>3, <1>4, <1>5

(* No step but the beginning and the end of a creation adds to the claims. *)
LEMMA ClaimsShrink ==
  ASSUME LimitInv, NEW w \in Workers,
         Claimed(w)' \subseteq Claimed(w), Creating(w)' \subseteq Creating(w)
  PROVE  Cardinality(Claimed(w)') + Cardinality(Creating(w)') < DailyLimit + Cardinality(Requests)
<1>1. Cardinality(Claimed(w)') <= Cardinality(Claimed(w)) /\ IsFiniteSet(Claimed(w)')
  BY ClaimsFinite, FS_Subset
<1>2. Cardinality(Creating(w)') <= Cardinality(Creating(w)) /\ IsFiniteSet(Creating(w)')
  BY ClaimsFinite, FS_Subset
<1>3. Cardinality(Claimed(w)') \in Nat /\ Cardinality(Creating(w)') \in Nat
  BY <1>1, <1>2, FS_CardinalityType
<1>4. Cardinality(Claimed(w)) + Cardinality(Creating(w)) < DailyLimit + Cardinality(Requests)
  BY DEF LimitInv
<1> QED
  BY <1>1, <1>2, <1>3, <1>4, ClaimsFinite, Bounds

(* A creation begins while the day's count is below the limit; every other *)
(* claim has a handler of its own.                                         *)
LEMMA BeginClaims ==
  ASSUME TypeOK, TypeOK', LimitInv, NEW r \in Requests, NEW w \in Workers,
         NEW qty \in [Products -> Qty], BeginCreate(r, w, qty), NEW v \in Workers
  PROVE  Cardinality(Claimed(v)') + Cardinality(Creating(v)') < DailyLimit + Cardinality(Requests)
<1>1. /\ req[r] = Idle /\ UNCHANGED status
      /\ req' = [req EXCEPT ![r] = [kind |-> "create", worker |-> w, qty |-> qty]]
  BY DEF BeginCreate, rows
<1>2. Reviving(v)' = Reviving(v) /\ CountedOrders(v)' = CountedOrders(v)
  BY <1>1 DEF Reviving, Approving, CountedOrders, Idle, TypeOK
<1>3. CASE v # w
  <2>1. Creating(v)' = Creating(v)
    BY <1>1, <1>3 DEF Creating, Idle, TypeOK
  <2> QED
    BY <1>2, <2>1, ClaimsShrink DEF Claimed
<1>4. CASE v = w
  <2>1. Cardinality(CountedOrders(v)) < DailyLimit
    BY <1>4 DEF BeginCreate, TodaysCount
  <2>2. PICK made : made = Creating(v)'
    OBVIOUS
  <2>3. Cardinality(Reviving(v)) + Cardinality(made) <= Cardinality(Requests)
    <3> DEFINE order == [q \in Approving(v) |-> req[q].order]
    <3>1. \A q \in Approving(v) : req[q].order \in Orders
      BY RequestKinds DEF Approving, TypeOK, DecideRequest
    <3>2. order \in Surjection(Approving(v), Reviving(v))
      BY <3>1 DEF Surjection, Reviving
    <3>3. Approving(v) \subseteq Requests /\ made \subseteq Requests
      BY <2>2 DEF Approving, Creating
    <3>4. Approving(v) \cap made = {}
      BY <1>1, <2>2 DEF Approving, Creating, Idle, TypeOK
    <3> HIDE DEF order
    <3> QED
      BY <3>2, <3>3, <3>4, HandlersFit
  <2>4. Cardinality(made) \in Nat
    <3>1. made \subseteq Requests
      BY <2>2 DEF Creating
    <3> QED
      BY <3>1, FiniteRows, FS_Subset, FS_CardinalityType
  <2>5. Cardinality(Claimed(v)) <= Cardinality(CountedOrders(v)) + Cardinality(Reviving(v))
    <3>1. /\ Cardinality(Claimed(v)) = Cardinality(CountedOrders(v)) + Cardinality(Reviving(v))
                  - Cardinality(CountedOrders(v) \cap Reviving(v))
          /\ IsFiniteSet(CountedOrders(v) \cap Reviving(v))
      BY ClaimsFinite, FS_Union, FS_Intersection DEF Claimed
    <3>2. Cardinality(CountedOrders(v) \cap Reviving(v)) \in Nat
      BY <3>1, FS_CardinalityType
    <3> QED
      BY <3>1, <3>2, ClaimsFinite
  <2>6. Claimed(v)' = Claimed(v)
    BY <1>2 DEF Claimed
  <2>7. Cardinality(Claimed(v)) + Cardinality(made) < DailyLimit + Cardinality(Requests)
    BY <2>1, <2>3, <2>4, <2>5, ClaimsFinite, Bounds
  <2> QED
    BY <2>2, <2>6, <2>7
<1> QED
  BY <1>3, <1>4

(* The row a creation inserts counts instead of its request.               *)
LEMMA CreatedClaims ==
  ASSUME TypeOK, LimitInv, NEW r \in Requests, NEW o \in Orders, CommitCreate(r, o), NEW v \in Workers
  PROVE  Cardinality(Claimed(v)') + Cardinality(Creating(v)') < DailyLimit + Cardinality(Requests)
<1>1. /\ req[r].kind = "create" /\ Owner[o] = req[r].worker
      /\ req' = [req EXCEPT ![r] = Idle] /\ status' = [status EXCEPT ![o] = "pending"]
  BY DEF CommitCreate
<1>2. Reviving(v)' \subseteq Reviving(v)
  BY <1>1 DEF Reviving, Approving, Idle, TypeOK
<1>3. CASE v # Owner[o]
  <2>1. CountedOrders(v)' \subseteq CountedOrders(v)
    BY <1>1, <1>3 DEF CountedOrders, TypeOK
  <2>2. Creating(v)' \subseteq Creating(v)
    BY <1>1 DEF Creating, Idle, TypeOK
  <2> QED
    BY <1>2, <2>1, <2>2, ClaimsShrink DEF Claimed
<1>4. CASE v = Owner[o]
  <2>1. PICK claims, made : claims = Claimed(v)' /\ made = Creating(v)'
    OBVIOUS
  <2>2. claims \subseteq Claimed(v) \cup {o}
    <3>1. CountedOrders(v)' \subseteq CountedOrders(v) \cup {o}
      BY <1>1 DEF CountedOrders, TypeOK
    <3> QED
      BY <1>2, <2>1, <3>1 DEF Claimed
  <2>3. made = Creating(v) \ {r} /\ r \in Creating(v)
    <3>1. r \in Creating(v)
      BY <1>1, <1>4 DEF Creating
    <3>2. Creating(v)' = Creating(v) \ {r}
      BY <1>1 DEF Creating, Idle, TypeOK
    <3> QED
      BY <2>1, <3>1, <3>2
  <2>4. /\ IsFiniteSet(Claimed(v) \cup {o})
        /\ Cardinality(Claimed(v) \cup {o}) <= Cardinality(Claimed(v)) + 1
    <3>1. IsFiniteSet(Claimed(v)) /\ Cardinality(Claimed(v)) \in Nat
      BY ClaimsFinite
    <3>2. /\ IsFiniteSet(Claimed(v) \cup {o})
          /\ \/ Cardinality(Claimed(v) \cup {o}) = Cardinality(Claimed(v))
             \/ Cardinality(Claimed(v) \cup {o}) = Cardinality(Claimed(v)) + 1
      BY <3>1, FS_AddElement
    <3> QED
      BY <3>1, <3>2
  <2>5. Cardinality(claims) <= Cardinality(Claimed(v)) + 1 /\ Cardinality(claims) \in Nat
    <3>1. /\ IsFiniteSet(claims) /\ Cardinality(claims) <= Cardinality(Claimed(v) \cup {o})
          /\ Cardinality(claims) \in Nat /\ Cardinality(Claimed(v) \cup {o}) \in Nat
      BY <2>2, <2>4, FS_Subset, FS_CardinalityType
    <3> QED
      BY <2>4, <3>1, ClaimsFinite
  <2>6. Cardinality(made) = Cardinality(Creating(v)) - 1
    BY <2>3, ClaimsFinite, FS_RemoveElement
  <2>7. Cardinality(Claimed(v)) + Cardinality(Creating(v)) < DailyLimit + Cardinality(Requests)
    BY DEF LimitInv
  <2>8. Cardinality(claims) + Cardinality(made) < DailyLimit + Cardinality(Requests)
    BY <2>5, <2>6, <2>7, ClaimsFinite, Bounds
  <2> QED
    BY <2>1, <2>8
<1> QED
  BY <1>3, <1>4

(* A decision, or its end, creates no claim: an approval counts an order   *)
(* that its request claimed since it was read.                             *)
LEMMA DecisionClaims ==
  ASSUME TypeOK, NEW r \in Requests, NEW v \in Workers,
         \/ \E k \in {"approve", "cancel"}, o \in Orders : BeginDecide(r, k, o)
         \/ \E qty \in [Products -> Qty] : CommitApprove(r, qty)
         \/ CommitCancel(r)
         \/ \E o \in Orders : BeginReject(r, o)
         \/ \E p \in Products : ReleaseLine(r, p)
         \/ FinishReject(r)
         \/ Abort(r)
  PROVE  Claimed(v)' \subseteq Claimed(v) /\ Creating(v)' \subseteq Creating(v)
<1> USE DEF TypeOK, Claimed, CountedOrders, Reviving, Approving, Creating
<1>1. ASSUME NEW k \in {"approve", "cancel"}, NEW o \in Orders, BeginDecide(r, k, o)
      PROVE  Claimed(v)' \subseteq Claimed(v) /\ Creating(v)' \subseteq Creating(v)
  <2>1. /\ status' = status /\ status[o] = "pending" /\ req[r] = Idle
        /\ req' = [req EXCEPT ![r] = [kind |-> k, order |-> o]]
    BY <1>1 DEF BeginDecide, rows
  <2>2. req'[r].kind = k /\ req'[r].order = o /\ \A q \in Requests : q # r => req'[q] = req[q]
    BY <2>1
  <2>3. Creating(v)' \subseteq Creating(v)
    BY <2>2
  <2>4. \A q \in Requests : q \in Approving(v)' => q \in Approving(v) \/ (q = r /\ Owner[o] = v)
    BY <2>2
  <2>5. Reviving(v)' \subseteq Reviving(v) \cup {x \in {o} : Owner[o] = v}
    <3>1. ASSUME NEW x \in Orders, NEW q \in Approving(v)', x = req'[q].order
          PROVE  x \in Reviving(v) \/ (x = o /\ Owner[o] = v)
      <4>1. CASE q = r
        BY <2>2, <2>4, <3>1, <4>1
      <4>2. CASE q # r
        <5>1. q \in Approving(v) /\ req'[q] = req[q]
          BY <2>2, <2>4, <4>2
        <5> QED
          BY <3>1, <5>1
      <4> QED
        BY <4>1, <4>2
    <3> QED
      BY <3>1
  <2>6. {x \in {o} : Owner[o] = v} \subseteq CountedOrders(v)
    BY <2>1 DEF Counted
  <2>7. CountedOrders(v)' = CountedOrders(v)
    BY <2>1
  <2> HIDE DEF CountedOrders, Reviving, Approving, Creating
  <2> QED
    BY <2>3, <2>5, <2>6, <2>7
<1>2. ASSUME NEW qty \in [Products -> Qty], CommitApprove(r, qty)
      PROVE  Claimed(v)' \subseteq Claimed(v) /\ Creating(v)' \subseteq Creating(v)
  <2>1. PICK o \in Orders : o = req[r].order
    BY <1>2, RequestKinds DEF CommitApprove, DecideRequest
  <2>2. /\ req[r].kind = "approve" /\ status' = [status EXCEPT ![o] = "approved"]
        /\ req' = [req EXCEPT ![r] = Idle]
    BY <1>2, <2>1 DEF CommitApprove
  <2>3. req'[r].kind = "idle" /\ \A q \in Requests : q # r => req'[q] = req[q]
    BY <2>2 DEF Idle
  <2>4. Creating(v)' \subseteq Creating(v)
    BY <2>3
  <2>5. \A q \in Requests : q \in Approving(v)' => q \in Approving(v) /\ req'[q] = req[q]
    BY <2>3
  <2>6. Reviving(v)' \subseteq Reviving(v)
    BY <2>5
  <2>7. CountedOrders(v)' \subseteq CountedOrders(v) \cup {x \in {o} : Owner[o] = v}
    BY <2>2
  <2>8. {x \in {o} : Owner[o] = v} \subseteq Reviving(v)
    BY <2>1, <2>2
  <2> HIDE DEF CountedOrders, Reviving, Approving, Creating
  <2> QED
    BY <2>4, <2>6, <2>7, <2>8
<1>3. ASSUME CommitCancel(r) \/ FinishReject(r)
      PROVE  Claimed(v)' \subseteq Claimed(v) /\ Creating(v)' \subseteq Creating(v)
  <2>1. PICK st \in {"cancelled", "rejected"} :
          status' = [status EXCEPT ![req[r].order] = st]
    BY <1>3 DEF CommitCancel, FinishReject
  <2>2. req'[r].kind = "idle" /\ \A q \in Requests : q # r => req'[q] = req[q]
    BY <1>3 DEF CommitCancel, FinishReject, Idle
  <2>3. Creating(v)' \subseteq Creating(v)
    BY <2>2
  <2>4. Reviving(v)' \subseteq Reviving(v)
    BY <2>2
  <2>5. CountedOrders(v)' \subseteq CountedOrders(v)
    BY <2>1 DEF Counted
  <2> HIDE DEF CountedOrders, Reviving, Approving, Creating
  <2> QED
    BY <2>3, <2>4, <2>5
<1>4. ASSUME NEW o \in Orders, BeginReject(r, o)
      PROVE  Claimed(v)' \subseteq Claimed(v) /\ Creating(v)' \subseteq Creating(v)
  BY <1>4 DEF BeginReject, rows
<1>5. ASSUME NEW p \in Products, ReleaseLine(r, p)
      PROVE  Claimed(v)' \subseteq Claimed(v) /\ Creating(v)' \subseteq Creating(v)
  <2>1. /\ status' = status /\ req[r].kind = "reject"
        /\ req' = [req EXCEPT ![r].todo = req[r].todo \ {p}]
    BY <1>5 DEF ReleaseLine, rows
  <2>2. req[r] \in RejectRequest
    BY <2>1, RequestKinds
  <2>3. req'[r].kind = "reject" /\ \A q \in Requests : q # r => req'[q] = req[q]
    BY <2>1, <2>2 DEF RejectRequest
  <2> QED
    BY <2>1, <2>3
<1>6. ASSUME Abort(r)
      PROVE  Claimed(v)' \subseteq Claimed(v) /\ Creating(v)' \subseteq Creating(v)
  BY <1>6 DEF Abort, rows, Idle
<1> QED
  BY <1>1, <1>2, <1>3, <1>4, <1>5, <1>6

(* The daily limit is overrun by fewer orders than there are requests.     *)
THEOREM LimitHolds == Spec => []OverrunBounded
<1>1. Init => LimitInv
  <2> SUFFICES ASSUME Init, NEW w \in Workers
               PROVE  Cardinality(Claimed(w)) + Cardinality(Creating(w))
                        < DailyLimit + Cardinality(Requests)
    BY DEF LimitInv
  <2>1. Claimed(w) = {} /\ Creating(w) = {}
    BY DEF Init, Claimed, CountedOrders, Counted, Reviving, Approving, Creating, Idle
  <2>2. Cardinality(Claimed(w)) = 0 /\ Cardinality(Creating(w)) = 0
    BY <2>1, FS_EmptySet
  <2> QED
    BY <2>2, ClaimsFinite, Bounds
<1>2. TypeOK /\ TypeOK' /\ LimitInv /\ [Next]_vars => LimitInv'
  <2> SUFFICES ASSUME TypeOK, TypeOK', LimitInv, [Next]_vars, NEW v \in Workers
               PROVE  Cardinality(Claimed(v)') + Cardinality(Creating(v)')
                        < DailyLimit + Cardinality(Requests)
    BY DEF LimitInv
  <2>1. CASE \E r \in Requests, w \in Workers, qty \in [Products -> Qty] : BeginCreate(r, w, qty)
    BY <2>1, BeginClaims
  <2>2. CASE \E r \in Requests, o \in Orders : CommitCreate(r, o)
    BY <2>2, CreatedClaims
  <2>3. ASSUME NEW r \in Requests,
               ApproveOrder(r) \/ CancelOrder(r) \/ RejectOrder(r) \/ Abort(r)
        PROVE  Claimed(v)' \subseteq Claimed(v) /\ Creating(v)' \subseteq Creating(v)
    BY <2>3, DecisionClaims DEF ApproveOrder, CancelOrder, RejectOrder
  <2>4. ASSUME UNCHANGED <<status, req>>
        PROVE  Claimed(v)' \subseteq Claimed(v) /\ Creating(v)' \subseteq Creating(v)
    BY <2>4 DEF Claimed, CountedOrders, Reviving, Approving, Creating
  <2> QED
    BY <2>1, <2>2, <2>3, <2>4, ClaimsShrink DEF Next, CreateOrder, SyncReservedStock, vars, rows
<1>3. LimitInv => OverrunBounded
  <2> SUFFICES ASSUME LimitInv, NEW w \in Workers
               PROVE  Cardinality(CountedOrders(w)) < DailyLimit + Cardinality(Requests)
    BY DEF OverrunBounded
  <2>1. Cardinality(CountedOrders(w)) <= Cardinality(Claimed(w))
    BY ClaimsFinite, FS_Subset DEF Claimed
  <2>2. Cardinality(Claimed(w)) + Cardinality(Creating(w)) < DailyLimit + Cardinality(Requests)
    BY DEF LimitInv
  <2> QED
    BY <2>1, <2>2, ClaimsFinite, Bounds
<1> QED
  BY <1>1, <1>2, <1>3, TypeCorrect, PTL DEF Spec

-----------------------------------------------------------------------------
(* What only races break.  order.controller.js:757 says that only a        *)
(* pending order can be cancelled, yet a late cancellation overwrites an   *)
(* approval whose goods were issued.  As long as no decision overwrites    *)
(* another one, the goods of every order that is not approved are in the   *)
(* warehouse, and so it is when the handlers run one after the other.      *)

DecisionStands ==
    \A o \in Orders : status[o] \notin {"none", "pending"} => status'[o] = status[o]

OnlyApprovedIssued ==
    \A o \in Orders, p \in Products : status[o] # "approved" => issued[o][p] = 0

LEMMA IssuedStep ==
  TypeOK /\ OnlyApprovedIssued /\ [Next /\ DecisionStands]_vars => OnlyApprovedIssued'
<1> SUFFICES ASSUME TypeOK, OnlyApprovedIssued, [Next /\ DecisionStands]_vars
             PROVE  OnlyApprovedIssued'
  OBVIOUS
<1>1. CASE UNCHANGED <<status, issued>>
  BY <1>1 DEF OnlyApprovedIssued
<1>2. ASSUME Next, DecisionStands
      PROVE  OnlyApprovedIssued'
  <2>1. ASSUME NEW r \in Requests, NEW o \in Orders, CommitCreate(r, o)
        PROVE  OnlyApprovedIssued'
    BY <2>1 DEF CommitCreate, goods, TypeOK, OnlyApprovedIssued
  <2>2. ASSUME NEW r \in Requests, NEW qty \in [Products -> Qty], CommitApprove(r, qty)
        PROVE  OnlyApprovedIssued'
    <3>1. \A o \in Orders : \/ status'[o] = "approved"
                            \/ status'[o] = status[o] /\ issued'[o] = issued[o]
      BY <2>2 DEF CommitApprove, TypeOK
    <3> QED
      BY <3>1 DEF OnlyApprovedIssued
  <2>3. ASSUME NEW r \in Requests, CommitCancel(r) \/ FinishReject(r)
        PROVE  OnlyApprovedIssued'
    <3>1. issued' = issued
      BY <2>3 DEF CommitCancel, FinishReject, goods
    <3>2. \A o \in Orders : status[o] = "approved" => status'[o] = "approved"
      BY <1>2 DEF DecisionStands
    <3> QED
      BY <3>1, <3>2 DEF OnlyApprovedIssued
  <2> QED
    BY <1>1, <1>2, <2>1, <2>2, <2>3
    DEF Next, CreateOrder, ApproveOrder, CancelOrder, RejectOrder, BeginCreate, BeginDecide,
        BeginReject, ReleaseLine, Abort, SyncReservedStock, rows, goods
<1> QED
  BY <1>1, <1>2 DEF vars, rows, goods

(* While decisions stand, no goods were issued for an order that is        *)
(* cancelled, rejected or still pending (approveOrder is the only one that *)
(* issues goods, and cancelOrder and rejectOrder give none back).          *)
THEOREM IssuedIfDecisionsStand == Spec /\ [][DecisionStands]_vars => []OnlyApprovedIssued
<1>1. Init => OnlyApprovedIssued
  BY DEF Init, OnlyApprovedIssued
<1>2. TypeOK /\ OnlyApprovedIssued /\ [Next]_vars /\ [DecisionStands]_vars => OnlyApprovedIssued'
  BY IssuedStep
<1> QED
  BY <1>1, <1>2, TypeCorrect, PTL DEF Spec

(* A handler that decides alone finds its order as it read it.             *)
StillPending ==
    \A r \in Requests : req[r].kind \in {"approve", "cancel", "reject"} =>
        status[req[r].order] = "pending"

LEMMA AloneStep ==
  ASSUME NEW r, Requests = {r}, TypeOK, StillPending, [Next]_vars
  PROVE  StillPending' /\ (DecisionStands \/ UNCHANGED vars)
<1>1. CASE UNCHANGED vars
  BY <1>1 DEF vars, rows, StillPending
<1>2. ASSUME NEW w \in Workers, NEW qty \in [Products -> Qty], BeginCreate(r, w, qty)
      PROVE  StillPending' /\ DecisionStands
  BY <1>2 DEF BeginCreate, rows, TypeOK, StillPending, DecisionStands
<1>3. ASSUME NEW o \in Orders, CommitCreate(r, o)
      PROVE  StillPending' /\ DecisionStands
  BY <1>3 DEF CommitCreate, TypeOK, StillPending, DecisionStands, Idle
<1>4. ASSUME NEW o \in Orders, NEW k \in {"approve", "cancel"}, BeginDecide(r, k, o)
      PROVE  StillPending' /\ DecisionStands
  BY <1>4 DEF BeginDecide, rows, TypeOK, StillPending, DecisionStands
<1>5. ASSUME NEW qty \in [Products -> Qty], CommitApprove(r, qty)
      PROVE  StillPending' /\ DecisionStands
  BY <1>5 DEF CommitApprove, TypeOK, StillPending, DecisionStands, Idle
<1>6. CASE CommitCancel(r) \/ FinishReject(r)
  BY <1>6 DEF CommitCancel, FinishReject, TypeOK, StillPending, DecisionStands, Idle
<1>7. ASSUME NEW o \in Orders, BeginReject(r, o)
      PROVE  StillPending' /\ DecisionStands
  BY <1>7 DEF BeginReject, rows, TypeOK, StillPending, DecisionStands
<1>8. ASSUME NEW p \in Products, ReleaseLine(r, p)
      PROVE  StillPending' /\ DecisionStands
  <2>1. req[r] \in RejectRequest
    BY <1>8, RequestKinds DEF ReleaseLine, TypeOK
  <2>2. req'[r].kind = "reject" /\ req'[r].order = req[r].order
    BY <1>8, <2>1 DEF ReleaseLine, TypeOK, RejectRequest
  <2> QED
    BY <1>8, <2>2 DEF ReleaseLine, rows, StillPending, DecisionStands
<1>9. CASE Abort(r)
  BY <1>9 DEF Abort, rows, TypeOK, StillPending, DecisionStands, Idle
<1>10. CASE SyncReservedStock
  BY <1>10 DEF SyncReservedStock, rows, StillPending, DecisionStands
<1> QED
  BY <1>1, <1>2, <1>3, <1>4, <1>5, <1>6, <1>7, <1>8, <1>9, <1>10
  DEF Next, CreateOrder, ApproveOrder, CancelOrder, RejectOrder

(* The daily limit as createOrder means it.                                *)
LimitKept == \A w \in Workers : Cardinality(CountedOrders(w)) <= DailyLimit

(* One handler at a time: nothing that is not approved was issued, and no  *)
(* SR gets beyond the daily limit of createOrder.  The overrun and the     *)
(* cancelled order whose goods are gone need handlers that overlap.        *)
THEOREM OneByOne ==
  ASSUME NEW r, Requests = {r}
  PROVE  Spec => [](OnlyApprovedIssued /\ LimitKept)
<1>1. Init => StillPending
  BY DEF Init, StillPending, Idle
<1>2. TypeOK /\ StillPending /\ [Next]_vars => StillPending' /\ [DecisionStands]_vars
  BY AloneStep
<1>3. TypeOK /\ OverrunBounded => LimitKept
  <2> SUFFICES ASSUME TypeOK, OverrunBounded, NEW w \in Workers
               PROVE  Cardinality(CountedOrders(w)) <= DailyLimit
    BY DEF LimitKept
  <2>1. Cardinality(Requests) = 1
    BY FS_Singleton
  <2>2. Cardinality(CountedOrders(w)) \in Nat
    BY FiniteRows, FS_Subset, FS_CardinalityType DEF CountedOrders
  <2> QED
    BY <2>1, <2>2, Bounds DEF OverrunBounded
<1>4. Spec => [][DecisionStands]_vars
  BY <1>1, <1>2, TypeCorrect, PTL DEF Spec
<1> QED
  BY <1>3, <1>4, IssuedIfDecisionsStand, TypeCorrect, LimitHolds, PTL
=============================================================================
