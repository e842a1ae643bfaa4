-------------------------- MODULE SettlementProofs --------------------------
(***************************************************************************)
(* Proofs about Settlement for any number of settlements, products,        *)
(* handlers in flight, and any prices and bounds.                          *)
(***************************************************************************)
EXTENDS Settlement, SumsProofs

(* What a handler has read, by its kind.                                   *)
LEMMA RequestKinds ==
  ASSUME NEW q \in Request
  PROVE  /\ q.kind = "settle" => q \in SettleRequest
         /\ q.kind \in {"approve", "dispute"} => q \in DecideRequest
         /\ q.kind = "receive" => q \in ReceiveRequest
         /\ q.kind = "resolve" => q \in ResolveRequest
BY DEF Request, Idle, SettleRequest, DecideRequest, ReceiveRequest, ResolveRequest

(* A handler's record is replaced by another one.                          *)
LEMMA RequestType ==
  ASSUME TypeOK, NEW r \in Requests, NEW q \in Request,
         req' = [req EXCEPT ![r] = q]
  PROVE  req' \in [Requests -> Request]
BY DEF TypeOK

LEMMA ValueType ==
  ASSUME NEW units \in [Products -> Nat]
  PROVE  Value(units) \in Nat
<1> DEFINE f == [p \in Products |-> units[p] * Price[p]]
<1>1. f \in [Products -> Nat]
  <2>1. \A p \in Products : units[p] \in Nat /\ Price[p] \in Nat
    BY PriceType
  <2>2. \A m, n \in Nat : m * n \in Nat
    OBVIOUS
  <2> QED
    BY <2>1, <2>2
<1> QED
  BY <1>1, FiniteRows, TotalType DEF Value

(* Every variable keeps its type: dues, stock and ledger sums stay natural *)
(* numbers, only the SR's ledger may go below zero.                        *)
THEOREM TypeCorrect == Spec => []TypeOK
<1>1. Init => TypeOK
  BY Bounds DEF Init, TypeOK, Days, Status, Receipt, Claim, Request, Idle
<1>2. TypeOK /\ [Next]_vars => TypeOK'
  <2> SUFFICES ASSUME TypeOK, [Next]_vars
               PROVE  TypeOK'
    OBVIOUS
  <2>1. ASSUME NEW p \in Products, NEW n \in Qty, NEW m \in Qty, Take(p, n) \/ Sell(p, n, m)
        PROVE  TypeOK'
    <3>1. n \in Nat /\ m \in Nat
      BY Bounds DEF Qty
    <3>2. CASE Take(p, n)
      BY <3>1, <3>2 DEF Take, TypeOK, rows, money
    <3>3. CASE Sell(p, n, m)
      BY <3>1, <3>3 DEF Sell, TypeOK, rows, money
    <3> QED
      BY <2>1, <3>2, <3>3
  <2>2. CASE NextDay
    BY <2>2, Bounds DEF NextDay, TypeOK, rows, money, Days
  <2>3. ASSUME NEW d \in Settlements, NEW a \in 1..MaxQty, PayShortage(d, a)
        PROVE  TypeOK'
    <3>1. a \in Nat
      BY <2>3, Bounds
    <3>2. dues' \in Nat /\ paid' \in [Settlements -> Nat]
      BY <2>3, <3>1 DEF PayShortage, TypeOK, Greatest0
    <3>3. status' \in [Settlements -> Status]
      BY <2>3 DEF PayShortage, TypeOK, Status
    <3> QED
      BY <2>3, <3>2, <3>3 DEF PayShortage, TypeOK, field
  <2>4. ASSUME NEW r \in Requests, NEW returned \in [Products -> Qty],
               NEW carried \in [Products -> Qty], NEW mismatch \in 0..MaxCash,
               BeginSettle(r, returned, carried, mismatch)
        PROVE  TypeOK'
    <3> DEFINE q == [kind |-> "settle", day |-> today, taken |-> hand,
                     carried |-> Counted(carried), returned |-> Counted(returned),
                     missing |-> [p \in Products |-> Missing(p, returned, carried)],
                     cash |-> mismatch]
    <3>1. Counted(carried) \in [Products -> Qty] /\ Counted(returned) \in [Products -> Qty]
      BY Bounds DEF Counted, Qty
    <3>2. [p \in Products |-> Missing(p, returned, carried)] \in [Products -> Nat]
      BY Bounds DEF Missing, Greatest0, TypeOK, Qty
    <3>3. q \in SettleRequest
      BY <3>1, <3>2 DEF SettleRequest, TypeOK
    <3>4. req' \in [Requests -> Request]
      BY <2>4, <3>3, RequestType DEF BeginSettle, Request
    <3> QED
      BY <2>4, <3>4 DEF BeginSettle, TypeOK, field, rows, money
  <2>5. ASSUME NEW r \in Requests, NEW d \in Settlements, CommitSettle(r, d)
        PROVE  TypeOK'
    <3>1. req[r] \in SettleRequest
      BY <2>5, RequestKinds DEF CommitSettle, TypeOK
    <3>2. /\ req[r].day \in Days /\ req[r].cash \in Nat
          /\ req[r].returned \in [Products -> Nat]
          /\ req[r].missing \in [Products -> Nat]
      BY <3>1, Bounds DEF SettleRequest, Qty
    <3>3. Value(req[r].missing) \in Nat
      BY <3>2, ValueType
    <3>4. /\ day' \in [Settlements -> Days]
          /\ status' \in [Settlements -> Status]
          /\ short' \in [Settlements -> Nat]
          /\ cash' \in [Settlements -> Nat]
      BY <2>5, <3>2, <3>3 DEF CommitSettle, TypeOK, Status
    <3>5. hand' \in [Products -> Int]
      BY <2>5, <3>2 DEF CommitSettle, TypeOK
    <3>6. receipt' \in [Settlements -> [Products -> Receipt]]
      <4>1. \A n \in Nat : Claim(n) \in Receipt
        BY DEF Claim, Receipt
      <4> QED
        BY <2>5, <3>2, <4>1 DEF CommitSettle, TypeOK
    <3>7. req' \in [Requests -> Request]
      BY <2>5, RequestType DEF CommitSettle, Request
    <3> QED
      BY <2>5, <3>4, <3>5, <3>6, <3>7 DEF CommitSettle, TypeOK, money
  <2>6. ASSUME NEW r \in Requests, NEW d \in Settlements, NEW v \in Qty,
               BeginApprove(r, d) \/ BeginDispute(r, d, v)
        PROVE  TypeOK'
    <3>1. short[d] \in Nat /\ FinalShortage(d, v) \in Nat /\ cash[d] \in Nat
      BY Bounds DEF TypeOK, FinalShortage, Qty
    <3>2. /\ [kind |-> "approve", row |-> d, short |-> short[d], cash |-> cash[d]] \in Request
          /\ [kind |-> "dispute", row |-> d, short |-> FinalShortage(d, v),
              cash |-> cash[d]] \in Request
      BY <3>1 DEF Request, DecideRequest
    <3>3. req' \in [Requests -> Request]
      BY <2>6, <3>2, RequestType DEF BeginApprove, BeginDispute
    <3> QED
      BY <2>6, <3>3 DEF BeginApprove, BeginDispute, TypeOK, field, rows, money
  <2>7. ASSUME NEW r \in Requests, CommitApprove(r) \/ CommitDispute(r)
        PROVE  TypeOK'
    <3>1. req[r] \in DecideRequest
      BY <2>7, RequestKinds DEF CommitApprove, CommitDispute, TypeOK
    <3>2. req[r].row \in Settlements /\ req[r].short \in Nat /\ req[r].cash \in Nat
      BY <3>1 DEF DecideRequest
    <3>3. PICK c \in Nat : c = req[r].short + req[r].cash
      BY <3>2
    <3>4. dues' = dues + c /\ charged' = [charged EXCEPT ![req[r].row] = charged[req[r].row] + c]
      <4>1. CASE CommitApprove(r)
        BY <4>1, <3>3 DEF CommitApprove, Raised, ApprovalCharge
      <4>2. CASE CommitDispute(r)
        <5>1. charged[req[r].row] + req[r].short + req[r].cash = charged[req[r].row] + c
          BY <3>2, <3>3 DEF TypeOK
        <5> QED
          BY <4>2, <5>1, <3>3 DEF CommitDispute, Raised
      <4> QED
        BY <2>7, <4>1, <4>2
    <3>5. dues' \in Nat /\ charged' \in [Settlements -> Nat]
      BY <3>2, <3>4 DEF TypeOK
    <3>6. status' \in [Settlements -> Status] /\ short' \in [Settlements -> Nat]
      BY <2>7, <3>2 DEF CommitApprove, CommitDispute, TypeOK, Status
    <3>7. req' \in [Requests -> Request]
      BY <2>7, RequestType DEF CommitApprove, CommitDispute, Request
    <3> QED
      BY <2>7, <3>5, <3>6, <3>7 DEF CommitApprove, CommitDispute, TypeOK, field
  <2>8. ASSUME NEW r \in Requests, NEW d \in Settlements, NEW p \in Products, NEW n \in Qty,
               BeginReceive(r, d, p, n)
        PROVE  TypeOK'
    <3>1. [kind |-> "receive", row |-> d, product |-> p, got |-> n] \in Request
      BY DEF Request, ReceiveRequest
    <3>2. req' \in [Requests -> Request]
      BY <2>8, <3>1, RequestType DEF BeginReceive
    <3> QED
      BY <2>8, <3>2 DEF BeginReceive, TypeOK, field, rows, money
  <2>9. ASSUME NEW r \in Requests, CommitReceive(r)
        PROVE  TypeOK'
    <3>1. req[r] \in ReceiveRequest
      BY <2>9, RequestKinds DEF CommitReceive, TypeOK
    <3>2. req[r].row \in Settlements /\ req[r].product \in Products /\ req[r].got \in Nat
      BY <3>1, Bounds DEF ReceiveRequest, Qty
    <3>3. stock' \in [Products -> Nat]
      BY <2>9, <3>2 DEF CommitReceive, TypeOK, Credited
    <3>4. receipt' \in [Settlements -> [Products -> Receipt]]
      <4>1. CountOf(receipt[req[r].row][req[r].product], req[r].got) \in Receipt
        BY <3>2 DEF TypeOK, Receipt, CountOf
      <4> QED
        BY <2>9, <3>2, <4>1 DEF CommitReceive, TypeOK
    <3>5. req' \in [Requests -> Request]
      BY <2>9, RequestType DEF CommitReceive, Request
    <3> QED
      BY <2>9, <3>3, <3>4, <3>5 DEF CommitReceive, TypeOK, field, rows, money
  <2>10. ASSUME NEW r \in Requests, NEW d \in Settlements, NEW p \in Products,
                NEW c \in {"charged", "waived"}, BeginResolve(r, d, p, c)
         PROVE  TypeOK'
    <3>1. receipt[d][p].claimed \in Nat /\ receipt[d][p].got \in Nat /\ Price[p] \in Nat
      BY PriceType DEF TypeOK, Receipt
    <3>2. \A i, j, k \in Int : (i - j) * k \in Int
      OBVIOUS
    <3>3. (receipt[d][p].claimed - receipt[d][p].got) * Price[p] \in Int
      BY <3>1, <3>2
    <3>4. [kind |-> "resolve", row |-> d, product |-> p, resolution |-> c,
           value |-> (receipt[d][p].claimed - receipt[d][p].got) * Price[p]] \in Request
      BY <3>3 DEF Request, ResolveRequest
    <3>5. req' \in [Requests -> Request]
      BY <2>10, <3>4, RequestType DEF BeginResolve
    <3> QED
      BY <2>10, <3>5 DEF BeginResolve, TypeOK, field, rows, money
  <2>11. ASSUME NEW r \in Requests, CommitResolve(r)
         PROVE  TypeOK'
    <3>1. req[r] \in ResolveRequest
      BY <2>11, RequestKinds DEF CommitResolve, TypeOK
    <3>2. /\ req[r].row \in Settlements /\ req[r].product \in Products
          /\ req[r].value \in Int /\ req[r].resolution \in {"charged", "waived"}
      BY <3>1 DEF ResolveRequest
    <3>3. dues' \in Nat /\ extra' \in [Settlements -> Nat]
      BY <2>11, <3>2 DEF CommitResolve, TypeOK, Raised, Greatest0
    <3>4. receipt' \in [Settlements -> [Products -> Receipt]]
      <4>1. Resolved(receipt[req[r].row][req[r].product], req[r].resolution) \in Receipt
        BY <3>2 DEF TypeOK, Receipt, Resolved
      <4> QED
        BY <2>11, <3>2, <4>1 DEF CommitResolve, TypeOK
    <3>5. req' \in [Requests -> Request]
      BY <2>11, RequestType DEF CommitResolve, Request
    <3> QED
      BY <2>11, <3>3, <3>4, <3>5 DEF CommitResolve, TypeOK, field, rows
  <2>12. ASSUME NEW r \in Requests, Abort(r)
         PROVE  TypeOK'
    <3>1. req' \in [Requests -> Request]
      BY <2>12, RequestType DEF Abort, Request
    <3> QED
      BY <2>12, <3>1 DEF Abort, TypeOK, field, rows, money
  <2>13. CASE UNCHANGED vars
    BY <2>13 DEF TypeOK, vars, field, rows, money
  <2> QED
    BY <2>1, <2>2, <2>3, <2>4, <2>5, <2>6, <2>7, <2>8, <2>9, <2>10, <2>11, <2>12, <2>13,
       Bounds
    DEF Next, Field, CreateSettlement, Decide, ReceiveReturn, ResolveDiscrepancy, Qty
<1> QED
  BY <1>1, <1>2, PTL DEF Spec
-----------------------------------------------------------------------------
(* Money moves in one column at a time: a charge raises one row of the dues *)
(* ledger and the balance by the same amount; a payment lowers the balance  *)
(* by at most itself.                                                       *)

LEMMA MoneyStep ==
  ASSUME TypeOK, [Next]_vars
  PROVE  \/ UNCHANGED money
         \/ \E d \in Settlements, n \in Nat :
               /\ charged' = [charged EXCEPT ![d] = charged[d] + n]
               /\ dues' = dues + n
               /\ UNCHANGED <<extra, paid>>
         \/ \E d \in Settlements, n \in Nat :
               /\ extra' = [extra EXCEPT ![d] = extra[d] + n]
               /\ dues' = dues + n
               /\ UNCHANGED <<charged, paid>>
         \/ \E d \in Settlements, n \in Nat :
               /\ paid' = [paid EXCEPT ![d] = paid[d] + n]
               /\ dues' = Greatest0(dues - n)
               /\ UNCHANGED <<charged, extra>>
<1>1. ASSUME NEW d \in Settlements, NEW a \in 1..MaxQty, PayShortage(d, a)
      PROVE  \E x \in Settlements, n \in Nat :
               /\ paid' = [paid EXCEPT ![x] = paid[x] + n]
               /\ dues' = Greatest0(dues - n)
               /\ UNCHANGED <<charged, extra>>
  <2>1. PICK n \in Nat : n = a
    BY Bounds
  <2> QED
    BY <1>1, <2>1 DEF PayShortage
<1>2. ASSUME NEW r \in Requests, CommitApprove(r) \/ CommitDispute(r)
      PROVE  \E d \in Settlements, n \in Nat :
               /\ charged' = [charged EXCEPT ![d] = charged[d] + n]
               /\ dues' = dues + n
               /\ UNCHANGED <<extra, paid>>
  <2>1. PICK d \in Settlements, i \in Nat, j \in Nat :
           d = req[r].row /\ i = req[r].short /\ j = req[r].cash
    BY <1>2, RequestKinds DEF CommitApprove, CommitDispute, TypeOK, DecideRequest
  <2>2. charged[d] + i + j = charged[d] + (i + j)
    BY DEF TypeOK
  <2> QED
    BY <1>2, <2>1, <2>2 DEF CommitApprove, CommitDispute, Raised, ApprovalCharge
<1>3. ASSUME NEW r \in Requests, CommitResolve(r)
      PROVE  \E d \in Settlements, n \in Nat :
               /\ extra' = [extra EXCEPT ![d] = extra[d] + n]
               /\ dues' = dues + n
               /\ UNCHANGED <<charged, paid>>
  <2>1. PICK d \in Settlements, v \in Int : d = req[r].row /\ v = req[r].value
    BY <1>3, RequestKinds DEF CommitResolve, TypeOK, ResolveRequest
  <2>2. PICK n \in Nat : n = IF req[r].resolution = "charged" THEN Greatest0(v) ELSE 0
    BY DEF Greatest0
  <2> QED
    BY <1>3, <2>1, <2>2 DEF CommitResolve, Raised
<1>4. \/ UNCHANGED money
      \/ \E d \in Settlements, a \in 1..MaxQty : PayShortage(d, a)
      \/ \E r \in Requests : CommitApprove(r) \/ CommitDispute(r)
      \/ \E r \in Requests : CommitResolve(r)
  BY DEF Next, vars, Field, CreateSettlement, Decide, ReceiveReturn, ResolveDiscrepancy,
         Take, Sell, NextDay, BeginSettle, CommitSettle, BeginApprove, BeginDispute,
         BeginReceive, CommitReceive, BeginResolve, Abort
<1> QED
  BY <1>1, <1>2, <1>3, <1>4

(* One row of a column grows by n: so does the column's total.             *)
LEMMA RowAdded ==
  ASSUME NEW f \in [Settlements -> Nat], NEW d \in Settlements, NEW n \in Nat
  PROVE  Total([f EXCEPT ![d] = f[d] + n]) = Total(f) + n
<1> DEFINE g == [f EXCEPT ![d] = f[d] + n]
<1>1. /\ g \in [Settlements -> Nat]
      /\ g[d] = f[d] + n
      /\ \A x \in Settlements : x # d => g[x] = f[x]
  OBVIOUS
<1>2. IsFiniteSet(Settlements)
  BY FiniteRows
<1>3. f[d] \in Nat
  OBVIOUS
<1> HIDE DEF g
<1>4. Total(f) \in Nat /\ Total(g) = Total(f) - f[d] + g[d]
  BY <1>1, <1>2, TotalUpdate
<1>5. Total(g) = Total(f) + n
  BY <1>1, <1>3, <1>4
<1> QED
  BY <1>5 DEF g

LEMMA DuesInductive ==
  TypeOK /\ TypeOK' /\ DuesMatchLedger /\ [Next]_vars => DuesMatchLedger'
<1> SUFFICES ASSUME TypeOK, TypeOK', DuesMatchLedger, [Next]_vars
             PROVE  DuesMatchLedger'
  OBVIOUS
<1>1. /\ dues \in Nat
      /\ Total(charged) \in Nat /\ Total(extra) \in Nat /\ Total(paid) \in Nat
      /\ charged \in [Settlements -> Nat] /\ extra \in [Settlements -> Nat]
      /\ paid \in [Settlements -> Nat]
  BY FiniteRows, TotalType DEF TypeOK
<1>2. CASE UNCHANGED money
  BY <1>2 DEF money, DuesMatchLedger
<1>3. ASSUME NEW d \in Settlements, NEW n \in Nat,
             charged' = [charged EXCEPT ![d] = charged[d] + n],
             dues' = dues + n, UNCHANGED <<extra, paid>>
      PROVE  DuesMatchLedger'
  <2>1. Total(charged') = Total(charged) + n
    BY <1>1, <1>3, RowAdded
  <2> QED
    BY <1>1, <1>3, <2>1 DEF DuesMatchLedger
<1>4. ASSUME NEW d \in Settlements, NEW n \in Nat,
             extra' = [extra EXCEPT ![d] = extra[d] + n],
             dues' = dues + n, UNCHANGED <<charged, paid>>
      PROVE  DuesMatchLedger'
  <2>1. Total(extra') = Total(extra) + n
    BY <1>1, <1>4, RowAdded
  <2> QED
    BY <1>1, <1>4, <2>1 DEF DuesMatchLedger
<1>5. ASSUME NEW d \in Settlements, NEW n \in Nat,
             paid' = [paid EXCEPT ![d] = paid[d] + n],
             dues' = Greatest0(dues - n), UNCHANGED <<charged, extra>>
      PROVE  DuesMatchLedger'
  <2>1. Total(paid') = Total(paid) + n
    BY <1>1, <1>5, RowAdded
  <2> QED
    BY <1>1, <1>5, <2>1 DEF DuesMatchLedger, Greatest0
<1> QED
  BY <1>2, <1>3, <1>4, <1>5, MoneyStep

(* The SR owes what the dues ledger says, less what he paid.               *)
THEOREM DuesAgree == Spec => []DuesMatchLedger
<1>1. Init => DuesMatchLedger
  <2> SUFFICES ASSUME Init
               PROVE  DuesMatchLedger
    OBVIOUS
  <2>1. Total(charged) = 0 /\ Total(extra) = 0
    BY TotalZero DEF Init
  <2>2. Total(paid) = 0
    BY TotalZero DEF Init
  <2> QED
    BY <2>1, <2>2 DEF Init, DuesMatchLedger
<1> QED
  BY <1>1, TypeCorrect, DuesInductive, PTL DEF Spec

-----------------------------------------------------------------------------
(* A decision in flight belongs to a settlement that exists and has the    *)
(* cash shortfall of its row, which never changes; an approval has the     *)
(* row's shortage of goods too, as long as nobody else has decided.        *)

DecisionsCurrent ==
    \A r \in Requests : req[r].kind \in {"approve", "dispute"} =>
        LET q == req[r] IN
        /\ status[q.row] # "none"
        /\ q.cash = cash[q.row]
        /\ q.kind = "approve" /\ status[q.row] = "pending" => q.short = short[q.row]

DecisionInv == DecidedIsCharged /\ DecisionsCurrent

(* Steps that leave the rows and the charges alone, and start no decision. *)
LEMMA QuietStep ==
  ASSUME TypeOK, DecisionInv, UNCHANGED <<rows, charged, paid>>,
         \A s \in Requests : req'[s] = req[s] \/ req'[s].kind \notin {"approve", "dispute"}
  PROVE  DecisionInv'
<1>1. DecidedIsCharged'
  BY DEF DecisionInv, DecidedIsCharged, rows
<1>2. DecisionsCurrent'
  BY DEF DecisionInv, DecisionsCurrent, rows
<1> QED
  BY <1>1, <1>2 DEF DecisionInv

LEMMA DecisionInductive ==
  TypeOK /\ TypeOK' /\ DecisionInv /\ [Next]_vars => DecisionInv'
<1> SUFFICES ASSUME TypeOK, TypeOK', DecisionInv, [Next]_vars
             PROVE  DecisionInv'
  OBVIOUS
<1>1. ASSUME NEW r \in Requests, NEW d \in Settlements, CommitSettle(r, d)
      PROVE  DecisionInv'
  <2>1. \A s \in Requests : req'[s] = req[s] \/ req'[s] = Idle
    BY <1>1 DEF CommitSettle, TypeOK
  <2>2. \A x \in Settlements : x # d =>
          /\ status'[x] = status[x] /\ short'[x] = short[x] /\ cash'[x] = cash[x]
    BY <1>1 DEF CommitSettle
  <2>3. status[d] = "none" /\ status'[d] = "pending"
    BY <1>1 DEF CommitSettle, TypeOK
  <2>4. charged' = charged /\ paid' = paid
    BY <1>1 DEF CommitSettle, money
  <2>5. DecidedIsCharged'
    BY <2>2, <2>3, <2>4 DEF DecisionInv, DecidedIsCharged
  <2>6. DecisionsCurrent'
    <3> SUFFICES ASSUME NEW s \in Requests, req'[s].kind \in {"approve", "dispute"}
                 PROVE  /\ status'[req'[s].row] # "none"
                        /\ req'[s].cash = cash'[req'[s].row]
                        /\ req'[s].kind = "approve" /\ status'[req'[s].row] = "pending"
                             => req'[s].short = short'[req'[s].row]
      BY DEF DecisionsCurrent
    <3>1. req'[s] = req[s]
      BY <2>1 DEF Idle
    <3>2. req[s].row \in Settlements
      BY <3>1, RequestKinds DEF TypeOK, DecideRequest
    <3>3. req[s].row # d
      BY <2>3, <3>1 DEF DecisionInv, DecisionsCurrent
    <3> QED
      BY <2>2, <3>1, <3>2, <3>3 DEF DecisionInv, DecisionsCurrent
  <2> QED
    BY <2>5, <2>6 DEF DecisionInv
<1>2. ASSUME NEW r \in Requests, NEW d \in Settlements, NEW v \in Qty,
             BeginApprove(r, d) \/ BeginDispute(r, d, v)
      PROVE  DecisionInv'
  <2>1. \A s \in Requests \ {r} : req'[s] = req[s]
    BY <1>2 DEF BeginApprove, BeginDispute, TypeOK
  <2>2. /\ req'[r].row = d
        /\ req'[r].cash = cash[d]
        /\ req'[r].kind = "approve" => req'[r].short = short[d]
        /\ status[d] # "none"
    BY <1>2 DEF BeginApprove, BeginDispute, TypeOK
  <2>3. rows' = rows /\ charged' = charged /\ paid' = paid
    BY <1>2 DEF BeginApprove, BeginDispute, money
  <2>4. DecidedIsCharged'
    BY <2>3 DEF DecisionInv, DecidedIsCharged, rows
  <2>5. DecisionsCurrent'
    BY <2>1, <2>2, <2>3 DEF DecisionInv, DecisionsCurrent, rows
  <2> QED
    BY <2>4, <2>5 DEF DecisionInv
<1>3. ASSUME NEW r \in Requests, CommitApprove(r) \/ CommitDispute(r)
      PROVE  DecisionInv'
  <2>1. req[r] \in DecideRequest
    BY <1>3, RequestKinds DEF CommitApprove, CommitDispute, TypeOK
  <2>2. PICK d \in Settlements, i \in Nat, j \in Nat :
           d = req[r].row /\ i = req[r].short /\ j = req[r].cash
    BY <2>1 DEF DecideRequest
  <2>3. /\ \A s \in Requests : req'[s] = req[s] \/ req'[s] = Idle
        /\ cash' = cash /\ paid' = paid
        /\ \A x \in Settlements : x # d =>
              status'[x] = status[x] /\ short'[x] = short[x] /\ charged'[x] = charged[x]
    BY <1>3, <2>2 DEF CommitApprove, CommitDispute, TypeOK
  <2>4. charged'[d] = charged[d] + i + j /\ status'[d] \in {"approved", "disputed"}
    <3>1. charged[d] \in Nat
      BY DEF TypeOK
    <3> QED
      BY <1>3, <2>2, <3>1 DEF CommitApprove, CommitDispute, TypeOK, ApprovalCharge
  <2>5. j = cash[d] /\ status[d] # "none"
    BY <1>3, <2>2 DEF CommitApprove, CommitDispute, DecisionInv, DecisionsCurrent
  <2>6. charged'[d] >= short'[d] + cash'[d] \/ paid'[d] > 0
    <3>1. charged[d] \in Nat /\ short[d] \in Nat /\ cash[d] \in Nat /\ paid[d] \in Nat
      BY DEF TypeOK
    <3>2. CASE CommitDispute(r)
      <4>1. short'[d] = i
        BY <2>2, <3>2 DEF CommitDispute, TypeOK
      <4> QED
        BY <2>2, <2>3, <2>4, <2>5, <3>1, <4>1
    <3>3. CASE CommitApprove(r)
      <4>1. short' = short
        BY <3>3 DEF CommitApprove
      <4>2. CASE status[d] = "pending"
        <5>1. i = short[d]
          BY <2>2, <3>3, <4>2 DEF CommitApprove, DecisionInv, DecisionsCurrent
        <5> QED
          BY <2>3, <2>4, <2>5, <3>1, <4>1, <5>1
      <4>3. CASE status[d] # "pending"
        <5>1. charged[d] >= short[d] + cash[d] \/ paid[d] > 0
          BY <2>5, <4>3 DEF DecisionInv, DecidedIsCharged, TypeOK, Status
        <5> QED
          BY <2>2, <2>3, <2>4, <3>1, <4>1, <5>1
      <4> QED
        BY <4>2, <4>3
    <3> QED
      BY <1>3, <3>2, <3>3
  <2>7. DecidedIsCharged'
    BY <2>2, <2>3, <2>6 DEF DecisionInv, DecidedIsCharged
  <2>8. DecisionsCurrent'
    <3> SUFFICES ASSUME NEW s \in Requests, req'[s].kind \in {"approve", "dispute"}
                 PROVE  /\ status'[req'[s].row] # "none"
                        /\ req'[s].cash = cash'[req'[s].row]
                        /\ req'[s].kind = "approve" /\ status'[req'[s].row] = "pending"
                             => req'[s].short = short'[req'[s].row]
      BY DEF DecisionsCurrent
    <3>1. req'[s] = req[s]
      BY <2>3 DEF Idle
    <3>2. req[s].row \in Settlements
      BY <3>1, RequestKinds DEF TypeOK, DecideRequest
    <3>3. CASE req[s].row = d
      BY <2>3, <2>4, <3>1, <3>3 DEF DecisionInv, DecisionsCurrent
    <3>4. CASE req[s].row # d
      BY <2>3, <3>1, <3>2, <3>4 DEF DecisionInv, DecisionsCurrent
    <3> QED
      BY <3>3, <3>4
  <2> QED
    BY <2>7, <2>8 DEF DecisionInv
<1>4. ASSUME NEW d \in Settlements, NEW a \in 1..MaxQty, PayShortage(d, a)
      PROVE  DecisionInv'
  <2>1. a \in Nat /\ a > 0 /\ paid[d] \in Nat
    BY Bounds DEF TypeOK
  <2>2. /\ paid'[d] = paid[d] + a
        /\ \A x \in Settlements : x # d => paid'[x] = paid[x] /\ status'[x] = status[x]
        /\ status'[d] = status[d] \/ status'[d] = "approved"
        /\ UNCHANGED <<short, cash, charged, req>>
    BY <1>4 DEF PayShortage, TypeOK
  <2>3. paid'[d] > 0
    BY <2>1, <2>2
  <2>4. DecidedIsCharged'
    BY <2>2, <2>3 DEF DecisionInv, DecidedIsCharged
  <2>5. DecisionsCurrent'
    <3> SUFFICES ASSUME NEW s \in Requests, req[s].kind \in {"approve", "dispute"}
                 PROVE  /\ status'[req[s].row] # "none"
                        /\ req[s].cash = cash[req[s].row]
                        /\ req[s].kind = "approve" /\ status'[req[s].row] = "pending"
                             => req[s].short = short[req[s].row]
      BY <2>2 DEF DecisionsCurrent
    <3>1. req[s].row \in Settlements
      BY RequestKinds DEF TypeOK, DecideRequest
    <3>2. status'[req[s].row] = status[req[s].row] \/ status'[req[s].row] = "approved"
      BY <2>2, <3>1
    <3> QED
      BY <3>2 DEF DecisionInv, DecisionsCurrent
  <2> QED
    BY <2>4, <2>5 DEF DecisionInv
<1>5. ASSUME \/ Field
             \/ \E r \in Requests :
                   \/ \E returned, carried \in [Products -> Qty], mismatch \in 0..MaxCash :
                         BeginSettle(r, returned, carried, mismatch)
                   \/ ReceiveReturn(r)
                   \/ ResolveDiscrepancy(r)
                   \/ Abort(r)
             \/ UNCHANGED vars
      PROVE  DecisionInv'
  <2>1. UNCHANGED <<rows, charged, paid>>
    BY <1>5 DEF Field, Take, Sell, NextDay, BeginSettle, ReceiveReturn, BeginReceive,
                CommitReceive, ResolveDiscrepancy, BeginResolve, CommitResolve, Abort,
                vars, rows, money
  <2>2. ASSUME NEW s \in Requests
        PROVE  req'[s] = req[s] \/ req'[s].kind \notin {"approve", "dispute"}
    <3>1. CASE Field \/ UNCHANGED vars
      BY <3>1 DEF Field, Take, Sell, NextDay, vars
    <3>2. ASSUME NEW r \in Requests, NEW returned, NEW carried, NEW mismatch,
                 BeginSettle(r, returned, carried, mismatch)
          PROVE  req'[s] = req[s] \/ req'[s].kind = "settle"
      BY <3>2 DEF BeginSettle, TypeOK
    <3>3. ASSUME NEW r \in Requests, ReceiveReturn(r)
          PROVE  req'[s] = req[s] \/ req'[s].kind \in {"receive", "idle"}
      BY <3>3 DEF ReceiveReturn, BeginReceive, CommitReceive, TypeOK, Idle
    <3>4. ASSUME NEW r \in Requests, ResolveDiscrepancy(r)
          PROVE  req'[s] = req[s] \/ req'[s].kind \in {"resolve", "idle"}
      BY <3>4 DEF ResolveDiscrepancy, BeginResolve, CommitResolve, TypeOK, Idle
    <3>5. ASSUME NEW r \in Requests, Abort(r)
          PROVE  req'[s] = req[s] \/ req'[s].kind = "idle"
      BY <3>5 DEF Abort, TypeOK, Idle
    <3> QED
      BY <1>5, <3>1, <3>2, <3>3, <3>4, <3>5
  <2> QED
    BY <2>1, <2>2, QuietStep
<1>6. 0 \in Qty
  BY Bounds DEF Qty
<1> QED
  BY <1>1, <1>2, <1>3, <1>4, <1>5, <1>6 DEF Next, CreateSettlement, Decide

(* Whoever decides on a settlement, in whatever order, its shortages are   *)
(* charged or a payment on it is recorded.                                 *)
THEOREM NothingDecidedForFree == Spec => []DecidedIsCharged
<1>1. Init => DecisionInv
  BY DEF Init, DecisionInv, DecidedIsCharged, DecisionsCurrent, Idle
<1> QED
  BY <1>1, TypeCorrect, DecisionInductive, PTL DEF Spec, DecisionInv

-----------------------------------------------------------------------------
(* Units counted, per settlement, of one product.                          *)
Got(p) == [d \in Settlements |-> receipt[d][p].got]

LEMMA StockInductive ==
  TypeOK /\ TypeOK' /\ StockCoversReceipts /\ [Next]_vars => StockCoversReceipts'
<1> SUFFICES ASSUME TypeOK, TypeOK', StockCoversReceipts, [Next]_vars, NEW p \in Products
             PROVE  Total(Got(p)') <= stock'[p]
  BY DEF StockCoversReceipts, Got
<1>1. /\ Got(p) \in [Settlements -> Nat] /\ Got(p)' \in [Settlements -> Nat]
      /\ stock[p] \in Nat /\ stock'[p] \in Nat
      /\ Total(Got(p)) <= stock[p]
  BY DEF TypeOK, Receipt, Got, StockCoversReceipts
<1>2. IsFiniteSet(Settlements)
  BY FiniteRows
<1>3. Total(Got(p)) \in Nat /\ Total(Got(p)') \in Nat
  BY <1>1, <1>2, TotalType
<1>4. CASE stock' = stock /\ \A d \in Settlements : Got(p)'[d] <= Got(p)[d]
  <2>1. Total(Got(p)') <= Total(Got(p))
    BY <1>1, <1>2, <1>4, TotalMonotone
  <2> QED
    BY <1>1, <1>3, <1>4, <2>1
<1>5. ASSUME NEW r \in Requests, NEW d \in Settlements, CommitSettle(r, d)
      PROVE  stock' = stock /\ \A x \in Settlements : Got(p)'[x] <= Got(p)[x]
  <2>1. receipt'[d][p].got = 0
    BY <1>5 DEF CommitSettle, TypeOK, Claim
  <2>2. \A x \in Settlements \ {d} : receipt'[x] = receipt[x]
    BY <1>5 DEF CommitSettle
  <2>3. \A x \in Settlements : Got(p)[x] \in Nat
    BY <1>1
  <2>4. \A x \in Settlements : Got(p)'[x] = 0 \/ Got(p)'[x] = Got(p)[x]
    BY <2>1, <2>2 DEF Got
  <2> QED
    BY <1>5, <2>3, <2>4 DEF CommitSettle
<1>6. ASSUME NEW r \in Requests, CommitResolve(r)
      PROVE  stock' = stock /\ \A x \in Settlements : Got(p)'[x] <= Got(p)[x]
  <2>1. req[r] \in ResolveRequest
    BY <1>6, RequestKinds DEF CommitResolve, TypeOK
  <2>2. \A x \in Settlements : receipt'[x][p].got = receipt[x][p].got
    BY <1>6, <2>1 DEF CommitResolve, TypeOK, Resolved, ResolveRequest
  <2>3. \A x \in Settlements : Got(p)[x] \in Nat
    BY <1>1
  <2> QED
    BY <1>6, <2>2, <2>3 DEF CommitResolve, Got
<1>7. ASSUME NEW r \in Requests, CommitReceive(r)
      PROVE  Total(Got(p)') <= stock'[p]
  <2>1. req[r] \in ReceiveRequest
    BY <1>7, RequestKinds DEF CommitReceive, TypeOK
  <2>2. PICK d \in Settlements, n \in Nat, x \in Products :
           d = req[r].row /\ n = req[r].got /\ x = req[r].product
    BY <2>1, Bounds DEF ReceiveRequest, Qty
  <2>3. CASE x # p
    <3>1. stock'[p] = stock[p]
      BY <1>7, <2>2, <2>3 DEF CommitReceive, TypeOK
    <3>2. \A y \in Settlements : receipt'[y][p] = receipt[y][p]
      BY <1>7, <2>2, <2>3 DEF CommitReceive, TypeOK
    <3>3. Got(p)' = Got(p)
      BY <3>2 DEF Got
    <3> QED
      BY <1>1, <3>1, <3>3
  <2>4. CASE x = p
    <3>1. stock'[p] = stock[p] + n
      BY <1>7, <2>2, <2>4 DEF CommitReceive, TypeOK, Credited
    <3>2. /\ receipt'[d][p].got = n
          /\ \A y \in Settlements \ {d} : receipt'[y][p] = receipt[y][p]
      BY <1>7, <2>2, <2>4 DEF CommitReceive, TypeOK, CountOf
    <3>3. Got(p)'[d] = n /\ \A y \in Settlements : y # d => Got(p)'[y] = Got(p)[y]
      BY <3>2 DEF Got
    <3>4. Total(Got(p)') = Total(Got(p)) - Got(p)[d] + Got(p)'[d]
      BY <1>1, <1>2, <3>3, TotalUpdate
    <3>5. Got(p)[d] \in Nat
      BY <1>1
    <3> QED
      BY <1>1, <1>3, <3>1, <3>3, <3>4, <3>5
  <2> QED
    BY <2>3, <2>4
<1>8. \/ \E r \in Requests, d \in Settlements : CommitSettle(r, d)
      \/ \E r \in Requests : CommitReceive(r) \/ CommitResolve(r)
      \/ UNCHANGED <<receipt, stock>>
  BY DEF Next, vars, Field, CreateSettlement, Decide, ReceiveReturn, ResolveDiscrepancy,
         Take, Sell, NextDay, BeginSettle, BeginApprove, BeginDispute, CommitApprove,
         CommitDispute, PayShortage, BeginReceive, BeginResolve, Abort
<1>9. CASE UNCHANGED <<receipt, stock>>
  BY <1>1, <1>9 DEF Got
<1> QED
  BY <1>4, <1>5, <1>6, <1>7, <1>8, <1>9

(* What was counted back is in the warehouse's stock.                      *)
THEOREM CountedIsStocked == Spec => []StockCoversReceipts
<1>1. Init => StockCoversReceipts
  <2> SUFFICES ASSUME Init, NEW p \in Products
               PROVE  Total(Got(p)) <= stock[p]
    BY DEF StockCoversReceipts, Got
  <2>1. Got(p) \in [Settlements -> Nat] /\ \A d \in Settlements : Got(p)[d] = 0
    BY DEF Init, Got, Claim
  <2>2. Total(Got(p)) = 0
    BY <2>1, TotalZero
  <2> QED
    BY <2>2 DEF Init
<1> QED
  BY <1>1, TypeCorrect, StockInductive, PTL DEF Spec

-----------------------------------------------------------------------------
(* What only races break.  settlementReturns.controller.js:153-155 says    *)
(* that a resolved discrepancy cannot be charged again, but its            *)
(* transaction does not repeat the check.  As long as each discrepancy is  *)
(* resolved once, the SR is never charged more than he claimed to have     *)
(* returned of the products whose difference was charged.                  *)

ResolvedOnce ==
    \A r \in Requests : CommitResolve(r) =>
        receipt[req[r].row][req[r].product].resolution = "none"

ClaimCharged(d) ==
    [p \in Products |-> IF receipt[d][p].resolution = "charged"
                         THEN receipt[d][p].claimed * Price[p] ELSE 0]

ChargedForClaims == \A d \in Settlements : extra[d] <= Total(ClaimCharged(d))

(* A row that does not exist has no receipts; what a handler is about to   *)
(* charge is at most what the receipt claims.                              *)
ResolveInv ==
    /\ ChargedForClaims
    /\ \A d \in Settlements : status[d] = "none" =>
          extra[d] = 0 /\ \A p \in Products : receipt[d][p] = Claim(0)
    /\ \A r \in Requests : req[r].kind \in {"receive", "resolve"} => status[req[r].row] # "none"
    /\ \A r \in Requests : req[r].kind = "resolve" =>
          req[r].value <= receipt[req[r].row][req[r].product].claimed * Price[req[r].product]

LEMMA ClaimValue ==
  ASSUME NEW k \in Nat, NEW m \in Nat, NEW n \in Nat
  PROVE  /\ m * k \in Nat
         /\ (m - n) * k \in Int
         /\ (m - n) * k <= m * k
<1>1. m * k \in Nat /\ n * k \in Nat
  OBVIOUS
<1>2. (m - n) * k = m * k - n * k
  OBVIOUS
<1> QED
  BY <1>1, <1>2

LEMMA ClaimType ==
  ASSUME TypeOK, NEW d \in Settlements
  PROVE  /\ ClaimCharged(d) \in [Products -> Nat]
         /\ Total(ClaimCharged(d)) \in Nat
<1>1. \A p \in Products : receipt[d][p].claimed \in Nat /\ Price[p] \in Nat
  BY PriceType DEF TypeOK, Receipt
<1>2. \A p \in Products : receipt[d][p].claimed * Price[p] \in Nat
  BY <1>1, ClaimValue
<1>3. ClaimCharged(d) \in [Products -> Nat]
  BY <1>2 DEF ClaimCharged
<1> QED
  BY <1>3, FiniteRows, TotalType

(* The claims and resolutions of a row, and what it was charged for them.  *)
SameClaims(d) ==
    /\ extra'[d] = extra[d]
    /\ \A p \in Products : /\ receipt'[d][p].claimed = receipt[d][p].claimed
                            /\ receipt'[d][p].resolution = receipt[d][p].resolution

LEMMA ClaimsKept ==
  ASSUME NEW d \in Settlements, SameClaims(d), ChargedForClaims
  PROVE  extra'[d] <= Total(ClaimCharged(d)')
<1>1. ClaimCharged(d)' = ClaimCharged(d)
  BY DEF ClaimCharged, SameClaims
<1> QED
  BY <1>1 DEF ChargedForClaims, SameClaims

(* A step that leaves receipts and charges alone, takes no row away and    *)
(* lets no handler begin to count or to resolve.                           *)
LEMMA ResolveQuiet ==
  ASSUME TypeOK, ResolveInv, UNCHANGED <<receipt, extra>>,
         \A d \in Settlements : status'[d] = "none" => status[d] = "none",
         \A s \in Requests : req'[s] = req[s] \/ req'[s].kind \notin {"receive", "resolve"}
  PROVE  ResolveInv'
<1>1. ChargedForClaims'
  BY DEF ResolveInv, ChargedForClaims, ClaimCharged
<1>2. \A s \in Requests : req'[s].kind \in {"receive", "resolve"} =>
        req'[s] = req[s] /\ req'[s].row \in Settlements
  BY RequestKinds DEF TypeOK, ReceiveRequest, ResolveRequest
<1> QED
  BY <1>1, <1>2 DEF ResolveInv

(* A handler is about to count or to resolve a receipt that exists.        *)
LEMMA ResolveBegins ==
  ASSUME TypeOK, ResolveInv, NEW r \in Requests, UNCHANGED <<receipt, extra, status>>,
         NEW d \in Settlements, NEW p \in Products, receipt[d][p].status # "none",
         \/ \E n \in Qty : BeginReceive(r, d, p, n)
         \/ \E c \in {"charged", "waived"} : BeginResolve(r, d, p, c)
  PROVE  ResolveInv'
<1>1. status[d] # "none"
  BY DEF ResolveInv, Claim
<1>2. (receipt[d][p].claimed - receipt[d][p].got) * Price[p] <= receipt[d][p].claimed * Price[p]
  BY ClaimValue, PriceType DEF TypeOK, Receipt
<1>3. ChargedForClaims'
  BY DEF ResolveInv, ChargedForClaims, ClaimCharged
<1>4. /\ req'[r].row = d
      /\ req'[r].kind = "resolve" =>
            /\ req'[r].product = p
            /\ req'[r].value = (receipt[d][p].claimed - receipt[d][p].got) * Price[p]
      /\ \A s \in Requests : s # r => req'[s] = req[s]
  BY DEF BeginReceive, BeginResolve, TypeOK
<1> QED
  BY <1>1, <1>2, <1>3, <1>4 DEF ResolveInv

LEMMA ResolveSettle ==
  ASSUME TypeOK, ResolveInv, NEW r \in Requests, NEW d \in Settlements, CommitSettle(r, d)
  PROVE  ResolveInv'
<1>1. /\ \A x \in Settlements : x # d => receipt'[x] = receipt[x] /\ status'[x] = status[x]
      /\ extra' = extra /\ status[d] = "none" /\ status'[d] = "pending"
      /\ \A s \in Requests : req'[s] = req[s] \/ req'[s].kind = "idle"
  BY DEF CommitSettle, TypeOK, money, Idle
<1>2. \A x \in Settlements : extra'[x] <= Total(ClaimCharged(x)')
  <2> TAKE x \in Settlements
  <2>1. CASE x = d
    <3>1. receipt'[d] \in [Products -> Receipt]
      <4>1. req[r].returned \in [Products -> Qty]
        BY RequestKinds DEF CommitSettle, TypeOK, SettleRequest
      <4>2. \A p \in Products : Claim(req[r].returned[p]) \in Receipt
        BY <4>1, Bounds DEF Claim, Receipt, Qty
      <4> QED
        BY <4>2 DEF CommitSettle, TypeOK
    <3>2. \A p \in Products : receipt'[d][p].claimed * Price[p] \in Nat
      BY <3>1, ClaimValue, PriceType DEF Receipt
    <3>3. ClaimCharged(d)' \in [Products -> Nat]
      BY <3>2 DEF ClaimCharged
    <3>4. Total(ClaimCharged(d)') \in Nat
      BY <3>3, FiniteRows, TotalType
    <3> QED
      BY <1>1, <2>1, <3>4 DEF ResolveInv
  <2>2. CASE x # d
    BY <1>1, <2>2, ClaimsKept DEF SameClaims, ResolveInv
  <2> QED
    BY <2>1, <2>2
<1>3. \A s \in Requests : req'[s].kind \in {"receive", "resolve"} =>
        req'[s] = req[s] /\ req[s].row \in Settlements /\ req[s].row # d
  BY <1>1, RequestKinds DEF ResolveInv, TypeOK, ReceiveRequest, ResolveRequest
<1>4. \A s \in Requests : req'[s].kind = "resolve" =>
        receipt'[req'[s].row] = receipt[req[s].row] /\ status'[req'[s].row] = status[req[s].row]
  BY <1>1, <1>3
<1> QED
  BY <1>1, <1>2, <1>3, <1>4 DEF ResolveInv, ChargedForClaims

LEMMA ResolveReceive ==
  ASSUME TypeOK, ResolveInv, NEW r \in Requests, CommitReceive(r)
  PROVE  ResolveInv'
<1>1. req[r].row \in Settlements /\ req[r].product \in Products /\ status[req[r].row] # "none"
  BY RequestKinds DEF CommitReceive, TypeOK, ReceiveRequest, ResolveInv
<1>2. \A d \in Settlements : /\ SameClaims(d)
                             /\ status[d] = "none" => receipt'[d] = receipt[d]
  <2> TAKE d \in Settlements
  <2>1. extra' = extra
    BY DEF CommitReceive, money
  <2>2. \A p \in Products : \/ receipt'[d][p] = receipt[d][p]
                            \/ receipt'[d][p] = CountOf(receipt[d][p], req[r].got)
    BY <1>1 DEF CommitReceive, TypeOK
  <2>3. d # req[r].row => receipt'[d] = receipt[d]
    BY <1>1 DEF CommitReceive, TypeOK
  <2>4. \A p \in Products : /\ receipt'[d][p].claimed = receipt[d][p].claimed
                            /\ receipt'[d][p].resolution = receipt[d][p].resolution
    <3> TAKE p \in Products
    <3>1. /\ CountOf(receipt[d][p], req[r].got).claimed = receipt[d][p].claimed
          /\ CountOf(receipt[d][p], req[r].got).resolution = receipt[d][p].resolution
      BY DEF CountOf
    <3> QED
      BY <2>2, <3>1
  <2>5. SameClaims(d)
    BY <2>1, <2>4 DEF SameClaims
  <2> QED
    BY <1>1, <2>3, <2>5
<1>3. ChargedForClaims'
  BY <1>2, ClaimsKept DEF ResolveInv, ChargedForClaims
<1>4. \A s \in Requests : req'[s].kind \in {"receive", "resolve"} =>
        req'[s] = req[s] /\ req[s].row \in Settlements
  BY RequestKinds DEF CommitReceive, Idle, TypeOK, ReceiveRequest, ResolveRequest
<1>5. \A s \in Requests : req[s].kind = "resolve" => req[s].product \in Products
  BY RequestKinds DEF TypeOK, ResolveRequest
<1>6. status' = status /\ extra' = extra
  BY DEF CommitReceive, rows, money
<1> QED
  BY <1>2, <1>3, <1>4, <1>5, <1>6 DEF ResolveInv, SameClaims

(* The receipt is resolved for the first time: its claim joins the sum.    *)
LEMMA ResolveCommit ==
  ASSUME TypeOK, ResolveInv, NEW r \in Requests, CommitResolve(r), ResolvedOnce
  PROVE  ResolveInv'
<1>0. PICK d \in Settlements, p \in Products, v \in Int, c \in {"charged", "waived"} :
        d = req[r].row /\ p = req[r].product /\ v = req[r].value /\ c = req[r].resolution
  BY RequestKinds DEF CommitResolve, TypeOK, ResolveRequest
<1> DEFINE a == IF c = "charged" THEN Greatest0(v) ELSE 0
           f == ClaimCharged(d)
           g == ClaimCharged(d)'
<1>1. /\ receipt[d][p].resolution = "none"
      /\ receipt[d][p].claimed \in Nat /\ Price[p] \in Nat
      /\ v <= receipt[d][p].claimed * Price[p]
      /\ status[d] # "none"
  BY <1>0, PriceType DEF ResolvedOnce, CommitResolve, ResolveInv, TypeOK, Receipt
<1>2. /\ \A x \in Settlements : x # d => receipt'[x] = receipt[x] /\ extra'[x] = extra[x]
      /\ \A q \in Products : q # p => receipt'[d][q] = receipt[d][q]
      /\ receipt'[d][p] = Resolved(receipt[d][p], c)
      /\ extra'[d] = extra[d] + a
      /\ status' = status
  BY <1>0 DEF CommitResolve, TypeOK, rows
<1>3. \A x \in Settlements, q \in Products : receipt'[x][q].claimed = receipt[x][q].claimed
  BY <1>2 DEF Resolved
<1>4. extra'[d] <= Total(g)
  <2>1. receipt[d][p].claimed * Price[p] \in Nat
    BY <1>1, ClaimValue
  <2>2. f \in [Products -> Nat] /\ f[p] = 0 /\ Total(f) \in Nat /\ extra[d] <= Total(f)
    BY <1>1, ClaimType DEF ClaimCharged, ResolveInv, ChargedForClaims
  <2>3. g[p] = IF c = "charged" THEN receipt[d][p].claimed * Price[p] ELSE 0
    BY <1>2 DEF ClaimCharged, Resolved
  <2>4. \A q \in Products : q # p => g[q] = f[q]
    BY <1>2 DEF ClaimCharged
  <2>5. g \in [Products -> Nat]
    <3>1. DOMAIN g = Products /\ g = [q \in Products |-> g[q]]
      BY DEF ClaimCharged
    <3>2. \A q \in Products : g[q] \in Nat
      BY <2>1, <2>2, <2>3, <2>4
    <3> HIDE DEF f, g
    <3> QED
      BY <3>1, <3>2
  <2>6. a \in Nat /\ a <= g[p]
    BY <1>1, <2>1, <2>3 DEF Greatest0
  <2>7. extra[d] \in Nat
    BY DEF TypeOK
  <2> HIDE DEF f, g, a
  <2>8. Total(g) = Total(f) - f[p] + g[p] /\ Total(g) \in Nat
    BY <2>2, <2>4, <2>5, FiniteRows, TotalUpdate
  <2>9. g[p] \in Nat
    BY <2>5
  <2> QED
    BY <1>2, <2>2, <2>6, <2>7, <2>8, <2>9
<1>5. ChargedForClaims'
  <2>1. \A x \in Settlements : x # d => extra'[x] <= Total(ClaimCharged(x)')
    BY <1>2, ClaimsKept DEF SameClaims, ResolveInv
  <2> QED
    BY <1>4, <2>1 DEF ChargedForClaims
<1>6. \A s \in Requests : req'[s].kind \in {"receive", "resolve"} =>
        req'[s] = req[s] /\ req[s].row \in Settlements
  BY RequestKinds DEF CommitResolve, Idle, TypeOK, ReceiveRequest, ResolveRequest
<1>7. \A s \in Requests : req[s].kind = "resolve" => req[s].product \in Products
  BY RequestKinds DEF TypeOK, ResolveRequest
<1> QED
  BY <1>1, <1>2, <1>3, <1>5, <1>6, <1>7 DEF ResolveInv

LEMMA ResolveStep ==
  TypeOK /\ ResolveInv /\ [Next]_vars /\ [ResolvedOnce]_vars => ResolveInv'
<1> SUFFICES ASSUME TypeOK, ResolveInv, [Next]_vars, [ResolvedOnce]_vars
             PROVE  ResolveInv'
  OBVIOUS
<1>1. CASE UNCHANGED vars
  BY <1>1, ResolveQuiet DEF vars, rows, money
<1>2. CASE Field
  BY <1>2, ResolveQuiet DEF Field, Take, Sell, NextDay, rows, money
<1>3. ASSUME NEW d \in Settlements, NEW a \in 1..MaxQty, PayShortage(d, a)
      PROVE  ResolveInv'
  BY <1>3, ResolveQuiet DEF PayShortage, TypeOK
<1>4. ASSUME NEW r \in Requests, CreateSettlement(r)
      PROVE  ResolveInv'
  <2>1. CASE \E d \in Settlements : CommitSettle(r, d)
    BY <2>1, ResolveSettle
  <2>2. CASE \E returned, carried \in [Products -> Qty], m \in 0..MaxCash :
               BeginSettle(r, returned, carried, m)
    BY <2>2, ResolveQuiet DEF BeginSettle, rows, money, TypeOK
  <2> QED
    BY <1>4, <2>1, <2>2 DEF CreateSettlement
<1>5. ASSUME NEW r \in Requests, Decide(r)
      PROVE  ResolveInv'
  <2>1. CASE CommitApprove(r) \/ CommitDispute(r)
    <3>1. req[r].row \in Settlements /\ UNCHANGED <<receipt, extra>>
      BY <2>1, RequestKinds DEF CommitApprove, CommitDispute, TypeOK, DecideRequest
    <3>2. \A s \in Requests : req'[s] = req[s] \/ req'[s].kind = "idle"
      BY <2>1 DEF CommitApprove, CommitDispute, TypeOK, Idle
    <3>3. \A d \in Settlements : status'[d] = "none" => status[d] = "none"
      BY <2>1, <3>1 DEF CommitApprove, CommitDispute, TypeOK
    <3> QED
      BY <3>1, <3>2, <3>3, ResolveQuiet
  <2>2. CASE (\E d \in Settlements : BeginApprove(r, d))
             \/ (\E d \in Settlements, v \in Qty : BeginDispute(r, d, v))
    BY <2>2, ResolveQuiet DEF BeginApprove, BeginDispute, rows, money, TypeOK
  <2> QED
    BY <1>5, <2>1, <2>2 DEF Decide
<1>6. ASSUME NEW r \in Requests, ReceiveReturn(r)
      PROVE  ResolveInv'
  <2>1. CASE CommitReceive(r)
    BY <2>1, ResolveReceive
  <2>2. ASSUME NEW d \in Settlements, NEW p \in Products, NEW n \in Qty, BeginReceive(r, d, p, n)
        PROVE  ResolveInv'
    <3>1. UNCHANGED <<receipt, extra, status>> /\ receipt[d][p].status # "none"
      BY <2>2 DEF BeginReceive, rows, money
    <3> QED
      BY <2>2, <3>1, ResolveBegins
  <2> QED
    BY <1>6, <2>1, <2>2 DEF ReceiveReturn
<1>7. ASSUME NEW r \in Requests, ResolveDiscrepancy(r)
      PROVE  ResolveInv'
  <2>1. ASSUME CommitResolve(r)
        PROVE  ResolveInv'
    <3>1. CASE UNCHANGED vars
      BY <1>1, <3>1
    <3>2. CASE ResolvedOnce
      BY <2>1, <3>2, ResolveCommit
    <3> QED
      BY <3>1, <3>2
  <2>2. ASSUME NEW d \in Settlements, NEW p \in Products, NEW c \in {"charged", "waived"},
               BeginResolve(r, d, p, c)
        PROVE  ResolveInv'
    <3>1. UNCHANGED <<receipt, extra, status>> /\ receipt[d][p].status # "none"
      BY <2>2 DEF BeginResolve, rows, money
    <3> QED
      BY <2>2, <3>1, ResolveBegins
  <2> QED
    BY <1>7, <2>1, <2>2 DEF ResolveDiscrepancy
<1>8. ASSUME NEW r \in Requests, Abort(r)
      PROVE  ResolveInv'
  BY <1>8, ResolveQuiet DEF Abort, rows, money, TypeOK, Idle
<1> QED
  BY <1>1, <1>2, <1>3, <1>4, <1>5, <1>6, <1>7, <1>8 DEF Next

(* As long as each discrepancy is resolved once, the SR is charged no more *)
(* for returned goods than he claimed to return of the products charged    *)
(* (resolveDiscrepancy, however counts and decisions of others race).      *)
THEOREM ChargedIfResolvedOnce == Spec /\ [][ResolvedOnce]_vars => []ChargedForClaims
<1>1. Init => ResolveInv
  <2> SUFFICES ASSUME Init, NEW d \in Settlements
               PROVE  extra[d] <= Total(ClaimCharged(d))
    BY DEF Init, ResolveInv, ChargedForClaims, Idle
  <2>1. /\ ClaimCharged(d) \in [Products -> Nat]
        /\ \A p \in Products : ClaimCharged(d)[p] = 0
    BY DEF Init, ClaimCharged, Claim
  <2>2. Total(ClaimCharged(d)) = 0
    BY <2>1, TotalZero
  <2> QED
    BY <2>2 DEF Init
<1>2. ResolveInv => ChargedForClaims
  BY DEF ResolveInv
<1> QED
  BY <1>1, <1>2, ResolveStep, TypeCorrect, PTL DEF Spec

(* A handler that works alone resolves what it read as unresolved.         *)
Unresolved ==
    \A r \in Requests : req[r].kind = "resolve" =>
        receipt[req[r].row][req[r].product].resolution = "none"

LEMMA AloneStep ==
  ASSUME NEW r, Requests = {r}, TypeOK, Unresolved, [Next]_vars
  PROVE  Unresolved' /\ ResolvedOnce
<1>1. ResolvedOnce
  BY DEF Unresolved, ResolvedOnce, CommitResolve
<1>2. ASSUME UNCHANGED vars
      PROVE  Unresolved'
  BY <1>2 DEF vars, Unresolved
<1>3. ASSUME Field \/ \E d \in Settlements, a \in 1..MaxQty : PayShortage(d, a)
      PROVE  Unresolved'
  BY <1>3 DEF Field, Take, Sell, NextDay, PayShortage, Unresolved
<1>4. ASSUME \E d \in Settlements, p \in Products, c \in {"charged", "waived"} :
                BeginResolve(r, d, p, c)
      PROVE  Unresolved'
  BY <1>4 DEF BeginResolve, TypeOK, Unresolved
<1>5. ASSUME req'[r].kind # "resolve"
      PROVE  Unresolved'
  BY <1>5 DEF Unresolved
<1>6. req \in [Requests -> Request] /\ r \in Requests
  BY DEF TypeOK
<1>7. ASSUME \/ CreateSettlement(r) \/ Decide(r) \/ ReceiveReturn(r)
             \/ CommitResolve(r) \/ Abort(r)
      PROVE  Unresolved'
  <2>1. CASE CreateSettlement(r)
    <3>1. req'[r].kind # "resolve"
      BY <1>6, <2>1 DEF CreateSettlement, BeginSettle, CommitSettle, Idle
    <3> QED
      BY <1>5, <3>1
  <2>2. CASE Decide(r)
    <3>1. req'[r].kind # "resolve"
      BY <1>6, <2>2 DEF Decide, BeginApprove, BeginDispute, CommitApprove, CommitDispute, Idle
    <3> QED
      BY <1>5, <3>1
  <2>3. CASE ReceiveReturn(r)
    <3>1. req'[r].kind # "resolve"
      BY <1>6, <2>3 DEF ReceiveReturn, BeginReceive, CommitReceive, Idle
    <3> QED
      BY <1>5, <3>1
  <2>4. CASE CommitResolve(r) \/ Abort(r)
    <3>1. req'[r].kind # "resolve"
      BY <1>6, <2>4 DEF CommitResolve, Abort, Idle
    <3> QED
      BY <1>5, <3>1
  <2> QED
    BY <1>7, <2>1, <2>2, <2>3, <2>4
<1>8. ASSUME NEW x \in Requests,
             \/ CreateSettlement(x) \/ Decide(x) \/ ReceiveReturn(x)
             \/ ResolveDiscrepancy(x) \/ Abort(x)
      PROVE  Unresolved'
  <2>1. x = r
    OBVIOUS
  <2> QED
    BY <1>4, <1>7, <1>8, <2>1 DEF ResolveDiscrepancy
<1> QED
  BY <1>1, <1>2, <1>3, <1>8 DEF Next

(* One handler at a time: no discrepancy is charged twice.  The double     *)
(* charge needs two handlers that overlap.                                 *)
THEOREM OneByOne ==
  ASSUME NEW r, Requests = {r}
  PROVE  Spec => []ChargedForClaims
<1>1. Init => Unresolved
  BY DEF Init, Unresolved, Idle
<1>2. TypeOK /\ Unresolved /\ [Next]_vars => Unresolved' /\ ResolvedOnce
  BY AloneStep
<1> QED
  BY <1>1, <1>2, ChargedIfResolvedOnce, TypeCorrect, PTL DEF Spec
=============================================================================
