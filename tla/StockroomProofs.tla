-------------------------- MODULE StockroomProofs --------------------------
(***************************************************************************)
(* Theorems about Stockroom, for any products, quantities, prices, batches *)
(* and number of handlers, under StoreConstants.                           *)
(***************************************************************************)
EXTENDS Stockroom, SumsProofs

(* What a handler carries, and a row of product_batches.                   *)
Made == [status : BatchStatus \ {"none"}, product : Products, quantity : Nat, made : Nat]
Request ==
    {Idle}
    \cup [kind : {"place", "edit", "cancel", "receive", "lost"}]
    \cup [kind : {"received"}, product : Products, quantity : Nat \ {0}, price : Prices,
          status : {"received", "partial"}]
    \cup [kind : {"adjust"}, product : Products, quantity : Int, stock : Int]
    \cup [kind : {"adjusted"}, product : Products, quantity : Int]
    \cup [kind : {"batch"}, batch : Batches, status : BatchStatus \ {"none"}, quantity : Nat]

LEMMA RequestFields ==
  ASSUME NEW t \in Request
  PROVE  /\ t.kind \in {"idle", "place", "edit", "cancel", "receive", "lost", "received",
                        "adjust", "adjusted", "batch"}
         /\ t = Idle <=> t.kind = "idle"
         /\ t.kind = "received" =>
               /\ t.product \in Products /\ t.quantity \in Nat \ {0} /\ t.price \in Prices
               /\ t.status \in {"received", "partial"}
         /\ t.kind = "adjust" => t.product \in Products /\ t.quantity \in Int /\ t.stock \in Int
         /\ t.kind = "adjusted" => t.product \in Products /\ t.quantity \in Int
         /\ t.kind = "batch" =>
               /\ t.batch \in Batches /\ t.quantity \in Nat
               /\ t.status \in BatchStatus \ {"none"}
BY DEF Request, Idle

LEMMA BatchFields ==
  ASSUME NEW x \in {NoBatch} \cup Made
  PROVE  /\ x.quantity \in Nat /\ x.made \in Nat /\ x.status \in BatchStatus
         /\ x.status # "none" => x \in Made /\ x.product \in Products
         /\ x \in Made => x.status # "none"
BY DEF NoBatch, Made, BatchStatus

-----------------------------------------------------------------------------
(* What the helpers return.                                                *)

(* An approval takes from a batch no more than it holds.                   *)
LEMMA TakenBounded ==
  ASSUME StoreConstants, batch \in [Batches -> {NoBatch} \cup Made],
         NEW p, NEW n \in Nat, NEW b \in Batches
  PROVE  /\ TakenOf(p, n, b) \in Nat /\ TakenOf(p, n, b) <= batch[b].quantity
         /\ batch[b].status = "none" => TakenOf(p, n, b) = 0
<1> DEFINE holds == [x \in Batches |->
              IF batch[x].status = "active" /\ batch[x].product = p THEN batch[x].quantity ELSE 0]
           before == [x \in Batches |-> IF x < b THEN holds[x] ELSE 0]
           left == Greatest0(n - Total(before))
<1>1. holds \in [Batches -> Nat]
  BY BatchFields
<1>2. before \in [Batches -> Nat]
  BY <1>1
<1>3. holds[b] <= batch[b].quantity /\ (batch[b].status = "none" => holds[b] = 0)
  BY BatchFields
<1>4. Total(before) \in Nat
  BY <1>2, TotalType DEF StoreConstants
<1>5. TakenOf(p, n, b) = IF left < holds[b] THEN left ELSE holds[b]
  BY DEF TakenOf
<1> HIDE DEF holds, before
<1>6. left \in Nat
  BY <1>4 DEF Greatest0
<1> HIDE DEF left
<1>7. batch[b].quantity \in Nat /\ holds[b] \in Nat
  BY <1>1, BatchFields
<1> QED
  BY <1>3, <1>5, <1>6, <1>7

(* What the active batches of p hold, and the order in which the loop of   *)
(* consumeBatchesFEFO goes through them.                                   *)
Held(p) == [x \in Batches |->
    IF batch[x].status = "active" /\ batch[x].product = p THEN batch[x].quantity ELSE 0]
Expiry == {w \in Batches \X Batches : w[1] < w[2]}

LEMMA TakenInOrder ==
  ASSUME StoreConstants, batch \in [Batches -> {NoBatch} \cup Made],
         NEW p, NEW n \in Nat, NEW b \in Batches
  PROVE  LET before == Total(RoomBefore(Batches, Expiry, Held(p), b)) IN
         /\ Held(p) \in [Batches -> Nat]
         /\ before \in Nat
         /\ TakenOf(p, n, b) = IF Greatest0(n - before) < Held(p)[b]
                               THEN Greatest0(n - before) ELSE Held(p)[b]
<1> DEFINE before == RoomBefore(Batches, Expiry, Held(p), b)
           earlier == [x \in Batches |-> IF x < b THEN Held(p)[x] ELSE 0]
<1>1. Held(p) \in [Batches -> Nat]
  BY BatchFields DEF Held
<1>2. before = earlier
  BY DEF RoomBefore, Expiry
<1>3. before \in [Batches -> Nat]
  BY <1>1 DEF RoomBefore
<1>4. Total(before) \in Nat
  BY <1>3, TotalType DEF StoreConstants
<1>5. TakenOf(p, n, b) = IF Greatest0(n - Total(earlier)) < Held(p)[b]
                         THEN Greatest0(n - Total(earlier)) ELSE Held(p)[b]
  BY DEF TakenOf, Held
<1> QED
  BY <1>1, <1>2, <1>4, <1>5

LEMMA ExpiryOrder ==
  ASSUME StoreConstants
  PROVE  /\ IsFiniteSet(Batches)
         /\ \A x, y \in Batches : <<x, y>> \in Expiry <=> x < y
         /\ \A x \in Batches : <<x, x>> \notin Expiry
         /\ \A x, y \in Batches : x # y => <<x, y>> \in Expiry \/ <<y, x>> \in Expiry
         /\ \A x, y, z \in Batches :
               <<x, y>> \in Expiry /\ <<y, z>> \in Expiry => <<x, z>> \in Expiry
<1>1. IsFiniteSet(Batches) /\ Batches \subseteq Nat
  BY DEF StoreConstants
<1>2. \A x, y \in Batches : <<x, y>> \in Expiry <=> x < y
  BY DEF Expiry
<1> QED
  BY <1>1, <1>2

(* First expired, first out (consumeBatchesFEFO): a batch is touched only  *)
(* when all that expires before it is used up.                             *)
THEOREM FirstExpiredFirst ==
  ASSUME StoreConstants, batch \in [Batches -> {NoBatch} \cup Made],
         NEW p, NEW n \in Nat, NEW a \in Batches, NEW b \in Batches,
         a < b, TakenOf(p, n, b) > 0
  PROVE  TakenOf(p, n, a) = Held(p)[a]
<1> DEFINE R == Expiry
           room == Held(p)
<1>1. PICK i \in Nat, k \in Nat : /\ i = Total(RoomBefore(Batches, R, room, a))
                                  /\ k = Total(RoomBefore(Batches, R, room, b))
  BY TakenInOrder
<1>2. <<a, b>> \in R /\ <<a, a>> \notin R /\ \A z \in Batches : <<z, a>> \in R => <<z, b>> \in R
  BY ExpiryOrder
<1>3. IsFiniteSet(Batches) /\ room \in [Batches -> Nat]
  BY ExpiryOrder, TakenInOrder
<1>4. TakenOf(p, n, b) = IF Greatest0(n - k) < room[b] THEN Greatest0(n - k) ELSE room[b]
  BY <1>1, TakenInOrder
<1>5. TakenOf(p, n, a) = IF Greatest0(n - i) < room[a] THEN Greatest0(n - i) ELSE room[a]
  BY <1>1, TakenInOrder
<1> HIDE DEF R, room
<1>6. i + room[a] <= k
  BY <1>1, <1>2, <1>3, RoomAhead
<1>7. TakenOf(p, n, a) = room[a]
  BY <1>3, <1>4, <1>5, <1>6 DEF Greatest0
<1> QED
  BY <1>7 DEF room

(* An issue of n units takes all of them from batches, or all the active   *)
(* batches hold: what consumeBatchesFEFO records as untracked is only what *)
(* no batch could give.                                                    *)
THEOREM BatchesUsedUp ==
  ASSUME StoreConstants, batch \in [Batches -> {NoBatch} \cup Made], NEW p, NEW n \in Nat
  PROVE  LET taken == Total([b \in Batches |-> TakenOf(p, n, b)])
             held == Total(Held(p)) IN
         taken = IF n < held THEN n ELSE held
<1> DEFINE give == [b \in Batches |-> TakenOf(p, n, b)]
           R == Expiry
           room == Held(p)
<1>1. room \in [Batches -> Nat]
  BY BatchFields DEF Held
<1>2. give \in [Batches -> Nat]
  BY TakenBounded
<1>3. \A b \in Batches :
        LET before == Total(RoomBefore(Batches, R, room, b)) IN
        /\ give[b] <= room[b]
        /\ give[b] > 0 => before + give[b] <= n
        /\ give[b] < room[b] => n <= before + give[b]
  <2> TAKE b \in Batches
  <2>1. PICK m \in Nat : m = Total(RoomBefore(Batches, R, room, b))
    BY TakenInOrder
  <2>2. give[b] = IF Greatest0(n - m) < room[b] THEN Greatest0(n - m) ELSE room[b]
    BY <2>1, TakenInOrder
  <2> HIDE DEF give, room, R
  <2> QED
    BY <1>1, <2>1, <2>2 DEF Greatest0
<1>4. IsFiniteSet(Batches)
  BY ExpiryOrder
<1>5. /\ \A x \in Batches : <<x, x>> \notin R
      /\ \A x, y \in Batches : x # y => <<x, y>> \in R \/ <<y, x>> \in R
      /\ \A x, y, z \in Batches : <<x, y>> \in R /\ <<y, z>> \in R => <<x, z>> \in R
  BY ExpiryOrder
<1> HIDE DEF give, room, R
<1>6. Total(give) <= n
  BY <1>1, <1>2, <1>3, <1>4, <1>5, TotalFilled
<1>7. give = room \/ n <= Total(give)
  <2>1. \A b \in Batches : give[b] <= room[b]
    BY <1>3
  <2>2. \A b \in Batches : give[b] < room[b] => n <= Total(RoomBefore(Batches, R, room, b)) + give[b]
    BY <1>3
  <2> QED
    BY <1>1, <1>2, <1>4, <1>5, <2>1, <2>2, TotalFilledUp, Zenon
<1>8. Total(give) <= Total(room) /\ Total(give) \in Nat /\ Total(room) \in Nat
  BY <1>1, <1>2, <1>3, <1>4, TotalMonotone, TotalType
<1>9. Total(give) = IF n < Total(room) THEN n ELSE Total(room)
  BY <1>6, <1>7, <1>8
<1> QED
  BY <1>9 DEF give, room

LEMMA MulMonotone ==
  ASSUME NEW k \in Int, NEW m \in Int, NEW n \in Nat, k <= m
  PROVE  n * k <= n * m
<1>1. m - k \in Nat
  OBVIOUS
<1>2. n * (m - k) >= 0
  BY <1>1
<1>3. n * (m - k) = n * m - n * k
  OBVIOUS
<1>4. n * m \in Int /\ n * k \in Int
  OBVIOUS
<1> QED
  BY <1>2, <1>3, <1>4

(* A rounded average of a over n lies between the bounds of what it        *)
(* averages.                                                               *)
LEMMA RoundedBounded ==
  ASSUME NEW a \in Nat, NEW n \in Nat \ {0}, NEW low \in Nat, NEW high \in Nat,
         n * low <= a, a <= n * high
  PROVE  Rounded(a, n) \in low..high
<1> DEFINE k == (2 * a + n) \div (2 * n)
<1>1. /\ k \in Int
      /\ (2 * n) * k <= 2 * a + n
      /\ 2 * a + n < (2 * n) * k + 2 * n
  BY Z3
<1> HIDE DEF k
<1>2. PICK x \in Int : x = n * k
  BY <1>1
<1>3. 2 * x <= 2 * a + n /\ 2 * a + n < 2 * x + 2 * n
  <2>1. (2 * n) * k = 2 * x
    BY <1>1, <1>2
  <2> QED
    BY <1>1, <2>1
<1>4. k <= high
  <2> SUFFICES ASSUME high + 1 <= k PROVE FALSE
    BY <1>1
  <2>1. n * (high + 1) <= n * k
    BY <1>1, MulMonotone
  <2>2. n * (high + 1) = n * high + n /\ n * high \in Nat
    OBVIOUS
  <2>3. PICK y \in Nat : y = n * high
    BY <2>2
  <2>4. y + n <= x /\ a <= y
    BY <1>2, <2>1, <2>2, <2>3
  <2> QED
    BY <1>3, <2>4
<1>5. low <= k
  <2> SUFFICES ASSUME k + 1 <= low PROVE FALSE
    BY <1>1
  <2>1. n * (k + 1) <= n * low
    BY <1>1, MulMonotone
  <2>2. n * (k + 1) = n * k + n /\ n * low \in Nat
    BY <1>1
  <2>3. PICK y \in Nat : y = n * low
    BY <2>2
  <2>4. x + n <= y /\ y <= a
    BY <1>2, <2>1, <2>2, <2>3
  <2> QED
    BY <1>3, <2>4
<1> QED
  BY <1>1, <1>4, <1>5 DEF Rounded, k

(* The new average lies between the old one and the price paid.            *)
LEMMA CostBounded ==
  ASSUME NEW s \in Nat, NEW c \in Nat, NEW q \in Nat \ {0}, NEW u \in Nat,
         NEW low \in Nat, NEW high \in Nat, c \in low..high, u \in low..high
  PROVE  NewCost(s, c, q, u) \in low..high
<1>1. /\ s * low <= s * c /\ s * c <= s * high
      /\ q * low <= q * u /\ q * u <= q * high
  BY MulMonotone
<1>2. /\ s * c \in Nat /\ s * low \in Nat /\ s * high \in Nat
      /\ q * u \in Nat /\ q * low \in Nat /\ q * high \in Nat
  OBVIOUS
<1>3. (s + q) * low = s * low + q * low /\ (s + q) * high = s * high + q * high
  OBVIOUS
<1>4. /\ (s + q) * low <= s * c + q * u /\ s * c + q * u <= (s + q) * high
      /\ s * c + q * u \in Nat
  BY <1>1, <1>2, <1>3
<1>5. s + q \in Nat \ {0} /\ s + q > 0
  OBVIOUS
<1>6. Rounded(s * c + q * u, s + q) \in low..high
  BY <1>4, <1>5, RoundedBounded
<1> QED
  BY <1>5, <1>6 DEF NewCost
-----------------------------------------------------------------------------
(* The invariant behind the theorems that hold whatever overlaps: a        *)
(* receipt that has locked a line fits into what the line still lacks, and *)
(* nobody else has it; a change of a batch read what came with it at most. *)

Typed ==
    /\ TypeOK
    /\ req \in [Staff -> Request]
    /\ batch \in [Batches -> {NoBatch} \cup Made]

ReceiptsFit ==
    \A r \in Staff : req[r].kind = "received" =>
        /\ received[req[r].product] + req[r].quantity <= Ordered[req[r].product]
        /\ Unlocked(r, req[r].product)

AdjustmentsFit ==
    \A r \in Staff : req[r].kind = "adjust" => req[r].stock + req[r].quantity \in Nat

ChangesFit ==
    \A r \in Staff : req[r].kind = "batch" =>
        /\ batch[req[r].batch] \in Made
        /\ req[r].quantity <= batch[req[r].batch].made

StoreInv ==
    /\ Typed /\ ReceiptsFit /\ AdjustmentsFit /\ ChangesFit
    /\ ReceivedWithinOrdered /\ BatchWithinReceived

LEMMA StoreInit == StoreConstants /\ Init => StoreInv
<1> SUFFICES ASSUME StoreConstants, Init PROVE StoreInv
  OBVIOUS
<1>1. TypeOK
  <2>1. muddled \in BOOLEAN
    BY Zenon DEF Init
  <2> QED
    BY <2>1 DEF Init, TypeOK, Status, StoreConstants
<1>2. req \in [Staff -> Request] /\ batch \in [Batches -> {NoBatch} \cup Made]
  BY DEF Init, Request
<1>3. \A r \in Staff : req[r].kind = "idle"
  BY DEF Init, Idle
<1>4. ReceivedWithinOrdered /\ BatchWithinReceived
  BY DEF Init, ReceivedWithinOrdered, BatchWithinReceived, NoBatch, StoreConstants
<1> QED
  BY <1>1, <1>2, <1>3, <1>4 DEF StoreInv, Typed, ReceiptsFit, AdjustmentsFit, ChangesFit

(* A step of one handler that touches nothing but the order's status.      *)
LEMMA StoreRequest ==
  ASSUME StoreConstants, StoreInv, NEW r \in Staff, NEW t \in Request,
         req' = [req EXCEPT ![r] = t], t.kind # "received",
         t.kind = "adjust" => t.stock + t.quantity \in Nat,
         t.kind = "batch" => batch[t.batch] \in Made /\ t.quantity <= batch[t.batch].made,
         single' \in SUBSET Staff, muddled' \in BOOLEAN, po' \in Status,
         UNCHANGED <<received, goods>>
  PROVE  StoreInv'
<1>1. /\ \A o \in Staff : o # r => req'[o] = req[o]
      /\ req'[r] = t /\ req' \in [Staff -> Request]
  BY DEF StoreInv, Typed
<1>2. Typed'
  BY <1>1 DEF StoreInv, Typed, TypeOK, goods
<1>3. ReceiptsFit'
  BY <1>1 DEF StoreInv, ReceiptsFit, Unlocked
<1>4. AdjustmentsFit' /\ ChangesFit'
  BY <1>1 DEF StoreInv, AdjustmentsFit, ChangesFit, goods
<1> QED
  BY <1>2, <1>3, <1>4
     DEF StoreInv, ReceivedWithinOrdered, BatchWithinReceived, goods

LEMMA StoreOrder ==
  ASSUME StoreConstants, StoreInv, NEW r \in Staff, Order(r)
  PROVE  StoreInv'
<1>0. /\ req[r] \in Request /\ req \in [Staff -> Request] /\ single \in SUBSET Staff
      /\ muddled \in BOOLEAN /\ po \in Status
  BY DEF StoreInv, Typed, TypeOK
<1>1. ASSUME NEW t \in Request, t.kind \in {"place", "edit", "cancel", "receive"},
             Start(r, t), UNCHANGED <<po, received, goods, muddled>>
      PROVE  StoreInv'
  <2>1. req' = [req EXCEPT ![r] = t] /\ single' \in SUBSET Staff
    BY <1>1 DEF Start
  <2> QED
    BY <1>0, <1>1, <2>1, StoreRequest
<1>2. ASSUME NEW kind \in {"place", "edit", "cancel"}, BeginOrder(r, kind)
      PROVE  StoreInv'
  <2>1. [kind |-> kind] \in Request /\ [kind |-> kind].kind = kind
    BY DEF Request
  <2> QED
    BY <1>1, <1>2, <2>1 DEF BeginOrder
<1>3. CASE CommitStatus(r)
  <2>1. /\ req' = [req EXCEPT ![r] = Idle] /\ single' \in SUBSET Staff
        /\ muddled' \in BOOLEAN /\ po' \in Status /\ UNCHANGED <<received, goods>>
        /\ Idle \in Request /\ Idle.kind = "idle"
    BY <1>0, <1>3 DEF CommitStatus, Finish, Status, Request, Idle
  <2> QED
    BY <2>1, StoreRequest
<1>4. CASE CommitEdit(r)
  <2>1. /\ [kind |-> "lost"] \in Request /\ [kind |-> "lost"].kind = "lost"
        /\ Idle \in Request /\ Idle.kind = "idle"
    BY DEF Request, Idle
  <2>2. /\ req' \in [Staff -> Request] /\ single' \in SUBSET Staff /\ muddled' \in BOOLEAN
        /\ received' = [p \in Products |-> 0] /\ UNCHANGED <<po, goods>>
    BY <1>0, <1>4, <2>1 DEF CommitEdit
  <2>3. \A o \in Staff : req'[o] = req[o] \/ req'[o].kind \in {"lost", "idle"}
    BY <1>4, <2>1 DEF CommitEdit
  <2>4. \A o \in Staff : req[o].kind # "received"
    BY <1>4 DEF CommitEdit
  <2>5. Typed'
    BY <2>2 DEF StoreInv, Typed, TypeOK, goods
  <2>6. ReceiptsFit' /\ AdjustmentsFit' /\ ChangesFit'
    BY <2>2, <2>3, <2>4 DEF StoreInv, ReceiptsFit, AdjustmentsFit, ChangesFit, goods
  <2> QED
    BY <2>2, <2>5, <2>6
       DEF StoreInv, ReceivedWithinOrdered, BatchWithinReceived, goods, StoreConstants
<1>5. CASE BeginReceive(r)
  <2>1. [kind |-> "receive"] \in Request /\ [kind |-> "receive"].kind = "receive"
    BY DEF Request
  <2> QED
    BY <1>1, <1>5, <2>1 DEF BeginReceive
<1>6. ASSUME NEW p \in Products, NEW u \in Prices, NEW q \in 1..Ordered[p], TakeLine(r, p, q, u)
      PROVE  StoreInv'
  <2>1. PICK t \in Request :
          /\ req' = [req EXCEPT ![r] = t] /\ t.kind = "received"
          /\ t.product = p /\ t.quantity = q
    <3>1. PICK z \in {"received", "partial"} :
            z = StatusAfter([received EXCEPT ![p] = received[p] + q])
      BY DEF StatusAfter
    <3>2. q \in Nat \ {0}
      BY DEF StoreConstants
    <3>3. [kind |-> "received", product |-> p, quantity |-> q, price |-> u, status |-> z] \in Request
      BY <3>2 DEF Request
    <3> QED
      BY <1>6, <3>1, <3>3 DEF TakeLine
  <2>2. /\ \A o \in Staff : o # r => req'[o] = req[o]
        /\ req'[r] = t /\ req' \in [Staff -> Request]
    BY <1>0, <2>1
  <2>3. /\ Unlocked(r, p) /\ q <= Ordered[p] - received[p]
        /\ UNCHANGED <<po, received, goods, single, muddled>>
    BY <1>6 DEF TakeLine
  <2>4. received[p] + q <= Ordered[p]
    BY <2>3 DEF StoreInv, Typed, TypeOK, StoreConstants
  <2>5. Typed'
    BY <2>2, <2>3 DEF StoreInv, Typed, TypeOK, goods
  <2>6. ReceiptsFit'
    BY <2>1, <2>2, <2>3, <2>4 DEF StoreInv, ReceiptsFit, Unlocked
  <2>7. AdjustmentsFit' /\ ChangesFit'
    BY <2>1, <2>2, <2>3 DEF StoreInv, AdjustmentsFit, ChangesFit, goods
  <2> QED
    BY <2>3, <2>5, <2>6, <2>7
       DEF StoreInv, ReceivedWithinOrdered, BatchWithinReceived, goods
<1>7. ASSUME NEW news \in SUBSET Batches, CommitReceive(r, news)
      PROVE  StoreInv'
  <2>1. PICK p \in Products, q \in Nat \ {0}, u \in Prices, z \in {"received", "partial"} :
          /\ req[r].kind = "received" /\ p = req[r].product /\ q = req[r].quantity
          /\ u = req[r].price /\ z = req[r].status
    BY <1>0, <1>7, RequestFields DEF CommitReceive
  <2>2. /\ \A b \in news : batch[b] = NoBatch
        /\ received' = [received EXCEPT ![p] = received[p] + q]
        /\ stock' = [stock EXCEPT ![p] = stock[p] + q]
        /\ cost' = [cost EXCEPT ![p] = NewCost(stock[p], cost[p], q, u)]
        /\ batch' = [b \in Batches |-> IF b \in news
              THEN [status |-> "active", product |-> p, quantity |-> q, made |-> q] ELSE batch[b]]
        /\ po' = z /\ muddled' = (muddled \/ r \notin single) /\ Move(p, q)
        /\ req' = [req EXCEPT ![r] = Idle] /\ single' = single \ {r}
    BY <1>7, <2>1 DEF CommitReceive, Finish
  <2>3. /\ \A o \in Staff : o # r => req'[o] = req[o]
        /\ req'[r].kind = "idle" /\ req' \in [Staff -> Request]
    BY <1>0, <2>2 DEF Idle, Request
  <2>4. [status |-> "active", product |-> p, quantity |-> q, made |-> q] \in Made
    BY DEF Made, BatchStatus
  <2>5. /\ batch' \in [Batches -> {NoBatch} \cup Made]
        /\ \A b \in Batches : batch[b] \in Made => batch'[b] = batch[b]
        /\ \A b \in Batches : batch'[b].quantity \in 0..batch'[b].made
    <3>1. batch' \in [Batches -> {NoBatch} \cup Made]
      BY <2>2, <2>4 DEF StoreInv, Typed
    <3>2. NoBatch \notin Made
      BY DEF NoBatch, Made
    <3>3. \A b \in Batches : batch[b] \in Made => batch'[b] = batch[b]
      BY <2>2, <3>2
    <3>4. ASSUME NEW b \in Batches
          PROVE  batch'[b].quantity \in 0..batch'[b].made
      <4>1. CASE b \in news
        <5>1. batch'[b].quantity = q /\ batch'[b].made = q
          BY <2>2, <4>1
        <5> QED
          BY <5>1
      <4>2. CASE b \notin news
        BY <2>2, <4>2 DEF StoreInv, BatchWithinReceived
      <4> QED
        BY <4>1, <4>2
    <3> QED
      BY <3>1, <3>3, <3>4
  <2>6. /\ received' \in [Products -> Nat]
        /\ \A x \in Products : x # p => received'[x] = received[x]
        /\ received'[p] = received[p] + q /\ received'[p] <= Ordered[p]
    BY <2>1, <2>2 DEF StoreInv, Typed, TypeOK, ReceiptsFit
  <2>7. NewCost(stock[p], cost[p], q, u) \in Nat
    <3>1. stock[p] \in Nat /\ cost[p] \in Nat /\ u \in Nat
      BY DEF StoreInv, Typed, TypeOK, StoreConstants
    <3>2. PICK low \in Nat, high \in Nat : cost[p] \in low..high /\ u \in low..high
      <4>1. cost[p] \in 0..(cost[p] + u) /\ u \in 0..(cost[p] + u) /\ cost[p] + u \in Nat
        BY <3>1
      <4> QED
        BY <4>1
    <3>3. NewCost(stock[p], cost[p], q, u) \in low..high
      BY <3>1, <3>2, CostBounded
    <3> QED
      BY <3>2, <3>3
  <2>8. TypeOK'
    <3>1. stock' \in [Products -> Nat] /\ cost' \in [Products -> Nat]
      BY <2>2, <2>7 DEF StoreInv, Typed, TypeOK
    <3>2. log' \in [Products -> Int]
      BY <2>2 DEF StoreInv, Typed, TypeOK, Move
    <3>3. muddled' \in BOOLEAN /\ single' \in SUBSET Staff /\ po' \in Status /\ DOMAIN req' = Staff
      BY <1>0, <2>2, <2>3 DEF Status
    <3>4. batch' \in [Batches -> {NoBatch} \cup
            [status : BatchStatus, product : Products, quantity : Nat, made : Nat]]
      BY <2>5 DEF Made
    <3> QED
      BY <2>6, <3>1, <3>2, <3>3, <3>4 DEF TypeOK
  <2>9. ReceiptsFit'
    <3>1. ASSUME NEW o \in Staff, req'[o].kind = "received"
          PROVE  /\ received'[req'[o].product] + req'[o].quantity <= Ordered[req'[o].product]
                 /\ \A y \in Staff \ {o} :
                      ~(req'[y].kind = "received" /\ req'[y].product = req'[o].product)
      <4>1. o # r /\ req'[o] = req[o]
        BY <2>3, <3>1
      <4>2. req[o].product \in Products /\ req[o].kind = "received"
        BY <1>0, <3>1, <4>1, RequestFields
      <4>3. PICK x \in Products, n \in Nat : x = req[o].product /\ n = req[o].quantity
        BY <1>0, <4>2, RequestFields
      <4>4. /\ received[x] + n <= Ordered[x]
            /\ \A y \in Staff \ {o} : ~(req[y].kind = "received" /\ req[y].product = x)
        BY <4>2, <4>3 DEF StoreInv, ReceiptsFit, Unlocked
      <4>5. x # p
        BY <2>1, <4>1, <4>4
      <4>6. received'[x] + n <= Ordered[x]
        BY <2>6, <4>4, <4>5
      <4>7. \A y \in Staff \ {o} : ~(req'[y].kind = "received" /\ req'[y].product = x)
        BY <2>3, <4>4
      <4> QED
        BY <4>1, <4>3, <4>6, <4>7
    <3> QED
      BY <3>1 DEF ReceiptsFit, Unlocked
  <2>10. AdjustmentsFit' /\ ChangesFit'
    <3>1. ChangesFit'
      BY <1>0, <2>3, <2>5, RequestFields DEF StoreInv, ChangesFit
    <3> QED
      BY <2>3, <3>1 DEF StoreInv, AdjustmentsFit
  <2>11. ReceivedWithinOrdered'
    BY <2>6 DEF StoreInv, ReceivedWithinOrdered
  <2>12. BatchWithinReceived'
    BY <2>5 DEF BatchWithinReceived
  <2> QED
    BY <2>3, <2>5, <2>8, <2>9, <2>10, <2>11, <2>12 DEF StoreInv, Typed
<1> QED
  BY <1>2, <1>3, <1>4, <1>5, <1>6, <1>7 DEF Order
LEMMA StoreKeep ==
  ASSUME StoreConstants, StoreInv, NEW r \in Staff, Keep(r)
  PROVE  StoreInv'
<1>0. /\ req[r] \in Request /\ req \in [Staff -> Request] /\ single \in SUBSET Staff
      /\ muddled \in BOOLEAN /\ po \in Status /\ stock \in [Products -> Nat]
      /\ batch \in [Batches -> {NoBatch} \cup Made] /\ log \in [Products -> Int]
  BY DEF StoreInv, Typed, TypeOK
<1>1. Idle \in Request /\ Idle.kind = "idle"
  BY DEF Request, Idle
<1>2. ASSUME NEW p \in Products, NEW n \in Adjustments, BeginAdjust(r, p, n)
      PROVE  StoreInv'
  <2>1. PICK t \in Request :
          /\ t.kind = "adjust" /\ t.stock + t.quantity \in Nat
          /\ req' = [req EXCEPT ![r] = t]
    <3>1. stock[p] + n \in Nat /\ n \in Int /\ stock[p] \in Int
      BY <1>0, <1>2 DEF BeginAdjust, StoreConstants
    <3>2. [kind |-> "adjust", product |-> p, quantity |-> n, stock |-> stock[p]] \in Request
      BY <3>1 DEF Request
    <3> QED
      BY <1>2, <3>1, <3>2 DEF BeginAdjust, Start
  <2>2. /\ single' \in SUBSET Staff /\ muddled' \in BOOLEAN /\ po' \in Status
        /\ UNCHANGED <<received, goods>>
    BY <1>0, <1>2 DEF BeginAdjust, Start
  <2> QED
    BY <2>1, <2>2, StoreRequest
<1>3. CASE WriteAdjust(r)
  <2>1. PICK p \in Products, n \in Int, k \in Nat :
          /\ stock' = [stock EXCEPT ![p] = k]
          /\ req' = [req EXCEPT ![r] = [kind |-> "adjusted", product |-> p, quantity |-> n]]
          /\ UNCHANGED <<po, received, cost, batch, log, single>>
          /\ muddled' \in BOOLEAN
    <3>1. PICK p \in Products, n \in Int, k \in Int :
            p = req[r].product /\ n = req[r].quantity /\ k = req[r].stock
      BY <1>0, <1>3, RequestFields DEF WriteAdjust
    <3>2. k + n \in Nat
      BY <1>3, <3>1 DEF WriteAdjust, StoreInv, AdjustmentsFit
    <3> QED
      BY <1>3, <3>1, <3>2 DEF WriteAdjust
  <2>2. PICK t \in Request :
          t = [kind |-> "adjusted", product |-> p, quantity |-> n] /\ t.kind = "adjusted"
    <3>1. [kind |-> "adjusted", product |-> p, quantity |-> n] \in Request
      BY DEF Request
    <3> QED
      BY <3>1
  <2>3. /\ \A o \in Staff : o # r => req'[o] = req[o]
        /\ req'[r] = t /\ req' \in [Staff -> Request]
    BY <1>0, <2>1, <2>2
  <2>4. Typed'
    BY <2>1, <2>3 DEF StoreInv, Typed, TypeOK
  <2>5. ReceiptsFit' /\ AdjustmentsFit' /\ ChangesFit'
    BY <2>1, <2>2, <2>3 DEF StoreInv, ReceiptsFit, AdjustmentsFit, ChangesFit, Unlocked
  <2> QED
    BY <2>1, <2>4, <2>5 DEF StoreInv, ReceivedWithinOrdered, BatchWithinReceived
<1>4. CASE LogAdjust(r)
  <2>1. PICK p \in Products, n \in Int : p = req[r].product /\ n = req[r].quantity
    BY <1>0, <1>4, RequestFields DEF LogAdjust
  <2>2. /\ req' = [req EXCEPT ![r] = Idle] /\ single' \in SUBSET Staff /\ muddled' \in BOOLEAN
        /\ UNCHANGED <<po, received, stock, cost, batch>>
    BY <1>0, <1>4 DEF LogAdjust, Finish
  <2>3. log' \in [Products -> Int]
    BY <1>0, <1>4, <2>1 DEF LogAdjust, Move
  <2>4. \A o \in Staff : req'[o] = req[o] \/ req'[o].kind = "idle"
    BY <1>0, <1>1, <2>2
  <2>5. Typed'
    BY <1>1, <2>2, <2>3 DEF StoreInv, Typed, TypeOK
  <2>6. AdjustmentsFit' /\ ChangesFit'
    BY <2>2, <2>4 DEF StoreInv, AdjustmentsFit, ChangesFit
  <2>7. ReceiptsFit'
    BY <2>2, <2>4 DEF StoreInv, ReceiptsFit, Unlocked
  <2> QED
    BY <2>2, <2>5, <2>6, <2>7 DEF StoreInv, ReceivedWithinOrdered, BatchWithinReceived
<1>5. ASSUME NEW b \in Batches, NEW status \in BatchStatus, BeginBatch(r, b, status)
      PROVE  StoreInv'
  <2>1. batch[b] \in Made /\ status \in BatchStatus \ {"none"}
    <3>1. status \in Admits(batch[b].status)
      BY <1>5 DEF BeginBatch
    <3>2. batch[b].status \in {"active", "quarantine"} /\ status # "none"
      BY <3>1 DEF Admits
    <3> QED
      BY <1>0, <3>2, BatchFields
  <2>2. PICK t \in Request :
          /\ t.kind = "batch" /\ t.batch = b /\ t.quantity = batch[b].quantity
          /\ req' = [req EXCEPT ![r] = t]
    <3>1. batch[b].quantity \in Nat
      BY <1>0, BatchFields
    <3>2. [kind |-> "batch", batch |-> b, status |-> status, quantity |-> batch[b].quantity]
            \in Request
      BY <2>1, <3>1 DEF Request
    <3> QED
      BY <1>5, <3>2 DEF BeginBatch, Start
  <2>3. /\ single' \in SUBSET Staff /\ muddled' \in BOOLEAN /\ po' \in Status
        /\ UNCHANGED <<received, goods>>
    BY <1>0, <1>5 DEF BeginBatch, Start
  <2>4. batch[b].quantity <= batch[b].made
    BY DEF StoreInv, BatchWithinReceived
  <2> QED
    BY <2>1, <2>2, <2>3, <2>4, StoreRequest
<1>6. CASE CommitBatch(r)
  <2>1. PICK b \in Batches, n \in Nat, z \in BatchStatus \ {"none"} :
          /\ req[r].kind = "batch" /\ b = req[r].batch /\ n = req[r].quantity /\ z = req[r].status
          /\ batch[b] \in Made /\ n <= batch[b].made
    BY <1>0, <1>6, RequestFields DEF CommitBatch, StoreInv, ChangesFit
  <2>2. PICK p \in Products, out \in Nat, m \in Nat :
          /\ p = batch[b].product /\ out = IF z = "written_off" THEN n ELSE 0
          /\ m = batch[b].made /\ n <= m
    BY <2>1 DEF Made
  <2>3. /\ batch' = [batch EXCEPT ![b].status = z, ![b].quantity = n - out]
        /\ stock' = [stock EXCEPT ![p] = StockAfter(stock[p], out)]
        /\ Move(p, -out)
        /\ req' = [req EXCEPT ![r] = Idle] /\ single' \in SUBSET Staff
        /\ UNCHANGED <<po, received, cost>> /\ muddled' \in BOOLEAN
    BY <1>0, <1>6, <2>1, <2>2 DEF CommitBatch, Finish
  <2>4. PICK k \in Nat : k = n - out /\ k <= m
    BY <2>2
  <2>5. /\ \A x \in Batches : x # b => batch'[x] = batch[x]
        /\ batch'[b] \in Made /\ batch'[b].quantity = k /\ batch'[b].made = m
        /\ batch' \in [Batches -> {NoBatch} \cup Made]
    <3>1. batch[b] \in [status : BatchStatus \ {"none"}, product : Products, quantity : Nat, made : Nat]
      BY <2>1 DEF Made
    <3>2. batch'[b] = [batch[b] EXCEPT !.status = z, !.quantity = k]
      BY <1>0, <2>3, <2>4
    <3>3. batch'[b] \in Made /\ batch'[b].quantity = k /\ batch'[b].made = m
      BY <2>2, <3>1, <3>2 DEF Made
    <3>4. \A x \in Batches : x # b => batch'[x] = batch[x]
      BY <1>0, <2>3
    <3>5. batch' \in [Batches -> {NoBatch} \cup Made]
      BY <1>0, <2>3, <3>3, <3>4
    <3> QED
      BY <3>3, <3>4, <3>5
  <2>6. TypeOK'
    <3>1. stock' \in [Products -> Nat]
      BY <1>0, <2>3 DEF StockAfter, Greatest0
    <3>2. log' \in [Products -> Int]
      BY <1>0, <2>3 DEF Move
    <3>3. batch' \in [Batches -> {NoBatch} \cup
            [status : BatchStatus, product : Products, quantity : Nat, made : Nat]]
      BY <2>5 DEF Made
    <3> QED
      BY <2>3, <3>1, <3>2, <3>3 DEF StoreInv, Typed, TypeOK
  <2>7. /\ \A o \in Staff : req'[o] = req[o] \/ req'[o].kind = "idle"
        /\ req' \in [Staff -> Request]
    BY <1>0, <1>1, <2>3
  <2>8. AdjustmentsFit'
    BY <2>7 DEF StoreInv, AdjustmentsFit
  <2>9. ReceiptsFit'
    BY <2>3, <2>7 DEF StoreInv, ReceiptsFit, Unlocked
  <2>10. ChangesFit'
    <3>1. \A x \in Batches : batch[x] \in Made => batch'[x] \in Made /\ batch'[x].made = batch[x].made
      BY <2>2, <2>5
    <3>2. \A o \in Staff : req'[o].kind = "batch" => req'[o] = req[o] /\ req[o].batch \in Batches
      BY <1>0, <2>7, RequestFields
    <3> QED
      BY <3>1, <3>2 DEF StoreInv, ChangesFit
  <2>11. BatchWithinReceived'
    BY <2>4, <2>5 DEF StoreInv, BatchWithinReceived
  <2> QED
    BY <2>3, <2>5, <2>6, <2>7, <2>8, <2>9, <2>10, <2>11
       DEF StoreInv, Typed, ReceivedWithinOrdered
<1> QED
  BY <1>2, <1>3, <1>4, <1>5, <1>6 DEF Keep

LEMMA StoreApprove ==
  ASSUME StoreConstants, StoreInv, NEW p \in Products, NEW n \in 1..MaxIssue, Approve(p, n)
  PROVE  StoreInv'
<1>0. /\ batch \in [Batches -> {NoBatch} \cup Made] /\ stock \in [Products -> Nat]
      /\ log \in [Products -> Int] /\ n \in Nat /\ muddled \in BOOLEAN
  BY DEF StoreInv, Typed, TypeOK, StoreConstants
<1>1. /\ UNCHANGED <<po, received, cost, req, single>>
      /\ stock' = [stock EXCEPT ![p] = StockAfter(stock[p], n)]
      /\ batch' = [b \in Batches |->
            [batch[b] EXCEPT !.quantity = batch[b].quantity - TakenOf(p, n, b)]]
      /\ Move(p, -n) /\ muddled' \in BOOLEAN
  BY DEF Approve
<1>2. ASSUME NEW b \in Batches
      PROVE  /\ batch'[b] \in {NoBatch} \cup Made
             /\ batch[b] \in Made => batch'[b] \in Made
             /\ batch'[b].made = batch[b].made
             /\ batch'[b].quantity \in 0..batch'[b].made
  <2>1. PICK k \in Nat : k = TakenOf(p, n, b) /\ k <= batch[b].quantity
                         /\ (batch[b].status = "none" => k = 0)
    BY <1>0, TakenBounded
  <2>2. batch'[b] = [batch[b] EXCEPT !.quantity = batch[b].quantity - k]
    BY <1>1, <2>1
  <2>3. batch[b].quantity \in 0..batch[b].made
    BY DEF StoreInv, BatchWithinReceived
  <2>4. CASE batch[b] = NoBatch
    <3>1. batch'[b] = NoBatch
      BY <2>1, <2>2, <2>4 DEF NoBatch
    <3>2. NoBatch \notin Made
      BY DEF NoBatch, Made
    <3> QED
      BY <2>3, <2>4, <3>1, <3>2
  <2>5. CASE batch[b] \in Made
    <3>1. PICK q \in Nat, m \in Nat : q = batch[b].quantity /\ m = batch[b].made /\ q <= m /\ k <= q
      BY <2>1, <2>3, <2>5 DEF Made
    <3>2. batch'[b] \in Made /\ batch'[b].quantity = q - k /\ batch'[b].made = m
      BY <2>2, <2>5, <3>1 DEF Made
    <3> QED
      BY <3>1, <3>2
  <2> QED
    BY <1>0, <2>4, <2>5
<1>3. batch' \in [Batches -> {NoBatch} \cup Made]
  BY <1>1, <1>2
<1>4. TypeOK'
  <2>1. stock' \in [Products -> Nat] /\ log' \in [Products -> Int]
    BY <1>0, <1>1 DEF StockAfter, Greatest0, Move
  <2>2. batch' \in [Batches -> {NoBatch} \cup
          [status : BatchStatus, product : Products, quantity : Nat, made : Nat]]
    BY <1>3 DEF Made
  <2> QED
    BY <1>1, <2>1, <2>2 DEF StoreInv, Typed, TypeOK
<1>5. ReceiptsFit' /\ AdjustmentsFit'
  BY <1>1 DEF StoreInv, ReceiptsFit, AdjustmentsFit, Unlocked
<1>6. ChangesFit'
  <2>1. \A o \in Staff : req[o].kind = "batch" => req[o].batch \in Batches
    BY RequestFields DEF StoreInv, Typed
  <2> QED
    BY <1>1, <1>2, <2>1 DEF StoreInv, ChangesFit
<1> QED
  BY <1>1, <1>2, <1>3, <1>4, <1>5, <1>6
     DEF StoreInv, Typed, ReceivedWithinOrdered, BatchWithinReceived

LEMMA StoreInductive ==
  ASSUME StoreConstants, StoreInv, [Next]_vars
  PROVE  StoreInv'
<1>1. ASSUME NEW r \in Staff, Fail(r)
      PROVE  StoreInv'
  <2>1. /\ req' = [req EXCEPT ![r] = Idle] /\ single' \in SUBSET Staff
        /\ muddled' \in BOOLEAN /\ po' \in Status /\ UNCHANGED <<received, goods>>
        /\ Idle \in Request /\ Idle.kind = "idle"
    BY <1>1 DEF Fail, Finish, StoreInv, Typed, TypeOK, Request, Idle
  <2> QED
    BY <2>1, StoreRequest
<1>2. CASE UNCHANGED vars
  BY <1>2 DEF vars, goods, StoreInv, Typed, TypeOK, ReceiptsFit, AdjustmentsFit, ChangesFit,
              ReceivedWithinOrdered, BatchWithinReceived, Unlocked
<1> QED
  BY <1>1, <1>2, StoreOrder, StoreKeep, StoreApprove DEF Next

LEMMA StoreAlways == ASSUME StoreConstants PROVE Spec => []StoreInv
BY StoreInit, StoreInductive, PTL DEF Spec

(* Types are kept: no stock, batch or cost is ever negative, whatever      *)
(* handlers overlap.                                                       *)
THEOREM TypeCorrect == ASSUME StoreConstants PROVE Spec => []TypeOK
<1>1. StoreInv => TypeOK
  BY DEF StoreInv, Typed
<1> QED
  BY StoreAlways, <1>1, PTL

(* However many receipts are under way, a line never takes in more than    *)
(* was ordered.                                                            *)
THEOREM ReceiptsLimited == ASSUME StoreConstants PROVE Spec => []ReceivedWithinOrdered
<1>1. StoreInv => ReceivedWithinOrdered
  BY DEF StoreInv
<1> QED
  BY StoreAlways, <1>1, PTL

(* A batch never holds more than came with it.                             *)
THEOREM BatchesLimited == ASSUME StoreConstants PROVE Spec => []BatchWithinReceived
<1>1. StoreInv => BatchWithinReceived
  BY DEF StoreInv
<1> QED
  BY StoreAlways, <1>1, PTL
-----------------------------------------------------------------------------
(* The cost is only changed by a receipt, to an average of what it was and *)
(* a price.                                                                *)
LEMMA CostStep ==
  ASSUME StoreConstants, StoreInv, CostWithinPrices, [Next]_vars
  PROVE  CostWithinPrices'
<1>1. ASSUME cost' = cost
      PROVE  CostWithinPrices'
  BY <1>1 DEF CostWithinPrices
<1>2. ASSUME NEW r \in Staff, NEW news \in SUBSET Batches, CommitReceive(r, news)
      PROVE  CostWithinPrices'
  <2>1. PICK p \in Products, q \in Nat \ {0}, u \in Prices :
          cost' = [cost EXCEPT ![p] = NewCost(stock[p], cost[p], q, u)]
    BY <1>2, RequestFields DEF CommitReceive, StoreInv, Typed
  <2>2. /\ stock[p] \in Nat /\ cost[p] \in Nat /\ u \in Nat /\ FirstCost[p] \in Nat
        /\ \A x \in Prices : x \in Nat
    BY DEF StoreInv, Typed, TypeOK, StoreConstants
  <2>3. PICK low, high \in Prices \cup {FirstCost[p]} : cost[p] \in low..high
    BY DEF CostWithinPrices
  <2>4. low \in Nat /\ high \in Nat /\ low <= cost[p] /\ cost[p] <= high
    BY <2>2, <2>3
  <2>5. PICK l, m \in Prices \cup {FirstCost[p]} :
          l \in Nat /\ m \in Nat /\ cost[p] \in l..m /\ u \in l..m
    <3>1. CASE u < low
      BY <2>2, <2>4, <3>1
    <3>2. CASE high < u
      BY <2>2, <2>4, <3>2
    <3>3. CASE low <= u /\ u <= high
      BY <2>2, <2>4, <3>3
    <3> QED
      BY <2>2, <2>4, <3>1, <3>2, <3>3
  <2>6. NewCost(stock[p], cost[p], q, u) \in l..m
    BY <2>2, <2>5, CostBounded
  <2>7. /\ cost'[p] \in l..m
        /\ \A x \in Products : x # p => cost'[x] = cost[x]
    BY <2>1, <2>6 DEF StoreInv, Typed, TypeOK
  <2> QED
    BY <2>5, <2>7 DEF CostWithinPrices
<1>3. ASSUME NEW r \in Staff, Order(r)
      PROVE  CostWithinPrices'
  BY <1>1, <1>2, <1>3 DEF Order, BeginOrder, CommitStatus, CommitEdit, BeginReceive, TakeLine, goods
<1>4. ASSUME NEW r \in Staff, Keep(r)
      PROVE  cost' = cost
  BY <1>4 DEF Keep, BeginAdjust, WriteAdjust, LogAdjust, BeginBatch, CommitBatch, goods
<1>5. ASSUME NEW r \in Staff, Fail(r)
      PROVE  cost' = cost
  BY <1>5 DEF Fail, goods
<1>6. ASSUME NEW p \in Products, NEW n \in 1..MaxIssue, Approve(p, n)
      PROVE  cost' = cost
  BY <1>6 DEF Approve
<1> QED
  BY <1>1, <1>3, <1>4, <1>5, <1>6 DEF Next, vars, goods

(* The average cost stays within the prices paid.                          *)
THEOREM CostBetweenPrices == ASSUME StoreConstants PROVE Spec => []CostWithinPrices
<1>1. Init => CostWithinPrices
  BY DEF Init, CostWithinPrices, StoreConstants
<1>2. StoreInv /\ CostWithinPrices /\ [Next]_vars => CostWithinPrices'
  BY CostStep
<1> QED
  BY StoreAlways, <1>1, <1>2, PTL DEF Spec

-----------------------------------------------------------------------------
(* A handler marked single has had nobody beside it since it began.        *)

SingleInv == \A h \in single : Others(h)

LEMMA SingleAtWork ==
  ASSUME StoreInv, SingleInv, NEW r \in Staff, req[r] # Idle
  PROVE  single \subseteq {r}
BY DEF SingleInv, Others, StoreInv, Typed, TypeOK

LEMMA SingleStart ==
  ASSUME StoreInv, NEW r \in Staff, NEW t, Start(r, t)
  PROVE  /\ SingleInv' /\ req' = [req EXCEPT ![r] = t] /\ req'[r] = t
         /\ \A o \in Staff : o # r => req'[o] = req[o]
         /\ \A h \in single' : h = r
         /\ req[r] = Idle
BY DEF Start, SingleInv, Others, StoreInv, Typed

LEMMA SingleWork ==
  ASSUME StoreInv, SingleInv, NEW r \in Staff, req[r] # Idle, NEW t,
         req' = [req EXCEPT ![r] = t], single' \in {single, single \ {r}}
  PROVE  SingleInv'
BY SingleAtWork DEF SingleInv, Others, StoreInv, Typed

(* Every step is one of these, as far as requests and single go.           *)
LEMMA SingleStep ==
  ASSUME StoreInv, SingleInv, [Next]_vars
  PROVE  SingleInv'
<1>1. ASSUME NEW r \in Staff, NEW t, Start(r, t)
      PROVE  SingleInv'
  BY <1>1, SingleStart
<1>2. ASSUME NEW r \in Staff, req[r] # Idle, Finish(r)
      PROVE  SingleInv'
  BY <1>2, SingleWork DEF Finish
<1>3. ASSUME NEW r \in Staff, Order(r)
      PROVE  SingleInv'
  <2>1. ASSUME NEW kind \in {"place", "edit", "cancel"}, BeginOrder(r, kind)
        PROVE  SingleInv'
    BY <1>1, <2>1 DEF BeginOrder
  <2>2. CASE CommitStatus(r)
    BY <1>2, <2>2 DEF CommitStatus, Idle
  <2>3. CASE CommitEdit(r)
    <3>1. single' = {}
      BY <2>3, SingleAtWork DEF CommitEdit, Idle
    <3> QED
      BY <3>1 DEF SingleInv
  <2>4. CASE BeginReceive(r)
    BY <1>1, <2>4 DEF BeginReceive
  <2>5. ASSUME NEW p \in Products, NEW u \in Prices, NEW q \in 1..Ordered[p], TakeLine(r, p, q, u)
        PROVE  SingleInv'
    <3>1. req[r] # Idle /\ single' = single
      BY <2>5 DEF TakeLine, Idle
    <3>2. PICK t : req' = [req EXCEPT ![r] = t]
      BY <2>5 DEF TakeLine
    <3> QED
      BY <3>1, <3>2, SingleWork
  <2>6. ASSUME NEW news, CommitReceive(r, news)
        PROVE  SingleInv'
    BY <1>2, <2>6 DEF CommitReceive, Idle
  <2> QED
    BY <1>3, <2>1, <2>2, <2>3, <2>4, <2>5, <2>6 DEF Order
<1>4. ASSUME NEW r \in Staff, Keep(r)
      PROVE  SingleInv'
  <2>1. ASSUME NEW p \in Products, NEW n \in Adjustments, BeginAdjust(r, p, n)
        PROVE  SingleInv'
    BY <1>1, <2>1 DEF BeginAdjust
  <2>2. CASE WriteAdjust(r)
    <3>1. req[r] # Idle /\ single' = single
      BY <2>2 DEF WriteAdjust, Idle
    <3>2. PICK t : req' = [req EXCEPT ![r] = t]
      BY <2>2 DEF WriteAdjust
    <3> QED
      BY <3>1, <3>2, SingleWork
  <2>3. CASE LogAdjust(r)
    BY <1>2, <2>3 DEF LogAdjust, Idle
  <2>4. ASSUME NEW b \in Batches, NEW status \in BatchStatus, BeginBatch(r, b, status)
        PROVE  SingleInv'
    BY <1>1, <2>4 DEF BeginBatch
  <2>5. CASE CommitBatch(r)
    BY <1>2, <2>5 DEF CommitBatch, Idle
  <2> QED
    BY <1>4, <2>1, <2>2, <2>3, <2>4, <2>5 DEF Keep
<1>5. ASSUME NEW r \in Staff, Fail(r)
      PROVE  SingleInv'
  BY <1>2, <1>5 DEF Fail
<1>6. ASSUME UNCHANGED <<req, single>>
      PROVE  SingleInv'
  BY <1>6 DEF SingleInv, Others
<1>7. ASSUME NEW p \in Products, NEW n \in 1..MaxIssue, Approve(p, n)
      PROVE  SingleInv'
  BY <1>6, <1>7 DEF Approve
<1> QED
  BY <1>3, <1>4, <1>5, <1>6, <1>7 DEF Next, vars

StoreFrame == StoreInv /\ SingleInv

LEMMA FrameAlways == ASSUME StoreConstants PROVE Spec => []StoreFrame
<1>1. Init => SingleInv
  BY DEF Init, SingleInv
<1> QED
  BY StoreInit, StoreInductive, SingleStep, <1>1, PTL DEF Spec, StoreFrame
-----------------------------------------------------------------------------
(* Stock and movements: as long as nothing overlapped, only an adjustment  *)
(* between its two writes is ahead of its movement, and there is one such  *)
(* at most; one that has only read the stock has read what it is.          *)

Balanced(p) == stock[p] = FirstStock[p] + log[p]
Ahead(r, p) == req[r].kind = "adjusted" /\ req[r].product = p

MovementsAgree ==
    /\ \A r, o \in Staff : req[r].kind = "adjusted" /\ req[o].kind = "adjusted" => r = o
    /\ \A p \in Products : (\A r \in Staff : ~Ahead(r, p)) => Balanced(p)
    /\ \A p \in Products, r \in Staff : Ahead(r, p) =>
          stock[p] = FirstStock[p] + log[p] + req[r].quantity
    /\ \A h \in single : req[h].kind = "adjust" => req[h].stock = stock[req[h].product]

MoveInv == ~muddled => MovementsAgree

(* Steps that move no goods.                                               *)
LEMMA MoveKept ==
  ASSUME StoreFrame, MoveInv, NEW r \in Staff, NEW t,
         req' = [req EXCEPT ![r] = t], t.kind # "adjusted",
         \A h \in single' : h = r \/ h \in single,
         ~muddled' => ~muddled /\ req[r].kind # "adjusted",
         t.kind = "adjust" => t.stock = stock[t.product],
         UNCHANGED <<stock, log>>
  PROVE  MoveInv'
<1> SUFFICES ASSUME ~muddled' PROVE MovementsAgree'
  BY DEF MoveInv
<1>1. MovementsAgree /\ req[r].kind # "adjusted"
  BY DEF MoveInv
<1>2. /\ \A o \in Staff : o # r => req'[o] = req[o]
      /\ req'[r] = t
  BY DEF StoreFrame, StoreInv, Typed
<1>3. \A o \in Staff, p \in Products : Ahead(o, p)' <=> Ahead(o, p)
  BY <1>1, <1>2 DEF Ahead
<1>4. \A p \in Products : Balanced(p)' <=> Balanced(p)
  BY DEF Balanced
<1>5. \A p \in Products : (\A o \in Staff : ~Ahead(o, p)') => Balanced(p)'
  BY <1>1, <1>3, <1>4 DEF MovementsAgree
<1>6. \A p \in Products, o \in Staff : Ahead(o, p)' =>
         stock'[p] = FirstStock[p] + log'[p] + req'[o].quantity
  BY <1>1, <1>2 DEF MovementsAgree, Ahead
<1>7. \A h \in single' : req'[h].kind = "adjust" => req'[h].stock = stock'[req'[h].product]
  BY <1>1, <1>2 DEF MovementsAgree, StoreFrame, StoreInv, Typed, TypeOK
<1> QED
  BY <1>1, <1>2, <1>5, <1>6, <1>7 DEF MovementsAgree

(* A step that moves goods and records it, with nobody else at work and no *)
(* adjustment half-way.                                                    *)
LEMMA MoveWhole ==
  ASSUME StoreConstants, StoreFrame, MovementsAgree, NEW p \in Products, NEW n \in Int,
         \A o \in Staff : req[o].kind # "adjusted", \A o \in Staff : req'[o] = Idle,
         stock' = [stock EXCEPT ![p] = stock[p] + n],
         log' = [log EXCEPT ![p] = log[p] + n],
         single' \in SUBSET Staff
  PROVE  MovementsAgree'
<1>1. /\ stock \in [Products -> Nat] /\ log \in [Products -> Int]
      /\ Idle.kind = "idle"
  BY DEF StoreFrame, StoreInv, Typed, TypeOK, Idle
<1>2. \A x \in Products : stock[x] = FirstStock[x] + log[x]
  BY DEF MovementsAgree, Ahead, Balanced
<1>3. ASSUME NEW x \in Products
      PROVE  stock'[x] = FirstStock[x] + log'[x]
  <2>1. PICK k \in Nat, l \in Int : k = stock[x] /\ l = log[x] /\ k = FirstStock[x] + l
    BY <1>1, <1>2
  <2>2. CASE x = p
    <3>1. stock'[x] = k + n /\ log'[x] = l + n
      BY <1>1, <2>1, <2>2
    <3>2. FirstStock[x] \in Nat
      BY DEF StoreConstants
    <3> QED
      BY <2>1, <3>1, <3>2
  <2>3. CASE x # p
    BY <1>1, <1>2, <2>3
  <2> QED
    BY <2>2, <2>3
<1> QED
  BY <1>1, <1>3 DEF MovementsAgree, Ahead, Balanced
(* A single handler that commits leaves everybody idle.                    *)
LEMMA SingleCommits ==
  ASSUME StoreFrame, NEW r \in single, Finish(r)
  PROVE  /\ \A o \in Staff : req'[o] = Idle
         /\ \A o \in Staff \ {r} : req[o] = Idle
         /\ single' \in SUBSET Staff /\ r \in Staff
BY DEF StoreFrame, SingleInv, Others, Finish, StoreInv, Typed, TypeOK

LEMMA MoveOrder ==
  ASSUME StoreConstants, StoreFrame, MoveInv, NEW r \in Staff, Order(r)
  PROVE  MoveInv'
<1>0. Idle.kind = "idle" /\ single \in SUBSET Staff
  BY DEF Idle, StoreFrame, StoreInv, Typed, TypeOK
<1>1. ASSUME NEW t, t.kind \notin {"adjust", "adjusted"}, Start(r, t),
             UNCHANGED <<goods, muddled>>
      PROVE  MoveInv'
  <2>1. /\ req' = [req EXCEPT ![r] = t] /\ \A h \in single' : h = r
        /\ req[r].kind # "adjusted"
    BY <1>0, <1>1 DEF Start
  <2>2. ~muddled' => ~muddled
    BY <1>1
  <2> QED
    BY <1>1, <2>1, <2>2, MoveKept DEF goods
<1>2. ASSUME NEW kind \in {"place", "edit", "cancel"}, BeginOrder(r, kind)
      PROVE  MoveInv'
  BY <1>1, <1>2 DEF BeginOrder
<1>3. CASE CommitStatus(r)
  <2>1. /\ req' = [req EXCEPT ![r] = Idle] /\ \A h \in single' : h \in single
        /\ req[r].kind # "adjusted" /\ (~muddled' => ~muddled) /\ UNCHANGED <<stock, log>>
    BY <1>3 DEF CommitStatus, Finish, goods
  <2> QED
    BY <1>0, <2>1, MoveKept
<1>4. CASE CommitEdit(r)
  <2> SUFFICES ASSUME ~muddled' PROVE MovementsAgree'
    BY DEF MoveInv
  <2>1. r \in single /\ ~muddled /\ req[r].kind = "edit" /\ UNCHANGED <<stock, log>>
    BY <1>4 DEF CommitEdit, goods
  <2>2. \A o \in Staff \ {r} : req[o] = Idle
    BY <2>1 DEF StoreFrame, SingleInv, Others
  <2>3. \A o \in Staff : req'[o].kind = "idle" /\ req[o].kind # "adjusted"
    BY <1>0, <1>4, <2>1, <2>2 DEF CommitEdit
  <2>4. single' \in SUBSET Staff
    BY <1>0, <1>4 DEF CommitEdit
  <2> QED
    BY <2>1, <2>3, <2>4 DEF MoveInv, MovementsAgree, Ahead, Balanced
<1>5. CASE BeginReceive(r)
  BY <1>1, <1>5 DEF BeginReceive
<1>6. ASSUME NEW p \in Products, NEW u \in Prices, NEW q \in 1..Ordered[p], TakeLine(r, p, q, u)
      PROVE  MoveInv'
  <2>1. PICK z : req' = [req EXCEPT ![r] =
            [kind |-> "received", product |-> p, quantity |-> q, price |-> u, status |-> z]]
    BY <1>6 DEF TakeLine
  <2> DEFINE t == [kind |-> "received", product |-> p, quantity |-> q, price |-> u, status |-> z]
  <2>2. t.kind = "received" /\ req' = [req EXCEPT ![r] = t]
    BY <2>1
  <2> HIDE DEF t
  <2>3. /\ \A h \in single' : h \in single
        /\ req[r].kind # "adjusted" /\ (~muddled' => ~muddled) /\ UNCHANGED <<stock, log>>
    BY <1>6 DEF TakeLine, goods
  <2> QED
    BY <2>2, <2>3, MoveKept
<1>7. ASSUME NEW news, CommitReceive(r, news)
      PROVE  MoveInv'
  <2> SUFFICES ASSUME ~muddled' PROVE MovementsAgree'
    BY DEF MoveInv
  <2>1. ~muddled /\ r \in single /\ Finish(r) /\ req[r].kind = "received"
    BY <1>7 DEF CommitReceive
  <2>2. PICK p \in Products, q \in Int : p = req[r].product /\ q = req[r].quantity
    BY <2>1, RequestFields DEF StoreFrame, StoreInv, Typed
  <2>3. /\ stock' = [stock EXCEPT ![p] = stock[p] + q]
        /\ log' = [log EXCEPT ![p] = log[p] + q]
    BY <1>7, <2>2 DEF CommitReceive, Move
  <2>4. \A o \in Staff : req[o].kind # "adjusted"
    BY <1>0, <2>1, SingleCommits
  <2> QED
    BY <2>1, <2>3, <2>4, SingleCommits, MoveWhole DEF MoveInv
<1> QED
  BY <1>2, <1>3, <1>4, <1>5, <1>6, <1>7 DEF Order

LEMMA MoveKeep ==
  ASSUME StoreConstants, StoreFrame, MoveInv, NEW r \in Staff, Keep(r)
  PROVE  MoveInv'
<1>0. /\ Idle.kind = "idle" /\ single \in SUBSET Staff
      /\ stock \in [Products -> Nat] /\ log \in [Products -> Int]
      /\ req \in [Staff -> Request] /\ batch \in [Batches -> {NoBatch} \cup Made]
      /\ \A p \in Products : FirstStock[p] \in Nat
  BY DEF Idle, StoreFrame, StoreInv, Typed, TypeOK, StoreConstants
<1>1. ASSUME NEW t, t.kind # "adjusted", Start(r, t), UNCHANGED <<goods, muddled>>,
             t.kind = "adjust" => t.stock = stock[t.product]
      PROVE  MoveInv'
  <2>1. /\ req' = [req EXCEPT ![r] = t] /\ \A h \in single' : h = r
        /\ req[r].kind # "adjusted"
    BY <1>0, <1>1 DEF Start
  <2>2. ~muddled' => ~muddled
    BY <1>1
  <2> QED
    BY <1>1, <2>1, <2>2, MoveKept DEF goods
<1>2. ASSUME NEW p \in Products, NEW n \in Adjustments, BeginAdjust(r, p, n)
      PROVE  MoveInv'
  BY <1>1, <1>2 DEF BeginAdjust
<1>3. ASSUME NEW b \in Batches, NEW status \in BatchStatus, BeginBatch(r, b, status)
      PROVE  MoveInv'
  BY <1>1, <1>3 DEF BeginBatch
<1>4. CASE WriteAdjust(r)
  <2> SUFFICES ASSUME ~muddled' PROVE MovementsAgree'
    BY DEF MoveInv
  <2>1. ~muddled /\ r \in single /\ req[r].kind = "adjust" /\ MovementsAgree
    BY <1>4 DEF WriteAdjust, MoveInv
  <2>2. \A o \in Staff \ {r} : req[o] = Idle
    BY <2>1 DEF StoreFrame, SingleInv, Others
  <2>3. PICK p \in Products, n \in Int : p = req[r].product /\ n = req[r].quantity
    BY <1>0, <2>1, RequestFields
  <2>4. req[r].stock = stock[p]
    BY <2>1, <2>3 DEF MovementsAgree
  <2>5. /\ stock' = [stock EXCEPT ![p] = stock[p] + n]
        /\ req' = [req EXCEPT ![r] = [kind |-> "adjusted", product |-> p, quantity |-> n]]
        /\ log' = log /\ single' = single
    BY <1>4, <2>3, <2>4 DEF WriteAdjust
  <2>6. /\ \A o \in Staff : o # r => req'[o] = Idle
        /\ req'[r] = [kind |-> "adjusted", product |-> p, quantity |-> n]
    BY <1>0, <2>2, <2>5
  <2>7. /\ req'[r].kind = "adjusted" /\ req'[r].product = p /\ req'[r].quantity = n
        /\ \A o \in Staff : o # r => req'[o].kind = "idle"
    BY <1>0, <2>6
  <2>8. \A x \in Products : stock[x] = FirstStock[x] + log[x]
    BY <1>0, <2>1, <2>2 DEF MovementsAgree, Ahead, Balanced
  <2>9. stock'[p] = FirstStock[p] + log[p] + n /\ \A x \in Products : x # p => stock'[x] = stock[x]
    BY <1>0, <2>5, <2>8
  <2> QED
    BY <1>0, <2>5, <2>7, <2>8, <2>9 DEF MovementsAgree, Ahead, Balanced
<1>5. CASE LogAdjust(r)
  <2> SUFFICES ASSUME ~muddled' PROVE MovementsAgree'
    BY DEF MoveInv
  <2>1. /\ ~muddled /\ r \in single /\ req[r].kind = "adjusted" /\ Finish(r)
        /\ MovementsAgree
    BY <1>5 DEF LogAdjust, MoveInv
  <2>2. PICK p \in Products, n \in Int : p = req[r].product /\ n = req[r].quantity
    BY <1>0, <2>1, RequestFields
  <2>3. stock' = stock /\ log' = [log EXCEPT ![p] = log[p] + n]
    BY <1>5, <2>2 DEF LogAdjust, Move
  <2>4. /\ \A o \in Staff : req'[o].kind = "idle" /\ (o # r => req[o].kind = "idle")
        /\ single' \in SUBSET Staff
    BY <1>0, <2>1, SingleCommits
  <2>5. stock[p] = FirstStock[p] + log[p] + n
    BY <2>1, <2>2 DEF MovementsAgree, Ahead
  <2>6. \A x \in Products : x # p => stock[x] = FirstStock[x] + log[x]
    BY <2>1, <2>2, <2>4 DEF MovementsAgree, Ahead, Balanced
  <2>7. \A x \in Products : stock'[x] = FirstStock[x] + log'[x]
    BY <1>0, <2>3, <2>5, <2>6
  <2> QED
    BY <2>4, <2>7 DEF MovementsAgree, Ahead, Balanced
<1>6. CASE CommitBatch(r)
  <2> SUFFICES ASSUME ~muddled' PROVE MovementsAgree'
    BY DEF MoveInv
  <2>1. /\ ~muddled /\ r \in single /\ req[r].kind = "batch" /\ Finish(r)
        /\ MovementsAgree
    BY <1>6 DEF CommitBatch, MoveInv
  <2>2. PICK b \in Batches, k \in Nat :
          b = req[r].batch /\ k = req[r].quantity /\ batch[b] \in Made
    BY <1>0, <2>1, RequestFields DEF StoreFrame, StoreInv, ChangesFit
  <2>3. PICK p \in Products, out \in Nat :
          p = batch[b].product /\ out = IF req[r].status = "written_off" THEN k ELSE 0
    BY <2>2 DEF Made
  <2>4. /\ stock' = [stock EXCEPT ![p] = StockAfter(stock[p], out)]
        /\ log' = [log EXCEPT ![p] = log[p] + (-out)]
        /\ ~(out > stock[p])
    BY <1>6, <2>2, <2>3 DEF CommitBatch, Move
  <2>5. StockAfter(stock[p], out) = stock[p] + (-out)
    BY <1>0, <2>4 DEF StockAfter, Greatest0
  <2>6. stock' = [stock EXCEPT ![p] = stock[p] + (-out)]
    BY <2>4, <2>5
  <2>7. \A o \in Staff : req[o].kind # "adjusted"
    BY <1>0, <2>1, SingleCommits
  <2>8. -out \in Int
    OBVIOUS
  <2> QED
    BY <2>1, <2>4, <2>6, <2>7, <2>8, SingleCommits, MoveWhole
<1> QED
  BY <1>2, <1>3, <1>4, <1>5, <1>6 DEF Keep

LEMMA MoveStep ==
  ASSUME StoreConstants, StoreFrame, MoveInv, [Next]_vars
  PROVE  MoveInv'
<1>0. /\ Idle.kind = "idle" /\ single \in SUBSET Staff /\ stock \in [Products -> Nat]
  BY DEF Idle, StoreFrame, StoreInv, Typed, TypeOK
<1>1. ASSUME NEW r \in Staff, Fail(r)
      PROVE  MoveInv'
  <2>1. /\ req' = [req EXCEPT ![r] = Idle] /\ \A h \in single' : h \in single
        /\ UNCHANGED <<stock, log>>
    BY <1>1 DEF Fail, Finish, goods
  <2>2. ~muddled' => ~muddled /\ req[r].kind # "adjusted"
    BY <1>1 DEF Fail
  <2> QED
    BY <1>0, <2>1, <2>2, MoveKept
<1>2. ASSUME NEW p \in Products, NEW n \in 1..MaxIssue, Approve(p, n)
      PROVE  MoveInv'
  <2> SUFFICES ASSUME ~muddled' PROVE MovementsAgree'
    BY DEF MoveInv
  <2>1. ~muddled /\ ~(n > stock[p]) /\ \A o \in Staff : req[o] = Idle
    BY <1>2 DEF Approve
  <2>2. /\ stock' = [stock EXCEPT ![p] = StockAfter(stock[p], n)]
        /\ log' = [log EXCEPT ![p] = log[p] + (-n)] /\ UNCHANGED <<req, single>>
    BY <1>2 DEF Approve, Move
  <2>3. StockAfter(stock[p], n) = stock[p] + (-n) /\ -n \in Int
    BY <1>0, <2>1 DEF StockAfter, Greatest0, StoreConstants
  <2>4. stock' = [stock EXCEPT ![p] = stock[p] + (-n)]
    BY <2>2, <2>3
  <2> QED
    BY <1>0, <2>1, <2>2, <2>3, <2>4, MoveWhole DEF MoveInv
<1>3. CASE UNCHANGED vars
  BY <1>3 DEF vars, goods, MoveInv, MovementsAgree, Ahead, Balanced
<1> QED
  BY <1>1, <1>2, <1>3, MoveOrder, MoveKeep DEF Next

(* Between handlers the movements add up to the change of the stock.       *)
THEOREM MovementsAddUp == ASSUME StoreConstants PROVE Spec => []StockMatchesMovements
<1>1. StoreConstants /\ Init => MoveInv
  BY DEF Init, MoveInv, MovementsAgree, Ahead, Balanced, Idle, StoreConstants
<1>2. MoveInv => StockMatchesMovements
  <2>1. \A r \in Staff : req[r] = Idle => req[r].kind # "adjusted"
    BY DEF Idle
  <2> QED
    BY <2>1 DEF MoveInv, MovementsAgree, Ahead, Balanced, StockMatchesMovements
<1> QED
  BY FrameAlways, MoveStep, <1>1, <1>2, PTL DEF Spec
-----------------------------------------------------------------------------
(* The order's status: a single handler acts on the status it has read,    *)
(* and a receipt on the lines it has read.                                 *)

OrderAsRead(h) ==
    /\ req[h].kind \in {"place", "edit"} => po = "draft"
    /\ req[h].kind = "cancel" => po \in {"draft", "ordered"}
    /\ req[h].kind \in {"receive", "received"} => po \in {"ordered", "partial"}
    /\ req[h].kind = "received" =>
          LET p == req[h].product IN
          req[h].status = StatusAfter([received EXCEPT ![p] = received[p] + req[h].quantity])

OrderInv == StatusTellsReceipts /\ (~muddled => \A h \in single : OrderAsRead(h))

LEMMA OrderKept ==
  ASSUME StoreFrame, OrderInv, NEW r \in Staff, NEW t,
         req' = [req EXCEPT ![r] = t],
         t.kind \notin {"place", "edit", "cancel", "receive", "received"},
         \A h \in single' : h = r \/ h \in single,
         ~muddled' => ~muddled, UNCHANGED <<po, received>>
  PROVE  OrderInv'
<1>1. /\ \A o \in Staff : o # r => req'[o] = req[o]
      /\ req'[r] = t /\ single \in SUBSET Staff
  BY DEF StoreFrame, StoreInv, Typed, TypeOK
<1>2. StatusTellsReceipts'
  BY DEF OrderInv, StatusTellsReceipts
<1>3. ASSUME ~muddled', NEW h \in single'
      PROVE  OrderAsRead(h)'
  <2>1. CASE h = r
    BY <1>1, <2>1 DEF OrderAsRead
  <2>2. CASE h # r
    <3>1. h \in single /\ h \in Staff /\ OrderAsRead(h)
      BY <1>1, <1>3, <2>2 DEF OrderInv
    <3> QED
      BY <1>1, <2>2, <3>1 DEF OrderAsRead
  <2> QED
    BY <2>1, <2>2
<1> QED
  BY <1>2, <1>3 DEF OrderInv

LEMMA OrderBegins ==
  ASSUME StoreFrame, OrderInv, NEW r \in Staff, NEW t, Start(r, t),
         UNCHANGED <<po, received, muddled>>,
         t.kind \in {"place", "edit"} => po = "draft",
         t.kind = "cancel" => po \in {"draft", "ordered"},
         t.kind = "receive" => po \in {"ordered", "partial"},
         t.kind # "received"
  PROVE  OrderInv'
<1>1. req'[r] = t /\ \A h \in single' : h = r
  BY SingleStart DEF StoreFrame
<1>2. StatusTellsReceipts'
  BY DEF OrderInv, StatusTellsReceipts
<1>3. \A h \in single' : OrderAsRead(h)'
  BY <1>1 DEF OrderAsRead
<1> QED
  BY <1>2, <1>3 DEF OrderInv

(* Lines that are full, or not.                                            *)
LEMMA StatusMeans ==
  ASSUME NEW n \in [Products -> Nat], StoreConstants, \A p \in Products : n[p] <= Ordered[p]
  PROVE  /\ StatusAfter(n) = "received" <=> \A p \in Products : n[p] = Ordered[p]
         /\ StatusAfter(n) \in {"received", "partial"}
BY DEF StatusAfter, StoreConstants

LEMMA OrderOrder ==
  ASSUME StoreConstants, StoreFrame, StoreFrame', OrderInv, NEW r \in Staff, Order(r)
  PROVE  OrderInv'
<1>0. /\ received \in [Products -> Nat] /\ req \in [Staff -> Request] /\ single \in SUBSET Staff
      /\ received' \in [Products -> Nat]
      /\ \A p \in Products : received[p] <= Ordered[p] /\ received'[p] <= Ordered[p]
  BY DEF StoreFrame, StoreInv, Typed, TypeOK, ReceivedWithinOrdered
<1>1. ASSUME NEW kind \in {"place", "edit", "cancel"}, BeginOrder(r, kind)
      PROVE  OrderInv'
  BY <1>1, OrderBegins DEF BeginOrder
<1>3. CASE CommitStatus(r)
  <2> SUFFICES ASSUME ~muddled' PROVE StatusTellsReceipts' /\ \A h \in single' : OrderAsRead(h)'
    BY <1>3 DEF OrderInv, StatusTellsReceipts
  <2>1. /\ ~muddled /\ r \in single /\ Finish(r) /\ received' = received
        /\ req[r].kind \in {"place", "cancel"}
        /\ po' = IF req[r].kind = "place" THEN "ordered" ELSE "cancelled"
    BY <1>3 DEF CommitStatus
  <2>2. single' = {}
    <3>1. req[r] # Idle
      BY <2>1 DEF Idle
    <3> QED
      BY <2>1, <3>1, SingleAtWork DEF StoreFrame, Finish
  <2>3. po \in {"draft", "ordered"} /\ StatusTellsReceipts
    BY <2>1 DEF OrderInv, OrderAsRead
  <2>4. \A p \in Products : received[p] = 0
    BY <2>1, <2>3 DEF StatusTellsReceipts
  <2> QED
    BY <2>1, <2>2, <2>4 DEF StatusTellsReceipts, StoreConstants
<1>4. CASE CommitEdit(r)
  <2> SUFFICES ASSUME ~muddled' PROVE StatusTellsReceipts' /\ \A h \in single' : OrderAsRead(h)'
    BY <1>4 DEF OrderInv, StatusTellsReceipts
  <2>1. /\ ~muddled /\ r \in single /\ req[r].kind = "edit"
        /\ received' = [p \in Products |-> 0] /\ po' = po /\ single' = single \ {r}
    BY <1>4 DEF CommitEdit
  <2>2. req[r] # Idle
    BY <2>1 DEF Idle
  <2>3. single' = {}
    BY <2>1, <2>2, SingleAtWork DEF StoreFrame
  <2>4. po = "draft"
    BY <2>1 DEF OrderInv, OrderAsRead
  <2> QED
    BY <2>1, <2>3, <2>4 DEF StatusTellsReceipts, StoreConstants
<1>5. CASE BeginReceive(r)
  BY <1>5, OrderBegins DEF BeginReceive
<1>6. ASSUME NEW p \in Products, NEW u \in Prices, NEW q \in 1..Ordered[p], TakeLine(r, p, q, u)
      PROVE  OrderInv'
  <2>1. PICK z :
          /\ z = StatusAfter([received EXCEPT ![p] = received[p] + q])
          /\ req' = [req EXCEPT ![r] =
               [kind |-> "received", product |-> p, quantity |-> q, price |-> u, status |-> z]]
    BY <1>6 DEF TakeLine
  <2>2. /\ req[r].kind = "receive" /\ UNCHANGED <<po, received, single, muddled>>
    BY <1>6 DEF TakeLine
  <2>3. StatusTellsReceipts'
    BY <2>2 DEF OrderInv, StatusTellsReceipts
  <2>4. ASSUME ~muddled, NEW h \in single
        PROVE  OrderAsRead(h)'
    <3>1. req[r] # Idle
      BY <2>2 DEF Idle
    <3>2. h = r
      BY <2>4, <3>1, SingleAtWork DEF StoreFrame
    <3>3. po \in {"ordered", "partial"}
      BY <2>2, <2>4, <3>2 DEF OrderInv, OrderAsRead
    <3>4. /\ req'[r].kind = "received" /\ req'[r].product = p /\ req'[r].quantity = q
          /\ req'[r].status = z
      BY <1>0, <2>1
    <3> QED
      BY <2>1, <2>2, <3>2, <3>3, <3>4 DEF OrderAsRead
  <2> QED
    BY <2>2, <2>3, <2>4 DEF OrderInv
<1>7. ASSUME NEW news, CommitReceive(r, news)
      PROVE  OrderInv'
  <2> SUFFICES ASSUME ~muddled' PROVE StatusTellsReceipts' /\ \A h \in single' : OrderAsRead(h)'
    BY <1>7 DEF OrderInv, StatusTellsReceipts
  <2>1. ~muddled /\ r \in single /\ Finish(r) /\ req[r].kind = "received"
    BY <1>7 DEF CommitReceive
  <2>2. req[r] # Idle
    BY <2>1 DEF Idle
  <2>3. single' = {}
    BY <2>1, <2>2, SingleAtWork DEF StoreFrame, Finish
  <2>4. PICK p \in Products, q \in Nat \ {0} : p = req[r].product /\ q = req[r].quantity
    BY <1>0, <2>1, RequestFields
  <2>5. /\ received' = [received EXCEPT ![p] = received[p] + q]
        /\ po' = req[r].status
    BY <1>7, <2>4 DEF CommitReceive
  <2>6. po' = StatusAfter(received')
    BY <2>1, <2>4, <2>5 DEF OrderInv, OrderAsRead
  <2>7. PICK n \in [Products -> Nat] : n = received'
    BY <1>0
  <2>8. /\ po' = "received" <=> \A x \in Products : received'[x] = Ordered[x]
        /\ po' \in {"received", "partial"}
    BY <1>0, <2>6, <2>7, StatusMeans
  <2>9. received'[p] > 0
    BY <1>0, <2>5
  <2> QED
    BY <2>3, <2>8, <2>9 DEF StatusTellsReceipts
<1> QED
  BY <1>1, <1>3, <1>4, <1>5, <1>6, <1>7 DEF Order

LEMMA OrderStep ==
  ASSUME StoreConstants, StoreFrame, StoreFrame', OrderInv, [Next]_vars
  PROVE  OrderInv'
<1>0. Idle.kind = "idle"
  BY DEF Idle
<1>1. ASSUME NEW r \in Staff, req' = [req EXCEPT ![r] = Idle], single' = single \ {r},
             ~muddled' => ~muddled, UNCHANGED <<po, received>>
      PROVE  OrderInv'
  BY <1>0, <1>1, OrderKept
<1>2. ASSUME NEW r \in Staff, Fail(r)
      PROVE  OrderInv'
  BY <1>1, <1>2 DEF Fail, Finish
<1>3. ASSUME NEW r \in Staff, Keep(r)
      PROVE  OrderInv'
  <2>1. ASSUME NEW p \in Products, NEW n \in Adjustments, BeginAdjust(r, p, n)
        PROVE  OrderInv'
    BY <2>1, OrderBegins DEF BeginAdjust
  <2>2. CASE WriteAdjust(r)
    <3>1. PICK p, n : /\ req' = [req EXCEPT ![r] = [kind |-> "adjusted", product |-> p, quantity |-> n]]
                      /\ UNCHANGED <<po, received, single>> /\ (~muddled' => ~muddled)
      BY <2>2 DEF WriteAdjust
    <3> DEFINE t == [kind |-> "adjusted", product |-> p, quantity |-> n]
    <3>2. t.kind = "adjusted" /\ req' = [req EXCEPT ![r] = t]
      BY <3>1
    <3> HIDE DEF t
    <3> QED
      BY <3>1, <3>2, OrderKept
  <2>3. CASE LogAdjust(r)
    BY <1>1, <2>3 DEF LogAdjust, Finish
  <2>4. ASSUME NEW b \in Batches, NEW status \in BatchStatus, BeginBatch(r, b, status)
        PROVE  OrderInv'
    BY <2>4, OrderBegins DEF BeginBatch
  <2>5. CASE CommitBatch(r)
    BY <1>1, <2>5 DEF CommitBatch, Finish
  <2> QED
    BY <1>3, <2>1, <2>2, <2>3, <2>4, <2>5 DEF Keep
<1>4. ASSUME UNCHANGED <<po, received, req, single>>, ~muddled' => ~muddled
      PROVE  OrderInv'
  BY <1>4 DEF OrderInv, StatusTellsReceipts, OrderAsRead
<1>5. ASSUME NEW p \in Products, NEW n \in 1..MaxIssue, Approve(p, n)
      PROVE  OrderInv'
  BY <1>4, <1>5 DEF Approve
<1>6. CASE UNCHANGED vars
  BY <1>4, <1>6 DEF vars
<1> QED
  BY <1>2, <1>3, <1>5, <1>6, OrderOrder DEF Next

(* The order's status tells what has come, unless its handlers overlap.    *)
THEOREM StatusIsTrue == ASSUME StoreConstants PROVE Spec => []StatusTellsReceipts
<1>1. StoreConstants /\ Init => OrderInv
  BY DEF Init, OrderInv, StatusTellsReceipts, StoreConstants
<1>2. OrderInv => StatusTellsReceipts
  BY DEF OrderInv
<1> QED
  BY FrameAlways, OrderStep, <1>1, <1>2, PTL DEF Spec
=============================================================================
