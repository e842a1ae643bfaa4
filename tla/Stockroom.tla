----------------------------- MODULE Stockroom -----------------------------
(***************************************************************************)
(* The goods that come into the stockroom and leave it other than by the   *)
(* SRs' day: one purchase order (purchaseOrder.controller.js), the batches *)
(* its receipts make (batch.controller.js, batchFefo.utils.js) and manual  *)
(* adjustments of the stock (adjustStock of product.controller.js).        *)
(*                                                                         *)
(* Every handler reads what it decides on before it writes; only a receipt *)
(* and an approval read again under a lock.  A receipt locks its line and  *)
(* its product to the COMMIT, and works out the order's status before it:  *)
(* receipts of other lines that are not committed yet do not count.        *)
(*                                                                         *)
(* The order has one line for each product.  Warehouses, the supplier's    *)
(* account and expenses are left out.                                      *)
(***************************************************************************)
EXTENDS Sums

CONSTANTS
    Products,       \* the products of the order, a line each
    Ordered,        \* quantity_ordered of each line
    Prices,         \* unit costs a receipt may state, in paisa
    FirstStock,     \* products.stock before
    FirstCost,      \* products.cost_price before
    Batches,        \* rows product_batches may have, numbered by expiry date
    Adjustments,    \* quantities of manual adjustments
    MaxStock,       \* bound: no adjustment takes the stock above it
    MaxIssue,       \* largest quantity of an approval
    Staff           \* handlers that may run at the same time

(* What the theorems take for granted of them (an order has a line, and    *)
(* every line a quantity).                                                 *)
StoreConstants ==
    /\ IsFiniteSet(Batches) /\ Batches \subseteq Nat
    /\ Products # {} /\ Ordered \in [Products -> Nat \ {0}]
    /\ Prices \subseteq Nat /\ Adjustments \subseteq Int /\ MaxIssue \in Nat
    /\ FirstStock \in [Products -> Nat] /\ FirstCost \in [Products -> Nat]
    /\ MaxStock \in Nat /\ "none" \notin Staff

VARIABLES
    po,             \* purchase_orders.status
    received,       \* quantity_received of each line
    stock,          \* products.stock
    cost,           \* products.cost_price
    batch,          \* product_batches
    log,            \* sum of stock_movements, in less out, until muddled
    req,            \* what each handler is doing, and what it has read
    single,         \* history: the handler with no other beside it, until muddled
    muddled         \* history: handlers overlapped, or one stopped half-way

goods == <<stock, cost, batch, log>>
vars == <<po, received, goods, req, single, muddled>>

-----------------------------------------------------------------------------

Status == {"draft", "ordered", "partial", "received", "cancelled"}
(* "quarantine" stands for "damaged" too, and "written_off" for            *)
(* "returned_to_supplier": they differ in the expense a write-off records. *)
BatchStatus == {"none", "active", "quarantine", "written_off"}

Idle == [kind |-> "idle"]
NoBatch == [status |-> "none", product |-> "none", quantity |-> 0, made |-> 0]

(* Weighted average, rounded to the paisa (Math.round).  The faulty one    *)
(* divides by the stock before.                                            *)
Rounded(a, n) == (2 * a + n) \div (2 * n)
CostOverOld(s, c, q, u) == IF s > 0 THEN Rounded(s * c + q * u, s) ELSE u
NewCost(s, c, q, u) == IF s + q > 0 THEN Rounded(s * c + q * u, s + q) ELSE u

(* The order's status after a receipt that brings the lines to n.  The     *)
(* faulty one is done with the first full line.                            *)
AnyFull(n) == IF \E p \in Products : n[p] >= Ordered[p] THEN "received" ELSE "partial"
StatusAfter(n) == IF \A p \in Products : n[p] >= Ordered[p] THEN "received" ELSE "partial"

(* updateBatchStatus: actions a batch of this status admits.               *)
Admits(status) ==
    CASE status = "active" -> {"quarantine", "written_off"}
      [] status = "quarantine" -> {"active", "written_off"}
      [] OTHER -> {}

Unclamped(n) == n                       \* faulty Greatest0
Greatest0(n) == IF n < 0 THEN 0 ELSE n

(* consumeBatchesFEFO: the active batches of p, first to expire first,     *)
(* give what they hold until n is reached; the rest is untracked stock.    *)
(* The faulty one takes n of each.                                         *)
TakenOfEach(p, n, b) == n
TakenOf(p, n, b) ==
    LET holds == [x \in Batches |->
            IF batch[x].status = "active" /\ batch[x].product = p THEN batch[x].quantity ELSE 0]
        left == Greatest0(n - Total([x \in Batches |-> IF x < b THEN holds[x] ELSE 0])) IN
    IF left < holds[b] THEN left ELSE holds[b]

(* The movement of goods of p by n; movements are followed until handlers  *)
(* overlap.                                                                *)
Move(p, n) == log' = [log EXCEPT ![p] = IF muddled' THEN 0 ELSE log[p] + n]

(* products.stock after out of it is removed.  The faulty one sets it to   *)
(* what is left of the batch.                                              *)
Cleared(n, out) == 0
StockAfter(n, out) == Greatest0(n - out)

(* FOR UPDATE of a receipt: its line and its product until it commits.     *)
NoLock(r, p) == TRUE                    \* faulty Unlocked
Unlocked(r, p) == \A o \in Staff \ {r} : ~(req[o].kind = "received" /\ req[o].product = p)

Others(r) == \A o \in Staff \ {r} : req[o] = Idle
Start(r, rec) ==
    /\ req[r] = Idle
    /\ req' = [req EXCEPT ![r] = rec]
    /\ single' = IF Others(r) /\ ~muddled THEN {r} ELSE {}
Finish(r) ==
    /\ req' = [req EXCEPT ![r] = Idle]
    /\ single' = single \ {r}

Init ==
    /\ po = "draft"
    /\ received = [p \in Products |-> 0]
    /\ stock = FirstStock
    /\ cost = FirstCost
    /\ batch = [b \in Batches |-> NoBatch]
    /\ log = [p \in Products |-> 0]
    /\ req = [r \in Staff |-> Idle]
    /\ single = {}
    /\ muddled = FALSE

-----------------------------------------------------------------------------
(* placeOrder, updatePurchaseOrder and cancelPurchaseOrder read the status *)
(* and then write the order by its id.                                     *)
BeginOrder(r, kind) ==
    /\ po \in IF kind = "cancel" THEN {"draft", "ordered"} ELSE {"draft"}
    /\ Start(r, [kind |-> kind])
    /\ UNCHANGED <<po, received, goods, muddled>>

CommitStatus(r) ==
    /\ req[r].kind \in {"place", "cancel"}
    /\ po' = IF req[r].kind = "place" THEN "ordered" ELSE "cancelled"
    /\ muddled' = (muddled \/ r \notin single)
    /\ Finish(r)
    /\ UNCHANGED <<received, goods>>

(* An edit replaces the lines.  It waits for a receipt that has locked one;*)
(* a receipt that has not will not find its line.                          *)
CommitEdit(r) ==
    /\ req[r].kind = "edit"
    /\ \A o \in Staff : req[o].kind # "received"
    /\ received' = [p \in Products |-> 0]
    /\ req' = [o \in Staff |->
          IF o = r THEN Idle ELSE IF req[o].kind = "receive" THEN [kind |-> "lost"] ELSE req[o]]
    /\ single' = single \ {r}
    /\ muddled' = (muddled \/ r \notin single)
    /\ UNCHANGED <<po, goods>>

(* receivePurchaseOrder: the status is read; in the transaction the line   *)
(* and the product are locked, the quantity is checked, and the lines are  *)
(* read for the status.                                                    *)
BeginReceive(r) ==
    /\ po \in {"ordered", "partial"}
    /\ Start(r, [kind |-> "receive"])
    /\ UNCHANGED <<po, received, goods, muddled>>

TakeLine(r, p, q, u) ==
    /\ req[r].kind = "receive"
    /\ Unlocked(r, p)
    /\ q <= Ordered[p] - received[p]
    /\ req' = [req EXCEPT ![r] =
          [kind |-> "received", product |-> p, quantity |-> q, price |-> u,
           status |-> StatusAfter([received EXCEPT ![p] = received[p] + q])]]
    /\ UNCHANGED <<po, received, goods, single, muddled>>

(* Its COMMIT; news is the batch it makes, none if no batch was stated.    *)
CommitReceive(r, news) ==
    LET t == req[r]
        p == t.product
        q == t.quantity IN
    /\ t.kind = "received"
    /\ \A b \in news : batch[b] = NoBatch
    /\ received' = [received EXCEPT ![p] = received[p] + q]
    /\ stock' = [stock EXCEPT ![p] = stock[p] + q]
    /\ cost' = [cost EXCEPT ![p] = NewCost(stock[p], cost[p], q, t.price)]
    /\ batch' = [b \in Batches |-> IF b \in news
          THEN [status |-> "active", product |-> p, quantity |-> q, made |-> q] ELSE batch[b]]
    /\ po' = t.status
    /\ muddled' = (muddled \/ r \notin single)
    /\ Move(p, q)
    /\ Finish(r)

(* approveOrder under the product's lock: the goods of a morning order     *)
(* leave, out of the batches that expire first; the stock stops at 0.      *)
Approve(p, n) ==
    /\ Unlocked("none", p)
    /\ stock' = [stock EXCEPT ![p] = StockAfter(stock[p], n)]
    /\ batch' = [b \in Batches |->
          [batch[b] EXCEPT !.quantity = batch[b].quantity - TakenOf(p, n, b)]]
    /\ muddled' = (muddled \/ n > stock[p] \/ \E r \in Staff : req[r] # Idle)
    /\ Move(p, -n)
    /\ UNCHANGED <<po, received, cost, req, single>>

(* adjustStock: three statements without a transaction.  The stock is      *)
(* read, written back with the quantity added, and the movement recorded.  *)
BeginAdjust(r, p, n) ==
    /\ stock[p] + n \in 0..MaxStock
    /\ Start(r, [kind |-> "adjust", product |-> p, quantity |-> n, stock |-> stock[p]])
    /\ UNCHANGED <<po, received, goods, muddled>>

WriteAdjust(r) ==
    LET t == req[r] IN
    /\ t.kind = "adjust"
    /\ Unlocked(r, t.product)
    /\ stock' = [stock EXCEPT ![t.product] = t.stock + t.quantity]
    /\ req' = [req EXCEPT ![r] = [kind |-> "adjusted", product |-> t.product, quantity |-> t.quantity]]
    /\ muddled' = (muddled \/ r \notin single)
    /\ UNCHANGED <<po, received, cost, batch, log, single>>

LogAdjust(r) ==
    LET t == req[r] IN
    /\ t.kind = "adjusted"
    /\ muddled' = (muddled \/ r \notin single)
    /\ Move(t.product, t.quantity)
    /\ Finish(r)
    /\ UNCHANGED <<po, received, stock, cost, batch>>

(* updateBatchStatus: status and quantity of the batch are read, and both  *)
(* are written by its id; a removal takes the quantity read off the stock. *)
BeginBatch(r, b, status) ==
    /\ status \in Admits(batch[b].status)
    /\ Start(r, [kind |-> "batch", batch |-> b, status |-> status, quantity |-> batch[b].quantity])
    /\ UNCHANGED <<po, received, goods, muddled>>

CommitBatch(r) ==
    LET t == req[r]
        b == t.batch
        p == batch[b].product
        out == IF t.status = "written_off" THEN t.quantity ELSE 0 IN
    /\ t.kind = "batch"
    /\ out > 0 => Unlocked(r, p)
    /\ batch' = [batch EXCEPT ![b].status = t.status, ![b].quantity = t.quantity - out]
    /\ stock' = [stock EXCEPT ![p] = StockAfter(stock[p], out)]
    /\ muddled' = (muddled \/ r \notin single \/ out > stock[p])
    /\ Move(p, -out)
    /\ Finish(r)
    /\ UNCHANGED <<po, received, cost>>

(* A handler is refused, or fails: an adjustment after its first write.    *)
Fail(r) ==
    /\ req[r] # Idle
    /\ muddled' = (muddled \/ req[r].kind = "adjusted")
    /\ Finish(r)
    /\ UNCHANGED <<po, received, goods>>

-----------------------------------------------------------------------------

Order(r) ==
    \/ \E kind \in {"place", "edit", "cancel"} : BeginOrder(r, kind)
    \/ CommitStatus(r) \/ CommitEdit(r)
    \/ BeginReceive(r)
    \/ \E p \in Products, u \in Prices : \E q \in 1..Ordered[p] : TakeLine(r, p, q, u)
    \/ \E b \in Batches : CommitReceive(r, {b})
    \/ CommitReceive(r, {})

Keep(r) ==
    \/ \E p \in Products, n \in Adjustments : BeginAdjust(r, p, n)
    \/ WriteAdjust(r) \/ LogAdjust(r)
    \/ \E b \in Batches, status \in BatchStatus : BeginBatch(r, b, status)
    \/ CommitBatch(r)

Next ==
    \/ \E r \in Staff : Order(r) \/ Keep(r) \/ Fail(r)
    \/ \E p \in Products, n \in 1..MaxIssue : Approve(p, n)

Spec == Init /\ [][Next]_vars

-----------------------------------------------------------------------------
(* Properties                                                              *)

TypeOK ==
    /\ po \in Status
    /\ received \in [Products -> Nat]
    /\ stock \in [Products -> Nat]
    /\ cost \in [Products -> Nat]
    /\ batch \in [Batches -> {NoBatch} \cup
          [status : BatchStatus, product : Products, quantity : Nat, made : Nat]]
    /\ log \in [Products -> Int]
    /\ DOMAIN req = Staff
    /\ single \in SUBSET Staff /\ muddled \in BOOLEAN

(* However many receipts of a line are under way, the order never takes in *)
(* more of it than was ordered (receivePurchaseOrder, the lock of the      *)
(* line).                                                                  *)
ReceivedWithinOrdered ==
    \A p \in Products : received[p] <= Ordered[p]

(* The order's status tells what has come, as long as its handlers do not  *)
(* overlap: it is received when every line is full and partial when some   *)
(* goods have come, and nothing has come for one that is a draft or was    *)
(* cancelled (receivePurchaseOrder, cancelPurchaseOrder).                  *)
StatusTellsReceipts ==
    ~muddled =>
        /\ po = "received" <=> \A p \in Products : received[p] = Ordered[p]
        /\ po = "partial" => \E p \in Products : received[p] > 0
        /\ po \in {"draft", "ordered", "cancelled"} => \A p \in Products : received[p] = 0

(* The weighted average never leaves the range of the prices paid, however *)
(* receipts, removals and adjustments follow each other                    *)
(* (receivePurchaseOrder, step 2).                                         *)
CostWithinPrices ==
    \A p \in Products :
        \E low, high \in Prices \cup {FirstCost[p]} : cost[p] \in low..high

(* Between handlers the movements add up to the change of the stock, unless*)
(* two overlapped, an adjustment stopped half-way or more was taken than   *)
(* the stock held.                                                         *)
StockMatchesMovements ==
    ~muddled /\ (\A r \in Staff : req[r] = Idle) =>
        \A p \in Products : stock[p] = FirstStock[p] + log[p]

(* A batch never holds less than nothing or more than came with it, not    *)
(* even when a change of its status puts back goods that an approval has   *)
(* taken since (updateBatchStatus, consumeBatchesFEFO).                    *)
BatchWithinReceived ==
    \A b \in Batches : batch[b].quantity \in 0..batch[b].made
=============================================================================
