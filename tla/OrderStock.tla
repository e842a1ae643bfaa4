----------------------------- MODULE OrderStock -----------------------------
(***************************************************************************)
(* Morning orders of the sales representatives (SRs) and the warehouse     *)
(* stock they reserve and draw: order.controller.js, the batch consumption *)
(* it calls, and the reserved-stock job.                                   *)
(*                                                                         *)
(* Every HTTP request is a handler that reads the database first and       *)
(* writes later; other handlers run between its statements.  A database    *)
(* transaction takes effect in one step, at its COMMIT.  rejectOrder has   *)
(* no transaction: each of its UPDATEs is a step.                          *)
(***************************************************************************)
EXTENDS Sums

CONSTANTS
    Products,       \* product rows of one tenant
    Orders,         \* order rows that may be inserted during the day
    Workers,        \* SRs
    Owner,          \* the SR each order row belongs to
    Requests,       \* handlers that may be in flight at the same time
    MaxQty,         \* largest quantity of one order line
    DailyLimit,     \* 3 in the code
    InitStock,      \* products.stock at the start of the day
    InitBatch       \* how much of it is in active batches

Qty == 0..MaxQty

ASSUME FiniteRows == IsFiniteSet(Orders) /\ IsFiniteSet(Requests)
ASSUME Bounds     == MaxQty \in Nat /\ DailyLimit \in Nat \ {0}
ASSUME OwnerType  == Owner \in [Orders -> Workers]
ASSUME StockType  == InitStock \in [Products -> Nat] /\ InitBatch \in [Products -> Nat]

VARIABLES
    status,         \* orders.status, "none" before the row exists
    requested,      \* requested_qty of each line; 0 when there is no line
    stock,          \* products.stock
    reserved,       \* products.reserved_stock
    whStock,        \* warehouse_stock.quantity in the default warehouse
    batch,          \* quantity left in the active product_batches
    outBatch,       \* stock_movements 'out' rows with a batch: their sum
    outLoose,       \* the same, without a batch
    issued,         \* sr_stock_ledger order_in rows of an order: their sum
    req             \* what each handler has read and still has to do

rows == <<status, requested>>
goods == <<stock, whStock, batch, outBatch, outLoose, issued>>
vars == <<rows, reserved, goods, req>>

-----------------------------------------------------------------------------

Idle == [kind |-> "idle"]
CreateRequest == [kind : {"create"}, worker : Workers, qty : [Products -> Qty]]
DecideRequest == [kind : {"approve", "cancel"}, order : Orders]
RejectRequest == [kind : {"reject"}, order : Orders, todo : SUBSET Products]
Request == {Idle} \cup CreateRequest \cup DecideRequest \cup RejectRequest

Status == {"none", "pending", "approved", "rejected", "cancelled"}
Counted == {"pending", "approved"}      \* NOT IN ('rejected', 'cancelled')

Unclamped(n) == n               \* faulty Greatest0
Greatest0(n) == IF n < 0 THEN 0 ELSE n
Least(m, n) == IF m < n THEN m ELSE n

Lines(o) == {p \in Products : requested[o][p] > 0}
CountedOrders(w) == {o \in Orders : Owner[o] = w /\ status[o] \in Counted}

(* The count createOrder compares with the limit.  The faulty one forgets  *)
(* the orders that are already approved.                                   *)
PendingCount(w) == Cardinality({o \in Orders : Owner[o] = w /\ status[o] = "pending"})
TodaysCount(w) == Cardinality(CountedOrders(w))

(* reserved_stock after n units are released: GREATEST(0, reserved - n).   *)
Released(p, n) == Greatest0(reserved[p] - n)

(* How much of a line's reservation its approval releases when n units are *)
(* issued: all of it.  The faulty one releases what is issued.             *)
IssuedPart(o, p, n) == n
ReleasedByApproval(o, p, n) == requested[o][p]

(* consumeBatchesFEFO: what comes out of the batches, and the rest, which  *)
(* is recorded without a batch.  The faulty one records no rest when some  *)
(* batch was found.                                                        *)
Consumed(p, n) == Least(batch[p], n)
UntrackedIfNoBatch(p, n) == IF batch[p] = 0 THEN n ELSE 0
Untracked(p, n) == n - Consumed(p, n)

(* products.stock after n units of a line are issued.  The faulty one      *)
(* takes the requested quantity.                                           *)
DebitedByRequest(o, p, n) == Greatest0(stock[p] - requested[o][p])
Debited(o, p, n) == Greatest0(stock[p] - n)

Pending(p) == [o \in Orders |-> IF status[o] = "pending" THEN requested[o][p] ELSE 0]
Issued(p) == [o \in Orders |-> issued[o][p]]

Init ==
    /\ status = [o \in Orders |-> "none"]
    /\ requested = [o \in Orders |-> [p \in Products |-> 0]]
    /\ stock = InitStock
    /\ whStock = InitStock
    /\ reserved = [p \in Products |-> 0]
    /\ batch = InitBatch
    /\ outBatch = [p \in Products |-> 0]
    /\ outLoose = [p \in Products |-> 0]
    /\ issued = [o \in Orders |-> [p \in Products |-> 0]]
    /\ req = [r \in Requests |-> Idle]

-----------------------------------------------------------------------------
(* createOrder: the day's count and the available stock are read before    *)
(* the transaction that inserts the order and reserves its lines.  The     *)
(* order form sends only lines with a quantity.                            *)

BeginCreate(r, w, qty) ==
    /\ req[r] = Idle
    /\ TodaysCount(w) < DailyLimit
    /\ \E p \in Products : qty[p] > 0
    /\ \A p \in Products : qty[p] > 0 => qty[p] <= stock[p] - reserved[p]
    /\ req' = [req EXCEPT ![r] = [kind |-> "create", worker |-> w, qty |-> qty]]
    /\ UNCHANGED <<rows, reserved, goods>>

CommitCreate(r, o) ==
    /\ req[r].kind = "create"
    /\ status[o] = "none"
    /\ Owner[o] = req[r].worker
    /\ status' = [status EXCEPT ![o] = "pending"]
    /\ requested' = [requested EXCEPT ![o] = req[r].qty]
    /\ reserved' = [p \in Products |-> reserved[p] + req[r].qty[p]]
    /\ req' = [req EXCEPT ![r] = Idle]
    /\ UNCHANGED goods

(* approveOrder and cancelOrder: the pending order is read without a lock. *)
BeginDecide(r, kind, o) ==
    /\ req[r] = Idle
    /\ status[o] = "pending"
    /\ req' = [req EXCEPT ![r] = [kind |-> kind, order |-> o]]
    /\ UNCHANGED <<rows, reserved, goods>>

(* The transaction of approveOrder, with the quantities the manager chose  *)
(* for the lines (the approval form sends every line of the order and no   *)
(* other).  Its UPDATE of the order does not look at the status.           *)
CommitApprove(r, qty) ==
    LET o == req[r].order IN
    /\ req[r].kind = "approve"
    /\ \A p \in Products : qty[p] > 0 => p \in Lines(o)
    /\ stock' = [p \in Products |-> Debited(o, p, qty[p])]
    /\ reserved' = [p \in Products |-> Released(p, ReleasedByApproval(o, p, qty[p]))]
    /\ whStock' = [p \in Products |-> Greatest0(whStock[p] - qty[p])]
    /\ batch' = [p \in Products |-> batch[p] - Consumed(p, qty[p])]
    /\ outBatch' = [p \in Products |-> outBatch[p] + Consumed(p, qty[p])]
    /\ outLoose' = [p \in Products |-> outLoose[p] + Untracked(p, qty[p])]
    /\ status' = [status EXCEPT ![o] = "approved"]
    /\ issued' = [issued EXCEPT ![o] = [p \in Products |-> issued[o][p] + qty[p]]]
    /\ req' = [req EXCEPT ![r] = Idle]
    /\ UNCHANGED requested

(* The transaction of cancelOrder.                                         *)
CommitCancel(r) ==
    LET o == req[r].order IN
    /\ req[r].kind = "cancel"
    /\ reserved' = [p \in Products |-> Released(p, requested[o][p])]
    /\ status' = [status EXCEPT ![o] = "cancelled"]
    /\ req' = [req EXCEPT ![r] = Idle]
    /\ UNCHANGED <<requested, goods>>

(* rejectOrder: read the pending order, release the lines one statement at *)
(* a time, then set the status.                                            *)
BeginReject(r, o) ==
    /\ req[r] = Idle
    /\ status[o] = "pending"
    /\ req' = [req EXCEPT ![r] = [kind |-> "reject", order |-> o, todo |-> Lines(o)]]
    /\ UNCHANGED <<rows, reserved, goods>>

ReleaseLine(r, p) ==
    LET o == req[r].order IN
    /\ req[r].kind = "reject"
    /\ p \in req[r].todo
    /\ reserved' = [reserved EXCEPT ![p] = Released(p, requested[o][p])]
    /\ req' = [req EXCEPT ![r].todo = req[r].todo \ {p}]
    /\ UNCHANGED <<rows, goods>>

FinishReject(r) ==
    /\ req[r].kind = "reject"
    /\ req[r].todo = {}
    /\ status' = [status EXCEPT ![req[r].order] = "rejected"]
    /\ req' = [req EXCEPT ![r] = Idle]
    /\ UNCHANGED <<requested, reserved, goods>>

(* A handler stops between two statements: a database error, a statement   *)
(* timeout, or the server restarting.  An open transaction rolls back; the *)
(* UPDATEs a rejectOrder has already made stay.                            *)
Abort(r) ==
    /\ req[r] # Idle
    /\ req' = [req EXCEPT ![r] = Idle]
    /\ UNCHANGED <<rows, reserved, goods>>

(* The job sums the "quantity" key of the lines of open orders.  The lines *)
(* createOrder and approveOrder write have no such key (they have          *)
(* requested_qty and approved_qty), so every line counts as 0.             *)
LineQuantity(o, p) == 0

SyncReservedStock ==
    /\ reserved' = [p \in Products |->
           Total([o \in Orders |-> IF status[o] \in Counted THEN LineQuantity(o, p) ELSE 0])]
    /\ UNCHANGED <<rows, goods, req>>

-----------------------------------------------------------------------------

CreateOrder(r) ==
    \/ \E w \in Workers, qty \in [Products -> Qty] : BeginCreate(r, w, qty)
    \/ \E o \in Orders : CommitCreate(r, o)

ApproveOrder(r) ==
    \/ \E o \in Orders : BeginDecide(r, "approve", o)
    \/ \E qty \in [Products -> Qty] : CommitApprove(r, qty)

CancelOrder(r) ==
    \/ \E o \in Orders : BeginDecide(r, "cancel", o)
    \/ CommitCancel(r)

RejectOrder(r) ==
    \/ \E o \in Orders : BeginReject(r, o)
    \/ \E p \in Products : ReleaseLine(r, p)
    \/ FinishReject(r)

Next ==
    \/ \E r \in Requests :
          CreateOrder(r) \/ ApproveOrder(r) \/ CancelOrder(r) \/ RejectOrder(r) \/ Abort(r)
    \/ SyncReservedStock

Spec == Init /\ [][Next]_vars

-----------------------------------------------------------------------------
(* Properties                                                              *)

TypeOK ==
    /\ status \in [Orders -> Status]
    /\ requested \in [Orders -> [Products -> Qty]]
    /\ stock \in [Products -> Nat]
    /\ reserved \in [Products -> Nat]
    /\ whStock \in [Products -> Nat]
    /\ batch \in [Products -> Nat]
    /\ outBatch \in [Products -> Nat]
    /\ outLoose \in [Products -> Nat]
    /\ issued \in [Orders -> [Products -> Nat]]
    /\ req \in [Requests -> Request]

(* No reservation leaks: what is reserved never exceeds what the pending   *)
(* orders ask for, whatever handlers race and wherever they stop.  In      *)
(* particular nothing is reserved once no order is pending (createOrder's  *)
(* reservation, released by approve, reject and cancel).                   *)
NoReservationLeak ==
    \A p \in Products : reserved[p] <= Total(Pending(p))

(* Nothing leaves the warehouse unrecorded: the opening stock is still in  *)
(* products.stock or is in some SR's ledger, even when an order is issued  *)
(* twice (approveOrder's stock debit and its order_in entries).            *)
StockNeverLost ==
    \A p \in Products : stock[p] + Total(Issued(p)) >= InitStock[p]

(* The ledger of the SRs and the movements of the warehouse record the     *)
(* same quantity, batched or not, and the batched part is exactly what     *)
(* left the batches (consumeBatchesFEFO under approveOrder).               *)
LedgerMatchesMovements ==
    \A p \in Products :
        /\ Total(Issued(p)) = outBatch[p] + outLoose[p]
        /\ batch[p] + outBatch[p] = InitBatch[p]

(* createOrder counts the day's orders outside its transaction, so the     *)
(* limit may be overrun, but only by requests that were in flight at the   *)
(* same time: never by more than their number less one.                    *)
OverrunBounded ==
    \A w \in Workers :
        Cardinality(CountedOrders(w)) < DailyLimit + Cardinality(Requests)
=============================================================================
