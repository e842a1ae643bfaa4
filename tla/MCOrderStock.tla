---------------------------- MODULE MCOrderStock ----------------------------
(***************************************************************************)
(* OrderStock for TLC: constants of the instances, and the properties that *)
(* the code's comments state but its handlers do not keep.                 *)
(***************************************************************************)
EXTENDS OrderStock, TLC

CONSTANTS StockPerProduct, BatchPerProduct, AnyWorker

MCOwner == [o \in Orders |-> AnyWorker]
MCStock == [p \in Products |-> StockPerProduct]
MCBatch == [p \in Products |-> BatchPerProduct]

(* Rows and handlers are interchangeable: all orders have the same owner   *)
(* and all products the same stock.                                        *)
Symmetry == Permutations(Products) \cup Permutations(Orders) \cup Permutations(Requests)

-----------------------------------------------------------------------------
(* Only SRs placing orders, and the job.                                   *)
CreateAndSync ==
    Init /\ [][SyncReservedStock \/ \E r \in Requests : CreateOrder(r)]_vars

(* reservedStock.job.js:6-7: the job recalculates reserved_stock so that   *)
(* stale data does not make available_stock wrong.  What is reserved then  *)
(* covers the pending orders.                                              *)
PendingCovered ==
    \A p \in Products : reserved[p] >= Total(Pending(p))

(* order.controller.js:757: only a pending order can be cancelled (and     *)
(* only a pending one rejected).  A cancelled or rejected order has issued *)
(* no goods then.                                                          *)
CancelledNeverIssued ==
    \A o \in Orders : status[o] \in {"rejected", "cancelled"} =>
        \A p \in Products : issued[o][p] = 0
=============================================================================
