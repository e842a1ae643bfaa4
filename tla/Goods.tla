------------------------------- MODULE Goods -------------------------------
(***************************************************************************)
(* The two ways goods leave and enter the stock beside the morning orders: *)
(* the sales of the SRs (SrSale) and the stockroom (Stockroom), side by    *)
(* side.  They meet only in products.stock, and each has actions that      *)
(* stand for what the other does to it (the gifts, Reserve, Approve), so   *)
(* the products of one are not those of the other here.                    *)
(*                                                                         *)
(* BothSpec interleaves their handlers in any order.  Their steps commute, *)
(* so TLC follows one of the two in a behaviour, chosen in its initial     *)
(* state (GoodsSpec); the theorems of GoodsProofs are about BothSpec.      *)
(***************************************************************************)
EXTENDS SrSale

CONSTANTS
    Products, Ordered, Prices, FirstStock, FirstCost, Batches, Adjustments, MaxStock,
    MaxIssue, Staff

VARIABLES part, po, received, roomStock, cost, batch, log, staffReq, single, muddled

Store == INSTANCE Stockroom WITH stock <- roomStock, req <- staffReq

ASSUME StoreConstantsHold == Store!StoreConstants

(* The variables of the stockroom.                                         *)
storeVars == <<po, received, roomStock, cost, batch, log, staffReq, single, muddled>>

BothInit == Init /\ Store!Init

BothNext ==
    \/ Next /\ UNCHANGED storeVars
    \/ Store!Next /\ UNCHANGED vars

BothSpec == BothInit /\ [][BothNext]_<<vars, storeVars>>

GoodsInit ==
    /\ part \in {"sales", "stockroom"}
    /\ BothInit

GoodsNext ==
    \/ part = "sales" /\ Next /\ UNCHANGED <<part, storeVars>>
    \/ part = "stockroom" /\ Store!Next /\ UNCHANGED <<part, vars>>

GoodsSpec == GoodsInit /\ [][GoodsNext]_<<part, vars, storeVars>>

-----------------------------------------------------------------------------
(* The properties of the stockroom, as Stockroom states them.              *)
StoreTypeOK == Store!TypeOK

(* A line never takes in more than was ordered (receivePurchaseOrder).     *)
ReceivedWithinOrdered == Store!ReceivedWithinOrdered

(* The order's status tells what has come (receivePurchaseOrder,           *)
(* cancelPurchaseOrder).                                                   *)
StatusTellsReceipts == Store!StatusTellsReceipts

(* The average cost stays within the prices paid (receivePurchaseOrder).   *)
CostWithinPrices == Store!CostWithinPrices

(* Movements and stock agree (every handler that writes stock_movements).  *)
StockMatchesMovements == Store!StockMatchesMovements

(* A batch holds at most what came with it (updateBatchStatus,             *)
(* consumeBatchesFEFO).                                                    *)
BatchWithinReceived == Store!BatchWithinReceived
=============================================================================
