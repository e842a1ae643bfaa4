----------------------------- MODULE Settlement -----------------------------
(***************************************************************************)
(* The end of an SR's day: the settlement he submits, the manager's        *)
(* decision on it, the warehouse's count of what he returns, and the dues  *)
(* all of these charge him: settlement.controller.js,                      *)
(* settlementReturns.controller.js and dues.service.js.                    *)
(*                                                                         *)
(* One SR is modelled: no query here joins two of them.  As in OrderStock, *)
(* a handler reads first and writes in a transaction later, in one step.   *)
(* None of these transactions looks at the row again, so what a handler    *)
(* read may be stale when it commits.                                      *)
(***************************************************************************)
EXTENDS Sums

CONSTANTS
    Products,
    Settlements,    \* daily_settlements rows of the SR that may be inserted
    Requests,       \* handlers that may be in flight at the same time
    Price,          \* the price of a product, in taka
    MaxQty,         \* bound on a number in a body, on the hand and a day's sales
    MaxCash,        \* bound on the cash missing from a day's collection
    MaxCharge,      \* no more decisions or payments once they reach this much
    MaxDay          \* days of the instance

Qty == 0..MaxQty
Days == 1..MaxDay

ASSUME FiniteRows == IsFiniteSet(Settlements) /\ IsFiniteSet(Products)
ASSUME Bounds == {MaxQty, MaxCash, MaxCharge} \subseteq Nat /\ MaxDay \in Nat \ {0}
ASSUME PriceType == Price \in [Products -> Nat]

VARIABLES
    hand,           \* SUM(qty * direction) of sr_stock_ledger
    sold,           \* units sold by today's sales_transactions
    replaced,       \* units they took back as replaced
    today,
    day,            \* settlement_date of each row
    status,         \* daily_settlements.status, "none" before the row exists
    short,          \* shortage_qty_value
    cash,           \* the cash shortfall: -cash_difference, or 0
    receipt,        \* settlement_return_receipts, one per row and product
    stock,          \* what receipts have added to products.stock
    charged,        \* dues_ledger rows of approve and dispute: their sum
    extra,          \* dues_ledger rows of charged discrepancies: their sum
    paid,           \* shortage_payments rows of a settlement: their sum
    dues,           \* users.outstanding_dues
    req             \* what each handler has read and still has to do

field == <<hand, sold, replaced, today>>
rows == <<day, status, short, cash>>
money == <<charged, extra, paid, dues>>
vars == <<field, rows, receipt, stock, money, req>>

-----------------------------------------------------------------------------

Idle == [kind |-> "idle"]
SettleRequest ==
    [kind : {"settle"}, day : Days, taken : [Products -> Int], carried : [Products -> Qty],
     returned : [Products -> Qty], missing : [Products -> Nat], cash : 0..MaxCash]
DecideRequest == [kind : {"approve", "dispute"}, row : Settlements, short : Nat, cash : Nat]
ReceiveRequest == [kind : {"receive"}, row : Settlements, product : Products, got : Qty]
ResolveRequest ==
    [kind : {"resolve"}, row : Settlements, product : Products, value : Int,
     resolution : {"charged", "waived"}]
Request == {Idle} \cup SettleRequest \cup DecideRequest \cup ReceiveRequest \cup ResolveRequest

Status == {"none", "pending", "approved", "disputed"}
Receipt == [status : {"none", "pending", "received", "discrepancy"}, claimed : Nat,
            got : Nat, resolution : {"none", "charged", "waived"}]

(* The receipt of a product the SR returns n units of; there is none for   *)
(* n = 0.                                                                  *)
Claim(n) == [status |-> IF n > 0 THEN "pending" ELSE "none", claimed |-> n, got |-> 0,
             resolution |-> "none"]

(* A receipt once n units of it were counted.                              *)
CountOf(c, n) == [status |-> IF n = c.claimed THEN "received" ELSE "discrepancy",
                  claimed |-> c.claimed, got |-> n, resolution |-> c.resolution]

(* A receipt once its discrepancy is decided.                              *)
Resolved(c, resolution) == [status |-> c.status, claimed |-> c.claimed, got |-> c.got,
                            resolution |-> resolution]

Unclamped(n) == n               \* faulty Greatest0
Greatest0(n) == IF n < 0 THEN 0 ELSE n

(* The rows createSettlement looks for before it goes on.                  *)
TodaysRows == {d \in Settlements : status[d] # "none" /\ day[d] = today}

(* Units of p that createSettlement declares missing: what is in hand now, *)
(* less what was sold or replaced, returned and carried forward.           *)
Missing(p, returned, carried) ==
    Greatest0(hand[p] - (sold[p] + replaced[p] + returned[p] + carried[p]))

(* What a body says of a product counts only if the product is in hand.    *)
Counted(qty) == [p \in Products |-> IF hand[p] > 0 THEN qty[p] ELSE 0]

Value(units) == Total([p \in Products |-> units[p] * Price[p]])

(* dispute: the body's shortage_value, the row's when the body has none    *)
(* (or says 0).                                                            *)
FinalShortage(d, v) == IF v = 0 THEN short[d] ELSE v

(* What approveSettlement charges.  The faulty one forgets the goods.      *)
CashOnly(missing, mismatch) == mismatch
ApprovalCharge(missing, mismatch) == missing + mismatch

(* addDuesLedgerEntry: outstanding_dues grows by the ledger row's amount.  *)
(* The faulty one charges a second time, as the old trigger did.           *)
RaisedTwice(n) == dues + 2 * n
Raised(n) == dues + n

(* Units receiveReturn adds to products.stock.  The faulty one skips a     *)
(* receipt that was counted in the meantime, and still writes the count.   *)
IfPending(d, p, got) == IF receipt[d][p].status = "pending" THEN got ELSE 0
Credited(d, p, got) == got

Init ==
    /\ hand = [p \in Products |-> 0]
    /\ sold = [p \in Products |-> 0]
    /\ replaced = [p \in Products |-> 0]
    /\ today = 1
    /\ day = [d \in Settlements |-> 1]
    /\ status = [d \in Settlements |-> "none"]
    /\ short = [d \in Settlements |-> 0]
    /\ cash = [d \in Settlements |-> 0]
    /\ receipt = [d \in Settlements |-> [p \in Products |-> Claim(0)]]
    /\ stock = [p \in Products |-> 0]
    /\ charged = [d \in Settlements |-> 0]
    /\ extra = [d \in Settlements |-> 0]
    /\ paid = [d \in Settlements |-> 0]
    /\ dues = 0
    /\ req = [r \in Requests |-> Idle]

-----------------------------------------------------------------------------
(* The SR's day, as the ledger sees it: an approved order enters it, and   *)
(* so do the m units a sale takes back from the customer as replaced; the  *)
(* n units it sells leave the ledger, if that many are in hand.            *)

Take(p, n) ==
    /\ hand[p] + n <= MaxQty
    /\ hand' = [hand EXCEPT ![p] = hand[p] + n]
    /\ UNCHANGED <<sold, replaced, today, rows, receipt, stock, money, req>>

Sell(p, n, m) ==
    /\ n > 0 => n <= hand[p]
    /\ hand[p] + m <= MaxQty
    /\ sold[p] + replaced[p] + n + m <= MaxQty
    /\ hand' = [hand EXCEPT ![p] = hand[p] - n + m]
    /\ sold' = [sold EXCEPT ![p] = sold[p] + n]
    /\ replaced' = [replaced EXCEPT ![p] = replaced[p] + m]
    /\ UNCHANGED <<today, rows, receipt, stock, money, req>>

NextDay ==
    /\ today < MaxDay
    /\ today' = today + 1
    /\ sold' = [p \in Products |-> 0]
    /\ replaced' = [p \in Products |-> 0]
    /\ UNCHANGED <<hand, rows, receipt, stock, money, req>>

-----------------------------------------------------------------------------
(* createSettlement: the day's rows, the ledger and the sales are read and *)
(* the report is computed before the transaction.                          *)
BeginSettle(r, returned, carried, mismatch) ==
    /\ req[r] = Idle
    /\ TodaysRows = {}
    /\ req' = [req EXCEPT ![r] =
           [kind |-> "settle", day |-> today, taken |-> hand, carried |-> Counted(carried),
            returned |-> Counted(returned),
            missing |-> [p \in Products |-> Missing(p, returned, carried)],
            cash |-> mismatch]]
    /\ UNCHANGED <<field, rows, receipt, stock, money>>

(* Its transaction: the row, the ledger entries of the returned and of the *)
(* missing units, and a pending receipt for each returned product.         *)
CommitSettle(r, d) ==
    LET q == req[r] IN
    /\ q.kind = "settle"
    /\ status[d] = "none"
    /\ day' = [day EXCEPT ![d] = q.day]
    /\ status' = [status EXCEPT ![d] = "pending"]
    /\ short' = [short EXCEPT ![d] = Value(q.missing)]
    /\ cash' = [cash EXCEPT ![d] = q.cash]
    /\ hand' = [p \in Products |-> hand[p] - q.returned[p] - q.missing[p]]
    /\ receipt' = [receipt EXCEPT ![d] = [p \in Products |-> Claim(q.returned[p])]]
    /\ req' = [req EXCEPT ![r] = Idle]
    /\ UNCHANGED <<sold, replaced, today, stock, money>>

(* approveSettlement reads a pending row; disputeSettlement any row, and   *)
(* the manager may put a shortage of his own.  The code charges a row as   *)
(* often as it is asked to; MaxCharge bounds that (and the payments).      *)
BeginApprove(r, d) ==
    /\ req[r] = Idle
    /\ status[d] = "pending"
    /\ charged[d] < MaxCharge
    /\ req' = [req EXCEPT ![r] =
           [kind |-> "approve", row |-> d, short |-> short[d], cash |-> cash[d]]]
    /\ UNCHANGED <<field, rows, receipt, stock, money>>

BeginDispute(r, d, v) ==
    /\ req[r] = Idle
    /\ status[d] # "none"
    /\ charged[d] < MaxCharge
    /\ req' = [req EXCEPT ![r] =
           [kind |-> "dispute", row |-> d, short |-> FinalShortage(d, v), cash |-> cash[d]]]
    /\ UNCHANGED <<field, rows, receipt, stock, money>>

CommitApprove(r) ==
    LET q == req[r] IN
    /\ q.kind = "approve"
    /\ status' = [status EXCEPT ![q.row] = "approved"]
    /\ charged' = [charged EXCEPT ![q.row] =
           charged[q.row] + ApprovalCharge(q.short, q.cash)]
    /\ dues' = Raised(ApprovalCharge(q.short, q.cash))
    /\ req' = [req EXCEPT ![r] = Idle]
    /\ UNCHANGED <<field, day, short, cash, receipt, stock, extra, paid>>

CommitDispute(r) ==
    LET q == req[r] IN
    /\ q.kind = "dispute"
    /\ status' = [status EXCEPT ![q.row] = "disputed"]
    /\ short' = [short EXCEPT ![q.row] = q.short]
    /\ charged' = [charged EXCEPT ![q.row] = charged[q.row] + q.short + q.cash]
    /\ dues' = Raised(q.short + q.cash)
    /\ req' = [req EXCEPT ![r] = Idle]
    /\ UNCHANGED <<field, day, cash, receipt, stock, extra, paid>>

(* payShortage: a settlement's worker never changes, so all that matters   *)
(* is in its transaction.  Clearing the dues approves the settlement.      *)
PayShortage(d, a) ==
    /\ status[d] # "none"
    /\ paid[d] < MaxCharge
    /\ paid' = [paid EXCEPT ![d] = paid[d] + a]
    /\ dues' = Greatest0(dues - a)
    /\ status' = IF dues' <= 0 THEN [status EXCEPT ![d] = "approved"] ELSE status
    /\ UNCHANGED <<field, day, short, cash, receipt, stock, charged, extra, req>>

-----------------------------------------------------------------------------
(* receiveReturn: the warehouse's count of a pending receipt.              *)
BeginReceive(r, d, p, n) ==
    /\ req[r] = Idle
    /\ receipt[d][p].status = "pending"
    /\ req' = [req EXCEPT ![r] = [kind |-> "receive", row |-> d, product |-> p, got |-> n]]
    /\ UNCHANGED <<field, rows, receipt, stock, money>>

CommitReceive(r) ==
    LET q == req[r] IN
    /\ q.kind = "receive"
    /\ receipt' = [receipt EXCEPT ![q.row][q.product] =
           CountOf(receipt[q.row][q.product], q.got)]
    /\ stock' = [stock EXCEPT ![q.product] =
           stock[q.product] + Credited(q.row, q.product, q.got)]
    /\ req' = [req EXCEPT ![r] = Idle]
    /\ UNCHANGED <<field, rows, money>>

(* resolveDiscrepancy: charge the difference to the SR, or waive it.       *)
BeginResolve(r, d, p, resolution) ==
    LET c == receipt[d][p] IN
    /\ req[r] = Idle
    /\ c.status = "discrepancy"
    /\ c.resolution = "none"
    /\ req' = [req EXCEPT ![r] =
           [kind |-> "resolve", row |-> d, product |-> p, resolution |-> resolution,
            value |-> (c.claimed - c.got) * Price[p]]]
    /\ UNCHANGED <<field, rows, receipt, stock, money>>

CommitResolve(r) ==
    LET q == req[r]
        amount == IF q.resolution = "charged" THEN Greatest0(q.value) ELSE 0 IN
    /\ q.kind = "resolve"
    /\ receipt' = [receipt EXCEPT ![q.row][q.product] =
           Resolved(receipt[q.row][q.product], q.resolution)]
    /\ extra' = [extra EXCEPT ![q.row] = extra[q.row] + amount]
    /\ dues' = Raised(amount)
    /\ req' = [req EXCEPT ![r] = Idle]
    /\ UNCHANGED <<field, rows, stock, charged, paid>>

(* A handler fails: its transaction rolls back.                            *)
Abort(r) ==
    /\ req[r] # Idle
    /\ req' = [req EXCEPT ![r] = Idle]
    /\ UNCHANGED <<field, rows, receipt, stock, money>>

-----------------------------------------------------------------------------

Field ==
    \/ \E p \in Products, n \in 1..MaxQty : Take(p, n)
    \/ \E p \in Products, n, m \in Qty : Sell(p, n, m)
    \/ NextDay

CreateSettlement(r) ==
    \/ \E returned, carried \in [Products -> Qty], mismatch \in 0..MaxCash :
          BeginSettle(r, returned, carried, mismatch)
    \/ \E d \in Settlements : CommitSettle(r, d)

Decide(r) ==
    \/ \E d \in Settlements : BeginApprove(r, d)
    \/ \E d \in Settlements, v \in Qty : BeginDispute(r, d, v)
    \/ CommitApprove(r)
    \/ CommitDispute(r)

ReceiveReturn(r) ==
    \/ \E d \in Settlements, p \in Products, n \in Qty : BeginReceive(r, d, p, n)
    \/ CommitReceive(r)

ResolveDiscrepancy(r) ==
    \/ \E d \in Settlements, p \in Products, c \in {"charged", "waived"} :
          BeginResolve(r, d, p, c)
    \/ CommitResolve(r)

Next ==
    \/ Field
    \/ \E d \in Settlements, a \in 1..MaxQty : PayShortage(d, a)
    \/ \E r \in Requests :
          \/ CreateSettlement(r)
          \/ Decide(r)
          \/ ReceiveReturn(r)
          \/ ResolveDiscrepancy(r)
          \/ Abort(r)

Spec == Init /\ [][Next]_vars

-----------------------------------------------------------------------------
(* Properties                                                              *)

TypeOK ==
    /\ hand \in [Products -> Int]
    /\ sold \in [Products -> Nat]
    /\ replaced \in [Products -> Nat]
    /\ today \in Days
    /\ day \in [Settlements -> Days]
    /\ status \in [Settlements -> Status]
    /\ short \in [Settlements -> Nat]
    /\ cash \in [Settlements -> Nat]
    /\ receipt \in [Settlements -> [Products -> Receipt]]
    /\ stock \in [Products -> Nat]
    /\ charged \in [Settlements -> Nat]
    /\ extra \in [Settlements -> Nat]
    /\ paid \in [Settlements -> Nat]
    /\ dues \in Nat
    /\ req \in [Requests -> Request]

(* The balance of dues agrees with the dues ledger, however decisions,     *)
(* charges and payments race: the SR never owes more than the ledger says, *)
(* and what he does not owe any more he has paid (addDuesLedgerEntry and   *)
(* payShortage are the only writers here).                                 *)
DuesMatchLedger ==
    /\ dues <= Total(charged) + Total(extra)
    /\ Total(charged) + Total(extra) <= dues + Total(paid)

(* No settlement is decided for free: once approved or disputed, its       *)
(* shortage of goods and of cash is in the dues ledger, unless a payment   *)
(* was recorded on it (approveSettlement, disputeSettlement; payShortage   *)
(* approves by itself).                                                    *)
DecidedIsCharged ==
    \A d \in Settlements : status[d] \in {"approved", "disputed"} =>
        charged[d] >= short[d] + cash[d] \/ paid[d] > 0

(* What the warehouse counted is in its stock: no receipt says units came  *)
(* back that products.stock never got (receiveReturn, also when two of     *)
(* them count the same receipt).                                           *)
StockCoversReceipts ==
    \A p \in Products :
        Total([d \in Settlements |-> receipt[d][p].got]) <= stock[p]
=============================================================================
