# NovaTech BD distribution management: a TLA+ verification project

NovaTech BD is a multi-tenant system for companies that distribute goods through
sales representatives (SRs): a Node/Express backend (`src/backend/src`) over
PostgreSQL, with React and mobile front ends. Its core is one daily cycle:

1. in the morning an SR **orders** goods; the order reserves warehouse stock, and a
   manager approves (issues) or rejects it;
2. during the day the SR **sells** them, for cash or on credit, and **collects**
   what customers owe; collections settle credit invoices, oldest first;
3. in the evening he **settles**: goods returned, carried forward or missing, cash
   handed in. A manager approves or disputes the settlement, the warehouse counts
   the returned goods, and what is missing becomes the SR's **dues**.

Around it, the stockroom **receives** goods from suppliers, **writes off** batches and
**adjusts** the stock by hand, and at the end of the month the SR is **paid** salary and
commission, less dues.

These modules model this cycle at the level where it can go wrong: HTTP handlers
that read the database, compute in JavaScript, and write in a transaction later,
many of them at the same time. All paths below are under `src/backend/src` unless
they start with `src/`.

## 1. Inventory

| Component | State it keeps | Operations | Interacts with | What makes it correct |
|---|---|---|---|---|
| Morning orders (`controllers/order.controller.js`, `services/batchFefo.utils.js`, `jobs/reservedStock.job.js`) | `orders`, `products.stock`, `products.reserved_stock`, `warehouse_stock`, `product_batches`, `stock_movements` | create, approve, reject, cancel; job every 5 minutes | issues goods into the SR's ledger | reservations are released exactly once; issued goods are all recorded; a cancelled order issued nothing |
| Receivables (`controllers/collection.controller.js`, `collectCredit` of `customer.controller.js`, `services/paymentAllocation.service.js`) | `collections`, `credit_payments`, `customers.current_credit`, `payment_allocations` | collect, pay directly, submit with the settlement, verify, reject, allocate | balance raised by credit sales; submission by the settlement | no invoice overpaid, no payment overspent, no debt lost; a rejection undoes the collection |
| Settlement and dues (`controllers/settlement.controller.js`, `settlementReturns.controller.js`, `services/dues.service.js`) | `daily_settlements`, `settlement_return_receipts`, `dues_ledger`, `shortage_payments`, `users.outstanding_dues`, the SR's ledger | settle, approve, dispute, pay, receive a return, resolve a discrepancy | reads ledger and sales; writes stock and ledger; submits collections | dues equal their ledger; a decision is charged; a discrepancy is charged once; missing goods are declared |
| Sales (`controllers/sales.controller.js`, `services/promotion.utils.js`) | `sales_transactions`, `sr_stock_ledger`, `customers.credit_balance`, `promotion_uses`, `promotions.budget_used` | sell (idempotent), verify | takes from the ledger, bills the customer, gives goods away | no sale beyond the hand, the credit limit or a promotion's limits; what is sold is paid, owed or taken off the credit balance; a retried sale is one sale |
| Ledger (`controllers/ledger.controller.js`) | `sr_stock_ledger` | append, reports | written by orders, sales, settlement | its balance is what the SR holds |
| Stockroom: products, batches, warehouses, purchasing (`purchaseOrder.controller.js`, `batch.controller.js`, `product.controller.js`) | `products.stock`, `cost_price`, `product_batches`, `purchase_orders` and their lines, `stock_movements` | place, edit, cancel and receive an order; change a batch; adjust; transfer | same stock as the orders | receipts never exceed the order; its status tells what came; the average cost stays within the prices; stock and movements agree |
| Commission and salary (`services/commission*.js`, `commission.controller.js`, `salary.controller.js`, `jobs/commission.job.js`, `bonus.job.js`) | `commission`, `commission_ledger`, `salary_payments`, dues | recompute, pay, cancel | triggered by sales and verifications; deducts dues | a paid amount never changes; a row is paid once and in full; ledger and table agree; no dues are lost |
| Customer portal, returns, deliveries | order requests, returns | request, assign, convert | turn into sales | a request is converted once |
| SR app: offline queue (`src/frontend/src/api/offlineQueue.js`, `syncService.js`) | an IndexedDB store of records with status and retry count; `isSyncing` | enqueue, synchronise, retry, start, log out | sends sales, collections and others to the backend again and again | nothing leaves the phone before the server has it; a sale sent twice is one sale; synchronisation goes on |
| Sessions, notifications, jobs, platform, chat and feed, AI, reports | own tables | see `PROJECT.json` | nearly none with the cycle | out of the core |

`PROJECT.json` lists every component with its sources, and under `hazards` the
places in this code that tests hardly reach. Nearly all are of one kind: **a
handler checks a row outside the transaction that changes it.** `withTransaction`
(`config/db.js:170`) runs at PostgreSQL's default READ COMMITTED, so such a check
protects nothing unless the transaction repeats it or locks the row. Relative
updates (`stock = stock - $1`) are safe then; absolute ones (`status = 'cancelled'`)
are not. The modules follow this line exactly: a `Begin...` action is what a
handler reads, a `Commit...` action its transaction, and the handler carries what
it has read in `req` (`task` in `Payroll`, `staffReq` in the run of `Stockroom`). In the app the same happens with `await` in the place of the
transaction's border: every access to the store is a step of its own, and what a
pass of `syncAll` has read is kept in `todo` and `snap`.

## 2. Modules

| Module | What it is |
|---|---|
| `Sums` | `Total(f)`, the SUM of a column of naturals, as a cardinality (so it needs no recursion and can be proved about) |
| `SumsProofs` | facts about `Total`: type, zero, split, update of one row, monotonicity, rows divided between two columns, rows filled in order from an amount, and what is ahead of a row in that order |
| `OrderStock` | orders and warehouse stock |
| `OrderStockProofs` | its theorems |
| `MCOrderStock` | its instances and two properties from comments that the code does not keep |
| `InvoiceBook` | abstract specification: invoices and the payments that settle them |
| `Receivables` | credit sales, collections, direct payments, allocation; implements `InvoiceBook` |
| `ReceivablesProofs` | its theorems, with the refinement |
| `MCReceivables` | its instances, and one such property |
| `Settlement` | settlement, decision, returned goods, dues |
| `SettlementProofs` | its theorems |
| `MCSettlement` | its instances, and two such properties |
| `SrSale` | the transaction of a sale: credit, hand, promotions, gifts, credit balance |
| `Stockroom` | a purchase order, batches, adjustments |
| `StockroomProofs` | its theorems |
| `Goods` | composition: `SrSale` beside an instance of `Stockroom` |
| `GoodsProofs` | the theorems of `SrSale`, and those of the composition |
| `MCGoods` | its instance |
| `Payroll` | commission, its ledger, salaries and the dues they deduct |
| `PayrollProofs` | its theorems |
| `MCPayroll` | its instance |
| `Outbox` | abstract specification: an entry made offline and the server's record of it |
| `OfflineSync` | the app's offline queue, its synchronisation, and the idempotency check of `createSale`; implements `Outbox` |
| `OfflineSyncProofs` | its theorems, with the refinement |
| `MCOfflineSync` | its instances |

Some operators come in two versions, the second marked *faulty* in its comment: the
faulty one is a plausible mistake of the code (no clamp, a forgotten part of a sum, a
missing reset). Put in place of the right one it must break a property; `mutants` in
`PROJECT.json` says which.

### OrderStock and the code

| Action | Code |
|---|---|
| `BeginCreate`, `CommitCreate` | `createOrder`: the day's count and the available stock; the transaction that inserts the order and reserves |
| `BeginDecide` | the read of the pending order by `approveOrder` and `cancelOrder` |
| `CommitApprove` | the transaction of `approveOrder`: stock, reservation, warehouse stock, batches (`consumeBatchesFEFO`) with their movements, the SR's ledger, the status |
| `CommitCancel` | the transaction of `cancelOrder` |
| `BeginReject`, `ReleaseLine`, `FinishReject` | `rejectOrder`, which has no transaction: one step per UPDATE |
| `Abort` | a failure or restart between two statements; what `rejectOrder` already did stays |
| `SyncReservedStock` | a run of the reserved-stock job |

`requested` is `items[].requested_qty`; `issued` sums an order's ledger rows;
`outBatch` and `outLoose` sum the movements with and without a batch. All batches of
a product are one quantity: which of them is drawn first does not matter to any
property here, and together they give what the loop takes (`BatchesUsedUp`, section 5). A line can be approved with more
or less than requested, as the approval form allows; the form sends all lines of the
order and no others, and the model relies on it (see the hazard at
`order.controller.js:454`).

The number of decisions of one order that may commit is not bounded by a constant:
it is bounded by the handlers that read the order while it was pending.

### Receivables and the code

| Action | Code |
|---|---|
| `CreditSale` | the credit part of `createSale`, checked under the customer's lock, with the trigger that raises the balance |
| `BeginPay` | what `createCollection` and `collectCredit` check before their transaction, with the chosen invoices |
| `CommitCollection`, `CommitDirect` | their transactions; `ok` says whether the allocation survived its savepoint |
| `Submit` | `submitCollectionsWithSettlement` |
| `BeginDecide`, `CommitVerify`, `CommitReject` | `verifyCollection` |
| `Abort` | refusal, or rollback |

A payment row is identified by its idempotency key, so that a repeated request is a
second handler with the same key. The key is optional and the field app sends none
(`VisitPage.jsx:307-333`): such a submission is a payment of its own, and repeating it
is another one, which the properties then count like any payment. `Plan` is a closed form of the loop of
`planFifoAllocation`: an invoice gets what is left of the amount after the invoices
before it, at most what it still lacks. `Legacy` rows are collections of older
versions (`balance_applied = false`), which lower the balance when they are verified;
`Chosen` are the invoices they name (`target_sale_ids`), which `CommitVerify` settles first.
None of the instance's invoices is older than such a row, so there it is empty; the theorems hold
for any.

### Settlement and the code

| Action | Code |
|---|---|
| `Take`, `Sell`, `NextDay` | the SR's day as the ledger sees it: an approved order; a sale with its replaced units; the change of the date in Bangladesh |
| `BeginSettle`, `CommitSettle` | `createSettlement`: ledger, sales and body are read and the report computed; then row, ledger entries and receipts in one transaction |
| `BeginApprove`, `CommitApprove` | `approveSettlement` |
| `BeginDispute`, `CommitDispute` | `disputeSettlement` |
| `PayShortage` | `payShortage`, which reads outside its transaction only what never changes |
| `BeginReceive`, `CommitReceive` | `receiveReturn` |
| `BeginResolve`, `CommitResolve` | `resolveDiscrepancy` |
| `Abort` | rollback |

One SR is modelled, and `Sell` takes the in-hand check and the sale as one step (their
race is in `SrSale`). `cash` is the cash shortfall; a surplus charges
nothing and is 0. `stock` is only what receipts have added to `products.stock`. The
sums of approvals and disputes (`charged`), of charged discrepancies (`extra`) and of
payments (`paid`) stand for the rows of `dues_ledger` and `shortage_payments`. The
salary controller also changes the dues: that is in `Payroll`, where charges and payments
of dues are one action each. The order of
reading ledger and sales inside `createSettlement` is one step.

### SrSale and the code

| Action | Code |
|---|---|
| `BeginSale` | `createSale` up to its transaction: `getEligiblePromotions`, the use of the credit balance, replaced goods, the split into cash and credit, the first check of the limit |
| `Enter` | the transaction up to the check of the hand: the customer `FOR UPDATE` (credit sales only), the limit again, an approved order `FOR UPDATE SKIP LOCKED`, the hand |
| `Commit` | its writes: the sale, `recordPromotionUsage` and `deductFreeGiftStock` under their locks, the ledger, replaced goods, the credit balance, COMMIT |
| `Abort` | a refusal under the locks, or a rollback |
| `Reserve` | `createOrder` of another SR, as far as gifts see it: it adds to `reserved_stock`, whatever was reserved since its check |

`Enter` and `Commit` are two steps because the locks last in between: what one sale has
checked under its locks, another may check before the first has written, unless a lock
stops it. `CustomerFree` and `OrderFree` are these locks. With `SKIP LOCKED` a sale takes
another order of the SR rather than wait, so there is one place for each approved order.
`gifts`, `owed`, `raced` and `overbooked` are history: gifts are booked out of a hand they never
entered, and two sales that both spend a customer's credit balance make the account differ.
`createOrder` checks the stock on a plain read before its transaction (`order.controller.js:67-95`)
and adds to `reserved_stock` without a condition in it (145-151). So all that `Reserve` asks for
is that there was a unit once; orders that overlap may reserve more than the stock, and
`overbooked` counts the units reserved when none were left. What becomes of those orders is left
out here: `OrderStock` has their decisions.

### Stockroom and the code

| Action | Code |
|---|---|
| `BeginOrder`, `CommitStatus`, `CommitEdit` | `placeOrder`, `cancelPurchaseOrder` and `updatePurchaseOrder`: the status is read, then the order is written by its id |
| `BeginReceive`, `TakeLine`, `CommitReceive` | `receivePurchaseOrder`: the status; in the transaction the line and the product under `FOR UPDATE`, and the lines for the status; COMMIT |
| `Approve` | `approveOrder` with `consumeBatchesFEFO`, as far as the stockroom sees it |
| `BeginAdjust`, `WriteAdjust`, `LogAdjust` | the three statements of `adjustStock`, which has no transaction |
| `BeginBatch`, `CommitBatch` | `updateBatchStatus`: batch and quantity are read, then its transaction |
| `Fail` | a refusal, or a failure; what `adjustStock` already wrote stays |

Here batches are rows, taken in the order of their expiry (`TakenOf` is a closed form of
the loop). A receipt is of one line; the price it states may differ each time. `single`
is the handler that nothing has overlapped so far, and `muddled` remembers that handlers
did overlap, that an adjustment stopped half-way, or that more was taken than there was:
what the code cannot keep then, the properties do not claim then.

### Payroll and the code

| Action | Code |
|---|---|
| `Sell` | anything that adds to the day's commissionable total |
| `BeginUpdate`, `WriteRow`, `ReadLedger`, `AppendDelta` | `updateCommissionRealtime` or the nightly job, and `recordDailyEarnDelta`: four accesses, each committed on its own |
| `BeginSalary`, `CommitSalary` | `paySalary` |
| `BeginPayCommission`, `CommitPayCommission` | `payCommission` |
| `BeginCancel`, `CommitCancel` | `cancelSalaryPayment` |
| `Charge`, `PayDues` | dues charged by a settlement; dues paid in cash |
| `Fail` | a refusal or an error; what was committed stays |

A commission row is `absent`, `unpaid` or the reference it was paid with, since a
cancellation finds the rows it opens again by that reference. `Commission` gives the
commission of a day's total, any function to the naturals: it may fall from one total to a larger
one, since `validateSlabContinuity` (`commission.controller.js:279-330`) demands only that slabs
leave no gap, do not overlap and have no negative rate. The basic salary is a constant that nothing else depends on, and is left out.

### How the modules meet

Receivables, settlement, sales, stockroom and payroll share three pieces of state in the
database: `products.stock`, the SR's ledger and the dues. Each module that shows one of them
has, beside its own handlers, an action for what the others do to it: `Reserve` and the
gifts in `SrSale`, `Approve` in `Stockroom`, `Take` and `Sell` in `Settlement`, `Charge` and
`PayDues` in `Payroll`.

`Goods` composes two of them. `SrSale` and `Stockroom` work on products of their own there,
as each already has actions for what the other does to its products, and `BothSpec`
interleaves their handlers in any order. The theorems are about `BothSpec`. TLC explores
`GoodsSpec`, where a behaviour follows one of the two, chosen in `part` by the initial state:
their steps commute, so interleaving them multiplies the states and reaches no new state of
either part. The relation of the two is proved, not argued: `EitherIsBoth` says that what TLC
explores are behaviours of `BothSpec`, `BothSell` and `BothStore` that each part behaves in
`BothSpec` as it does alone.

### OfflineSync and the code

| Action | Code |
|---|---|
| `Enqueue` | `enqueue`, called by the forms without network |
| `StartPass`, `ReadQueue` | `syncAll` up to `isSyncing = true`: the flag is tested, then the queue is awaited |
| `MarkSyncing`, `Post`, `MarkFails` | `syncItem` up to the request: `Post` for a record of a form, `MarkSyncing` for one without a type, `MarkFails` for an error before the request |
| `Answer`, `Timeout` | axios resolves or rejects; it gives up after 12 s, whatever becomes of the request |
| `RemoveItem`, `RecordFailure`, `Escape` | the rest of `syncItem`; an error of the store inside its `catch` leaves `syncAll` |
| `EndPass` | the end of `syncAll` |
| `MountLayout`, `BeginRetry`, `SetPending` | `initAutoSync` and `retryFailed`: records are read first and updated one by one |
| `Receive`, `Insert`, `Refuse`, `Lose` | a request at the server: the `SELECT` of the key, the transaction, an error; or it never arrives |
| `Restart`, `Logout` | the app is loaded again; `clearAllData` before that. A logout whose deletion is blocked is a `Restart` |

A record has status `unused` before and `gone` or `cleared` after its time in the
store. `updateQueueItem` puts its fields even when the record is gone; the record
this creates is a `ghost`, which has no type, so that a later pass removes it without
a request. All kinds but `SALE` send no key and are `collection` here. `rows` counts
what the server has inserted for a record; `isSyncing`, the passes and the two kinds
of retry are as in the code. Retry counts from `MaxManualRetry` on are one value,
since the code only compares them with the two limits; without that two passes that
keep overlapping would count for ever.

`Outbox` is what the queue promises: an entry of a form is queued, then delivered once the
server has recorded it, or cleared by a logout, and in neither case does it come back. It says nothing of
passes, attempts or answers. `ImplementsOutbox` maps the record of a form to its entry,
whatever its status in the store is, and a ghost to none; a write to a record that is
gone is a stutter then, and so is every write of a status or a retry count.

## 3. Runs

| Run | Bounds | Distinct states | Shows |
|---|---|---|---|
| `orders` | 2 products with 1 unit, 3 orders of one SR, 2 handlers, quantities up to 2, limit 1 | 88,736 | the five properties of `OrderStock` |
| `orders_job` | 2 products, 2 orders, 1 handler, no decisions | violation | the job erases reservations of pending orders |
| `orders_cancelled` | 1 product, 1 order, 2 handlers | violation | a late cancel overwrites an approval whose goods were issued |
| `receivables` | 2 customers, 3 invoices, a new collection, a direct payment and an old collection, 2 handlers, amounts up to 2 | 727,386 | the five invariants and the refinement of `InvoiceBook` |
| `receivables_reject` | 1 customer, 1 invoice, 1 payment, 2 handlers | violation | a rejection and a verification of one collection: balance restored, collection verified |
| `settlement` | 1 product, 1 settlement, 2 handlers, 2 days, quantities and cash up to 1 | 2,093,365 | the four properties of `Settlement` |
| `settlement_resolve` | the same | violation | a discrepancy charged twice |
| `settlement_missing` | quantities up to 2 | violation | a missing unit that is not declared |
| `goods` | sales: 2 SRs, one with 2 approved orders, 2 customers, 2 sales in flight, up to 3 sales, a gift and a rebate, credit limit 1; stockroom: 2 products, 1 batch, 2 handlers, a price above the cost of one product and equal to the other's; up to 2 units reserved of the gift, of which 1 is in stock | 895,029 | the six properties of each of `SrSale` and `Stockroom` |
| `payroll` | 1 day of up to 2 units, of which the first earns commission and the second loses it again, 2 handlers, 2 salaries, 2 references, dues up to 2 | 2,921,476 | the five properties of `Payroll` |
| `offline` | 2 records (1 entered, 1 for a ghost), 2 passes, 2 requests, both kinds, 2 automatic tries of 3, 2 starts | 1,803,210 | the four invariants of `OfflineSync` |
| `offline_progress` | the same with 1 request, sales only, 1 start | 209,038 | the refinement of `Outbox`, and the two liveness properties |

**Properties of the passing runs.** `OrderStock`: *NoReservationLeak*, reserved stock
never exceeds what pending orders ask for, whichever decisions race and wherever
`rejectOrder` stops; *StockNeverLost*, the opening stock is in the warehouse or in a
ledger; *LedgerMatchesMovements*; *OverrunBounded*, the daily limit can be overrun, but
by no more than the requests in flight less one. `Receivables`:
*InvoiceNotOverpaid*, *PaymentNotOverspent*, *RejectedSettlesNothing*, *DebtNeverLost*,
*ImplementsBook*. `Settlement`: *DuesMatchLedger*, *DecidedIsCharged*,
*StockCoversReceipts*. `SrSale`: *CreditWithinLimit*, sales of several SRs in flight never
take a customer beyond the limit; *HandCovered*, with one approved order the hand is never
oversold, with more by at most one largest sale for each further one;
*PromotionWithinLimits*, the last use, gift or unit of a budget is given once;
*GiftsSpareReserved*, gifts never take what is reserved, though orders may reserve more than there is;
*SaleAccounted*, what was sold and not paid in cash is owed or was taken
off the credit balance. `Stockroom`: *ReceivedWithinOrdered*; *StatusTellsReceipts*;
*CostWithinPrices*, the rounded average never leaves the prices paid; *StockMatchesMovements*;
*BatchWithinReceived*. `Payroll`: *PaidAmountFixed* (an action property), no late
recomputation changes a paid row; *PayoutsMatchRows*, what was handed out is the commission of
the paid rows, through cancellations; *SettledDayAgrees*, what the nightly reconciliation
expects of the ledger and of unpaid rows, and that every row, paid or not, carries the commission
of what the day's sales were at some moment; *DuesNeverLost*. `OfflineSync`: *RemovedWasRecorded*, what synchronisation
removes from the phone is on the server; *SalesPerKeyBounded*, the key of a sale gives
no more invoices than requests were inside `createSale` at once, so at most one when they
come one after another, over any number of retries, restarts and lost answers;
*FlagHasHolder*, `isSyncing` never stays behind without a pass that will reset it, though a second
pass and a restart cut in; *ImplementsOutbox*, an entry leaves the phone by delivery or
logout and never comes back, though passes write to records that others have removed;
*FlagReleased* and *PendingSettles*, synchronisation is never blocked and no record
waits for ever. Each module has one type invariant; it carries that clamped
quantities never go negative.

Several are one-sided on purpose, because the code keeps only one side. Stock and
ledgers may together hold *more* than the opening stock (an overdraft is clamped at 0 but
recorded in full); reservations may be *less* than what is pending (the job, a double
decision); a receipt counted twice adds to the stock twice. `DebtNeverLost` does not
hold for the customer of an old collection, which two verifications in flight take off
twice; it excludes them. `SaleAccounted` is an equation except for customers whose balance two sales spent at once
(comment *FIX #2* of `createSale`): they are charged less. `StatusTellsReceipts`,
`StockMatchesMovements`, `PayoutsMatchRows` and the equation in `DuesNeverLost` hold as long
as handlers do not overlap, which TLC confirms to be needed: two receipts that complete an
order together both write `partial`; an adjustment undoes an approval; a row that is written
while a salary is being paid is marked paid with nothing. The ledger half of `SettledDayAgrees` is
about a day whose last recomputation ran alone. `GiftsSpareReserved` bounds what is reserved by the
stock *and* what orders overbooked: `createOrder` alone can reserve more than there is. `ReceivedWithinOrdered`, `CostWithinPrices`,
`BatchWithinReceived`, `PaidAmountFixed`, the limits of `SrSale` and the first half of
`DuesNeverLost` need no such condition. `DecidedIsCharged` admits a settlement with a payment on it,
since `payShortage` approves by itself when the dues reach 0, though nobody decided it.
`SalesPerKeyBounded` is not *one invoice per key*: the check of `createSale` is a plain
`SELECT`, and two passes (or a pass and a request given up earlier) can have two requests
behind it. The statements that create `sales_transactions` are not in the repository; if
its key has a unique index, the second request is refused and the bound is 1. Other
entries have no key and no bound.

**Violations.** Each checks what a comment or test says, and is described under
`findings`:

- *orders_job*. `reservedStock.job.js:43` sums `item->>'quantity'`; order lines have
  `requested_qty` and `approved_qty`. Correcting the key alone would not do: the job
  also counts approved orders, whose reservations are released already, and
  `NoReservationLeak` would fail instead.
- *orders_cancelled*. The UPDATE at `order.controller.js:787-793` should name
  `status = 'pending'` and the release depend on its row count. The same holds of the
  approval and the rejection.
- *receivables_reject*. The same at `collection.controller.js:363` and `:399`.
- *settlement_resolve*. The same at `settlementReturns.controller.js:200`.
- *settlement_missing*. Take 2, sell 1, settle with nothing returned: 1 unit is in
  hand, today's sale of 1 is subtracted from it again, and 0 are missing. The unit
  stays in the ledger and is looked for again on a day with fewer sales.

**Bounds.** Two handlers are what a race needs; every race here is between two handlers
on one row (a third could only repeat one of them), and two of them on one order, receipt
or payment occur in each instance. `DailyLimit = 1` with two requests makes the limit
overrun; stock 1 with quantities up to 2 makes approvals overdraw and batches run short.
Two customers and an invoice chosen out of order make every part of the allocation
plan matter; an old collection mixes the two rules of verification. In `Settlement`,
`MaxCharge` bounds decisions and payments that the code allows without end, `MaxQty`
what is in hand and in the day's sales, `MaxDay` the days; one product and one row keep
the instance small, as two rows already exceed what TLC does in minutes; rows interact
only through `dues` and `hand`, and the theorems cover any number of them. `MaxAmount`,
`CreditLimit` and `Tolerance` bound the amounts of `Receivables`.

In `goods`, `MaxSales` stops the beginning of sales after two are committed, so that a third
may still be in flight; each limit of a promotion is the one that refuses some sale (the gift
may be given once, the rebate once per customer); one SR has two orders, so `SKIP LOCKED`
matters. `MaxReserved = 2` with one unit in stock lets orders
overbook before and after a gift. `MaxStock` bounds adjustments, `MaxIssue` approvals, which can overdraw the stock. In
`payroll` the first unit of a day earns and the second takes the day to a slab with rate 0, so a
late sale lowers the commission below what was written or paid, and a handler that is late raises it; two salaries and two references allow a cancelled salary to be paid again and
a reference to be used twice; `MaxDues` bounds what is charged.

In `OfflineSync` two passes are what overlaps in the code (the two calls of `initAutoSync`,
or one and a manual retry), two requests are two of them inside `createSale`, a second
record lets a ghost appear; `MaxEntries`, `MaxRows` and `MaxStarts` bound the entries, the
invoices of one record and the starts. The code's limits 3 and 5 are 2 and 3 here, which
still has a failure that is retried automatically and one that is not.

**Deadlock** is checked in `OrderStock` and `Payroll`. The instances of the others end when all
their rows are used up, or when the queue is empty and no start is left, which is a limit of the instance, so it is not checked there.

**Symmetry.** Only sets that no constant distinguishes are permuted, and only in runs
of invariants or, in `receivables`, with a permutation of the handlers, which the refinement does
not see.

## 4. Fairness

`OrderStock`, `Receivables`, `Settlement`, `SrSale`, `Stockroom` and `Payroll` assume no fairness and claim no liveness: none
of their handlers retries or is scheduled, and none waits for another except on a lock
of PostgreSQL, which ends with its transaction.

`OfflineSync` has two assumptions in `FairSpec`. A pass under way takes its next step
(`WF` of `PassStep(p)`): accesses to the store end, with or without an error, and a request
ends at the latest by the timeout of axios (`axios.js:34`). And passes keep being started
(`WF` of `StartPass`): this is about the environment, that the phone gets online or the app
is opened or its retry button used now and then. The server is given none: it may never answer.
What fails then is the attempt, and three of them mark the record failed. An error of the
store in the `catch` of `syncItem` leaves `isSyncing` set until the next load, as there is
no `finally`; both properties and `FlagHasHolder` exclude it (`broken`).

## 5. Proofs

TLAPS proves every theorem for all values of the constants under the named assumptions
of the modules: finite sets of rows, natural bounds, functions of the right type, invoices
and batches numbered by naturals in the order of their dates. Except for the four named `OneByOne`,
which are about one handler, no theorem assumes a bound on handlers, passes, rows or products.
A theorem states every invariant, the action property and both refinements of the passing runs.

The theorems of `StockroomProofs` have the assumptions on the constants as a hypothesis
(`StoreConstants`), since `Goods` instantiates the module instead of extending it. `Goods`
assumes `StoreConstants` of its constants, which TLC checks, and `GoodsProofs` uses it
to discharge the hypothesis: it shows that the instance of `Stockroom` and the one of
`StockroomProofs` are the same specification (`SameNext` and the lemmas before it) and
transfers each theorem to `BothSpec`, by `BothStore`.

| Theorem | States | Argument |
|---|---|---|
| `OrderStockProofs!TypeCorrect` | `TypeOK` | inductive as it stands |
| `NoLeak` | `NoReservationLeak` | see below |
| `LimitHolds` | `OverrunBounded` | see below |
| `NothingLost`, `LedgerIsMovements` | `StockNeverLost`, `LedgerMatchesMovements` | both follow from `GoodsInv`; every step moves goods as one approval does, or not (`GoodsMove`) |
| `ReceivablesProofs!TypeCorrect` | `TypeOK` | the plan is bounded by what is left of an invoice (`PlanBounded`) |
| `NotOverpaid` | `InvoiceNotOverpaid` | inductive with `TypeOK`; a payment without rows gets its plan, a payment with rows gets nothing |
| `PlanIsLoop`, `PlanUsesAmount` | of `Plan`: it satisfies the recurrence of the loop; it gives out the whole amount or settles all that is open | see below |
| `NotOverspent` | `PaymentNotOverspent` | see below |
| `RejectedIsWithdrawn` | `RejectedSettlesNothing` | a stale verification of a new collection allocates nothing |
| `DebtCovered` | `DebtNeverLost` | each step changes one account, and its sums by the same amount or in the debtor's disfavour |
| `BookImplemented` | `ImplementsBook` | step simulation: a handler's transaction is `Bill`, `Settle`, `Withdraw` or a stutter |
| `SettlementProofs!TypeCorrect` | `TypeOK` | inductive |
| `DuesAgree` | `DuesMatchLedger` | each step adds to the dues what it adds to the ledger, or takes at most what is paid |
| `NothingDecidedForFree` | `DecidedIsCharged` | see below |
| `CountedIsStocked` | `StockCoversReceipts` | a later count replaces an earlier one in the receipt but is added in the stock |
| `GoodsProofs!TypeCorrect` | `TypeOK` | with it, that no credit balance is negative |
| `CreditLimited` | `CreditWithinLimit` | `CreditInv`: a sale that holds the customer's lock still fits in the limit |
| `PromotionsLimited` | `PromotionWithinLimits` | checked and written in one step under the promotion's lock |
| `ReservedSpared` | `GiftsSpareReserved` | a gift is booked when it fits in the stock less what is reserved, under the product's lock; an order that finds nothing left counts as overbooked |
| `SalesAccounted` | `SaleAccounted` | see below |
| `HandsCovered` | `HandCovered` | see below |
| `StockroomProofs!TypeCorrect` | `TypeOK` | `StoreInv`, with the quantities that handlers carry |
| `ReceiptsLimited` | `ReceivedWithinOrdered` | a receipt that has its line fits in what is left of it, as the lock keeps others out |
| `BatchesLimited` | `BatchWithinReceived` | what a change of status puts back was read from the batch, and a batch is made once |
| `CostBetweenPrices` | `CostWithinPrices` | a rounded average of two costs lies between them (`RoundedBounded`) |
| `MovementsAddUp` | `StockMatchesMovements` | `MoveInv`: an adjustment under way is the difference |
| `StatusIsTrue` | `StatusTellsReceipts` | `OrderInv`: what a handler alone has read is still true |
| `FirstExpiredFirst`, `BatchesUsedUp` | of `TakenOf`: a batch is touched only when those before it are empty; an issue empties all batches or is covered by them | see below |
| `GoodsProofs!BothSell`, `BothStore` | `BothSpec` implements `SrSale!Spec` and `Stockroom!Spec` | a step of one part is a stutter of the other |
| `EitherIsBoth` | `GoodsSpec` implements `BothSpec` | by the definitions |
| `BothSellSafely` | the five safety properties of `SrSale` | from `BothSell` |
| `BothTyped`, `BothReceipts`, `BothStatus`, `BothCosts`, `BothMovements`, `BothBatches` | the six properties of `Stockroom`, as the run states them | from `BothStore` |
| `PayrollProofs!TypeCorrect` | `TypeOK` | inductive |
| `PaidIsFixed` | `PaidAmountFixed` | no step writes a paid row's amount |
| `DuesKeptWhole` | `DuesNeverLost` | `DuesInv`: a salary paid alone deducts no more than is still due, and a cancellation gives back what the salary's row says |
| `SettledAgree` | `SettledDayAgrees` | `CommissionInv`, see below |
| `RowsArePaidOnce` | `PayoutsMatchRows` | `PayoutInv`, see below |
| `OfflineSyncProofs!Typing` | `TypeOK` | with `Shape`: a record that a pass has read has a kind, and kinds last |
| `NothingIsLost` | `RemovedWasRecorded` | see below |
| `KeysBoundSales` | `SalesPerKeyBounded` | see below |
| `FlagIsHeld` | `FlagHasHolder` | with `TypeOK`; the flag is set by a pass in the step in which it starts to work, and reset by the first that ends |
| `BoxImplemented` | `ImplementsOutbox` | step simulation on `DeliveryInv`: a pass removes an entry of a form only when it is recorded |

What holds under a hypothesis that the code does not enforce:

| Theorem | Hypothesis | States |
|---|---|---|
| `OrderStockProofs!IssuedIfDecisionsStand` | no decision overwrites another (`DecisionStands`) | no goods are issued for an order that is not approved |
| `SettlementProofs!ChargedIfResolvedOnce` | a discrepancy is resolved while it is unresolved (`ResolvedOnce`) | the SR is charged at most what he claimed of the products charged |
| `ReceivablesProofs!ExactIfDecidedOnce` | a collection is decided while it is submitted (`DecidesSubmitted`) | a customer owes no more than he bought and did not pay, up to the tolerance of each collection |
| `PayrollProofs!PaidWithinLedgerIfSlabsRise` | a larger total never earns less (`SlabsRise`) | a paid row of a settled day is at most the day's commission, so what is missing can still be paid |
| `OneByOne` of the first three | one handler | the same without the hypothesis; in `OrderStockProofs` also that the daily limit is kept |
| `OneByOne` of `OfflineSyncProofs` | one request at a time reaches `createSale` | a sale is invoiced exactly once |

*Why `NoLeak` needs a strengthening.* While `rejectOrder` releases its lines one by one the
order is still pending and counted in full, although part of its reservation is gone. If
another handler then decides the order, the whole of it is released again, and the
clamp at 0 alone does not say from whose share. In `ReservationInv` a pending order owes nothing
for a line that some rejection in flight has released, and reserved stock is at most
what is owed in this sense; a release moves a line out of what is owed before its order
leaves the pending ones, and a rejection that stops only raises what is owed.

*Why `OverrunBounded` needs one.* A cancelled order counts again when an approval that had read it
before is committed. `LimitInv` therefore counts claims: counted orders together with those
that an approval in flight refers to, and the creations in flight. A creation begins
below the limit, and every other claim has a handler of its own; no other step adds a claim.

*Why `PaymentNotOverspent` needs the plan.* The sum of a plan is at most the amount because the
units it gives out can be placed on `1..amount` one after another, those of an invoice behind
the room of the invoices before it (`TotalFilled`; `PlanWithinAmount` applies it to the order of
`orderWithPreferred`). Then `SpendInv`: a payment that has no row yet has settled nothing.

*Why the closed forms may stand for the loops.* `Plan` and `TakenOf` say what a row gets from what
is in front of it, the code in a loop that carries the rest along (`left -= take` in
`planFifoAllocation`, `remaining` in `consumeBatchesFEFO`). `PlanIsLoop` proves the
recurrence of the loop from the closed form: the first open invoice is offered the whole amount, and
the next one what the one before it left (`RoomOfNext`). `PlanUsesAmount` and `BatchesUsedUp` add what a
caller relies on: nothing stays unallocated or untracked while a row could still take it
(`TotalFilledUp`, on the first row that is not full, `FirstInOrder`). `BatchesUsedUp` is also
why `OrderStock` may treat the batches of a product as one quantity.

*What only races break.* Three of the runs that find a violation show two handlers in flight
that decide the same row. The first three conditional theorems say that nothing else is missing: if the second
decision finds the row as its check saw it, the comment holds, for any number of handlers and whatever else
races. Each hypothesis is about one UPDATE, and repeating the condition of the check in it, with a test of its row
count, makes it true; `OneByOne` shows that the hypotheses hold of the present code as long as handlers do
not overlap, so that they are not empty. `ChargedForClaims` is a stronger form of the property of its run:
it counts only the products that were charged. `AccountsExact` leaves out customers with an
old collection, as `DebtNeverLost` does.

*Why the theorems of `SrSale` need more.* Between `Enter` and `Commit` a sale has checked the hand
but not taken from it. `HandInv` counts the goods of the sales that hold an order as gone:
then the hand may be short by one largest sale for each order of the SR beyond the first, as
the sale that entered last found its own goods there, and at most one sale holds each order.
`BillInv` says of each sale in flight that the parts of its bill add up, `AccountInv` that the
balance it uses is still there unless two sales spent the customer's balance at once.

*Why those of `Stockroom` and `Payroll` need more.* `SingleInv` and `AloneInv` say that a handler
marked as running alone has nobody beside it; what it has read is then still true (`MoveInv`,
`OrderInv`, `SalaryCovered`, `AloneHasWritten`), except for the day's sales, which wait for no
one. `CommissionInv` adds that no row and no total under way exceeds what was sold by now
(`EarnedWasSold` says so of the rows), `PayoutInv` that a salary that stands carries what the
rows with its reference earned, and a payout under way what is unpaid.

*Why `DecidedIsCharged` needs one.* An approval charges the shortage it read, while a dispute
may change the row's shortage in between. `DecisionInv` adds `DecisionsCurrent`: a
decision in flight belongs to an existing row and has its cash shortfall, which never
changes, and an approval has the row's shortage as long as the row is pending. When it
is not pending any more, it was decided, and charged or paid, by somebody else.

*Why the theorems of `OfflineSync` need more.* A pass removes a record after an answer, and
another pass may have removed or rewritten it before. `DeliveryInv` carries the fact along:
an accepted request has a row (`AcceptedWasRecorded`), a pass waits for one request only and
that is the one of the record it works on (`RequestsFit`), so a pass that is about to remove
an entry of a form works on a recorded one (`RemovingWasRecorded`); a record without a type is never one
of a form. `KeyInv` counts invoices together with the requests behind the check: a
request only gets there while there is no invoice, and each invoice uses one up.

*Only model-checked*: `FlagReleased` and `PendingSettles`, the liveness of `OfflineSync`. The
violations are TLC's.

*Out of the prover's reach*: liveness under fairness, and induction over data. So the loop of
`planFifoAllocation` is not written as a recursive definition that is proved equal to `Plan`
for every input; that `Plan` satisfies its first value and its recurrence is what `PlanIsLoop` proves.

## 6. What is not modelled

Amounts are naturals, where the code has decimals read with `parseFloat`; rounding and the
reliability of numeric input are left out. Commission slabs are constant: `updateSettings` is not
modelled. One tenant; no roles and team checks, since
they change no order of steps. Notifications, e-mails and logs follow a commit and
change no modelled state. Reads of a transaction are at its commit: within one
transaction the code reads rows it has locked, or only appends. Components marked
`not_modelled` in `PROJECT.json` have their reason there.

Next to the modelled handlers, these are left out: portal orders; sales returns, of which
`completeReturn` (`return.controller.js:316-394`) books a return without a transaction;
deliveries; transfers between warehouses; receipts of several lines at once (a receipt is of one),
drafts of purchase orders and their deletion, supplier payments; the attendance bonus; OTP and
assignment in a sale; prices, VAT, tiers and target gifts.

Some disagreements that the modules show have no run of their own: with two approved orders two sales pass the check of the same hand (the bound of
`HandCovered`; the comment at `sales.controller.js:557-561` speaks of one); two receipts that
complete an order leave it `partial`; two recomputations append a day's difference twice; orders
that overlap reserve more than the stock (`overbooked`). With falling rates a late sale leaves a paid
row above the day's ledger, which `commissionReconciliation.job.js:20-22` says never happens and
reports as an error of the two code paths (`PaidWithinLedgerIfSlabsRise` is what holds of it).

## 7. Plan

Order of the work, the most important behaviour first:

1. *done*: `OrderStock`, `Receivables` with `InvoiceBook`, `Settlement`, with proofs;
   `OfflineSync` with liveness and proofs.
2. *done*: `SrSale`, `Stockroom` and `Payroll`, each with a proof of every invariant; the two
   invariants that were only model-checked, `OverrunBounded` and `PaymentNotOverspent`.
3. *done*: the composition `Goods` with its theorems; `Outbox` and its refinement; what the two
   allocation loops compute; the conditional theorems about races.
4. Conditional theorems for the other findings: `SrSale` with one approved order and no
   unlocked read, the nightly job of `OrderStock` with the key it should read.
5. `Returns`: the workflow of a customer's return, where `completeReturn` restocks, credits the
   customer and reverses commission in separate statements. Properties: a return is booked
   once, and not more is returned than was sold.
6. Portal orders: request, assignment to an SR, conversion. Property: converted once.
7. An abstract specification of stock custody (warehouse, SR, customer), implemented by
   `OrderStock` and `SrSale`; a liveness model of the notification schedule or the jobs'
   catch-up; transfers between warehouses.
