---------------------------- MODULE Receivables ----------------------------
(***************************************************************************)
(* What customers owe: credit sales, the payments collected for them, and  *)
(* the invoices the payments settle.  collection.controller.js (field      *)
(* collections, verified by an accountant), collectCredit of               *)
(* customer.controller.js (direct payments), paymentAllocation.service.js  *)
(* and the credit part of createSale.                                      *)
(*                                                                         *)
(* A payment row is named by its idempotency key: a retried or doubled     *)
(* submission carries the same key.  One without a key (the field app      *)
(* sends none) is a payment of its own.  Transactions that touch a balance *)
(* lock the customer's row and so take effect in one step, at COMMIT; what *)
(* a handler read before its transaction may be stale by then.             *)
(***************************************************************************)
EXTENDS Sums

CONSTANTS
    Customers,
    Sales,          \* credit invoices, numbered by created_at
    Payments,       \* idempotency keys of collections and credit_payments
    Direct,         \* those of credit_payments (collectCredit)
    Legacy,         \* collections of older versions: balance_applied = false
    Chosen,         \* target_sale_ids of those
    Customer,       \* the customer of each sale and of each payment
    Requests,       \* handlers that may be in flight at the same time
    Choices,        \* sets of invoices an SR may choose to pay first
    MaxAmount,      \* largest sale or payment
    CreditLimit,    \* customers.credit_limit
    Tolerance,      \* 1 taka in the code
    Opening         \* what each customer owed before the first invoice

Amounts == 1..MaxAmount

ASSUME RowTypes ==
    /\ IsFiniteSet(Sales) /\ Sales \subseteq Nat
    /\ IsFiniteSet(Payments)
    /\ Direct \subseteq Payments /\ Legacy \subseteq Payments \ Direct
    /\ Customer \in [Sales \cup Payments -> Customers]
    /\ Opening \in [Customers -> Nat]
    /\ Choices \subseteq SUBSET Sales
ASSUME ChosenTypes == Chosen \in [Legacy -> SUBSET Sales]
ASSUME LimitTypes == MaxAmount \in Nat \ {0} /\ CreditLimit \in Nat /\ Tolerance \in Nat

VARIABLES
    credit,         \* credit_used of each invoice, 0 before it exists
    due,            \* customers.current_credit
    status,         \* collections.status; "paid" for a row of credit_payments
    amount,         \* amount of each payment row, 0 before it exists
    alloc,          \* payment_allocations: alloc[p][s], 0 when there is no row
    req             \* what each handler was asked and has read

payments == <<status, amount>>
vars == <<credit, due, payments, alloc, req>>

-----------------------------------------------------------------------------

Status == {"none", "pending", "submitted", "verified", "rejected", "paid"}

Idle == [kind |-> "idle"]
PayRequest == [kind : {"pay"}, payment : Payments, amount : Amounts, preferred : Choices]
DecideRequest == [kind : {"verify", "reject"}, payment : Payments]
Request == {Idle} \cup PayRequest \cup DecideRequest

Nothing == [s \in Sales |-> 0]

Unclamped(n) == n               \* faulty Greatest0
Greatest0(n) == IF n < 0 THEN 0 ELSE n
Least(m, n) == IF m < n THEN m ELSE n

Column(s) == [p \in Payments |-> alloc[p][s]]

(* What is left to pay of invoice s, and the invoices a payment of         *)
(* customer c may settle.  The faulty ones forget earlier payments, and    *)
(* whose invoice it is.                                                    *)
Billed(s) == credit[s]
Remaining(s) == credit[s] - Total(Column(s))
AnyOpenSales(c) == {s \in Sales : Remaining(s) > 0}
OpenSales(c) == {s \in Sales : Customer[s] = c /\ Remaining(s) > 0}

(* orderWithPreferred: the chosen invoices first, then oldest first.       *)
Before(preferred, s, t) ==
    \/ s \in preferred /\ t \notin preferred
    \/ (s \in preferred <=> t \in preferred) /\ s < t

(* planFifoAllocation: each open invoice, in order, takes what it can of   *)
(* what the invoices before it left of the amount.  The faulty one offers  *)
(* the whole amount to every invoice.                                      *)
WholeAmount(c, n, preferred, s) == n
Left(c, n, preferred, s) ==
    Greatest0(n - Total([t \in Sales |->
        IF t \in OpenSales(c) /\ Before(preferred, t, s) THEN Remaining(t) ELSE 0]))

Plan(c, n, preferred) ==
    [s \in Sales |-> IF s \in OpenSales(c) THEN Least(Left(c, n, preferred, s), Remaining(s)) ELSE 0]

(* allocatePaymentFifo skips a payment that has allocations.               *)
AlreadyAllocated(p) == \E s \in Sales : alloc[p][s] > 0

(* The rows of payment p after allocatePaymentSafe: INSERT ... ON CONFLICT *)
(* DO NOTHING for each planned invoice, or nothing when the savepoint was  *)
(* rolled back (ok = FALSE).                                               *)
Allocated(p, n, preferred, ok) ==
    IF ~ok \/ AlreadyAllocated(p) THEN alloc[p]
    ELSE [s \in Sales |-> IF alloc[p][s] > 0 THEN alloc[p][s]
                          ELSE Plan(Customer[p], n, preferred)[s]]

(* What verifying p takes off the balance: a collection of this version    *)
(* was applied when it was made.  The faulty one applies it again.         *)
AppliedAgain(p) == amount[p]
DeductedOnVerify(p) == IF p \in Legacy THEN amount[p] ELSE 0

(* What rejecting p leaves of its allocations.  The faulty one keeps them. *)
KeptOnReject(p) == alloc[p]
AllocAfterReject(p) == IF p \in Legacy THEN alloc[p] ELSE Nothing

Sold(c) == [s \in Sales |-> IF Customer[s] = c THEN credit[s] ELSE 0]
Paid(c) == [p \in Payments |->
    IF Customer[p] = c /\ status[p] \notin {"none", "rejected"} THEN amount[p] ELSE 0]

Init ==
    /\ credit = Nothing
    /\ due = Opening
    /\ amount \in [Payments -> 0..MaxAmount]
    /\ \A p \in Payments : amount[p] > 0 <=> p \in Legacy
    /\ status = [p \in Payments |-> IF p \in Legacy THEN "submitted" ELSE "none"]
    /\ alloc = [p \in Payments |-> Nothing]
    /\ req = [r \in Requests |-> Idle]

-----------------------------------------------------------------------------
(* createSale on credit: the limit is checked again under the lock.  The   *)
(* trigger on sales_transactions adds credit_used to the balance.          *)
CreditSale(s, n) ==
    LET c == Customer[s] IN
    /\ credit[s] = 0
    /\ due[c] + n <= CreditLimit
    /\ credit' = [credit EXCEPT ![s] = n]
    /\ due' = [due EXCEPT ![c] = due[c] + n]
    /\ UNCHANGED <<payments, alloc, req>>

(* createCollection and collectCredit before their transaction: the key is *)
(* not in use, and the chosen invoices are credit invoices of the customer.*)
BeginPay(r, p, n, preferred) ==
    /\ req[r] = Idle
    /\ status[p] = "none"
    /\ \A s \in preferred : Customer[s] = Customer[p] /\ credit[s] > 0
    /\ req' = [req EXCEPT ![r] =
          [kind |-> "pay", payment |-> p, amount |-> n, preferred |-> preferred]]
    /\ UNCHANGED <<credit, due, payments, alloc>>

(* Their transactions: check under the lock, insert the row (a second row  *)
(* with the key fails on the unique index), lower the balance, allocate.   *)
CommitCollection(r, ok) ==
    LET p == req[r].payment
        n == req[r].amount
        c == Customer[p] IN
    /\ req[r].kind = "pay"
    /\ p \notin Direct
    /\ status[p] = "none"
    /\ n <= due[c] + Tolerance
    /\ status' = [status EXCEPT ![p] = "pending"]
    /\ amount' = [amount EXCEPT ![p] = n]
    /\ due' = [due EXCEPT ![c] = Greatest0(due[c] - n)]
    /\ alloc' = [alloc EXCEPT ![p] = Allocated(p, n, req[r].preferred, ok)]
    /\ req' = [req EXCEPT ![r] = Idle]
    /\ UNCHANGED credit

CommitDirect(r, ok) ==
    LET p == req[r].payment
        n == req[r].amount
        c == Customer[p] IN
    /\ req[r].kind = "pay"
    /\ p \in Direct
    /\ status[p] = "none"
    /\ n <= due[c]
    /\ status' = [status EXCEPT ![p] = "paid"]
    /\ amount' = [amount EXCEPT ![p] = n]
    /\ due' = [due EXCEPT ![c] = due[c] - n]
    /\ alloc' = [alloc EXCEPT ![p] = Allocated(p, n, req[r].preferred, ok)]
    /\ req' = [req EXCEPT ![r] = Idle]
    /\ UNCHANGED credit

(* submitCollectionsWithSettlement: the pending collections of one SR's    *)
(* day go with its settlement.                                             *)
Submit(rows) ==
    /\ rows # {}
    /\ \A p \in rows : status[p] = "pending"
    /\ status' = [p \in Payments |-> IF p \in rows THEN "submitted" ELSE status[p]]
    /\ UNCHANGED <<credit, due, amount, alloc, req>>

(* verifyCollection: the submitted row is read before the transaction; the *)
(* UPDATEs in it do not look at the status again.                          *)
BeginDecide(r, kind, p) ==
    /\ req[r] = Idle
    /\ status[p] = "submitted"
    /\ req' = [req EXCEPT ![r] = [kind |-> kind, payment |-> p]]
    /\ UNCHANGED <<credit, due, payments, alloc>>

CommitVerify(r, ok) ==
    LET p == req[r].payment
        c == Customer[p] IN
    /\ req[r].kind = "verify"
    /\ status' = [status EXCEPT ![p] = "verified"]
    /\ due' = [due EXCEPT ![c] = Greatest0(due[c] - DeductedOnVerify(p))]
    /\ alloc' = IF p \in Legacy THEN [alloc EXCEPT ![p] = Allocated(p, amount[p], Chosen[p], ok)]
                ELSE alloc
    /\ req' = [req EXCEPT ![r] = Idle]
    /\ UNCHANGED <<credit, amount>>

CommitReject(r) ==
    LET p == req[r].payment
        c == Customer[p] IN
    /\ req[r].kind = "reject"
    /\ status' = [status EXCEPT ![p] = "rejected"]
    /\ due' = [due EXCEPT ![c] = due[c] + IF p \in Legacy THEN 0 ELSE amount[p]]
    /\ alloc' = [alloc EXCEPT ![p] = AllocAfterReject(p)]
    /\ req' = [req EXCEPT ![r] = Idle]
    /\ UNCHANGED <<credit, amount>>

(* A handler is refused (the key is in use, the amount exceeds the         *)
(* balance), or fails and its transaction rolls back.                      *)
Abort(r) ==
    /\ req[r] # Idle
    /\ req' = [req EXCEPT ![r] = Idle]
    /\ UNCHANGED <<credit, due, payments, alloc>>

-----------------------------------------------------------------------------

Pay(r) ==
    \/ \E p \in Payments, n \in Amounts, preferred \in Choices : BeginPay(r, p, n, preferred)
    \/ \E ok \in BOOLEAN : CommitCollection(r, ok) \/ CommitDirect(r, ok)

Decide(r) ==
    \/ \E p \in Payments, kind \in {"verify", "reject"} : BeginDecide(r, kind, p)
    \/ \E ok \in BOOLEAN : CommitVerify(r, ok)
    \/ CommitReject(r)

Next ==
    \/ \E s \in Sales, n \in Amounts : CreditSale(s, n)
    \/ \E rows \in SUBSET Payments : Submit(rows)
    \/ \E r \in Requests : Pay(r) \/ Decide(r) \/ Abort(r)

Spec == Init /\ [][Next]_vars

-----------------------------------------------------------------------------
(* Properties                                                              *)

TypeOK ==
    /\ credit \in [Sales -> 0..MaxAmount]
    /\ due \in [Customers -> Nat]
    /\ status \in [Payments -> Status]
    /\ amount \in [Payments -> 0..MaxAmount]
    /\ alloc \in [Payments -> [Sales -> 0..MaxAmount]]
    /\ req \in [Requests -> Request]

(* No invoice is settled beyond its bill, whatever payments of the         *)
(* customer race, are retried, verified twice or rejected                  *)
(* (allocatePaymentFifo under the customer's lock).                        *)
InvoiceNotOverpaid ==
    \A s \in Sales : Total(Column(s)) <= credit[s]

(* No payment settles more than its amount, and only invoices of its own   *)
(* customer (planFifoAllocation, the open invoices of allocatePaymentFifo).*)
PaymentNotOverspent ==
    \A p \in Payments :
        /\ Total(alloc[p]) <= amount[p]
        /\ \A s \in Sales : alloc[p][s] > 0 => Customer[s] = Customer[p]

(* A rejected collection settles nothing, even when it was verified at the *)
(* same time (the reject branch of verifyCollection).  Collections of      *)
(* older versions are not covered: their branch deletes no allocation.     *)
RejectedSettlesNothing ==
    \A p \in Payments \ Legacy : status[p] = "rejected" => alloc[p] = Nothing

(* No debt is lost: what a customer owes plus the payments that stand      *)
(* covers what was sold, so each key lowers the balance at most once       *)
(* (createCollection, collectCredit, verifyCollection).  A collection of   *)
(* an older version is taken off again when it is verified twice: the      *)
(* customers who have one are not covered.                                 *)
DebtNeverLost ==
    \A c \in Customers : (\A p \in Legacy : Customer[p] # c) =>
        due[c] + Total(Paid(c)) >= Opening[c] + Total(Sold(c))

(* Every handler acts on the invoices as the book of invoices does: a      *)
(* payment settles once, open invoices of its customer, and is withdrawn   *)
(* as a whole.                                                             *)
Book == INSTANCE InvoiceBook WITH billed <- credit, settled <- alloc
ImplementsBook == Book!Spec
=============================================================================
