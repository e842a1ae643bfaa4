---------------------------- MODULE InvoiceBook ----------------------------
(***************************************************************************)
(* What payment_allocations promises: a book of credit invoices and of the *)
(* payments that settle them.  A payment settles, once, open invoices of   *)
(* its own customer; it is withdrawn as a whole.                           *)
(***************************************************************************)
EXTENDS Sums

CONSTANTS
    Sales, Payments,
    Customer,       \* the customer of each sale and of each payment
    Amounts         \* of a sale or a payment

VARIABLES
    billed,         \* credit_used of each invoice, 0 before it exists
    settled         \* settled[p][s]: how much of invoice s payment p settles

Column(s) == [p \in Payments |-> settled[p][s]]
Nothing == [s \in Sales |-> 0]

Init ==
    /\ billed = Nothing
    /\ settled = [p \in Payments |-> Nothing]

Bill(s, n) ==
    /\ billed[s] = 0
    /\ billed' = [billed EXCEPT ![s] = n]
    /\ UNCHANGED settled

Settle(p, take) ==
    /\ settled[p] = Nothing
    /\ \A s \in Sales : take[s] > 0 =>
          /\ Customer[s] = Customer[p]
          /\ Total(Column(s)) + take[s] <= billed[s]
    /\ settled' = [settled EXCEPT ![p] = take]
    /\ UNCHANGED billed

Withdraw(p) ==
    /\ settled' = [settled EXCEPT ![p] = Nothing]
    /\ UNCHANGED billed

Next ==
    \/ \E s \in Sales, n \in Amounts : Bill(s, n)
    \/ \E p \in Payments : (\E take \in [Sales -> {0} \cup Amounts] : Settle(p, take)) \/ Withdraw(p)

Spec == Init /\ [][Next]_<<billed, settled>>
=============================================================================
