--------------------------- MODULE MCReceivables ---------------------------
(***************************************************************************)
(* Receivables for TLC: one customer with new payments, another with a     *)
(* collection of an older version.                                         *)
(***************************************************************************)
EXTENDS Receivables, TLC

CONSTANTS Ann, Ben, OldPayment

MCCustomer == [x \in Sales \cup Payments |-> IF x = 3 \/ x = OldPayment THEN Ben ELSE Ann]

(* The invoices a collection of an older version chose are older than it,  *)
(* and so than every invoice here.                                         *)
MCChosen == [p \in Legacy |-> {}]

MCOpening == [c \in Customers |-> IF c = Ben THEN 1 ELSE 0]

Symmetry == Permutations(Requests)

-----------------------------------------------------------------------------
(* collection.controller.js:370-371: rejecting a collection puts the       *)
(* customer's account back in its earlier state.  What a customer owes and *)
(* the payments that stand are then no more than what was sold.            *)
BalanceRestored ==
    \A c \in Customers :
        due[c] + Total(Paid(c)) <= Opening[c] + Total(Sold(c))
=============================================================================
