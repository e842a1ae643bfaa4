------------------------------- MODULE SrSale -------------------------------
(***************************************************************************)
(* createSale of sales.controller.js, with recordPromotionUsage and        *)
(* deductFreeGiftStock of promotion.utils.js: an SR sells to a customer    *)
(* out of the goods in the SR's hand.                                      *)
(*                                                                         *)
(* A sale has three steps.  The handler reads customer and promotions and  *)
(* makes the bill (BeginSale).  Its transaction then locks the customer    *)
(* of a credit sale and an approved order of the SR, checks the limit and  *)
(* the hand (Enter), and writes everything (Commit).  The locks last until *)
(* the COMMIT; the promotions and the gift's product are locked, checked   *)
(* and written in the last step.  What the bill was made from may be stale *)
(* by then.                                                                *)
(*                                                                         *)
(* One product is sold, at the price of 1; gifts are units of it.  VAT,    *)
(* visits, OTP, verification and assignment of the customer are left out.  *)
(***************************************************************************)
EXTENDS Sums

CONSTANTS
    Workers, Customers,
    Requests,           \* sales that may be in flight at the same time
    Promotions,         \* active promotions, stackable
    Buy, Free,          \* buy_quantity and free_quantity; Free is 0 for a rebate
    Rebate,             \* what a promotion takes off the bill at most
    MaxUses, MaxPerCustomer, Budget,    \* limits of each promotion
    Orders,             \* approved orders of each SR today
    Taken,              \* units those orders put into the SR's hand
    CreditLimit,        \* customers.credit_limit
    Owing,              \* current_credit of each customer in the morning
    Saved,              \* credit_balance of each customer in the morning
    Stock,              \* products.stock in the morning
    MaxQty,             \* largest quantity of a sale
    MaxReplaced,        \* largest quantity replaced in a sale
    MaxSales,           \* bound: no sale begins after that many
    MaxReserved         \* bound: no order reserves more than that

Quantities == 1..MaxQty

ASSUME SaleSets ==
    IsFiniteSet(Requests) /\ IsFiniteSet(Customers) /\ IsFiniteSet(Promotions)
ASSUME PromotionTypes ==
    /\ Buy \in [Promotions -> Nat \ {0}]
    /\ Free \in [Promotions -> Nat]
    /\ Rebate \in [Promotions -> Nat]
    /\ MaxUses \in [Promotions -> Nat]
    /\ MaxPerCustomer \in [Promotions -> Nat]
    /\ Budget \in [Promotions -> Nat]
ASSUME MorningTypes ==
    /\ Orders \in [Workers -> Nat]
    /\ Taken \in [Workers -> Nat]
    /\ Owing \in [Customers -> Nat]
    /\ Saved \in [Customers -> Nat]
ASSUME BoundTypes ==
    /\ CreditLimit \in Nat /\ Stock \in Nat
    /\ MaxQty \in Nat /\ MaxReplaced \in Nat
    /\ MaxSales \in Nat /\ MaxReserved \in Nat

VARIABLES
    hand,           \* SUM(qty * direction) of the SR's sr_stock_ledger
    stock,          \* products.stock
    reserved,       \* products.reserved_stock
    due,            \* customers.current_credit
    balance,        \* customers.credit_balance
    uses,           \* rows of promotion_uses, per promotion and customer
    budget,         \* promotions.budget_used
    sales,          \* number of sales committed
    req,            \* the sale each handler is working on
    gifts,          \* history: gifts booked out of each SR's hand
    owed,           \* history: value sold to each customer and not paid in cash
    raced,          \* history: customers of whom two sales spent the balance at once
    overbooked      \* history: units reserved when none were left to reserve

promo == <<uses, budget>>
history == <<gifts, owed, raced, overbooked>>
vars == <<hand, stock, reserved, due, balance, promo, sales, req, history>>

-----------------------------------------------------------------------------

Idle == [stage |-> "idle"]
Sale == [
    stage : {"billed", "entered"},
    worker : Workers, customer : Customers,
    qty : Quantities, replaced : 0..MaxReplaced,
    onCredit : BOOLEAN,
    applied : SUBSET Promotions, discount : [Promotions -> Nat],
    used : Nat,         \* credit_balance_used
    added : Nat,        \* credit_balance_added
    cash : Nat, credit : Nat]

Unclamped(n) == n                       \* faulty Greatest0
Greatest0(n) == IF n < 0 THEN 0 ELSE n
Least(m, n) == IF m < n THEN m ELSE n

(* What pending orders leave; less than nothing when they have overbooked. *)
Available == stock - reserved

GiftQty(p, q) == (q \div Buy[p]) * Free[p]
GiftsOf(applied, q) == Total([p \in Promotions |-> IF p \in applied THEN GiftQty(p, q) ELSE 0])

(* What deductFreeGiftStock checks under the product's lock, and           *)
(* getEligiblePromotions without it.  The faulty one takes what pending    *)
(* orders have reserved.                                                   *)
GiftsOnHand(free) == free > 0 => free <= stock
GiftsAvailable(free) == free > 0 => free <= Available

(* getEligiblePromotions: the promotions the cart qualifies for, as the    *)
(* handler reads them, and what each is worth.                             *)
Eligible(p, c, q) ==
    /\ q >= Buy[p]
    /\ Total(uses[p]) < MaxUses[p]
    /\ uses[p][c] < MaxPerCustomer[p]
    /\ budget[p] < Budget[p]
    /\ GiftsAvailable(GiftQty(p, q))
Worth(p, q) == IF Free[p] > 0 THEN GiftQty(p, q) ELSE Least(Rebate[p], q)
Discount(p, q) == Least(Worth(p, q), Budget[p] - budget[p])

(* Only a rebate lowers the bill (reducesPayable).                         *)
OffTheBill(applied, discount) ==
    Total([p \in Promotions |-> IF p \in applied /\ Free[p] = 0 THEN discount[p] ELSE 0])

(* The checks recordPromotionUsage makes again under the promotion's lock. *)
(* The faulty one trusts the preview.                                      *)
TrustPreview(p, c, d) == TRUE
StillOffered(p, c, d) ==
    /\ Total(uses[p]) < MaxUses[p]
    /\ uses[p][c] < MaxPerCustomer[p]
    /\ budget[p] + d <= Budget[p]

(* No other sale holds the customer's row: FOR UPDATE of a credit sale.    *)
NoCustomerLock(r, c) == TRUE            \* faulty CustomerFree
CustomerFree(r, c) ==
    \A o \in Requests \ {r} :
        ~(req[o].stage = "entered" /\ req[o].onCredit /\ req[o].customer = c)

(* An approved order of w that no other sale holds: FOR UPDATE SKIP LOCKED.*)
NoOrderLock(r, w) == Orders[w] > 0      \* faulty OrderFree
OrderFree(r, w) ==
    Cardinality({o \in Requests \ {r} : req[o].stage = "entered" /\ req[o].worker = w})
        < Orders[w]

(* customers.credit_balance after a sale.  The faulty one, of which FIX #2 *)
(* tells, leaves what was used.                                            *)
BalanceKept(b, used, added) == b + added
BalanceAfter(b, used, added) == Greatest0(b - used) + added

Init ==
    /\ hand = Taken
    /\ stock = Stock
    /\ reserved = 0
    /\ due = Owing
    /\ balance = Saved
    /\ uses = [p \in Promotions |-> [c \in Customers |-> 0]]
    /\ budget = [p \in Promotions |-> 0]
    /\ sales = 0
    /\ req = [r \in Requests |-> Idle]
    /\ gifts = [w \in Workers |-> 0]
    /\ owed = [c \in Customers |-> 0]
    /\ raced = {}
    /\ overbooked = 0

-----------------------------------------------------------------------------
(* The handler before its transaction: promotions, use of the credit       *)
(* balance, replaced goods, the split into cash and credit, and the first  *)
(* check of the limit.  partial is the cash offered with a credit sale.    *)
BeginSale(r, c, q) ==
    LET applied == {p \in Promotions : Eligible(p, c, q)}
        discount == [p \in Promotions |-> IF p \in applied THEN Discount(p, q) ELSE 0]
        off == OffTheBill(applied, discount) IN
    /\ req[r] = Idle
    /\ sales < MaxSales
    /\ \E w \in Workers, replaced \in 0..MaxReplaced, useBalance, onCredit \in BOOLEAN,
          partial \in 0..(q - 1) :
        LET used == IF useBalance THEN Least(balance[c], Greatest0(q - off)) ELSE 0
            net == q - off - used - replaced
            cash == IF onCredit THEN partial ELSE Greatest0(net)
            credit == Greatest0(net) - cash IN
        /\ partial > 0 => onCredit /\ partial < net
        /\ onCredit => due[c] + credit <= CreditLimit
        /\ req' = [req EXCEPT ![r] =
              [stage |-> "billed", worker |-> w, customer |-> c, qty |-> q,
               replaced |-> replaced, onCredit |-> onCredit,
               applied |-> applied, discount |-> discount,
               used |-> used, added |-> Greatest0(-net), cash |-> cash, credit |-> credit]]
    /\ UNCHANGED <<hand, stock, reserved, due, balance, promo, sales, history>>

(* The transaction: lock the customer of a credit sale and check the limit *)
(* again, lock an order, check the goods in hand.                          *)
Enter(r) ==
    LET w == req[r].worker
        c == req[r].customer IN
    /\ req[r].stage = "billed"
    /\ req[r].onCredit => /\ CustomerFree(r, c)
                          /\ due[c] + req[r].credit <= CreditLimit
    /\ OrderFree(r, w)
    /\ req[r].qty <= Greatest0(hand[w])
    /\ req' = [req EXCEPT ![r].stage = "entered"]
    /\ UNCHANGED <<hand, stock, reserved, due, balance, promo, sales, history>>

(* Its writes: the sale (a trigger adds credit_used to the balance due),   *)
(* the gifts and promotion uses, the SR's ledger for goods and gifts, the  *)
(* replaced goods, the credit balance.                                     *)
Commit(r) ==
    LET s == req[r]
        w == s.worker
        c == s.customer
        free == GiftsOf(s.applied, s.qty) IN
    /\ s.stage = "entered"
    /\ s.used + s.added > 0 => CustomerFree(r, c)
    /\ GiftsAvailable(free)
    /\ \A p \in s.applied : StillOffered(p, c, s.discount[p])
    /\ hand' = [hand EXCEPT ![w] = hand[w] - s.qty - free + s.replaced]
    /\ stock' = stock - free + s.replaced
    /\ due' = [due EXCEPT ![c] = due[c] + s.credit]
    /\ balance' = [balance EXCEPT ![c] = BalanceAfter(balance[c], s.used, s.added)]
    /\ uses' = [p \in Promotions |->
          [uses[p] EXCEPT ![c] = uses[p][c] + IF p \in s.applied THEN 1 ELSE 0]]
    /\ budget' = [p \in Promotions |-> budget[p] + s.discount[p]]
    /\ sales' = sales + 1
    /\ req' = [req EXCEPT ![r] = Idle]
    /\ gifts' = [gifts EXCEPT ![w] = gifts[w] + free]
    /\ owed' = [owed EXCEPT ![c] =
          owed[c] + s.qty - OffTheBill(s.applied, s.discount) - s.replaced - s.cash]
    /\ raced' = IF s.used > 0 /\ \E o \in Requests \ {r} :
                      req[o] # Idle /\ req[o].customer = c /\ req[o].used > 0
                THEN raced \cup {c} ELSE raced
    /\ UNCHANGED <<reserved, overbooked>>

(* The sale is refused under its locks, or fails and is rolled back.       *)
Abort(r) ==
    /\ req[r] # Idle
    /\ req' = [req EXCEPT ![r] = Idle]
    /\ UNCHANGED <<hand, stock, reserved, due, balance, promo, sales, history>>

(* createOrder of another SR reserves a unit.  Its check is made on a row  *)
(* read without a lock and before the transaction, at any time at which a  *)
(* unit was available (there was one if ever a unit was in stock); the     *)
(* transaction adds to reserved_stock whatever was reserved since.         *)
Reserve ==
    /\ reserved < MaxReserved
    /\ stock + Total(gifts) > 0
    /\ reserved' = reserved + 1
    /\ overbooked' = overbooked + IF Available > 0 THEN 0 ELSE 1
    /\ UNCHANGED <<hand, stock, due, balance, promo, sales, req, gifts, owed, raced>>

-----------------------------------------------------------------------------

Next ==
    \/ \E r \in Requests :
        \/ \E c \in Customers, q \in Quantities : BeginSale(r, c, q)
        \/ Enter(r) \/ Commit(r) \/ Abort(r)
    \/ Reserve

Spec == Init /\ [][Next]_vars

-----------------------------------------------------------------------------
(* Properties                                                              *)

TypeOK ==
    /\ hand \in [Workers -> Int]
    /\ stock \in Int /\ reserved \in Nat
    /\ due \in [Customers -> Nat]
    /\ balance \in [Customers -> Nat]
    /\ uses \in [Promotions -> [Customers -> Nat]]
    /\ budget \in [Promotions -> Nat]
    /\ sales \in Nat
    /\ req \in [Requests -> {Idle} \cup Sale]
    /\ gifts \in [Workers -> Nat]
    /\ owed \in [Customers -> Int]
    /\ raced \in SUBSET Customers
    /\ overbooked \in Nat

(* An SR sells what is in the SR's hand: with one approved order, whose    *)
(* lock is held from the check to the commit, the hand is never oversold   *)
(* (the comment at 557-561 of createSale); each further order lets one     *)
(* more sale pass the check on the same goods.  Gifts are booked out of a  *)
(* hand they never entered and do not count.                               *)
HandCovered ==
    \A w \in Workers :
        hand[w] + gifts[w] >= IF Orders[w] = 0 THEN 0 ELSE -(Orders[w] - 1) * MaxQty

(* However many SRs sell to a customer at once, their sales never take     *)
(* what the customer owes beyond the limit (the customer lock of           *)
(* createSale).                                                            *)
CreditWithinLimit ==
    \A c \in Customers : due[c] <= CreditLimit \/ due[c] = Owing[c]

(* Sales that saw the last use of a promotion at the same time do not both *)
(* get it: no promotion is used more often, in all or by a customer, or    *)
(* gives away more than it may (recordPromotionUsage).                     *)
PromotionWithinLimits ==
    \A p \in Promotions :
        /\ Total(uses[p]) <= MaxUses[p]
        /\ \A c \in Customers : uses[p][c] <= MaxPerCustomer[p]
        /\ budget[p] <= Budget[p]

(* Gifts never take the goods a pending order has reserved, though they    *)
(* are offered before the transaction and orders reserve in between        *)
(* (deductFreeGiftStock): what is reserved and not in stock is only what   *)
(* orders took from each other, which createOrder does not prevent.        *)
GiftsSpareReserved == reserved <= stock + overbooked

(* Every unit sold is paid for once: what a customer was sold and did not  *)
(* pay in cash is added to the credit or taken off the credit balance, and *)
(* never more than that.  Two sales that spend one balance at the same     *)
(* time are the exception (FIX #2 of createSale): less is taken then.      *)
SaleAccounted ==
    \A c \in Customers :
        LET charged == (due[c] - Owing[c]) + (Saved[c] - balance[c]) IN
        /\ charged <= owed[c]
        /\ c \notin raced => charged = owed[c]
=============================================================================
