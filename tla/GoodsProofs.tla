---------------------------- MODULE GoodsProofs ----------------------------
(***************************************************************************)
(* Theorems about SrSale, for every set of SRs, customers, promotions and  *)
(* concurrent sales (part I), and about its composition with Stockroom in  *)
(* Goods, which has the properties of both (part II).                      *)
(***************************************************************************)
EXTENDS Goods, SumsProofs

(***************************************************************************)
(* I.  The sales: every behaviour of SrSale.                               *)
(***************************************************************************)

(* Units given with q units bought.                                        *)
LEMMA GiftQtyType ==
  ASSUME NEW p \in Promotions, NEW q \in Nat
  PROVE  GiftQty(p, q) \in Nat
<1>1. Buy[p] \in Nat \ {0} /\ Free[p] \in Nat
  BY PromotionTypes
<1>2. PICK b \in Nat \ {0} : b = Buy[p]
  BY <1>1
<1>3. q \div b \in Nat
  BY <1>2
<1>4. PICK n \in Nat : n = q \div b
  BY <1>3
<1>5. PICK m \in Nat : m = Free[p]
  BY <1>1
<1>6. n * m \in Nat
  OBVIOUS
<1> QED
  BY <1>2, <1>4, <1>5, <1>6 DEF GiftQty

(* The sums over the promotions of a bill are numbers.                     *)
LEMMA BillSums ==
  ASSUME NEW applied \in SUBSET Promotions, NEW discount \in [Promotions -> Nat], NEW q \in Nat
  PROVE  /\ GiftsOf(applied, q) \in Nat
         /\ OffTheBill(applied, discount) \in Nat
<1> USE SaleSets
<1>1. [p \in Promotions |-> IF p \in applied THEN GiftQty(p, q) ELSE 0] \in [Promotions -> Nat]
  BY GiftQtyType
<1>2. [p \in Promotions |-> IF p \in applied /\ Free[p] = 0 THEN discount[p] ELSE 0]
        \in [Promotions -> Nat]
  OBVIOUS
<1> QED
  BY <1>1, <1>2, TotalType DEF GiftsOf, OffTheBill

(* A promotion that a sale qualifies for is worth something that its       *)
(* budget still has.                                                       *)
LEMMA DiscountType ==
  ASSUME TypeOK, NEW p \in Promotions, NEW c \in Customers, NEW q \in Nat, Eligible(p, c, q)
  PROVE  Discount(p, q) \in Nat
<1>1. GiftQty(p, q) \in Nat
  BY GiftQtyType
<1>2. Rebate[p] \in Nat /\ Budget[p] \in Nat /\ Free[p] \in Nat /\ budget[p] \in Nat
  BY PromotionTypes DEF TypeOK
<1>3. Worth(p, q) \in Nat
  BY <1>1, <1>2 DEF Worth, Least
<1>4. Budget[p] - budget[p] \in Nat
  BY <1>2 DEF Eligible
<1> QED
  BY <1>3, <1>4 DEF Discount, Least

-----------------------------------------------------------------------------
(* What the bill of a sale says of itself: a cash sale adds no credit; a   *)
(* promotion that is not applied gives nothing; credit, cash and use of    *)
(* the balance pay for the goods.                                          *)

BillFits(s) ==
    /\ ~s.onCredit => s.credit = 0
    /\ \A p \in Promotions : p \notin s.applied => s.discount[p] = 0
    /\ s.credit + s.cash + s.used - s.added
          = s.qty - OffTheBill(s.applied, s.discount) - s.replaced

(* The sale BeginSale makes.                                               *)
LEMMA BillMade ==
  ASSUME TypeOK, NEW r \in Requests, NEW c \in Customers, NEW q \in Quantities,
         BeginSale(r, c, q)
  PROVE  \E s \in Sale :
            /\ req[r] = Idle
            /\ req' = [req EXCEPT ![r] = s]
            /\ s.stage = "billed"
            /\ s.used > 0 => s.used <= balance[s.customer]
            /\ BillFits(s)
            /\ UNCHANGED <<hand, stock, reserved, due, balance, promo, sales, history>>
<1> DEFINE applied == {p \in Promotions : Eligible(p, c, q)}
           discount == [p \in Promotions |-> IF p \in applied THEN Discount(p, q) ELSE 0]
           off == OffTheBill(applied, discount)
           used(useBalance) == IF useBalance THEN Least(balance[c], Greatest0(q - off)) ELSE 0
           net(replaced, useBalance) == q - off - used(useBalance) - replaced
           cash(n, onCredit, partial) == IF onCredit THEN partial ELSE Greatest0(n)
           bill(w, replaced, onCredit, x, n, money) ==
              [stage |-> "billed", worker |-> w, customer |-> c, qty |-> q,
               replaced |-> replaced, onCredit |-> onCredit,
               applied |-> applied, discount |-> discount,
               used |-> x, added |-> Greatest0(-n), cash |-> money,
               credit |-> Greatest0(n) - money]
<1>1. /\ req[r] = Idle
      /\ \E w \in Workers, replaced \in 0..MaxReplaced, useBalance, onCredit \in BOOLEAN,
           partial \in 0..(q - 1) :
            /\ partial > 0 => onCredit /\ partial < net(replaced, useBalance)
            /\ onCredit => due[c] + (Greatest0(net(replaced, useBalance))
                                - cash(net(replaced, useBalance), onCredit, partial)) <= CreditLimit
            /\ req' = [req EXCEPT ![r] =
                  bill(w, replaced, onCredit, used(useBalance), net(replaced, useBalance),
                       cash(net(replaced, useBalance), onCredit, partial))]
      /\ UNCHANGED <<hand, stock, reserved, due, balance, promo, sales, history>>
  BY Zenon DEF BeginSale
<1> HIDE DEF used, net, cash, bill
<1>2. PICK w \in Workers, replaced \in 0..MaxReplaced, useBalance \in BOOLEAN,
           onCredit \in BOOLEAN, partial \in 0..(q - 1) :
         /\ partial > 0 => onCredit /\ partial < net(replaced, useBalance)
         /\ onCredit => due[c] + (Greatest0(net(replaced, useBalance))
                             - cash(net(replaced, useBalance), onCredit, partial)) <= CreditLimit
         /\ req' = [req EXCEPT ![r] =
               bill(w, replaced, onCredit, used(useBalance), net(replaced, useBalance),
                    cash(net(replaced, useBalance), onCredit, partial))]
  BY <1>1
<1> USE DEF used, net, cash, bill
<1>3. q \in Nat /\ replaced \in Nat /\ partial \in Nat /\ balance[c] \in Nat
  BY BoundTypes DEF Quantities, TypeOK
<1>4. applied \in SUBSET Promotions /\ discount \in [Promotions -> Nat]
  BY <1>3, DiscountType
<1>5. off \in Nat
  BY <1>3, <1>4, BillSums
<1>6. PICK o \in Nat : o = off
  BY <1>5
<1> HIDE DEF applied, discount, off
<1>7. PICK u \in Nat : u = used(useBalance) /\ (u > 0 => u <= balance[c])
  BY <1>3, <1>5 DEF Least, Greatest0
<1> HIDE DEF used
<1>8. PICK n \in Int : n = net(replaced, useBalance) /\ n = q - o - u - replaced
  BY <1>3, <1>6, <1>7
<1> HIDE DEF net
<1>9. PICK money \in Nat : /\ money = cash(n, onCredit, partial)
                           /\ Greatest0(n) - money \in Nat
                           /\ ~onCredit => Greatest0(n) - money = 0
  <2>1. Greatest0(n) \in Nat
    BY DEF Greatest0
  <2>2. CASE onCredit
    BY <1>2, <1>3, <1>8, <2>1, <2>2 DEF Greatest0
  <2>3. CASE ~onCredit
    BY <2>1, <2>3
  <2> QED
    BY <1>2, <2>2, <2>3
<1> HIDE DEF cash
<1>10. PICK back \in Nat : back = Greatest0(-n)
  BY DEF Greatest0
<1>11. PICK owing \in Nat : owing = Greatest0(n) - money
  BY <1>9
<1> DEFINE s == [stage |-> "billed", worker |-> w, customer |-> c, qty |-> q,
                 replaced |-> replaced, onCredit |-> onCredit,
                 applied |-> applied, discount |-> discount,
                 used |-> u, added |-> back, cash |-> money, credit |-> owing]
<1>12. req' = [req EXCEPT ![r] = s]
  BY <1>2, <1>7, <1>8, <1>9, <1>10, <1>11
<1>13. s \in Sale
  BY <1>2, <1>4 DEF Sale
<1>14. BillFits(s)
  <2>1. owing + money + u - back = q - o - replaced
    BY <1>3, <1>8, <1>9, <1>10, <1>11 DEF Greatest0
  <2>2. s.credit + s.cash + s.used - s.added = s.qty - OffTheBill(s.applied, s.discount) - s.replaced
    BY <1>6, <2>1 DEF off
  <2>3. ~s.onCredit => s.credit = 0
    BY <1>9, <1>11
  <2>4. \A p \in Promotions : p \notin s.applied => s.discount[p] = 0
    BY DEF discount
  <2> QED
    BY <2>2, <2>3, <2>4 DEF BillFits
<1>15. s.stage = "billed" /\ (s.used > 0 => s.used <= balance[s.customer])
  BY <1>7
<1> HIDE DEF s
<1> QED
  BY <1>1, <1>12, <1>13, <1>14, <1>15

(* The fields of a sale in flight.                                         *)
LEMMA SaleFields ==
  ASSUME NEW s \in Sale
  PROVE  /\ s.stage \in {"billed", "entered"} /\ s # Idle
         /\ s.worker \in Workers /\ s.customer \in Customers
         /\ s.qty \in Nat /\ s.qty <= MaxQty /\ s.replaced \in Nat
         /\ s.onCredit \in BOOLEAN
         /\ s.applied \in SUBSET Promotions /\ s.discount \in [Promotions -> Nat]
         /\ s.used \in Nat /\ s.added \in Nat /\ s.cash \in Nat /\ s.credit \in Nat
BY BoundTypes DEF Sale, Idle, Quantities

LEMMA InFlight ==
  ASSUME TypeOK, NEW r \in Requests, req[r] # Idle \/ req[r].stage \in {"billed", "entered"}
  PROVE  req[r] \in Sale
BY DEF TypeOK, Idle

(* Taking the lock moves a sale on and changes nothing else.               *)
LEMMA EnterStep ==
  ASSUME TypeOK, NEW r \in Requests, Enter(r)
  PROVE  \E s \in Sale, t \in Sale :
            /\ req[r] = s /\ s.stage = "billed"
            /\ t = [s EXCEPT !.stage = "entered"]
            /\ req' = [req EXCEPT ![r] = t]
            /\ s.onCredit => CustomerFree(r, s.customer) /\ due[s.customer] + s.credit <= CreditLimit
            /\ OrderFree(r, s.worker)
            /\ s.qty <= Greatest0(hand[s.worker])
            /\ UNCHANGED <<hand, stock, reserved, due, balance, promo, sales, history>>
<1>1. PICK s \in Sale : s = req[r]
  BY InFlight DEF Enter
<1>2. [s EXCEPT !.stage = "entered"] \in Sale
  BY DEF Sale
<1>3. req' = [req EXCEPT ![r] = [s EXCEPT !.stage = "entered"]]
  BY <1>1 DEF Enter, TypeOK
<1> QED
  BY <1>1, <1>2, <1>3 DEF Enter

(* What a sale s of SR w to customer c writes, with its gifts and what its *)
(* promotions take off the bill.                                           *)
SaleWritten(r, s, w, c, free, off) ==
    /\ req[r] = s /\ s.stage = "entered" /\ w = s.worker /\ c = s.customer
    /\ off = OffTheBill(s.applied, s.discount)
    /\ free > 0 => free <= stock - reserved
    /\ \A p \in s.applied : StillOffered(p, c, s.discount[p])
    /\ hand' = [hand EXCEPT ![w] = hand[w] - s.qty - free + s.replaced]
    /\ stock' = stock - free + s.replaced
    /\ due' = [due EXCEPT ![c] = due[c] + s.credit]
    /\ balance' = [balance EXCEPT ![c] = Greatest0(balance[c] - s.used) + s.added]
    /\ uses' = [p \in Promotions |->
          [uses[p] EXCEPT ![c] = uses[p][c] + IF p \in s.applied THEN 1 ELSE 0]]
    /\ budget' = [p \in Promotions |-> budget[p] + s.discount[p]]
    /\ sales' = sales + 1
    /\ req' = [req EXCEPT ![r] = Idle]
    /\ gifts' = [gifts EXCEPT ![w] = gifts[w] + free]
    /\ owed' = [owed EXCEPT ![c] = owed[c] + s.qty - off - s.replaced - s.cash]
    /\ raced' = IF s.used > 0 /\ \E o \in Requests \ {r} :
                      req[o] # Idle /\ req[o].customer = c /\ req[o].used > 0
                THEN raced \cup {c} ELSE raced
    /\ reserved' = reserved /\ overbooked' = overbooked

LEMMA CommitStep ==
  ASSUME TypeOK, NEW r \in Requests, Commit(r)
  PROVE  \E s \in Sale, w \in Workers, c \in Customers, free \in Nat, off \in Nat :
            SaleWritten(r, s, w, c, free, off)
<1>1. PICK s \in Sale : s = req[r]
  BY InFlight DEF Commit
<1>2. /\ s.worker \in Workers /\ s.customer \in Customers
      /\ GiftsOf(s.applied, s.qty) \in Nat
      /\ OffTheBill(s.applied, s.discount) \in Nat
  BY SaleFields, BillSums
<1> QED
  BY <1>1, <1>2 DEF Commit, GiftsAvailable, Available, BalanceAfter, SaleWritten

(* TypeOK of SrSale, for every instance: in particular the balances of a   *)
(* customer never go negative (createSale).                                *)
LEMMA TypingInductive ==
  ASSUME TypeOK, [Next]_vars
  PROVE  TypeOK'
<1>1. ASSUME NEW r \in Requests, NEW c \in Customers, NEW q \in Quantities, BeginSale(r, c, q)
      PROVE  TypeOK'
  <2>1. PICK s \in Sale :
          /\ req' = [req EXCEPT ![r] = s]
          /\ UNCHANGED <<hand, stock, reserved, due, balance, promo, sales, history>>
    BY <1>1, BillMade
  <2> QED
    BY <2>1 DEF TypeOK, promo, history
<1>2. ASSUME NEW r \in Requests, Enter(r)
      PROVE  TypeOK'
  <2>1. PICK t \in Sale :
          /\ req' = [req EXCEPT ![r] = t]
          /\ UNCHANGED <<hand, stock, reserved, due, balance, promo, sales, history>>
    BY <1>2, EnterStep
  <2> QED
    BY <2>1 DEF TypeOK, promo, history
<1>3. ASSUME NEW r \in Requests, Commit(r)
      PROVE  TypeOK'
  <2>0. PICK s \in Sale, w \in Workers, c \in Customers, free \in Nat, off \in Nat :
           SaleWritten(r, s, w, c, free, off)
    BY <1>3, CommitStep
  <2>1. /\ hand' = [hand EXCEPT ![w] = hand[w] - s.qty - free + s.replaced]
        /\ stock' = stock - free + s.replaced
        /\ due' = [due EXCEPT ![c] = due[c] + s.credit]
        /\ balance' = [balance EXCEPT ![c] = Greatest0(balance[c] - s.used) + s.added]
        /\ uses' = [p \in Promotions |->
              [uses[p] EXCEPT ![c] = uses[p][c] + IF p \in s.applied THEN 1 ELSE 0]]
        /\ budget' = [p \in Promotions |-> budget[p] + s.discount[p]]
        /\ sales' = sales + 1
        /\ req' = [req EXCEPT ![r] = Idle]
        /\ gifts' = [gifts EXCEPT ![w] = gifts[w] + free]
        /\ owed' = [owed EXCEPT ![c] = owed[c] + s.qty - off - s.replaced - s.cash]
        /\ raced' \in {raced, raced \cup {c}}
        /\ reserved' = reserved /\ overbooked' = overbooked
    BY <2>0 DEF SaleWritten
  <2>2. /\ s.qty \in Nat /\ s.replaced \in Nat /\ s.used \in Nat /\ s.added \in Nat
        /\ s.cash \in Nat /\ s.credit \in Nat /\ s.discount \in [Promotions -> Nat]
    BY SaleFields
  <2>3. hand' \in [Workers -> Int] /\ stock' \in Int /\ reserved' \in Nat
    BY <2>1, <2>2 DEF TypeOK
  <2>4. due' \in [Customers -> Nat] /\ balance' \in [Customers -> Nat]
    BY <2>1, <2>2 DEF TypeOK, Greatest0
  <2>5. uses' \in [Promotions -> [Customers -> Nat]]
    <3>1. ASSUME NEW p \in Promotions
          PROVE  [uses[p] EXCEPT ![c] = uses[p][c] + IF p \in s.applied THEN 1 ELSE 0]
                    \in [Customers -> Nat]
      BY DEF TypeOK
    <3> QED
      BY <2>1, <3>1
  <2>6. budget' \in [Promotions -> Nat] /\ sales' \in Nat
    BY <2>1, <2>2 DEF TypeOK
  <2>7. req' \in [Requests -> {Idle} \cup Sale]
    BY <2>1 DEF TypeOK
  <2>8. /\ gifts' \in [Workers -> Nat] /\ owed' \in [Customers -> Int]
        /\ raced' \in SUBSET Customers /\ overbooked' \in Nat
    BY <2>1, <2>2 DEF TypeOK
  <2> QED
    BY <2>3, <2>4, <2>5, <2>6, <2>7, <2>8 DEF TypeOK
<1>4. ASSUME NEW r \in Requests, Abort(r)
      PROVE  TypeOK'
  BY <1>4 DEF Abort, TypeOK, promo, history
<1>5. CASE Reserve
  BY <1>5 DEF Reserve, TypeOK, promo, history
<1>6. CASE UNCHANGED vars
  BY <1>6 DEF vars, TypeOK, promo, history
<1> QED
  BY <1>1, <1>2, <1>3, <1>4, <1>5, <1>6 DEF Next

LEMMA TypingInit == Init => TypeOK
BY MorningTypes, BoundTypes DEF Init, TypeOK

(* The balances and limits have their types, whatever happens.             *)
THEOREM TypeCorrect == Spec => []TypeOK
BY TypingInit, TypingInductive, PTL DEF Spec

-----------------------------------------------------------------------------
(* Every sale in flight carries a bill that fits.                          *)

BillInv ==
    /\ TypeOK
    /\ \A r \in Requests : req[r] # Idle => BillFits(req[r])

LEMMA BillInvInductive ==
  ASSUME BillInv, [Next]_vars
  PROVE  BillInv'
<1>1. TypeOK /\ TypeOK'
  BY TypingInductive DEF BillInv
<1> DEFINE Fits == \A o \in Requests : req[o] # Idle => BillFits(req[o])
<1>2. Fits
  BY DEF BillInv
<1>3. ASSUME NEW r \in Requests, NEW v, req' = [req EXCEPT ![r] = v], v = Idle \/ BillFits(v)
      PROVE  Fits'
  <2>1. ASSUME NEW o \in Requests
        PROVE  req'[o] # Idle => BillFits(req'[o])
    BY <1>1, <1>2, <1>3 DEF TypeOK
  <2> QED
    BY <2>1 DEF BillFits
<1>4. ASSUME NEW r \in Requests, NEW c \in Customers, NEW q \in Quantities, BeginSale(r, c, q)
      PROVE  Fits'
  <2>1. PICK s \in Sale : req' = [req EXCEPT ![r] = s] /\ BillFits(s)
    BY <1>1, <1>4, BillMade
  <2> HIDE DEF Fits
  <2> QED
    BY <2>1, <1>3
<1>5. ASSUME NEW r \in Requests, Enter(r)
      PROVE  Fits'
  <2>1. PICK s \in Sale, t \in Sale :
          req[r] = s /\ t = [s EXCEPT !.stage = "entered"] /\ req' = [req EXCEPT ![r] = t]
    BY <1>1, <1>5, EnterStep
  <2>2. BillFits(s)
    BY <1>2, <2>1, SaleFields
  <2>3. BillFits(t)
    BY <2>1, <2>2 DEF BillFits, Sale
  <2> HIDE DEF Fits
  <2> QED
    BY <2>1, <2>3, <1>3
<1>6. ASSUME NEW r \in Requests, Commit(r) \/ Abort(r)
      PROVE  Fits'
  <2>1. req' = [req EXCEPT ![r] = Idle]
    BY <1>6 DEF Commit, Abort
  <2> HIDE DEF Fits
  <2> QED
    BY <2>1, <1>3
<1>7. ASSUME Reserve \/ UNCHANGED vars
      PROVE  Fits'
  <2>1. req' = req
    BY <1>7 DEF Reserve, vars
  <2> QED
    BY <1>2, <2>1 DEF BillFits
<1>8. Fits'
  <2> HIDE DEF Fits
  <2>1. CASE UNCHANGED vars
    BY <1>7, <2>1
  <2>2. CASE Next
    BY <1>4, <1>5, <1>6, <1>7, <2>2 DEF Next
  <2> QED
    BY <2>1, <2>2
<1> QED
  BY <1>1, <1>8 DEF BillInv

LEMMA BillInvInit == Init => BillInv
BY TypingInit DEF Init, BillInv

-----------------------------------------------------------------------------
(* Credit: a credit sale under its customer's lock still has room for its  *)
(* credit, because no other sale on credit is under that lock.             *)

OnCredit(s, c) == s.stage = "entered" /\ s.onCredit /\ s.customer = c

OneCreditSale ==
    \A r, o \in Requests, c \in Customers : OnCredit(req[r], c) /\ OnCredit(req[o], c) => r = o

CreditHasRoom ==
    \A r \in Requests, c \in Customers :
        OnCredit(req[r], c) => due[c] + req[r].credit <= CreditLimit

CreditInv == OneCreditSale /\ CreditHasRoom /\ CreditWithinLimit

(* A handler that is not under the lock afterwards holds up nobody.        *)
LEMMA CreditReleased ==
  ASSUME TypeOK, CreditInv, NEW r \in Requests, NEW v,
         req' = [req EXCEPT ![r] = v], v.stage # "entered", due' = due
  PROVE  CreditInv'
<1>1. \A o \in Requests, c \in Customers : OnCredit(req'[o], c) => o # r /\ OnCredit(req[o], c) /\ req'[o] = req[o]
  BY DEF OnCredit, TypeOK
<1> QED
  BY <1>1 DEF CreditInv, OneCreditSale, CreditHasRoom, CreditWithinLimit, OnCredit

LEMMA CreditInductive ==
  ASSUME BillInv, CreditInv, [Next]_vars
  PROVE  CreditInv'
<1>1. TypeOK /\ Idle.stage # "entered"
  BY DEF BillInv, Idle
<1>2. ASSUME NEW r \in Requests, NEW c \in Customers, NEW q \in Quantities, BeginSale(r, c, q)
      PROVE  CreditInv'
  <2>1. PICK s \in Sale : req' = [req EXCEPT ![r] = s] /\ s.stage = "billed" /\ due' = due
    BY <1>1, <1>2, BillMade
  <2> QED
    BY <1>1, <2>1, CreditReleased
<1>3. ASSUME NEW r \in Requests, Enter(r)
      PROVE  CreditInv'
  <2>1. PICK s \in Sale, t \in Sale :
            /\ req[r] = s /\ s.stage = "billed"
            /\ t = [s EXCEPT !.stage = "entered"]
            /\ req' = [req EXCEPT ![r] = t]
            /\ s.onCredit => CustomerFree(r, s.customer) /\ due[s.customer] + s.credit <= CreditLimit
            /\ due' = due
    BY <1>1, <1>3, EnterStep
  <2>2. t.onCredit = s.onCredit /\ t.customer = s.customer /\ t.credit = s.credit
    BY <2>1 DEF Sale
  <2>3. \A o \in Requests, c \in Customers : o # r /\ OnCredit(req'[o], c) => OnCredit(req[o], c) /\ req'[o] = req[o]
    BY <1>1, <2>1 DEF OnCredit, TypeOK
  <2>4. \A c \in Customers : OnCredit(req'[r], c) =>
            /\ c = s.customer /\ s.onCredit /\ req'[r].credit = s.credit
            /\ \A o \in Requests \ {r} : ~OnCredit(req[o], c)
    BY <1>1, <2>1, <2>2 DEF OnCredit, TypeOK, CustomerFree
  <2>5. OneCreditSale'
    BY <2>3, <2>4 DEF CreditInv, OneCreditSale, OnCredit
  <2>6. CreditHasRoom'
    BY <2>1, <2>3, <2>4 DEF CreditInv, CreditHasRoom, OnCredit
  <2> QED
    BY <2>1, <2>5, <2>6 DEF CreditInv, CreditWithinLimit
<1>4. ASSUME NEW r \in Requests, Commit(r)
      PROVE  CreditInv'
  <2>0. PICK s \in Sale, w \in Workers, c \in Customers, free \in Nat, off \in Nat :
           SaleWritten(r, s, w, c, free, off)
    BY <1>1, <1>4, CommitStep
  <2>1. /\ req[r] = s /\ s.stage = "entered" /\ c = s.customer
        /\ due' = [due EXCEPT ![c] = due[c] + s.credit]
        /\ req' = [req EXCEPT ![r] = Idle]
    BY <2>0 DEF SaleWritten
  <2>2. /\ s.credit \in Nat /\ s.onCredit \in BOOLEAN
        /\ ~s.onCredit => s.credit = 0
    BY <2>1, SaleFields DEF BillInv, BillFits
  <2>3. CASE ~s.onCredit
    <3>1. due' = due
      BY <1>1, <2>1, <2>2, <2>3 DEF TypeOK
    <3> QED
      BY <1>1, <2>1, <3>1, CreditReleased
  <2>4. CASE s.onCredit
    <3>1. OnCredit(req[r], c)
      BY <2>1, <2>4 DEF OnCredit
    <3>2. \A o \in Requests, d \in Customers :
            OnCredit(req'[o], d) => o # r /\ OnCredit(req[o], d) /\ req'[o] = req[o] /\ d # c
      BY <1>1, <2>1, <3>1 DEF OnCredit, TypeOK, Idle, CreditInv, OneCreditSale
    <3>3. due[c] + s.credit <= CreditLimit
      BY <2>1, <3>1 DEF CreditInv, CreditHasRoom
    <3>4. due'[c] <= CreditLimit /\ \A d \in Customers : d # c => due'[d] = due[d]
      BY <1>1, <2>1, <3>3 DEF TypeOK
    <3>5. OneCreditSale'
      BY <3>2 DEF CreditInv, OneCreditSale, OnCredit
    <3>6. CreditHasRoom'
      BY <3>2, <3>4 DEF CreditInv, CreditHasRoom, OnCredit
    <3>7. CreditWithinLimit'
      BY <3>4 DEF CreditInv, CreditWithinLimit
    <3> QED
      BY <3>5, <3>6, <3>7 DEF CreditInv
  <2> QED
    BY <2>2, <2>3, <2>4
<1>5. ASSUME NEW r \in Requests, Abort(r)
      PROVE  CreditInv'
  BY <1>1, <1>5, CreditReleased DEF Abort
<1>6. CASE Reserve \/ UNCHANGED vars
  BY <1>6 DEF Reserve, vars, CreditInv, OneCreditSale, CreditHasRoom, CreditWithinLimit, OnCredit
<1> QED
  BY <1>2, <1>3, <1>4, <1>5, <1>6 DEF Next

(* Concurrent credit sales never take a customer beyond the limit.         *)
THEOREM CreditLimited == Spec => []CreditWithinLimit
<1>1. Init => CreditInv
  BY DEF Init, CreditInv, OneCreditSale, CreditHasRoom, CreditWithinLimit, OnCredit, Idle
<1>2. CreditInv => CreditWithinLimit
  BY DEF CreditInv
<1> QED
  BY BillInvInit, BillInvInductive, CreditInductive, <1>1, <1>2, PTL DEF Spec

-----------------------------------------------------------------------------
(* Promotions: what a sale uses is checked again where it is written.      *)

LEMMA UsesOfPromotion ==
  ASSUME TypeOK, NEW p \in Promotions, NEW c \in Customers, NEW n \in {0, 1},
         NEW f, f = [uses[p] EXCEPT ![c] = uses[p][c] + n]
  PROVE  f \in [Customers -> Nat] /\ Total(f) = Total(uses[p]) + n
<1>1. f \in [Customers -> Nat] /\ uses[p] \in [Customers -> Nat]
  BY DEF TypeOK
<1>2. \A d \in Customers : d # c => f[d] = uses[p][d]
  BY <1>1
<1>3. Total(f) = Total(uses[p]) - uses[p][c] + f[c] /\ Total(uses[p]) \in Nat
  BY <1>1, <1>2, SaleSets, TotalUpdate
<1> QED
  BY <1>1, <1>3

LEMMA PromotionsInductive ==
  ASSUME BillInv, PromotionWithinLimits, [Next]_vars
  PROVE  PromotionWithinLimits'
<1>1. TypeOK
  BY DEF BillInv
<1>2. ASSUME UNCHANGED promo
      PROVE  PromotionWithinLimits'
  BY <1>2 DEF promo, PromotionWithinLimits
<1>3. ASSUME NEW r \in Requests, Commit(r)
      PROVE  PromotionWithinLimits'
  <2>0. PICK s \in Sale, w \in Workers, c \in Customers, free \in Nat, off \in Nat :
           SaleWritten(r, s, w, c, free, off)
    BY <1>1, <1>3, CommitStep
  <2>1. /\ req[r] = s
        /\ \A p \in s.applied : StillOffered(p, c, s.discount[p])
        /\ uses' = [p \in Promotions |->
              [uses[p] EXCEPT ![c] = uses[p][c] + IF p \in s.applied THEN 1 ELSE 0]]
        /\ budget' = [p \in Promotions |-> budget[p] + s.discount[p]]
    BY <2>0 DEF SaleWritten
  <2>2. /\ s.discount \in [Promotions -> Nat]
        /\ \A p \in Promotions : p \notin s.applied => s.discount[p] = 0
    BY <2>1, SaleFields DEF BillInv, BillFits
  <2>3. ASSUME NEW p \in Promotions
        PROVE  /\ Total(uses'[p]) <= MaxUses[p]
               /\ \A d \in Customers : uses'[p][d] <= MaxPerCustomer[p]
               /\ budget'[p] <= Budget[p]
    <3>1. PICK n \in {0, 1} : n = IF p \in s.applied THEN 1 ELSE 0
      OBVIOUS
    <3>2. uses'[p] = [uses[p] EXCEPT ![c] = uses[p][c] + n]
      BY <2>1, <3>1
    <3>3. Total(uses'[p]) = Total(uses[p]) + n
      BY <1>1, <3>2, UsesOfPromotion
    <3>4. /\ uses[p] \in [Customers -> Nat] /\ budget[p] \in Nat
          /\ Total(uses[p]) \in Nat
          /\ MaxUses[p] \in Nat /\ MaxPerCustomer[p] \in Nat /\ Budget[p] \in Nat
      BY <1>1, PromotionTypes, SaleSets, TotalType DEF TypeOK
    <3>5. budget'[p] = budget[p] + s.discount[p]
      BY <2>1
    <3>6. CASE p \in s.applied
      <4>1. /\ Total(uses[p]) < MaxUses[p] /\ uses[p][c] < MaxPerCustomer[p]
            /\ budget[p] + s.discount[p] <= Budget[p]
        BY <2>1, <3>6 DEF StillOffered
      <4> QED
        BY <3>1, <3>2, <3>3, <3>4, <3>5, <3>6, <4>1 DEF PromotionWithinLimits
    <3>7. CASE p \notin s.applied
      BY <2>2, <3>1, <3>2, <3>3, <3>4, <3>5, <3>7 DEF PromotionWithinLimits
    <3> QED
      BY <3>6, <3>7
  <2> QED
    BY <2>3 DEF PromotionWithinLimits
<1>4. ASSUME NEW r \in Requests, NEW c \in Customers, NEW q \in Quantities,
             BeginSale(r, c, q) \/ Enter(r) \/ Abort(r)
      PROVE  UNCHANGED promo
  BY <1>4 DEF BeginSale, Enter, Abort
<1>5. ASSUME NEW r \in Requests, Enter(r) \/ Abort(r)
      PROVE  UNCHANGED promo
  BY <1>5 DEF Enter, Abort
<1>6. CASE Reserve \/ UNCHANGED vars
  BY <1>2, <1>6 DEF Reserve, vars
<1> QED
  BY <1>2, <1>3, <1>4, <1>5, <1>6 DEF Next

(* No promotion is used more often or gives more than it may.              *)
THEOREM PromotionsLimited == Spec => []PromotionWithinLimits
<1>1. Init => PromotionWithinLimits
  <2>1. ASSUME Init, NEW p \in Promotions
        PROVE  /\ Total(uses[p]) = 0
               /\ \A c \in Customers : uses[p][c] = 0
               /\ budget[p] = 0
    <3>1. uses[p] \in [Customers -> Nat] /\ \A c \in Customers : uses[p][c] = 0
      BY <2>1 DEF Init
    <3>2. Total(uses[p]) = 0
      BY <3>1, TotalZero
    <3> QED
      BY <2>1, <3>1, <3>2 DEF Init
  <2> QED
    BY <2>1, PromotionTypes DEF PromotionWithinLimits
<1> QED
  BY BillInvInit, BillInvInductive, PromotionsInductive, <1>1, PTL DEF Spec

-----------------------------------------------------------------------------
(* Gifts never take what pending orders have reserved: orders alone        *)
(* reserve what is not in stock.                                           *)
THEOREM ReservedSpared == Spec => []GiftsSpareReserved
<1>1. Init => GiftsSpareReserved
  BY BoundTypes DEF Init, GiftsSpareReserved
<1>2. ASSUME TypeOK, GiftsSpareReserved, [Next]_vars
      PROVE  GiftsSpareReserved'
  <2>1. ASSUME NEW r \in Requests, Commit(r)
        PROVE  GiftsSpareReserved'
    <3>0. PICK s \in Sale, w \in Workers, c \in Customers, free \in Nat, off \in Nat :
             SaleWritten(r, s, w, c, free, off)
      BY <1>2, <2>1, CommitStep
    <3>1. /\ free > 0 => free <= stock - reserved
          /\ stock' = stock - free + s.replaced
          /\ reserved' = reserved /\ overbooked' = overbooked
      BY <3>0 DEF SaleWritten
    <3>2. s.replaced \in Nat
      BY SaleFields
    <3> QED
      BY <1>2, <3>1, <3>2 DEF TypeOK, GiftsSpareReserved
  <2>2. CASE Reserve
    BY <1>2, <2>2 DEF Reserve, Available, TypeOK, GiftsSpareReserved
  <2>3. ASSUME UNCHANGED <<stock, reserved, overbooked>>
        PROVE  GiftsSpareReserved'
    BY <1>2, <2>3 DEF GiftsSpareReserved
  <2>4. ASSUME NEW r \in Requests, NEW c \in Customers, NEW q \in Quantities, BeginSale(r, c, q)
        PROVE  UNCHANGED <<stock, reserved, overbooked>>
    BY <2>4 DEF BeginSale, history
  <2>5. ASSUME NEW r \in Requests, Enter(r) \/ Abort(r)
        PROVE  UNCHANGED <<stock, reserved, overbooked>>
    BY <2>5 DEF Enter, Abort, history
  <2>6. CASE UNCHANGED vars
    BY <2>3, <2>6 DEF vars, history
  <2> QED
    BY <1>2, <2>1, <2>2, <2>3, <2>4, <2>5, <2>6 DEF Next
<1> QED
  BY <1>1, <1>2, TypeCorrect, PTL DEF Spec

-----------------------------------------------------------------------------
(* Accounts: the balance still covers what every sale in flight takes of   *)
(* it, unless two sales of the customer have spent it at once.             *)

BalanceCovers ==
    \A r \in Requests, c \in Customers :
        req[r] # Idle /\ req[r].customer = c /\ req[r].used > 0 /\ c \notin raced
            => req[r].used <= balance[c]

AccountInv == BalanceCovers /\ SaleAccounted

LEMMA AccountsInductive ==
  ASSUME BillInv, AccountInv, [Next]_vars
  PROVE  AccountInv'
<1>1. TypeOK
  BY DEF BillInv
<1>2. ASSUME NEW r \in Requests, NEW c \in Customers, NEW q \in Quantities, BeginSale(r, c, q)
      PROVE  AccountInv'
  <2>1. PICK s \in Sale :
            /\ req' = [req EXCEPT ![r] = s]
            /\ s.used > 0 => s.used <= balance[s.customer]
            /\ UNCHANGED <<due, balance, history>>
    BY <1>1, <1>2, BillMade
  <2>2. BalanceCovers'
    BY <1>1, <2>1 DEF AccountInv, BalanceCovers, TypeOK, history
  <2>3. SaleAccounted'
    BY <2>1 DEF AccountInv, SaleAccounted, history
  <2> QED
    BY <2>2, <2>3 DEF AccountInv
<1>3. ASSUME NEW r \in Requests, Enter(r)
      PROVE  AccountInv'
  <2>1. PICK s \in Sale, t \in Sale :
            /\ req[r] = s /\ t = [s EXCEPT !.stage = "entered"]
            /\ req' = [req EXCEPT ![r] = t]
            /\ UNCHANGED <<due, balance, history>>
    BY <1>1, <1>3, EnterStep
  <2>2. t.used = s.used /\ t.customer = s.customer /\ s # Idle
    BY <2>1, SaleFields DEF Sale
  <2>3. BalanceCovers'
    BY <1>1, <2>1, <2>2 DEF AccountInv, BalanceCovers, TypeOK, history
  <2>4. SaleAccounted'
    BY <2>1 DEF AccountInv, SaleAccounted, history
  <2> QED
    BY <2>3, <2>4 DEF AccountInv
<1>4. ASSUME NEW r \in Requests, Commit(r)
      PROVE  AccountInv'
  <2>0. PICK s \in Sale, w \in Workers, c \in Customers, free \in Nat, off \in Nat :
           SaleWritten(r, s, w, c, free, off)
    BY <1>1, <1>4, CommitStep
  <2>1. /\ req[r] = s /\ c = s.customer
        /\ off = OffTheBill(s.applied, s.discount)
        /\ due' = [due EXCEPT ![c] = due[c] + s.credit]
        /\ balance' = [balance EXCEPT ![c] = Greatest0(balance[c] - s.used) + s.added]
        /\ req' = [req EXCEPT ![r] = Idle]
        /\ owed' = [owed EXCEPT ![c] = owed[c] + s.qty - off - s.replaced - s.cash]
        /\ raced' = IF s.used > 0 /\ \E o \in Requests \ {r} :
                          req[o] # Idle /\ req[o].customer = c /\ req[o].used > 0
                    THEN raced \cup {c} ELSE raced
    BY <2>0 DEF SaleWritten
  <2>2. /\ s.qty \in Nat /\ s.replaced \in Nat /\ s.used \in Nat /\ s.added \in Nat
        /\ s.cash \in Nat /\ s.credit \in Nat
        /\ s.credit + s.cash + s.used - s.added = s.qty - off - s.replaced
        /\ s # Idle
    BY <2>1, SaleFields DEF BillInv, BillFits
  <2>3. PICK b \in Nat : b = balance[c] /\ balance'[c] = Greatest0(b - s.used) + s.added
    BY <1>1, <2>1 DEF TypeOK
  <2>4. c \notin raced => s.used <= b
    BY <2>1, <2>2, <2>3 DEF AccountInv, BalanceCovers
  <2>5. BalanceCovers'
    <3>1. SUFFICES ASSUME NEW o \in Requests, o # r, req[o] # Idle, req[o].used > 0,
                          req[o].customer \in Customers, req[o].customer \notin raced'
                   PROVE  req[o].used <= balance'[req[o].customer]
      BY <1>1, <2>1 DEF BalanceCovers, TypeOK
    <3>2. req[o].used <= balance[req[o].customer] /\ req[o].used \in Nat
      <4>1. req[o].customer \notin raced
        BY <2>1, <3>1
      <4> QED
        BY <1>1, <3>1, <4>1, InFlight, SaleFields DEF AccountInv, BalanceCovers
    <3>3. CASE req[o].customer # c
      BY <1>1, <2>1, <3>1, <3>2, <3>3 DEF TypeOK
    <3>4. CASE req[o].customer = c
      <4>1. s.used = 0
        BY <2>1, <2>2, <3>1, <3>4
      <4> QED
        BY <2>2, <2>3, <3>2, <3>4, <4>1 DEF Greatest0
    <3> QED
      BY <3>3, <3>4
  <2>6. SaleAccounted'
    <3>1. SUFFICES ASSUME NEW d \in Customers
                   PROVE  /\ (due'[d] - Owing[d]) + (Saved[d] - balance'[d]) <= owed'[d]
                          /\ d \notin raced' =>
                                (due'[d] - Owing[d]) + (Saved[d] - balance'[d]) = owed'[d]
      BY DEF SaleAccounted
    <3>2. /\ due[d] \in Nat /\ balance[d] \in Nat /\ owed[d] \in Int
          /\ Owing[d] \in Nat /\ Saved[d] \in Nat
          /\ (due[d] - Owing[d]) + (Saved[d] - balance[d]) <= owed[d]
          /\ d \notin raced => (due[d] - Owing[d]) + (Saved[d] - balance[d]) = owed[d]
          /\ d \notin raced' => d \notin raced
      BY <1>1, <2>1, MorningTypes DEF AccountInv, SaleAccounted, TypeOK
    <3>3. CASE d # c
      BY <1>1, <2>1, <3>2, <3>3 DEF TypeOK
    <3>4. CASE d = c
      <4>1. /\ due'[d] = due[d] + s.credit
            /\ owed'[d] = owed[d] + s.qty - off - s.replaced - s.cash
        BY <1>1, <2>1, <3>4 DEF TypeOK
      <4>2. balance'[d] >= balance[d] - s.used + s.added
            /\ (d \notin raced => balance'[d] = balance[d] - s.used + s.added)
        BY <2>2, <2>3, <2>4, <3>4 DEF Greatest0
      <4>3. balance'[d] \in Nat
        BY <2>2, <2>3, <3>4 DEF Greatest0
      <4> QED
        BY <2>2, <3>2, <4>1, <4>2, <4>3
    <3> QED
      BY <3>3, <3>4
  <2> QED
    BY <2>5, <2>6 DEF AccountInv
<1>5. ASSUME NEW r \in Requests, Abort(r)
      PROVE  AccountInv'
  <2>1. req' = [req EXCEPT ![r] = Idle] /\ UNCHANGED <<due, balance, history>>
    BY <1>5 DEF Abort
  <2> QED
    BY <1>1, <2>1 DEF AccountInv, BalanceCovers, SaleAccounted, TypeOK, history
<1>6. CASE Reserve \/ UNCHANGED vars
  BY <1>6 DEF Reserve, vars, history, AccountInv, BalanceCovers, SaleAccounted
<1> QED
  BY <1>2, <1>3, <1>4, <1>5, <1>6 DEF Next

(* Every unit sold is paid for once.                                       *)
THEOREM SalesAccounted == Spec => []SaleAccounted
<1>1. Init => AccountInv
  BY MorningTypes DEF Init, AccountInv, BalanceCovers, SaleAccounted
<1>2. AccountInv => SaleAccounted
  BY DEF AccountInv
<1> QED
  BY BillInvInit, BillInvInductive, AccountsInductive, <1>1, <1>2, PTL DEF Spec

-----------------------------------------------------------------------------
(* Goods in hand: what the sales past the check will take is set aside, and*)
(* an SR has at most as many of them as approved orders.                   *)

EnteredBy(w) == {r \in Requests : req[r].stage = "entered" /\ req[r].worker = w}
SetAside(w) == [r \in Requests |-> IF r \in EnteredBy(w) THEN req[r].qty ELSE 0]
Overdraft(w) == IF Orders[w] = 0 THEN 0 ELSE (Orders[w] - 1) * MaxQty

HandInv == \A w \in Workers : hand[w] + gifts[w] - Total(SetAside(w)) >= -Overdraft(w)

LEMMA ProductMonotone ==
  ASSUME NEW m \in Nat, NEW n \in Nat, NEW k \in Nat, m <= n
  PROVE  m * k <= n * k /\ m * k \in Nat /\ n * k \in Nat
OBVIOUS

LEMMA OverdraftType ==
  ASSUME NEW w \in Workers
  PROVE  Overdraft(w) \in Nat
<1>1. Orders[w] \in Nat /\ MaxQty \in Nat
  BY MorningTypes, BoundTypes
<1>2. PICK n \in Nat : n = Orders[w]
  BY <1>1
<1>3. n # 0 => n - 1 \in Nat
  OBVIOUS
<1> QED
  BY <1>1, <1>2, <1>3, ProductMonotone DEF Overdraft

(* A column with at most n rows other than 0, none above m, adds up to at  *)
(* most n * m.                                                             *)
LEMMA TotalBound ==
  ASSUME NEW S, IsFiniteSet(S), NEW f \in [S -> Nat], NEW m \in Nat, NEW T \in SUBSET S,
         \A x \in S : f[x] <= m, \A x \in S \ T : f[x] = 0
  PROVE  Cardinality(T) \in Nat /\ Total(f) <= Cardinality(T) * m
<1>1. IsFiniteSet(T) /\ Cardinality(T) \in Nat
  BY FS_Subset, FS_CardinalityType
<1>2. IsFiniteSet(1..m) /\ Cardinality(1..m) = m
  BY FS_Interval
<1>3. IsFiniteSet(T \X (1..m)) /\ Cardinality(T \X (1..m)) = Cardinality(T) * m
  BY <1>1, <1>2, FS_Product
<1>4. Units(f) \subseteq T \X (1..m)
  <2>1. ASSUME NEW u \in Units(f)
        PROVE  u \in T \X (1..m)
    <3>1. PICK x \in S : u \in {x} \X (1..f[x])
      BY <2>1 DEF Units
    <3>2. PICK i \in 1..f[x] : u = <<x, i>>
      BY <3>1
    <3>3. x \in T /\ i \in 1..m
      BY <3>2
    <3> QED
      BY <3>2, <3>3
  <2> QED
    BY <2>1
<1> QED
  BY <1>1, <1>3, <1>4, FS_Subset DEF Total

LEMMA SetAsideType ==
  ASSUME TypeOK, NEW w \in Workers
  PROVE  /\ SetAside(w) \in [Requests -> Nat]
         /\ \A r \in Requests : SetAside(w)[r] <= MaxQty
         /\ Total(SetAside(w)) \in Nat
<1>1. \A r \in EnteredBy(w) : req[r].qty \in Nat /\ req[r].qty <= MaxQty
  BY InFlight, SaleFields DEF EnteredBy
<1>2. SetAside(w) \in [Requests -> Nat] /\ \A r \in Requests : SetAside(w)[r] <= MaxQty
  BY <1>1, BoundTypes DEF SetAside, EnteredBy
<1> QED
  BY <1>2, SaleSets, TotalType

(* A sale past the check, or leaving, changes only its own row.            *)
LEMMA SetAsideStep ==
  ASSUME TypeOK, TypeOK', NEW w \in Workers, NEW r \in Requests, NEW v,
         req' = [req EXCEPT ![r] = v]
  PROVE  /\ Total(SetAside(w)) \in Nat
         /\ Total(SetAside(w)') = Total(SetAside(w)) - SetAside(w)[r] + SetAside(w)'[r]
         /\ SetAside(w)[r] \in Nat /\ SetAside(w)'[r] \in Nat
<1>1. SetAside(w) \in [Requests -> Nat] /\ SetAside(w)' \in [Requests -> Nat]
  <2>1. \A o \in Requests : req'[o].stage = "entered" => req'[o].qty \in Nat
    BY SaleFields DEF TypeOK, Idle
  <2> QED
    BY <2>1, SetAsideType DEF SetAside, EnteredBy
<1>2. \A o \in Requests : o # r => SetAside(w)'[o] = SetAside(w)[o]
  BY DEF SetAside, EnteredBy, TypeOK
<1> QED
  BY <1>1, <1>2, SaleSets, TotalUpdate

(* Sales that change neither what is past the check nor the hand.          *)
LEMMA HandKept ==
  ASSUME TypeOK, TypeOK', HandInv, NEW r \in Requests, NEW v,
         req' = [req EXCEPT ![r] = v], v.stage # "entered", hand' = hand, gifts' = gifts
  PROVE  HandInv'
<1>1. ASSUME NEW w \in Workers
      PROVE  (hand[w] + gifts[w] - Total(SetAside(w)) >= -Overdraft(w))'
  <2>1. SetAside(w)'[r] = 0
    BY DEF SetAside, EnteredBy, TypeOK
  <2>2. /\ Total(SetAside(w)) \in Nat
        /\ Total(SetAside(w)') = Total(SetAside(w)) - SetAside(w)[r] + SetAside(w)'[r]
        /\ SetAside(w)[r] \in Nat
    BY SetAsideStep
  <2>3. /\ hand[w] \in Int /\ gifts[w] \in Nat /\ Overdraft(w) \in Nat
        /\ hand[w] + gifts[w] - Total(SetAside(w)) >= -Overdraft(w)
    BY OverdraftType DEF TypeOK, HandInv
  <2>4. hand'[w] = hand[w] /\ gifts'[w] = gifts[w] /\ Overdraft(w)' = Overdraft(w)
    BY DEF Overdraft
  <2> QED
    BY <2>1, <2>2, <2>3, <2>4
<1> QED
  BY <1>1 DEF HandInv

LEMMA HandInductive ==
  ASSUME TypeOK, TypeOK', HandInv, [Next]_vars
  PROVE  HandInv'
<1>1. ASSUME NEW r \in Requests, NEW c \in Customers, NEW q \in Quantities, BeginSale(r, c, q)
      PROVE  HandInv'
  <2>1. PICK s \in Sale : /\ req' = [req EXCEPT ![r] = s] /\ s.stage = "billed"
                         /\ hand' = hand /\ gifts' = gifts
    BY <1>1, BillMade DEF history
  <2> QED
    BY <2>1, HandKept
<1>2. ASSUME NEW r \in Requests, Abort(r)
      PROVE  HandInv'
  <2>1. req' = [req EXCEPT ![r] = Idle] /\ Idle.stage # "entered" /\ hand' = hand /\ gifts' = gifts
    BY <1>2 DEF Abort, Idle, history
  <2> QED
    BY <2>1, HandKept
<1>3. ASSUME NEW r \in Requests, Enter(r)
      PROVE  HandInv'
  <2>1. PICK s \in Sale, t \in Sale :
            /\ req[r] = s /\ s.stage = "billed"
            /\ t = [s EXCEPT !.stage = "entered"]
            /\ req' = [req EXCEPT ![r] = t]
            /\ OrderFree(r, s.worker)
            /\ s.qty <= Greatest0(hand[s.worker])
            /\ hand' = hand /\ gifts' = gifts
    BY <1>3, EnterStep DEF history
  <2>2. t.stage = "entered" /\ t.worker = s.worker /\ t.qty = s.qty /\ s.qty \in Nat
    BY <2>1, SaleFields DEF Sale
  <2>3. ASSUME NEW w \in Workers
        PROVE  (hand[w] + gifts[w] - Total(SetAside(w)) >= -Overdraft(w))'
    <3>1. /\ Total(SetAside(w)) \in Nat
          /\ Total(SetAside(w)') = Total(SetAside(w)) - SetAside(w)[r] + SetAside(w)'[r]
      BY <2>1, SetAsideStep
    <3>2. /\ SetAside(w)[r] = 0
          /\ SetAside(w)'[r] = IF w = s.worker THEN s.qty ELSE 0
      BY <2>1, <2>2 DEF SetAside, EnteredBy, TypeOK
    <3>3. /\ hand[w] \in Int /\ gifts[w] \in Nat /\ Overdraft(w) \in Nat
          /\ hand[w] + gifts[w] - Total(SetAside(w)) >= -Overdraft(w)
      BY OverdraftType DEF TypeOK, HandInv
    <3>4. hand'[w] = hand[w] /\ gifts'[w] = gifts[w] /\ Overdraft(w)' = Overdraft(w)
      BY <2>1 DEF Overdraft
    <3>5. CASE w # s.worker
      BY <3>1, <3>2, <3>3, <3>4, <3>5
    <3>6. CASE w = s.worker
      <4>1. /\ EnteredBy(w) \in SUBSET Requests
            /\ {o \in Requests \ {r} : req[o].stage = "entered" /\ req[o].worker = s.worker}
                  = EnteredBy(w)
        BY <2>1, <3>6 DEF EnteredBy
      <4>2. Cardinality(EnteredBy(w)) < Orders[w]
        BY <2>1, <3>6, <4>1 DEF OrderFree
      <4>3. /\ Cardinality(EnteredBy(w)) \in Nat
            /\ Total(SetAside(w)) <= Cardinality(EnteredBy(w)) * MaxQty
        <5>1. /\ SetAside(w) \in [Requests -> Nat] /\ \A o \in Requests : SetAside(w)[o] <= MaxQty
              /\ \A o \in Requests \ EnteredBy(w) : SetAside(w)[o] = 0
              /\ MaxQty \in Nat
          BY SetAsideType, BoundTypes DEF SetAside
        <5> QED
          BY <4>1, <5>1, SaleSets, TotalBound
      <4>4. PICK n \in Nat : n = Cardinality(EnteredBy(w))
        BY <4>3
      <4>5. Orders[w] \in Nat /\ MaxQty \in Nat
        BY MorningTypes, BoundTypes
      <4>6. n <= Orders[w] - 1 /\ Orders[w] - 1 \in Nat /\ Orders[w] # 0
        BY <4>2, <4>4, <4>5
      <4>7. n * MaxQty <= (Orders[w] - 1) * MaxQty /\ n * MaxQty \in Nat
        BY <4>5, <4>6, ProductMonotone
      <4>8. Total(SetAside(w)) <= Overdraft(w)
        BY <3>1, <3>3, <4>3, <4>4, <4>6, <4>7 DEF Overdraft
      <4>9. s.qty <= hand[w] \/ s.qty = 0
        BY <2>1, <2>2, <3>3, <3>6 DEF Greatest0
      <4>10. s.qty >= 1
        BY <2>1 DEF Sale, Quantities
      <4> QED
        BY <2>2, <3>1, <3>2, <3>3, <3>4, <3>6, <4>8, <4>9, <4>10
    <3> QED
      BY <3>5, <3>6
  <2> QED
    BY <2>3 DEF HandInv
<1>4. ASSUME NEW r \in Requests, Commit(r)
      PROVE  HandInv'
  <2>0. PICK s \in Sale, v \in Workers, c \in Customers, free \in Nat, off \in Nat :
           SaleWritten(r, s, v, c, free, off)
    BY <1>4, CommitStep
  <2>1. /\ req[r] = s /\ s.stage = "entered" /\ v = s.worker
        /\ hand' = [hand EXCEPT ![v] = hand[v] - s.qty - free + s.replaced]
        /\ gifts' = [gifts EXCEPT ![v] = gifts[v] + free]
        /\ req' = [req EXCEPT ![r] = Idle]
    BY <2>0 DEF SaleWritten
  <2>2. s.qty \in Nat /\ s.replaced \in Nat
    BY SaleFields
  <2>3. ASSUME NEW w \in Workers
        PROVE  (hand[w] + gifts[w] - Total(SetAside(w)) >= -Overdraft(w))'
    <3>1. /\ Total(SetAside(w)) \in Nat
          /\ Total(SetAside(w)') = Total(SetAside(w)) - SetAside(w)[r] + SetAside(w)'[r]
      BY <2>1, SetAsideStep
    <3>2. /\ SetAside(w)[r] = IF w = v THEN s.qty ELSE 0
          /\ SetAside(w)'[r] = 0
      BY <2>1 DEF SetAside, EnteredBy, TypeOK, Idle
    <3>3. /\ hand[w] \in Int /\ gifts[w] \in Nat /\ Overdraft(w) \in Nat
          /\ hand[w] + gifts[w] - Total(SetAside(w)) >= -Overdraft(w)
      BY OverdraftType DEF TypeOK, HandInv
    <3>4. Overdraft(w)' = Overdraft(w)
      BY DEF Overdraft
    <3>5. CASE w = v
      <4>1. hand'[w] = hand[w] - s.qty - free + s.replaced /\ gifts'[w] = gifts[w] + free
        BY <2>1, <3>5 DEF TypeOK
      <4> QED
        BY <2>2, <3>1, <3>2, <3>3, <3>4, <3>5, <4>1
    <3>6. CASE w # v
      <4>1. hand'[w] = hand[w] /\ gifts'[w] = gifts[w]
        BY <2>1, <3>6 DEF TypeOK
      <4> QED
        BY <3>1, <3>2, <3>3, <3>4, <3>6, <4>1
    <3> QED
      BY <3>5, <3>6
  <2> QED
    BY <2>3 DEF HandInv
<1>5. CASE Reserve \/ UNCHANGED vars
  BY <1>5 DEF Reserve, vars, history, HandInv, SetAside, EnteredBy, Overdraft
<1> QED
  BY <1>1, <1>2, <1>3, <1>4, <1>5 DEF Next

(* With one approved order an SR never sells more than is in hand, and each*)
(* further order lets at most one more sale through.                       *)
THEOREM HandsCovered == Spec => []HandCovered
<1>1. Init => HandInv
  <2>1. ASSUME Init, NEW w \in Workers
        PROVE  hand[w] + gifts[w] - Total(SetAside(w)) >= -Overdraft(w)
    <3>1. SetAside(w) \in [Requests -> Nat] /\ \A r \in Requests : SetAside(w)[r] = 0
      BY <2>1 DEF Init, SetAside, EnteredBy, Idle
    <3>2. Total(SetAside(w)) = 0
      BY <3>1, TotalZero
    <3>3. hand[w] \in Nat /\ gifts[w] = 0 /\ Overdraft(w) \in Nat
      BY <2>1, MorningTypes, OverdraftType DEF Init
    <3> QED
      BY <3>2, <3>3
  <2> QED
    BY <2>1 DEF HandInv
<1>2. TypeOK /\ HandInv => HandCovered
  <2>1. ASSUME TypeOK, HandInv, NEW w \in Workers
        PROVE  hand[w] + gifts[w] >= IF Orders[w] = 0 THEN 0 ELSE -(Orders[w] - 1) * MaxQty
    <3>1. /\ hand[w] \in Int /\ gifts[w] \in Nat /\ Overdraft(w) \in Nat
          /\ Total(SetAside(w)) \in Nat
          /\ hand[w] + gifts[w] - Total(SetAside(w)) >= -Overdraft(w)
      BY <2>1, OverdraftType, SetAsideType DEF TypeOK, HandInv
    <3>2. hand[w] + gifts[w] >= -Overdraft(w)
      BY <3>1
    <3>3. Orders[w] \in Nat /\ MaxQty \in Nat
      BY MorningTypes, BoundTypes
    <3>4. CASE Orders[w] = 0
      BY <3>2, <3>4 DEF Overdraft
    <3>5. CASE Orders[w] # 0
      <4>1. Overdraft(w) = (Orders[w] - 1) * MaxQty
        BY <3>5 DEF Overdraft
      <4>2. -((Orders[w] - 1) * MaxQty) = -(Orders[w] - 1) * MaxQty
        BY <3>3
      <4> QED
        BY <3>2, <3>5, <4>1, <4>2
    <3> QED
      BY <3>4, <3>5
  <2> QED
    BY <2>1 DEF HandCovered
<1> QED
  BY <1>1, <1>2, HandInductive, TypeCorrect, PTL DEF Spec

-----------------------------------------------------------------------------
(***************************************************************************)
(* II.  The sales and the stockroom together.                              *)
(*                                                                         *)
(* Goods instantiates Stockroom; the theorems about it are those of an     *)
(* instance of StockroomProofs.  The two instances define the same, one    *)
(* operator after the other.                                               *)
(***************************************************************************)
StoreFacts == INSTANCE StockroomProofs WITH stock <- roomStock, req <- staffReq

LEMMA SameFiniteSet == ASSUME NEW S PROVE Store!IsFiniteSet(S) <=> StoreFacts!IsFiniteSet(S)
  BY Zenon DEF Store!IsFiniteSet, StoreFacts!IsFiniteSet

LEMMA SameConstants == StoreFacts!StoreConstants
  BY StoreConstantsHold, SameFiniteSet DEF Store!StoreConstants, StoreFacts!StoreConstants

LEMMA SameInit == Store!Init <=> StoreFacts!Init
  BY DEF Store!Init, StoreFacts!Init, Store!NoBatch, StoreFacts!NoBatch,
         Store!Idle, StoreFacts!Idle

LEMMA SameTotal == ASSUME NEW f PROVE Store!Total(f) = StoreFacts!Total(f)
<1>1. ASSUME NEW S PROVE Store!Cardinality(S) = StoreFacts!Cardinality(S)
  BY Zenon DEF Store!Cardinality, StoreFacts!Cardinality
<1> QED
  BY Zenon, <1>1 DEF Store!Total, StoreFacts!Total, Store!Units, StoreFacts!Units

LEMMA SameTaken ==
  ASSUME NEW p, NEW n, NEW b
  PROVE  Store!TakenOf(p, n, b) = StoreFacts!TakenOf(p, n, b)
BY SameTotal DEF Store!TakenOf, StoreFacts!TakenOf, Store!Greatest0, StoreFacts!Greatest0

(* The steps of the purchase order.                                        *)
LEMMA SameOrder == ASSUME NEW r PROVE Store!Order(r) <=> StoreFacts!Order(r)
<1> USE DEF Store!Idle, StoreFacts!Idle, Store!NoBatch, StoreFacts!NoBatch,
            Store!goods, StoreFacts!goods, Store!Others, StoreFacts!Others,
            Store!Start, StoreFacts!Start, Store!Finish, StoreFacts!Finish,
            Store!Move, StoreFacts!Move, Store!Unlocked, StoreFacts!Unlocked
<1>1. ASSUME NEW kind PROVE Store!BeginOrder(r, kind) <=> StoreFacts!BeginOrder(r, kind)
  BY DEF Store!BeginOrder, StoreFacts!BeginOrder
<1>2. Store!CommitStatus(r) <=> StoreFacts!CommitStatus(r)
  BY DEF Store!CommitStatus, StoreFacts!CommitStatus
<1>3. Store!CommitEdit(r) <=> StoreFacts!CommitEdit(r)
  BY DEF Store!CommitEdit, StoreFacts!CommitEdit
<1>4. Store!BeginReceive(r) <=> StoreFacts!BeginReceive(r)
  BY DEF Store!BeginReceive, StoreFacts!BeginReceive
<1>5. ASSUME NEW p, NEW q, NEW u
      PROVE  Store!TakeLine(r, p, q, u) <=> StoreFacts!TakeLine(r, p, q, u)
  BY DEF Store!TakeLine, StoreFacts!TakeLine, Store!StatusAfter, StoreFacts!StatusAfter
<1>6. ASSUME NEW news PROVE Store!CommitReceive(r, news) <=> StoreFacts!CommitReceive(r, news)
  BY DEF Store!CommitReceive, StoreFacts!CommitReceive, Store!NewCost, StoreFacts!NewCost,
         Store!Rounded, StoreFacts!Rounded
<1> QED
  BY Zenon, <1>1, <1>2, <1>3, <1>4, <1>5, <1>6 DEF Store!Order, StoreFacts!Order

(* The steps of adjustments and batches.                                   *)
LEMMA SameKeep == ASSUME NEW r PROVE Store!Keep(r) <=> StoreFacts!Keep(r)
<1> USE DEF Store!Idle, StoreFacts!Idle,
            Store!goods, StoreFacts!goods, Store!Others, StoreFacts!Others,
            Store!Start, StoreFacts!Start, Store!Finish, StoreFacts!Finish,
            Store!Move, StoreFacts!Move, Store!Unlocked, StoreFacts!Unlocked
<1>1. ASSUME NEW p, NEW n PROVE Store!BeginAdjust(r, p, n) <=> StoreFacts!BeginAdjust(r, p, n)
  BY DEF Store!BeginAdjust, StoreFacts!BeginAdjust
<1>2. Store!WriteAdjust(r) <=> StoreFacts!WriteAdjust(r)
  BY DEF Store!WriteAdjust, StoreFacts!WriteAdjust
<1>3. Store!LogAdjust(r) <=> StoreFacts!LogAdjust(r)
  BY DEF Store!LogAdjust, StoreFacts!LogAdjust
<1>4. ASSUME NEW b, NEW status
      PROVE  Store!BeginBatch(r, b, status) <=> StoreFacts!BeginBatch(r, b, status)
  BY DEF Store!BeginBatch, StoreFacts!BeginBatch, Store!Admits, StoreFacts!Admits
<1>5. Store!CommitBatch(r) <=> StoreFacts!CommitBatch(r)
  BY DEF Store!CommitBatch, StoreFacts!CommitBatch, Store!StockAfter, StoreFacts!StockAfter,
         Store!Greatest0, StoreFacts!Greatest0
<1> QED
  BY Zenon, <1>1, <1>2, <1>3, <1>4, <1>5
  DEF Store!Keep, StoreFacts!Keep, Store!BatchStatus, StoreFacts!BatchStatus

LEMMA SameNext == Store!Next <=> StoreFacts!Next
<1>1. ASSUME NEW r PROVE Store!Fail(r) <=> StoreFacts!Fail(r)
  BY DEF Store!Fail, StoreFacts!Fail, Store!Finish, StoreFacts!Finish, Store!Idle,
         StoreFacts!Idle, Store!goods, StoreFacts!goods
<1>2. ASSUME NEW p, NEW n PROVE Store!Approve(p, n) <=> StoreFacts!Approve(p, n)
  <2>1. [b \in Batches |->
            [batch[b] EXCEPT !.quantity = batch[b].quantity - Store!TakenOf(p, n, b)]]
        = [b \in Batches |->
            [batch[b] EXCEPT !.quantity = batch[b].quantity - StoreFacts!TakenOf(p, n, b)]]
    BY SameTaken
  <2> QED
    BY <2>1
    DEF Store!Approve, StoreFacts!Approve, Store!Unlocked, StoreFacts!Unlocked,
        Store!StockAfter, StoreFacts!StockAfter, Store!Greatest0, StoreFacts!Greatest0,
        Store!Move, StoreFacts!Move, Store!Idle, StoreFacts!Idle
<1> QED
  BY Zenon, <1>1, <1>2, SameOrder, SameKeep DEF Store!Next, StoreFacts!Next

-----------------------------------------------------------------------------
(* Both parts are what they are alone: side by side, sales are a behaviour *)
(* of SrSale.                                                              *)
THEOREM BothSell == BothSpec => Spec
<1>1. BothInit => Init
  BY DEF BothInit
<1>2. [BothNext]_<<vars, storeVars>> => [Next]_vars
  BY DEF BothNext
<1> QED
  BY <1>1, <1>2, PTL DEF BothSpec, Spec

(* And the stockroom a behaviour of Stockroom.                             *)
THEOREM BothStore == BothSpec => StoreFacts!Spec
<1>1. BothInit => StoreFacts!Init
  BY SameInit DEF BothInit
<1>2. [BothNext]_<<vars, storeVars>> => [StoreFacts!Next]_(StoreFacts!vars)
  BY SameNext DEF BothNext, storeVars, StoreFacts!vars, StoreFacts!goods
<1> QED
  BY <1>1, <1>2, PTL DEF BothSpec, StoreFacts!Spec

(* The behaviours TLC explores, in which one part stands still, are among  *)
(* those of the two together.                                              *)
THEOREM EitherIsBoth == GoodsSpec => BothSpec
<1>1. GoodsInit => BothInit
  BY DEF GoodsInit
<1>2. [GoodsNext]_<<part, vars, storeVars>> => [BothNext]_<<vars, storeVars>>
  BY DEF GoodsNext, BothNext
<1> QED
  BY <1>1, <1>2, PTL DEF GoodsSpec, BothSpec

(* Whatever the SRs do, stock, costs and batches of the stockroom are      *)
(* numbers that are never negative.                                        *)
THEOREM BothTyped == BothSpec => [](TypeOK /\ StoreTypeOK)
<1>1. StoreFacts!TypeOK => StoreTypeOK
  BY DEF StoreTypeOK, Store!TypeOK, StoreFacts!TypeOK, Store!Status, StoreFacts!Status,
         Store!BatchStatus, StoreFacts!BatchStatus, Store!NoBatch, StoreFacts!NoBatch
<1> QED
  BY <1>1, BothStore, BothSell, TypeCorrect, SameConstants, StoreFacts!TypeCorrect, PTL

(* What holds of the sales alone holds of them beside the stockroom.       *)
THEOREM BothSellSafely ==
  BothSpec => [](/\ HandCovered /\ CreditWithinLimit /\ PromotionWithinLimits
                 /\ GiftsSpareReserved /\ SaleAccounted)
BY BothSell, HandsCovered, CreditLimited, PromotionsLimited, ReservedSpared, SalesAccounted, PTL

(* However many receipts are under way, beside whatever sales, no line     *)
(* takes in more than was ordered (receivePurchaseOrder).                  *)
THEOREM BothReceipts == BothSpec => []ReceivedWithinOrdered
<1>1. StoreFacts!ReceivedWithinOrdered => ReceivedWithinOrdered
  BY DEF ReceivedWithinOrdered, Store!ReceivedWithinOrdered, StoreFacts!ReceivedWithinOrdered
<1> QED
  BY <1>1, BothStore, SameConstants, StoreFacts!ReceiptsLimited, PTL

(* The order's status tells what has come, unless its handlers overlap     *)
(* (receivePurchaseOrder, cancelPurchaseOrder).                            *)
THEOREM BothStatus == BothSpec => []StatusTellsReceipts
<1>1. StoreFacts!StatusTellsReceipts => StatusTellsReceipts
  BY DEF StatusTellsReceipts, Store!StatusTellsReceipts, StoreFacts!StatusTellsReceipts
<1> QED
  BY <1>1, BothStore, SameConstants, StoreFacts!StatusIsTrue, PTL

(* The average cost stays between the first cost and the prices paid       *)
(* (receivePurchaseOrder).                                                 *)
THEOREM BothCosts == BothSpec => []CostWithinPrices
<1>1. StoreFacts!CostWithinPrices => CostWithinPrices
  BY DEF CostWithinPrices, Store!CostWithinPrices, StoreFacts!CostWithinPrices
<1> QED
  BY <1>1, BothStore, SameConstants, StoreFacts!CostBetweenPrices, PTL

(* Movements and stock agree whenever no handler is at work, if none       *)
(* overlapped, stopped half-way or overdrew (adjustStock and the others).  *)
THEOREM BothMovements == BothSpec => []StockMatchesMovements
<1>1. StoreFacts!StockMatchesMovements => StockMatchesMovements
  BY DEF StockMatchesMovements, Store!StockMatchesMovements, StoreFacts!StockMatchesMovements,
         Store!Idle, StoreFacts!Idle
<1> QED
  BY <1>1, BothStore, SameConstants, StoreFacts!MovementsAddUp, PTL

(* A batch never holds more than came with it (updateBatchStatus,          *)
(* consumeBatchesFEFO).                                                    *)
THEOREM BothBatches == BothSpec => []BatchWithinReceived
<1>1. StoreFacts!BatchWithinReceived => BatchWithinReceived
  BY DEF BatchWithinReceived, Store!BatchWithinReceived, StoreFacts!BatchWithinReceived
<1> QED
  BY <1>1, BothStore, SameConstants, StoreFacts!BatchesLimited, PTL
=============================================================================
