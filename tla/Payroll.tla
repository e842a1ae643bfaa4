------------------------------ MODULE Payroll ------------------------------
(***************************************************************************)
(* What a worker earns in a month and is paid: the commission of each day  *)
(* (updateCommissionRealtime, the nightly job and the shadow ledger of     *)
(* commissionLedger.service.js), salaries and their cancellation           *)
(* (salary.controller.js), payCommission, and the dues a salary deducts.   *)
(*                                                                         *)
(* A recomputation is four transactions: read the day's total, write the   *)
(* day's row, read the ledger, append the difference.  A payout reads what *)
(* is unpaid, and marks in its transaction whatever is unpaid by then.     *)
(* One worker and one month; money is counted in units.                    *)
(***************************************************************************)
EXTENDS Sums

CONSTANTS
    Days,           \* days of the month
    MaxSold,        \* bound: commissionable sales of a day, in units
    Commission,     \* commission of a day's total: rate of its slab, rounded
    Slips,          \* rows salary_payments may have
    Refs,           \* payment references
    FirstDues,      \* outstanding_dues at the start of the month
    MaxDues,        \* bound: no charge beyond these dues, deducted ones included
    Handlers        \* handlers and jobs that may run at the same time

ASSUME PayrollSets == IsFiniteSet(Days) /\ IsFiniteSet(Slips) /\ IsFiniteSet(Handlers)
ASSUME PayrollNumbers ==
    /\ MaxSold \in Nat /\ MaxDues \in Nat /\ FirstDues \in Nat
    /\ Commission \in [0..MaxSold -> Nat]
(* A reference is none of the words that stand for its absence here.       *)
ASSUME RefsAreNew == {"absent", "unpaid", "none", "deleted"} \cap Refs = {}

VARIABLES
    sold,           \* commissionable total of each day
    row,            \* commission row: "absent", "unpaid" or the reference it was paid with
    earned,         \* commission_amount of the row
    ledger,         \* SUM(amount) of the day's earn entries
    dues,           \* users.outstanding_dues
    slip,           \* salary_payments
    task,           \* what each handler is doing, and what it has read
    alone,          \* history: the handler that has run with no other beside it
    settled,        \* history: days whose last recomputation ran alone and saw every sale
    reopened,       \* history: days whose payment was cancelled
    mixed,          \* history: payouts overlapped, or shared a reference
    paidOut,        \* history: commission handed out and not taken back, until mixed
    charged         \* history: dues charged less dues paid in cash

books == <<sold, row, earned, ledger>>
history == <<settled, reopened, mixed, paidOut, charged>>
vars == <<books, dues, slip, task, alone, history>>

-----------------------------------------------------------------------------

Idle == [kind |-> "idle"]
NoSlip == [commission |-> 0, deducted |-> 0, ref |-> "none"]
Deleted == [commission |-> 0, deducted |-> 0, ref |-> "deleted"]
Payslip == [commission : Nat, deducted : Nat, ref : Refs]
Task ==
    {Idle}
    \cup [kind : {"total", "written"}, day : Days, total : 0..MaxSold]
    \cup [kind : {"append"}, day : Days, total : 0..MaxSold, prior : Int]
    \cup [kind : {"salary"}, commission : Nat, dues : Nat]
    \cup [kind : {"commission"}, commission : Nat]
    \cup [kind : {"cancel"}, slip : Slips, read : Payslip]

Unclamped(n) == n                       \* faulty Greatest0
Greatest0(n) == IF n < 0 THEN 0 ELSE n

Standing == {s \in Slips : slip[s].ref \in Refs}
Unpaid == {d \in Days : row[d] = "unpaid"}
EarnedOn(days) == Total([d \in Days |-> IF d \in days THEN earned[d] ELSE 0])
Deducted == Total([s \in Slips |-> slip[s].deducted])
UsedRefs == {row[d] : d \in Days} \cup {slip[s].ref : s \in Slips}

(* DO UPDATE ... WHERE commission.paid = false (Bug #4).  The faulty one   *)
(* writes a paid row too.                                                  *)
AnyRow(d) == TRUE
Writable(d) == row[d] \in {"absent", "unpaid"}

(* recordDailyEarnDelta: what is appended.  The faulty one appends the     *)
(* day's amount again.                                                     *)
WholeAmount(n, prior) == n
Delta(n, prior) == n - prior

(* The rows a cancelled salary opens again.  The faulty one opens every    *)
(* row of the month.                                                       *)
AllPaid(ref) == {d \in Days : row[d] \in Refs}
PaidWith(ref) == {d \in Days : row[d] = ref}

(* Dues after a salary.  The faulty one clears them.                       *)
Cleared(n) == 0
DuesAfterPay(n) == Greatest0(dues - n)

HandOut(n) == paidOut' = IF mixed' THEN 0 ELSE paidOut + n

Others(h) == \A o \in Handlers \ {h} : task[o] = Idle
Start(h, t) ==
    /\ task[h] = Idle
    /\ task' = [task EXCEPT ![h] = t]
    /\ alone' = IF Others(h) THEN {h} ELSE {}
Finish(h) ==
    /\ task' = [task EXCEPT ![h] = Idle]
    /\ alone' = alone \ {h}

Init ==
    /\ sold = [d \in Days |-> 0]
    /\ row = [d \in Days |-> "absent"]
    /\ earned = [d \in Days |-> 0]
    /\ ledger = [d \in Days |-> 0]
    /\ dues = FirstDues
    /\ slip = [s \in Slips |-> NoSlip]
    /\ task = [h \in Handlers |-> Idle]
    /\ alone = {}
    /\ settled = {}
    /\ reopened = {}
    /\ mixed = FALSE
    /\ paidOut = 0
    /\ charged = FirstDues

-----------------------------------------------------------------------------
(* A sale for cash, a verified collection or a direct payment of the day.  *)
Sell(d) ==
    /\ sold[d] < MaxSold
    /\ sold' = [sold EXCEPT ![d] = sold[d] + 1]
    /\ settled' = settled \ {d}
    /\ UNCHANGED <<row, earned, ledger, dues, slip, task, alone, reopened, mixed, paidOut, charged>>

(* updateCommissionRealtime after it, the nightly job, or a backfill:      *)
(* getDailyCommissionableSales; nothing to do for a day without sales.     *)
BeginUpdate(h, d) ==
    /\ sold[d] > 0
    /\ Start(h, [kind |-> "total", day |-> d, total |-> sold[d]])
    /\ UNCHANGED <<books, dues, slip, history>>

(* The UPSERT of the day's row.                                            *)
WriteRow(h) ==
    LET d == task[h].day IN
    /\ task[h].kind = "total"
    /\ row' = IF Writable(d) THEN [row EXCEPT ![d] = IF @ = "absent" THEN "unpaid" ELSE @] ELSE row
    /\ earned' = IF Writable(d) THEN [earned EXCEPT ![d] = Commission[task[h].total]] ELSE earned
    /\ task' = [task EXCEPT ![h] = [kind |-> "written", day |-> d, total |-> task[h].total]]
    /\ UNCHANGED <<sold, ledger, dues, slip, alone, history>>

(* getEarnedSoFar.                                                         *)
ReadLedger(h) ==
    LET d == task[h].day IN
    /\ task[h].kind = "written"
    /\ task' = [task EXCEPT ![h] =
          [kind |-> "append", day |-> d, total |-> task[h].total, prior |-> ledger[d]]]
    /\ UNCHANGED <<books, dues, slip, alone, history>>

(* appendLedgerEntry: an earn entry for the difference.                    *)
AppendDelta(h) ==
    LET d == task[h].day IN
    /\ task[h].kind = "append"
    /\ ledger' = [ledger EXCEPT ![d] = ledger[d] + Delta(Commission[task[h].total], task[h].prior)]
    /\ settled' = IF h \in alone /\ task[h].total = sold[d] THEN settled \cup {d} ELSE settled \ {d}
    /\ Finish(h)
    /\ UNCHANGED <<sold, row, earned, dues, slip, reopened, mixed, paidOut, charged>>

(* Dues charged by a settlement; dues paid in cash, not more than are owed.*)
Charge ==
    /\ dues + Deducted < MaxDues
    /\ dues' = dues + 1
    /\ charged' = charged + 1
    /\ UNCHANGED <<books, slip, task, alone, settled, reopened, mixed, paidOut>>

PayDues ==
    /\ dues > 0
    /\ dues' = Greatest0(dues - 1)
    /\ charged' = charged - 1
    /\ mixed' = (mixed \/ \E h \in Handlers : task[h].kind = "salary")
    /\ HandOut(0)
    /\ UNCHANGED <<books, slip, task, alone, settled, reopened>>

(* paySalary before its transaction: no salary of the month exists; the    *)
(* unpaid commission is summed and the dues are read.                      *)
BeginSalary(h, deduct) ==
    /\ Standing = {}
    /\ Start(h, [kind |-> "salary", commission |-> EarnedOn(Unpaid),
                 dues |-> IF deduct THEN dues ELSE 0])
    /\ UNCHANGED <<books, dues, slip, history>>

(* Its transaction: the salary's row, every row unpaid by now, the dues.   *)
CommitSalary(h, s, ref) ==
    LET t == task[h] IN
    /\ t.kind = "salary"
    /\ slip[s] = NoSlip
    /\ slip' = [slip EXCEPT ![s] = [commission |-> t.commission, deducted |-> t.dues, ref |-> ref]]
    /\ row' = [d \in Days |-> IF d \in Unpaid THEN ref ELSE row[d]]
    /\ dues' = IF t.dues > 0 THEN DuesAfterPay(t.dues) ELSE dues
    /\ mixed' = (mixed \/ h \notin alone \/ ref \in UsedRefs)
    /\ HandOut(t.commission)
    /\ Finish(h)
    /\ UNCHANGED <<sold, earned, ledger, settled, reopened, charged>>

(* payCommission: the same, without a salary and without a transaction.    *)
BeginPayCommission(h) ==
    /\ Unpaid # {}
    /\ Start(h, [kind |-> "commission", commission |-> EarnedOn(Unpaid)])
    /\ UNCHANGED <<books, dues, slip, history>>

CommitPayCommission(h, ref) ==
    /\ task[h].kind = "commission"
    /\ row' = [d \in Days |-> IF d \in Unpaid THEN ref ELSE row[d]]
    /\ mixed' = (mixed \/ h \notin alone \/ ref \in UsedRefs)
    /\ HandOut(task[h].commission)
    /\ Finish(h)
    /\ UNCHANGED <<sold, earned, ledger, dues, slip, settled, reopened, charged>>

(* cancelSalaryPayment, within a day of it.                                *)
BeginCancel(h, s) ==
    /\ s \in Standing
    /\ Start(h, [kind |-> "cancel", slip |-> s, read |-> slip[s]])
    /\ UNCHANGED <<books, dues, slip, history>>

CommitCancel(h) ==
    LET t == task[h] IN
    /\ t.kind = "cancel"
    /\ slip' = [slip EXCEPT ![t.slip] = Deleted]
    /\ row' = [d \in Days |-> IF d \in PaidWith(t.read.ref) THEN "unpaid" ELSE row[d]]
    /\ dues' = dues + t.read.deducted
    /\ reopened' = reopened \cup PaidWith(t.read.ref)
    /\ mixed' = (mixed \/ h \notin alone)
    /\ HandOut(-t.read.commission)
    /\ Finish(h)
    /\ UNCHANGED <<sold, earned, ledger, settled, charged>>

(* A handler is refused, fails, or its error is swallowed: what it had     *)
(* committed stays.                                                        *)
Fail(h) ==
    /\ task[h] # Idle
    /\ Finish(h)
    /\ settled' = IF task[h].kind \in {"written", "append"} THEN settled \ {task[h].day} ELSE settled
    /\ UNCHANGED <<books, dues, slip, reopened, mixed, paidOut, charged>>

-----------------------------------------------------------------------------

Recompute(h) ==
    \/ \E d \in Days : BeginUpdate(h, d)
    \/ WriteRow(h) \/ ReadLedger(h) \/ AppendDelta(h)

Payout(h) ==
    \/ \E deduct \in BOOLEAN : BeginSalary(h, deduct)
    \/ \E s \in Slips, ref \in Refs : CommitSalary(h, s, ref)
    \/ BeginPayCommission(h)
    \/ \E ref \in Refs : CommitPayCommission(h, ref)
    \/ \E s \in Slips : BeginCancel(h, s)
    \/ CommitCancel(h)

Next ==
    \/ \E d \in Days : Sell(d)
    \/ Charge \/ PayDues
    \/ \E h \in Handlers : Recompute(h) \/ Payout(h) \/ Fail(h)

Spec == Init /\ [][Next]_vars

-----------------------------------------------------------------------------
(* Properties                                                              *)

TypeOK ==
    /\ sold \in [Days -> 0..MaxSold]
    /\ row \in [Days -> {"absent", "unpaid"} \cup Refs]
    /\ earned \in [Days -> Nat]
    /\ ledger \in [Days -> Int]
    /\ dues \in Nat
    /\ slip \in [Slips -> {NoSlip, Deleted} \cup Payslip]
    /\ task \in [Handlers -> Task]
    /\ alone \in SUBSET Handlers
    /\ settled \in SUBSET Days /\ reopened \in SUBSET Days
    /\ mixed \in BOOLEAN /\ paidOut \in Int /\ charged \in Int

(* What the nightly reconciliation expects (commissionReconciliation.job   *)
(* 11-22), for a day whose last recomputation saw all of its sales and ran *)
(* alone: the ledger adds up to the day's commission and an unpaid row     *)
(* agrees with it.  A row that a cancelled payment opened again may lag    *)
(* behind, since nothing recomputes it, and so may a paid one.  Of any day *)
(* and row, whatever overlaps, the amount is the commission of what the    *)
(* day's sales were at some moment.  That is not always less than the      *)
(* day's commission: rates may fall from one slab to the next              *)
(* (validateSlabContinuity).                                               *)
SettledDayAgrees ==
    /\ \A d \in settled :
        /\ ledger[d] = Commission[sold[d]]
        /\ row[d] = "unpaid" /\ d \notin reopened => earned[d] = ledger[d]
    /\ \A d \in Days : row[d] # "absent" => \E n \in 1..sold[d] : earned[d] = Commission[n]

(* The amount of a paid row never changes: no late sale, nightly job or    *)
(* recomputation begun before the payment touches it (Bug #4).             *)
PaidAmountFixed ==
    [][\A d \in Days : row[d] \in Refs /\ row'[d] \in Refs => earned'[d] = earned[d]]_vars

(* Through payments and cancellations, as long as no two of them and no    *)
(* recomputation overlapped, the commission handed out is that of the rows *)
(* marked paid, and the month has one salary.                              *)
PayoutsMatchRows ==
    ~mixed =>
        /\ paidOut = EarnedOn({d \in Days : row[d] \in Refs})
        /\ \A s, t \in Standing : s = t

(* Dues never get lost: what is still due and what the month's salary      *)
(* deducted cover every charge not paid in cash, whatever overlaps, and    *)
(* nothing is due twice if nothing does.                                   *)
DuesNeverLost ==
    /\ dues + Deducted >= charged
    /\ ~mixed => dues + Deducted = charged
=============================================================================
