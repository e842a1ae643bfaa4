---------------------------- MODULE PayrollProofs ----------------------------
(***************************************************************************)
(* Theorems about Payroll, for every number of days, slips, references and *)
(* concurrent handlers.                                                    *)
(***************************************************************************)
EXTENDS Payroll, SumsProofs

(* What the kind of a task says about its other fields.                    *)
LEMMA TaskKinds ==
  ASSUME NEW t \in Task
  PROVE  /\ t.kind \in {"total", "written", "append"} => t.day \in Days /\ t.total \in 0..MaxSold
         /\ t.kind = "append" => t.prior \in Int
         /\ t.kind = "salary" => t.commission \in Nat /\ t.dues \in Nat
         /\ t.kind = "commission" => t.commission \in Nat
         /\ t.kind = "cancel" =>
               /\ t.slip \in Slips /\ t.read \in Payslip
               /\ t.read.commission \in Nat /\ t.read.deducted \in Nat /\ t.read.ref \in Refs
BY DEF Task, Idle, Payslip

LEMMA SlipFields ==
  ASSUME NEW p \in {NoSlip, Deleted} \cup Payslip
  PROVE  /\ p.commission \in Nat /\ p.deducted \in Nat
         /\ p.ref \in Refs => p \in Payslip
         /\ p.ref \in Refs \cup {"none", "deleted"}
BY RefsAreNew DEF NoSlip, Deleted, Payslip

LEMMA EarnedOnType ==
  ASSUME TypeOK, NEW D
  PROVE  EarnedOn(D) \in Nat
<1>1. [d \in Days |-> IF d \in D THEN earned[d] ELSE 0] \in [Days -> Nat]
  BY DEF TypeOK
<1> QED
  BY <1>1, PayrollSets, TotalType DEF EarnedOn

LEMMA CommissionType ==
  ASSUME NEW n \in 0..MaxSold
  PROVE  Commission[n] \in Nat
BY PayrollNumbers

-----------------------------------------------------------------------------

(* TypeOK of Payroll: in particular the dues never go negative.            *)
LEMMA TypingInit == Init => TypeOK
<1> SUFFICES ASSUME Init PROVE TypeOK
  OBVIOUS
<1>1. task \in [Handlers -> Task]
  <2>1. Idle \in Task
    BY DEF Task
  <2> QED
    BY <2>1 DEF Init
<1>2. sold \in [Days -> 0..MaxSold] /\ dues \in Nat /\ charged \in Int
  BY PayrollNumbers DEF Init
<1>3. /\ row \in [Days -> {"absent", "unpaid"} \cup Refs]
      /\ earned \in [Days -> Nat] /\ ledger \in [Days -> Int]
      /\ slip \in [Slips -> {NoSlip, Deleted} \cup Payslip]
  BY DEF Init
<1>4. /\ alone \in SUBSET Handlers /\ settled \in SUBSET Days /\ reopened \in SUBSET Days
      /\ paidOut \in Int
  BY DEF Init
<1>5. mixed \in BOOLEAN
  BY Zenon DEF Init
<1> QED
  BY <1>1, <1>2, <1>3, <1>4, <1>5 DEF TypeOK

LEMMA TypingRecompute ==
  ASSUME TypeOK, NEW h \in Handlers, Recompute(h)
  PROVE  TypeOK'
<1>1. ASSUME NEW d \in Days, BeginUpdate(h, d)
      PROVE  TypeOK'
  <2>1. [kind |-> "total", day |-> d, total |-> sold[d]] \in Task
    BY DEF TypeOK, Task
  <2> QED
    BY <1>1, <2>1 DEF BeginUpdate, Start, TypeOK, books, history
<1>2. CASE WriteRow(h)
  <2>1. task[h].day \in Days /\ task[h].total \in 0..MaxSold
    BY <1>2, TaskKinds DEF WriteRow, TypeOK
  <2>2. PICK d \in Days, n \in 0..MaxSold : d = task[h].day /\ n = task[h].total
    BY <2>1
  <2>3. [kind |-> "written", day |-> d, total |-> n] \in Task /\ Commission[n] \in Nat
    BY CommissionType DEF Task
  <2>4. task' \in [Handlers -> Task]
    BY <1>2, <2>2, <2>3 DEF WriteRow, TypeOK
  <2>5. row' \in [Days -> {"absent", "unpaid"} \cup Refs] /\ earned' \in [Days -> Nat]
    BY <1>2, <2>2, <2>3 DEF WriteRow, TypeOK
  <2> QED
    BY <1>2, <2>4, <2>5 DEF WriteRow, TypeOK, history
<1>3. CASE ReadLedger(h)
  <2>1. task[h].day \in Days /\ task[h].total \in 0..MaxSold
    BY <1>3, TaskKinds DEF ReadLedger, TypeOK
  <2>2. PICK d \in Days, n \in 0..MaxSold : d = task[h].day /\ n = task[h].total
    BY <2>1
  <2>3. [kind |-> "append", day |-> d, total |-> n, prior |-> ledger[d]] \in Task
    BY DEF Task, TypeOK
  <2> QED
    BY <1>3, <2>2, <2>3 DEF ReadLedger, TypeOK, books, history
<1>4. CASE AppendDelta(h)
  <2>1. task[h].day \in Days /\ task[h].total \in 0..MaxSold /\ task[h].prior \in Int
    BY <1>4, TaskKinds DEF AppendDelta, TypeOK
  <2>2. Delta(Commission[task[h].total], task[h].prior) \in Int
    BY <2>1, CommissionType DEF Delta
  <2>3. ledger' \in [Days -> Int] /\ settled' \in SUBSET Days
    BY <1>4, <2>1, <2>2 DEF AppendDelta, TypeOK
  <2> QED
    BY <1>4, <2>3 DEF AppendDelta, Finish, TypeOK, Task, Idle
<1> QED
  BY <1>1, <1>2, <1>3, <1>4 DEF Recompute

LEMMA TypingPayout ==
  ASSUME TypeOK, NEW h \in Handlers, Payout(h)
  PROVE  TypeOK'
<1>1. ASSUME NEW deduct \in BOOLEAN, BeginSalary(h, deduct)
      PROVE  TypeOK'
  <2>1. [kind |-> "salary", commission |-> EarnedOn(Unpaid), dues |-> IF deduct THEN dues ELSE 0]
          \in Task
    BY EarnedOnType DEF TypeOK, Task
  <2> QED
    BY <1>1, <2>1 DEF BeginSalary, Start, TypeOK, books, history
<1>2. ASSUME NEW s \in Slips, NEW ref \in Refs, CommitSalary(h, s, ref)
      PROVE  TypeOK'
  <2>1. task[h].commission \in Nat /\ task[h].dues \in Nat
    BY <1>2, TaskKinds DEF CommitSalary, TypeOK
  <2>2. slip' \in [Slips -> {NoSlip, Deleted} \cup Payslip]
    BY <1>2, <2>1 DEF CommitSalary, TypeOK, Payslip
  <2>3. row' \in [Days -> {"absent", "unpaid"} \cup Refs]
    BY <1>2 DEF CommitSalary, TypeOK
  <2>4. dues' \in Nat /\ paidOut' \in Int /\ mixed' \in BOOLEAN
    BY <1>2, <2>1 DEF CommitSalary, TypeOK, DuesAfterPay, Greatest0, HandOut
  <2> QED
    BY <1>2, <2>2, <2>3, <2>4 DEF CommitSalary, Finish, TypeOK, Task
<1>3. CASE BeginPayCommission(h)
  <2>1. [kind |-> "commission", commission |-> EarnedOn(Unpaid)] \in Task
    BY EarnedOnType DEF Task
  <2> QED
    BY <1>3, <2>1 DEF BeginPayCommission, Start, TypeOK, books, history
<1>4. ASSUME NEW ref \in Refs, CommitPayCommission(h, ref)
      PROVE  TypeOK'
  <2>1. task[h].commission \in Nat
    BY <1>4, TaskKinds DEF CommitPayCommission, TypeOK
  <2>2. row' \in [Days -> {"absent", "unpaid"} \cup Refs]
    BY <1>4 DEF CommitPayCommission, TypeOK
  <2>3. paidOut' \in Int /\ mixed' \in BOOLEAN
    BY <1>4, <2>1 DEF CommitPayCommission, TypeOK, HandOut
  <2> QED
    BY <1>4, <2>2, <2>3 DEF CommitPayCommission, Finish, TypeOK, Task
<1>5. ASSUME NEW s \in Slips, BeginCancel(h, s)
      PROVE  TypeOK'
  <2>1. slip[s] \in Payslip
    BY <1>5, SlipFields DEF BeginCancel, Standing, TypeOK
  <2>2. [kind |-> "cancel", slip |-> s, read |-> slip[s]] \in Task
    BY <2>1 DEF Task
  <2> QED
    BY <1>5, <2>2 DEF BeginCancel, Start, TypeOK, books, history
<1>6. CASE CommitCancel(h)
  <2>1. task[h].slip \in Slips /\ task[h].read.commission \in Nat /\ task[h].read.deducted \in Nat
    BY <1>6, TaskKinds DEF CommitCancel, TypeOK
  <2>2. row' \in [Days -> {"absent", "unpaid"} \cup Refs] /\ reopened' \in SUBSET Days
    BY <1>6 DEF CommitCancel, TypeOK, PaidWith
  <2>3. /\ slip' \in [Slips -> {NoSlip, Deleted} \cup Payslip]
        /\ dues' \in Nat /\ paidOut' \in Int /\ mixed' \in BOOLEAN
    BY <1>6, <2>1 DEF CommitCancel, TypeOK, HandOut
  <2> QED
    BY <1>6, <2>2, <2>3 DEF CommitCancel, Finish, TypeOK, Task
<1> QED
  BY <1>1, <1>2, <1>3, <1>4, <1>5, <1>6 DEF Payout

LEMMA TypingInductive ==
  ASSUME TypeOK, [Next]_vars
  PROVE  TypeOK'
<1>1. ASSUME NEW d \in Days, Sell(d)
      PROVE  TypeOK'
  <2>1. sold' \in [Days -> 0..MaxSold] /\ settled' \in SUBSET Days
    BY <1>1, PayrollNumbers DEF Sell, TypeOK
  <2> QED
    BY <1>1, <2>1 DEF Sell, TypeOK
<1>2. CASE Charge
  BY <1>2 DEF Charge, TypeOK, books
<1>3. CASE PayDues
  BY <1>3 DEF PayDues, TypeOK, books, HandOut, Greatest0
<1>4. ASSUME NEW h \in Handlers, Fail(h)
      PROVE  TypeOK'
  <2>1. task' \in [Handlers -> Task] /\ settled' \in SUBSET Days
    BY <1>4 DEF Fail, Finish, TypeOK, Task
  <2> QED
    BY <1>4, <2>1 DEF Fail, Finish, TypeOK, books
<1>5. CASE UNCHANGED vars
  BY <1>5 DEF vars, books, history, TypeOK
<1> QED
  BY <1>1, <1>2, <1>3, <1>4, <1>5, TypingRecompute, TypingPayout DEF Next

(* Types are kept: in particular the dues never go negative.               *)
THEOREM TypeCorrect == Spec => []TypeOK
BY TypingInit, TypingInductive, PTL DEF Spec

-----------------------------------------------------------------------------
(* No late sale, nightly job or recomputation begun before a payment       *)
(* changes the amount of a paid row.                                       *)
THEOREM PaidIsFixed == Spec => PaidAmountFixed
<1>1. ASSUME TypeOK, [Next]_vars
      PROVE  [\A d \in Days : row[d] \in Refs /\ row'[d] \in Refs => earned'[d] = earned[d]]_vars
  <2>1. ASSUME NEW h \in Handlers, WriteRow(h), NEW d \in Days, row[d] \in Refs
        PROVE  earned'[d] = earned[d]
    <3>1. ~Writable(d)
      BY <2>1, RefsAreNew DEF Writable
    <3> QED
      BY <1>1, <2>1, <3>1 DEF WriteRow, TypeOK
  <2>2. ASSUME NEW h \in Handlers, Recompute(h), ~WriteRow(h)
        PROVE  earned' = earned
    BY <2>2 DEF Recompute, BeginUpdate, ReadLedger, AppendDelta, books
  <2>3. ASSUME NEW h \in Handlers, Payout(h)
        PROVE  earned' = earned
    BY <2>3 DEF Payout, BeginSalary, CommitSalary, BeginPayCommission, CommitPayCommission,
                BeginCancel, CommitCancel, books
  <2>4. ASSUME NEW h \in Handlers, Fail(h)
        PROVE  earned' = earned
    BY <2>4 DEF Fail, books
  <2>5. ASSUME NEW d \in Days, Sell(d) \/ Charge \/ PayDues
        PROVE  earned' = earned
    BY <2>5 DEF Sell, Charge, PayDues, books
  <2>6. CASE Next
    BY <2>1, <2>2, <2>3, <2>4, <2>5, <2>6 DEF Next
  <2> QED
    BY <1>1, <2>6
<1> QED
  BY <1>1, TypeCorrect, PTL DEF Spec, PaidAmountFixed

-----------------------------------------------------------------------------
(* A handler marked alone has had nobody beside it since it began.         *)

AloneInv == \A h \in alone : Others(h)

LEMMA AloneStart ==
  ASSUME TypeOK, AloneInv, NEW h \in Handlers, NEW t, Start(h, t)
  PROVE  /\ AloneInv'
         /\ \A o \in alone' : o = h /\ task[h] = Idle /\ task'[h] = t
BY DEF Start, AloneInv, Others, TypeOK

(* A handler at work that is not alone finds nobody alone.                 *)
LEMMA AloneAtWork ==
  ASSUME TypeOK, AloneInv, NEW h \in Handlers, task[h] # Idle
  PROVE  alone \subseteq {h}
BY DEF AloneInv, Others, TypeOK

LEMMA AloneWork ==
  ASSUME TypeOK, AloneInv, NEW h \in Handlers, task[h] # Idle, NEW t,
         task' = [task EXCEPT ![h] = t], alone' \in {alone, alone \ {h}}
  PROVE  AloneInv'
BY AloneAtWork DEF AloneInv, Others, TypeOK

LEMMA AloneInductive ==
  ASSUME TypeOK, AloneInv, [Next]_vars
  PROVE  AloneInv'
<1>1. ASSUME NEW h \in Handlers, Recompute(h)
      PROVE  AloneInv'
  <2>1. ASSUME NEW d \in Days, BeginUpdate(h, d)
        PROVE  AloneInv'
    BY <2>1, AloneStart DEF BeginUpdate
  <2>2. ASSUME WriteRow(h) \/ ReadLedger(h) \/ AppendDelta(h)
        PROVE  AloneInv'
    <3>1. task[h] # Idle
      BY <2>2 DEF WriteRow, ReadLedger, AppendDelta, Idle
    <3>2. PICK t : task' = [task EXCEPT ![h] = t] /\ alone' \in {alone, alone \ {h}}
      BY <2>2 DEF WriteRow, ReadLedger, AppendDelta, Finish
    <3> QED
      BY <3>1, <3>2, AloneWork
  <2> QED
    BY <1>1, <2>1, <2>2 DEF Recompute
<1>2. ASSUME NEW h \in Handlers, Payout(h)
      PROVE  AloneInv'
  <2>1. ASSUME NEW t, Start(h, t)
        PROVE  AloneInv'
    BY <2>1, AloneStart
  <2>2. ASSUME NEW s \in Slips, NEW ref \in Refs, CommitSalary(h, s, ref)
        PROVE  AloneInv'
    <3>1. task[h] # Idle /\ Finish(h)
      BY <2>2 DEF CommitSalary, Idle
    <3> QED
      BY <3>1, AloneWork DEF Finish
  <2>3. ASSUME NEW ref \in Refs, CommitPayCommission(h, ref)
        PROVE  AloneInv'
    <3>1. task[h] # Idle /\ Finish(h)
      BY <2>3 DEF CommitPayCommission, Idle
    <3> QED
      BY <3>1, AloneWork DEF Finish
  <2>4. CASE CommitCancel(h)
    <3>1. task[h] # Idle /\ Finish(h)
      BY <2>4 DEF CommitCancel, Idle
    <3> QED
      BY <3>1, AloneWork DEF Finish
  <2>5. ASSUME NEW deduct \in BOOLEAN, BeginSalary(h, deduct)
        PROVE  AloneInv'
    BY <2>1, <2>5 DEF BeginSalary
  <2>6. CASE BeginPayCommission(h)
    BY <2>1, <2>6 DEF BeginPayCommission
  <2>7. ASSUME NEW s \in Slips, BeginCancel(h, s)
        PROVE  AloneInv'
    BY <2>1, <2>7 DEF BeginCancel
  <2> QED
    BY <1>2, <2>2, <2>3, <2>4, <2>5, <2>6, <2>7 DEF Payout
<1>3. ASSUME NEW h \in Handlers, Fail(h)
      PROVE  AloneInv'
  BY <1>3, AloneWork DEF Fail, Finish
<1>4. ASSUME UNCHANGED <<task, alone>>
      PROVE  AloneInv'
  BY <1>4 DEF AloneInv, Others
<1>5. ASSUME NEW d \in Days, Sell(d)
      PROVE  UNCHANGED <<task, alone>>
  BY <1>5 DEF Sell
<1>6. CASE Charge \/ PayDues \/ UNCHANGED vars
  BY <1>4, <1>6 DEF Charge, PayDues, vars
<1> QED
  BY <1>1, <1>2, <1>3, <1>4, <1>5, <1>6 DEF Next

Frame == TypeOK /\ AloneInv

LEMMA FrameInit == Init => Frame
BY TypingInit DEF Init, AloneInv, Frame

LEMMA FrameInductive ==
  ASSUME Frame, [Next]_vars
  PROVE  Frame'
BY TypingInductive, AloneInductive DEF Frame

-----------------------------------------------------------------------------
(* Dues: a handler that cancels a slip holds it as it is, or it has been   *)
(* deleted by another; a salary paid alone deducts what is still due.      *)

Column == [s \in Slips |-> slip[s].deducted]

CancelHolds ==
    \A h \in Handlers : task[h].kind = "cancel" =>
        /\ slip[task[h].slip] \in {task[h].read, Deleted}
        /\ h \in alone => slip[task[h].slip] = task[h].read

SalaryCovered ==
    ~mixed => \A h \in alone : task[h].kind = "salary" => task[h].dues <= dues

DuesInv == CancelHolds /\ SalaryCovered /\ DuesNeverLost

LEMMA DeductedColumn ==
  ASSUME TypeOK
  PROVE  Column \in [Slips -> Nat] /\ Deducted = Total(Column) /\ Deducted \in Nat
<1>1. Column \in [Slips -> Nat]
  BY SlipFields DEF Column, TypeOK
<1> QED
  BY <1>1, PayrollSets, TotalType DEF Deducted, Column

(* One slip changes what all of them deduct by its own change.             *)
LEMMA DeductedStep ==
  ASSUME TypeOK, TypeOK', NEW s \in Slips, NEW p \in {NoSlip, Deleted} \cup Payslip,
         slip' = [slip EXCEPT ![s] = p]
  PROVE  Deducted' = Deducted - slip[s].deducted + p.deducted /\ slip[s].deducted \in Nat
<1>1. Column \in [Slips -> Nat] /\ Deducted = Total(Column)
  BY DeductedColumn
<1>2. Column' \in [Slips -> Nat] /\ Deducted' = Total(Column')
  BY SlipFields DEF Column, TypeOK, Deducted
<1>3. \A u \in Slips : u # s => Column'[u] = Column[u]
  BY DEF Column, TypeOK
<1>4. Column[s] = slip[s].deducted /\ Column'[s] = p.deducted
  BY DEF Column, TypeOK
<1>5. Total(Column') = Total(Column) - Column[s] + Column'[s]
  BY <1>1, <1>2, <1>3, PayrollSets, TotalUpdate
<1> QED
  BY <1>1, <1>2, <1>4, <1>5

(* Steps that touch neither slips, dues nor payouts, and begin neither a   *)
(* salary nor a cancellation.                                              *)
LEMMA DuesKept ==
  ASSUME Frame, DuesInv, NEW h \in Handlers, NEW t,
         task' = [task EXCEPT ![h] = t], t.kind \notin {"salary", "cancel"},
         \A o \in alone' : o = h \/ o \in alone,
         UNCHANGED <<dues, slip, charged>>, mixed => mixed'
  PROVE  DuesInv'
<1>1. \A o \in Handlers : task'[o].kind \in {"salary", "cancel"} => o # h /\ task'[o] = task[o]
  BY DEF Frame, TypeOK
<1>2. CancelHolds'
  BY <1>1 DEF DuesInv, CancelHolds
<1>3. alone' \in SUBSET (alone \cup {h}) /\ alone \in SUBSET Handlers
  BY DEF Frame, TypeOK
<1>4. SalaryCovered'
  BY <1>1, <1>3 DEF DuesInv, SalaryCovered
<1>5. DuesNeverLost'
  BY DEF DuesInv, DuesNeverLost, Deducted
<1> QED
  BY <1>2, <1>4, <1>5 DEF DuesInv

LEMMA DuesInductive ==
  ASSUME Frame, Frame', DuesInv, [Next]_vars
  PROVE  DuesInv'
<1>0. TypeOK /\ TypeOK' /\ Deducted \in Nat /\ Idle.kind \notin {"salary", "cancel"}
  BY DeductedColumn DEF Frame, Idle
<1>1. ASSUME NEW h \in Handlers, Recompute(h)
      PROVE  DuesInv'
  <2>1. ASSUME NEW d \in Days, BeginUpdate(h, d)
        PROVE  DuesInv'
    <3>1. PICK t : t.kind = "total" /\ Start(h, t) /\ UNCHANGED <<dues, slip, mixed, charged>>
      BY <2>1 DEF BeginUpdate, history
    <3>2. task' = [task EXCEPT ![h] = t] /\ \A o \in alone' : o = h
      BY <3>1 DEF Start
    <3> QED
      BY <3>1, <3>2, DuesKept
  <2>2. ASSUME WriteRow(h) \/ ReadLedger(h) \/ AppendDelta(h)
        PROVE  DuesInv'
    <3>1. PICK t : /\ task' = [task EXCEPT ![h] = t] /\ t.kind \notin {"salary", "cancel"}
                   /\ \A o \in alone' : o \in alone
                   /\ UNCHANGED <<dues, slip, mixed, charged>>
      BY <1>0, <2>2 DEF WriteRow, ReadLedger, AppendDelta, Finish, history
    <3> QED
      BY <3>1, DuesKept
  <2> QED
    BY <1>1, <2>1, <2>2 DEF Recompute
<1>2. ASSUME NEW h \in Handlers, NEW deduct \in BOOLEAN, BeginSalary(h, deduct)
      PROVE  DuesInv'
  <2>1. PICK t : /\ t.kind = "salary" /\ t.dues <= dues /\ Start(h, t)
                 /\ UNCHANGED <<dues, slip, mixed, charged>>
    BY <1>0, <1>2 DEF BeginSalary, history, TypeOK
  <2>2. CancelHolds'
    BY <1>0, <2>1 DEF Start, DuesInv, CancelHolds, TypeOK
  <2>3. SalaryCovered'
    BY <1>0, <2>1 DEF Start, SalaryCovered, TypeOK
  <2> QED
    BY <2>1, <2>2, <2>3 DEF DuesInv, DuesNeverLost, Deducted
<1>3. ASSUME NEW h \in Handlers, NEW s \in Slips, NEW ref \in Refs, CommitSalary(h, s, ref)
      PROVE  DuesInv'
  <2>1. PICK n \in Nat, k \in Nat :
          /\ task[h].kind = "salary" /\ n = task[h].dues /\ k = task[h].commission
          /\ slip[s] = NoSlip
          /\ slip' = [slip EXCEPT ![s] = [commission |-> k, deducted |-> n, ref |-> ref]]
          /\ dues' = IF n > 0 THEN DuesAfterPay(n) ELSE dues
          /\ mixed' = (mixed \/ h \notin alone \/ ref \in UsedRefs)
          /\ task' = [task EXCEPT ![h] = Idle] /\ alone' = alone \ {h}
          /\ charged' = charged
    BY <1>0, <1>3, TaskKinds DEF CommitSalary, Finish, TypeOK
  <2>2. [commission |-> k, deducted |-> n, ref |-> ref] \in Payslip
    BY DEF Payslip
  <2>3. Deducted' = Deducted + n
    <3>1. PICK p \in Payslip : p = [commission |-> k, deducted |-> n, ref |-> ref]
      BY <2>2
    <3>2. slip' = [slip EXCEPT ![s] = p] /\ p.deducted = n
      BY <2>1, <3>1
    <3>3. Deducted' = Deducted - slip[s].deducted + p.deducted
      BY <1>0, <3>2, DeductedStep
    <3> QED
      BY <1>0, <2>1, <3>2, <3>3 DEF NoSlip
  <2>4. /\ dues' >= dues - n /\ dues \in Nat
        /\ ~mixed' => dues' = dues - n
    <3>1. ~mixed' => n <= dues
      BY <2>1 DEF DuesInv, SalaryCovered
    <3> QED
      BY <1>0, <2>1, <3>1 DEF DuesAfterPay, Greatest0, TypeOK
  <2>5. DuesNeverLost'
    <3>1. mixed => mixed'
      BY <2>1
    <3>2. dues' \in Nat /\ charged \in Int
      BY <1>0 DEF TypeOK
    <3> QED
      BY <1>0, <2>1, <2>3, <2>4, <3>1, <3>2 DEF DuesInv, DuesNeverLost
  <2>6. CancelHolds'
    <3>1. \A o \in Handlers : task'[o].kind = "cancel" =>
            /\ o # h /\ task'[o] = task[o] /\ task[o].slip \in Slips /\ task[o].read.ref \in Refs
            /\ o \notin alone
      <4>1. task[h] # Idle
        BY <2>1 DEF Idle
      <4> QED
        BY <1>0, <2>1, <4>1, AloneAtWork, TaskKinds DEF TypeOK, Frame
    <3>2. \A o \in Handlers : task'[o].kind = "cancel" => slip[task[o].slip] # NoSlip
      BY <3>1, RefsAreNew DEF DuesInv, CancelHolds, NoSlip, Deleted
    <3>3. \A o \in Handlers : task'[o].kind = "cancel" => task[o].slip # s
      BY <2>1, <3>2
    <3> QED
      BY <1>0, <2>1, <3>1, <3>3 DEF DuesInv, CancelHolds, TypeOK
  <2>7. SalaryCovered'
    <3>1. task[h] # Idle
      BY <2>1 DEF Idle
    <3>2. alone' = {}
      BY <1>0, <2>1, <3>1, AloneAtWork DEF Frame
    <3> QED
      BY <3>2 DEF SalaryCovered
  <2> QED
    BY <2>5, <2>6, <2>7 DEF DuesInv
<1>4. ASSUME NEW h \in Handlers, BeginPayCommission(h)
      PROVE  DuesInv'
  <2>1. PICK t : t.kind = "commission" /\ Start(h, t) /\ UNCHANGED <<dues, slip, mixed, charged>>
    BY <1>4 DEF BeginPayCommission, history
  <2>2. task' = [task EXCEPT ![h] = t] /\ \A o \in alone' : o = h
    BY <2>1 DEF Start
  <2> QED
    BY <2>1, <2>2, DuesKept
<1>5. ASSUME NEW h \in Handlers, NEW ref \in Refs, CommitPayCommission(h, ref)
      PROVE  DuesInv'
  <2>1. /\ task' = [task EXCEPT ![h] = Idle] /\ alone' = alone \ {h}
        /\ UNCHANGED <<dues, slip, charged>> /\ (mixed => mixed')
    BY <1>5 DEF CommitPayCommission, Finish
  <2> QED
    BY <1>0, <2>1, DuesKept
<1>6. ASSUME NEW h \in Handlers, NEW s \in Slips, BeginCancel(h, s)
      PROVE  DuesInv'
  <2>1. PICK t : /\ t.kind = "cancel" /\ t.slip = s /\ t.read = slip[s] /\ Start(h, t)
                 /\ UNCHANGED <<dues, slip, mixed, charged>>
    BY <1>6 DEF BeginCancel, history
  <2>2. CancelHolds'
    BY <1>0, <2>1 DEF Start, DuesInv, CancelHolds, TypeOK
  <2>3. SalaryCovered'
    BY <1>0, <2>1 DEF Start, SalaryCovered, TypeOK
  <2> QED
    BY <2>1, <2>2, <2>3 DEF DuesInv, DuesNeverLost, Deducted
<1>7. ASSUME NEW h \in Handlers, CommitCancel(h)
      PROVE  DuesInv'
  <2>1. PICK s \in Slips, p \in Payslip :
          /\ task[h].kind = "cancel" /\ s = task[h].slip /\ p = task[h].read
          /\ p.deducted \in Nat
          /\ slip' = [slip EXCEPT ![s] = Deleted]
          /\ dues' = dues + p.deducted
          /\ mixed' = (mixed \/ h \notin alone)
          /\ task' = [task EXCEPT ![h] = Idle] /\ alone' = alone \ {h}
          /\ charged' = charged
    BY <1>0, <1>7, TaskKinds DEF CommitCancel, Finish, TypeOK
  <2>2. slip[s] \in {p, Deleted} /\ (h \in alone => slip[s] = p)
    BY <2>1 DEF DuesInv, CancelHolds
  <2>3. Deducted' = Deducted - slip[s].deducted /\ slip[s].deducted \in Nat
    <3>1. Deducted' = Deducted - slip[s].deducted + Deleted.deducted /\ slip[s].deducted \in Nat
      BY <1>0, <2>1, DeductedStep
    <3> QED
      BY <1>0, <3>1 DEF Deleted
  <2>4. slip[s].deducted <= p.deducted /\ (h \in alone => slip[s].deducted = p.deducted)
    BY <2>1, <2>2 DEF Deleted
  <2>5. DuesNeverLost'
    <3>1. /\ dues \in Nat /\ charged \in Int /\ dues + Deducted >= charged
          /\ ~mixed => dues + Deducted = charged
      BY <1>0 DEF TypeOK, DuesInv, DuesNeverLost
    <3>2. PICK a \in Nat, b \in Nat : a = slip[s].deducted /\ b = p.deducted
      BY <2>1, <2>3
    <3>3. a <= b /\ (h \in alone => a = b)
      BY <2>4, <3>2
    <3>4. dues' = dues + b /\ Deducted' = Deducted - a
      BY <2>1, <2>3, <3>2
    <3>5. dues' + Deducted' >= charged
      BY <1>0, <3>1, <3>2, <3>3, <3>4
    <3>6. h \in alone /\ ~mixed => dues' + Deducted' = charged
      BY <1>0, <3>1, <3>2, <3>3, <3>4
    <3> QED
      BY <2>1, <3>5, <3>6 DEF DuesNeverLost
  <2>6. alone' = {}
    <3>1. task[h] # Idle
      BY <2>1 DEF Idle
    <3> QED
      BY <1>0, <2>1, <3>1, AloneAtWork DEF Frame
  <2>7. CancelHolds'
    <3>1. \A o \in Handlers : task'[o].kind = "cancel" => o # h /\ task'[o] = task[o] /\ task[o].slip \in Slips
      BY <1>0, <2>1, TaskKinds DEF TypeOK
    <3> QED
      BY <1>0, <2>1, <2>6, <3>1 DEF DuesInv, CancelHolds, TypeOK
  <2> QED
    BY <2>5, <2>6, <2>7 DEF DuesInv, SalaryCovered
<1>8. ASSUME NEW h \in Handlers, Fail(h)
      PROVE  DuesInv'
  <2>1. /\ task' = [task EXCEPT ![h] = Idle] /\ alone' = alone \ {h}
        /\ UNCHANGED <<dues, slip, charged, mixed>>
    BY <1>8 DEF Fail, Finish
  <2> QED
    BY <1>0, <2>1, DuesKept
<1>9. ASSUME NEW d \in Days, Sell(d)
      PROVE  UNCHANGED <<task, alone, dues, slip, mixed, charged>>
  BY <1>9 DEF Sell
<1>10. ASSUME UNCHANGED <<task, alone, dues, slip, mixed, charged>>
       PROVE  DuesInv'
  BY <1>10 DEF DuesInv, CancelHolds, SalaryCovered, DuesNeverLost, Deducted
<1>11. CASE Charge
  <2>1. /\ dues' = dues + 1 /\ charged' = charged + 1 /\ UNCHANGED <<task, alone, slip, mixed>>
        /\ Deducted' = Deducted
    BY <1>11 DEF Charge, Deducted
  <2>2. dues \in Nat /\ charged \in Int
    BY <1>0 DEF TypeOK
  <2>3. DuesNeverLost'
    BY <1>0, <2>1, <2>2 DEF DuesInv, DuesNeverLost
  <2>4. CancelHolds'
    BY <2>1 DEF DuesInv, CancelHolds
  <2>5. SalaryCovered'
    <3>1. \A h \in alone : task[h].kind = "salary" => task[h].dues \in Nat
      BY <1>0, TaskKinds DEF TypeOK
    <3> QED
      BY <2>1, <2>2, <3>1 DEF DuesInv, SalaryCovered
  <2> QED
    BY <2>3, <2>4, <2>5 DEF DuesInv
<1>12. CASE PayDues
  <2>1. /\ dues > 0 /\ dues' = Greatest0(dues - 1) /\ charged' = charged - 1
        /\ UNCHANGED <<task, alone, slip>> /\ Deducted' = Deducted
        /\ mixed' = (mixed \/ \E h \in Handlers : task[h].kind = "salary")
    BY <1>12 DEF PayDues, Deducted
  <2>2. dues \in Nat /\ charged \in Int /\ dues' = dues - 1
    BY <1>0, <2>1 DEF TypeOK, Greatest0
  <2>3. DuesNeverLost'
    <3>1. dues + Deducted >= charged /\ (~mixed => dues + Deducted = charged) /\ (mixed => mixed')
      BY <2>1 DEF DuesInv, DuesNeverLost
    <3>2. dues' + Deducted' >= charged' /\ (~mixed => dues' + Deducted' = charged')
      BY <1>0, <2>1, <2>2, <3>1
    <3> QED
      BY <3>1, <3>2 DEF DuesNeverLost
  <2>4. CancelHolds'
    BY <2>1 DEF DuesInv, CancelHolds
  <2>5. SalaryCovered'
    BY <1>0, <2>1 DEF SalaryCovered, TypeOK
  <2> QED
    BY <2>3, <2>4, <2>5 DEF DuesInv
<1>13. CASE UNCHANGED vars
  BY <1>10, <1>13 DEF vars, history
<1>14. ASSUME NEW h \in Handlers, Payout(h)
       PROVE  DuesInv'
  BY <1>2, <1>3, <1>4, <1>5, <1>6, <1>7, <1>14 DEF Payout
<1> QED
  BY <1>1, <1>8, <1>9, <1>10, <1>11, <1>12, <1>13, <1>14 DEF Next

LEMMA DuesInit == Init => DuesInv
<1> SUFFICES ASSUME Init PROVE DuesInv
  OBVIOUS
<1>1. Column \in [Slips -> Nat] /\ \A s \in Slips : Column[s] = 0
  BY DEF Init, Column, NoSlip
<1>2. Total(Column) = 0
  BY <1>1, TotalZero
<1>3. Deducted = 0
  BY <1>2 DEF Deducted, Column
<1> QED
  BY <1>3, PayrollNumbers DEF Init, DuesInv, CancelHolds, SalaryCovered, DuesNeverLost, Idle

(* Dues are never lost, and deducted once if nothing overlaps.             *)
THEOREM DuesKeptWhole == Spec => []DuesNeverLost
<1>1. DuesInv => DuesNeverLost
  BY DEF DuesInv
<1> QED
  BY FrameInit, FrameInductive, DuesInductive, DuesInit, <1>1, PTL DEF Spec

-----------------------------------------------------------------------------
(* Commission and its ledger: a recomputation knows no more than was sold, *)
(* what it knows of a settled day is current, and one that runs alone has  *)
(* written the row it appends for.                                         *)

Recomputing(h) == task[h].kind \in {"total", "written", "append"}

EarnedWasSold ==
    \A d \in Days : row[d] # "absent" => \E n \in 1..sold[d] : earned[d] = Commission[n]

TotalsWereSold == \A h \in Handlers : Recomputing(h) => task[h].total \in 1..sold[task[h].day]

SettledIsCurrent ==
    \A h \in Handlers : Recomputing(h) /\ task[h].day \in settled =>
        /\ task[h].total = sold[task[h].day]
        /\ h \in alone /\ task[h].kind = "append" => task[h].prior = ledger[task[h].day]

AloneHasWritten ==
    \A h \in alone : task[h].kind \in {"written", "append"} =>
        LET d == task[h].day IN
        /\ row[d] # "absent"
        /\ row[d] = "unpaid" /\ d \notin reopened => earned[d] = Commission[task[h].total]
        /\ task[h].kind = "append" => task[h].prior = ledger[d]

LedgerAgrees ==
    \A d \in settled :
        /\ ledger[d] = Commission[sold[d]]
        /\ row[d] = "unpaid" /\ d \notin reopened => earned[d] = ledger[d]

CommissionInv ==
    EarnedWasSold /\ TotalsWereSold /\ SettledIsCurrent /\ AloneHasWritten /\ LedgerAgrees

(* Steps that recompute nothing: rows may be paid, or opened again.        *)
LEMMA CommissionKept ==
  ASSUME Frame, Frame', CommissionInv, NEW h \in Handlers, NEW t,
         task' = [task EXCEPT ![h] = t], t.kind \notin {"total", "written", "append"},
         \A o \in alone' : o = h \/ o \in alone,
         UNCHANGED <<sold, earned, ledger>>, settled' \subseteq settled,
         reopened \subseteq reopened',
         \A d \in Days : row'[d] = row[d] \/ (row[d] # "absent" /\ row'[d] \in Refs)
                          \/ (row[d] # "absent" /\ row'[d] = "unpaid" /\ d \in reopened')
  PROVE  CommissionInv'
<1>1. \A o \in Handlers : task'[o].kind \in {"total", "written", "append"} =>
         /\ o # h /\ task'[o] = task[o] /\ task[o].day \in Days
         /\ o \in alone' => o \in alone
  BY TaskKinds DEF Frame, TypeOK
<1>2. EarnedWasSold'
  BY DEF CommissionInv, EarnedWasSold
<1>3. TotalsWereSold'
  BY <1>1 DEF CommissionInv, TotalsWereSold, Recomputing
<1>4. SettledIsCurrent'
  BY <1>1 DEF CommissionInv, SettledIsCurrent, Recomputing
<1>5. alone' \in SUBSET Handlers /\ settled \in SUBSET Days
  BY DEF Frame, TypeOK
<1>6. AloneHasWritten'
  <2>1. \A d \in Days : row'[d] = "unpaid" /\ d \notin reopened' => row[d] = "unpaid" /\ d \notin reopened
    BY RefsAreNew
  <2>2. \A d \in Days : row[d] # "absent" => row'[d] # "absent"
    BY RefsAreNew
  <2> QED
    BY <1>1, <1>5, <2>1, <2>2 DEF CommissionInv, AloneHasWritten
<1>7. LedgerAgrees'
  BY <1>5, RefsAreNew DEF CommissionInv, LedgerAgrees
<1> QED
  BY <1>2, <1>3, <1>4, <1>6, <1>7 DEF CommissionInv

LEMMA CommissionRecompute ==
  ASSUME Frame, Frame', CommissionInv, NEW h \in Handlers, Recompute(h)
  PROVE  CommissionInv'
<1>0. TypeOK /\ TypeOK'
  BY DEF Frame
<1>1. ASSUME NEW d \in Days, BeginUpdate(h, d)
      PROVE  CommissionInv'
  <2>1. PICK t : /\ t.kind = "total" /\ t.day = d /\ t.total = sold[d]
                 /\ task' = [task EXCEPT ![h] = t] /\ alone' \subseteq {h}
                 /\ sold[d] > 0
                 /\ UNCHANGED <<sold, row, earned, ledger, settled, reopened>>
    BY <1>1 DEF BeginUpdate, Start, books, history
  <2>2. \A o \in Handlers : o # h => task'[o] = task[o]
    BY <1>0, <2>1 DEF TypeOK
  <2>3. task'[h] = t /\ sold[d] \in Nat
    BY <1>0, <2>1, PayrollNumbers DEF TypeOK
  <2>4. TotalsWereSold'
    <3>1. sold[d] \in 1..sold[d]
      BY <2>1, <2>3
    <3> QED
      BY <2>1, <2>2, <2>3, <3>1 DEF CommissionInv, TotalsWereSold, Recomputing
  <2>5. SettledIsCurrent'
    BY <2>1, <2>2, <2>3 DEF CommissionInv, SettledIsCurrent, Recomputing
  <2>6. AloneHasWritten'
    BY <2>1, <2>3 DEF AloneHasWritten
  <2>7. EarnedWasSold' /\ LedgerAgrees'
    BY <2>1 DEF CommissionInv, EarnedWasSold, LedgerAgrees
  <2> QED
    BY <2>4, <2>5, <2>6, <2>7 DEF CommissionInv
<1>2. CASE WriteRow(h)
  <2>1. PICK d \in Days, n \in 0..MaxSold :
          /\ task[h].kind = "total" /\ d = task[h].day /\ n = task[h].total
          /\ row' = IF Writable(d) THEN [row EXCEPT ![d] = IF @ = "absent" THEN "unpaid" ELSE @] ELSE row
          /\ earned' = IF Writable(d) THEN [earned EXCEPT ![d] = Commission[n]] ELSE earned
          /\ task' = [task EXCEPT ![h] = [kind |-> "written", day |-> d, total |-> n]]
          /\ UNCHANGED <<sold, ledger, alone, settled, reopened>>
    BY <1>0, <1>2, TaskKinds DEF WriteRow, TypeOK, history
  <2>2. /\ \A o \in Handlers : o # h => task'[o] = task[o]
        /\ task'[h] = [kind |-> "written", day |-> d, total |-> n]
        /\ alone \subseteq {h}
    <3>1. task[h] # Idle
      BY <2>1 DEF Idle
    <3> QED
      BY <1>0, <2>1, <3>1, AloneAtWork DEF TypeOK, Frame
  <2>3. /\ \A e \in Days : e # d => row'[e] = row[e] /\ earned'[e] = earned[e]
        /\ row[d] \in {"absent", "unpaid"} => row'[d] = "unpaid" /\ earned'[d] = Commission[n]
        /\ row[d] \notin {"absent", "unpaid"} => row'[d] = row[d] /\ earned'[d] = earned[d]
    BY <1>0, <2>1 DEF TypeOK, Writable
  <2>4. n \in 1..sold[d] /\ sold[d] \in 0..MaxSold
    BY <1>0, <2>1 DEF CommissionInv, TotalsWereSold, Recomputing, TypeOK
  <2>5. EarnedWasSold'
    <3>1. ASSUME NEW e \in Days, row'[e] # "absent"
          PROVE  \E m \in 1..sold[e] : earned'[e] = Commission[m]
      <4>1. CASE e = d /\ row[d] \in {"absent", "unpaid"}
        BY <2>3, <2>4, <4>1
      <4>2. CASE ~(e = d /\ row[d] \in {"absent", "unpaid"})
        BY <2>3, <3>1, <4>2 DEF CommissionInv, EarnedWasSold
      <4> QED
        BY <4>1, <4>2
    <3> QED
      BY <2>1, <3>1 DEF EarnedWasSold
  <2>6. TotalsWereSold'
    BY <2>1, <2>2, <2>4 DEF CommissionInv, TotalsWereSold, Recomputing
  <2>7. SettledIsCurrent'
    BY <2>1, <2>2 DEF CommissionInv, SettledIsCurrent, Recomputing
  <2>8. AloneHasWritten'
    BY <2>1, <2>2, <2>3 DEF AloneHasWritten
  <2>9. LedgerAgrees'
    <3>1. d \in settled => n = sold[d]
      BY <2>1 DEF CommissionInv, SettledIsCurrent, Recomputing
    <3>2. settled \in SUBSET Days
      BY <1>0 DEF TypeOK
    <3> QED
      BY <2>1, <2>3, <3>1, <3>2 DEF CommissionInv, LedgerAgrees
  <2> QED
    BY <2>5, <2>6, <2>7, <2>8, <2>9 DEF CommissionInv
<1>3. CASE ReadLedger(h)
  <2>1. PICK d \in Days, n \in 0..MaxSold :
          /\ task[h].kind = "written" /\ d = task[h].day /\ n = task[h].total
          /\ task' = [task EXCEPT ![h] = [kind |-> "append", day |-> d, total |-> n, prior |-> ledger[d]]]
          /\ UNCHANGED <<sold, row, earned, ledger, alone, settled, reopened>>
    BY <1>0, <1>3, TaskKinds DEF ReadLedger, TypeOK, books, history
  <2>2. /\ \A o \in Handlers : o # h => task'[o] = task[o]
        /\ task'[h] = [kind |-> "append", day |-> d, total |-> n, prior |-> ledger[d]]
        /\ alone \in SUBSET Handlers
    BY <1>0, <2>1 DEF TypeOK
  <2>3. TotalsWereSold'
    BY <2>1, <2>2 DEF CommissionInv, TotalsWereSold, Recomputing
  <2>4. SettledIsCurrent'
    BY <2>1, <2>2 DEF CommissionInv, SettledIsCurrent, Recomputing
  <2>5. AloneHasWritten'
    BY <2>1, <2>2 DEF CommissionInv, AloneHasWritten
  <2>6. EarnedWasSold' /\ LedgerAgrees'
    BY <2>1 DEF CommissionInv, EarnedWasSold, LedgerAgrees
  <2> QED
    BY <2>3, <2>4, <2>5, <2>6 DEF CommissionInv
<1>4. CASE AppendDelta(h)
  <2>1. PICK d \in Days, n \in 0..MaxSold, k \in Int :
          /\ task[h].kind = "append" /\ d = task[h].day /\ n = task[h].total /\ k = task[h].prior
          /\ ledger' = [ledger EXCEPT ![d] = ledger[d] + (Commission[n] - k)]
          /\ settled' = IF h \in alone /\ n = sold[d] THEN settled \cup {d} ELSE settled \ {d}
          /\ task' = [task EXCEPT ![h] = Idle] /\ alone' = alone \ {h}
          /\ UNCHANGED <<sold, row, earned, reopened>>
    BY <1>0, <1>4, TaskKinds DEF AppendDelta, Finish, Delta, TypeOK
  <2>2. /\ \A o \in Handlers : o # h => task'[o] = task[o]
        /\ task'[h] = Idle /\ Idle.kind = "idle"
        /\ alone \subseteq {h} /\ alone' = {}
        /\ settled \in SUBSET Days /\ settled' \in SUBSET Days
    <3>1. task[h] # Idle
      BY <2>1 DEF Idle
    <3> QED
      BY <1>0, <2>1, <3>1, AloneAtWork DEF TypeOK, Frame, Idle
  <2>3. EarnedWasSold' /\ AloneHasWritten'
    BY <2>1, <2>2 DEF CommissionInv, EarnedWasSold, AloneHasWritten
  <2>4. TotalsWereSold'
    BY <2>1, <2>2 DEF CommissionInv, TotalsWereSold, Recomputing
  <2>5. SettledIsCurrent'
    <3>1. CASE h \in alone
      <4>1. \A o \in Handlers : task'[o] = Idle
        BY <1>0, <2>2, <3>1 DEF Frame, AloneInv, Others
      <4> QED
        BY <2>2, <4>1 DEF SettledIsCurrent, Recomputing
    <3>2. CASE h \notin alone
      BY <2>1, <2>2, <3>2 DEF CommissionInv, SettledIsCurrent, Recomputing
    <3> QED
      BY <3>1, <3>2
  <2>6. LedgerAgrees'
    <3>1. SUFFICES ASSUME NEW e \in settled'
                   PROVE  /\ ledger'[e] = Commission[sold[e]]
                          /\ row[e] = "unpaid" /\ e \notin reopened => earned[e] = ledger'[e]
      BY <2>1 DEF LedgerAgrees
    <3>2. CASE e # d
      BY <1>0, <2>1, <2>2, <3>1, <3>2 DEF CommissionInv, LedgerAgrees, TypeOK
    <3>3. CASE e = d
      <4>1. h \in alone /\ n = sold[d]
        BY <2>1, <3>1, <3>3
      <4>2. /\ k = ledger[d] /\ row[d] # "absent"
            /\ row[d] = "unpaid" /\ d \notin reopened => earned[d] = Commission[n]
        BY <2>1, <4>1 DEF CommissionInv, AloneHasWritten
      <4>3. ledger'[d] = ledger[d] + (Commission[n] - k) /\ Commission[n] \in Nat /\ ledger[d] \in Int
        BY <1>0, <2>1, CommissionType DEF TypeOK
      <4>4. ledger'[d] = Commission[n]
        BY <4>2, <4>3
      <4> QED
        BY <3>3, <4>1, <4>2, <4>4
    <3> QED
      BY <3>2, <3>3
  <2> QED
    BY <2>3, <2>4, <2>5, <2>6 DEF CommissionInv
<1> QED
  BY <1>1, <1>2, <1>3, <1>4 DEF Recompute

LEMMA CommissionPayout ==
  ASSUME Frame, Frame', CommissionInv, NEW h \in Handlers, Payout(h)
  PROVE  CommissionInv'
<1>0. Idle.kind = "idle"
  BY DEF Idle
<1>1. ASSUME NEW t, t.kind \in {"salary", "commission", "cancel"}, Start(h, t),
             UNCHANGED <<books, history>>
      PROVE  CommissionInv'
  <2>1. /\ task' = [task EXCEPT ![h] = t] /\ \A o \in alone' : o = h
        /\ UNCHANGED <<sold, row, earned, ledger, settled, reopened>>
    BY <1>1 DEF Start, books, history
  <2> QED
    BY <1>1, <2>1, CommissionKept
<1>2. ASSUME NEW ref \in Refs, row' = [d \in Days |-> IF d \in Unpaid THEN ref ELSE row[d]],
             Finish(h), UNCHANGED <<sold, earned, ledger, settled, reopened>>
      PROVE  CommissionInv'
  <2>1. \A d \in Days : row'[d] = row[d] \/ (row[d] # "absent" /\ row'[d] \in Refs)
    BY <1>2 DEF Unpaid
  <2>2. task' = [task EXCEPT ![h] = Idle] /\ alone' = alone \ {h}
    BY <1>2 DEF Finish
  <2> QED
    BY <1>0, <1>2, <2>1, <2>2, CommissionKept
<1>3. ASSUME NEW s \in Slips, NEW ref \in Refs, CommitSalary(h, s, ref)
      PROVE  CommissionInv'
  BY <1>2, <1>3 DEF CommitSalary
<1>4. ASSUME NEW ref \in Refs, CommitPayCommission(h, ref)
      PROVE  CommissionInv'
  BY <1>2, <1>4 DEF CommitPayCommission
<1>5. CASE CommitCancel(h)
  <2>0. task[h].read.ref # "absent"
    BY <1>5, TaskKinds, RefsAreNew DEF CommitCancel, Frame, TypeOK
  <2>1. /\ \A d \in Days : row'[d] = row[d]
                            \/ (row[d] # "absent" /\ row'[d] = "unpaid" /\ d \in reopened')
        /\ reopened \subseteq reopened'
        /\ UNCHANGED <<sold, earned, ledger, settled>>
        /\ task' = [task EXCEPT ![h] = Idle] /\ alone' = alone \ {h}
    BY <1>5, <2>0 DEF CommitCancel, Finish, PaidWith
  <2> QED
    BY <1>0, <2>1, CommissionKept
<1>6. ASSUME NEW deduct \in BOOLEAN, BeginSalary(h, deduct)
      PROVE  CommissionInv'
  BY <1>1, <1>6 DEF BeginSalary
<1>7. CASE BeginPayCommission(h)
  BY <1>1, <1>7 DEF BeginPayCommission
<1>8. ASSUME NEW s \in Slips, BeginCancel(h, s)
      PROVE  CommissionInv'
  BY <1>1, <1>8 DEF BeginCancel
<1> QED
  BY <1>3, <1>4, <1>5, <1>6, <1>7, <1>8 DEF Payout

LEMMA CommissionInductive ==
  ASSUME Frame, Frame', CommissionInv, [Next]_vars
  PROVE  CommissionInv'
<1>0. TypeOK /\ Idle.kind = "idle"
  BY DEF Frame, Idle
<1>1. ASSUME NEW d \in Days, Sell(d)
      PROVE  CommissionInv'
  <2>1. /\ sold' = [sold EXCEPT ![d] = sold[d] + 1] /\ settled' = settled \ {d}
        /\ UNCHANGED <<row, earned, ledger, task, alone, reopened>>
        /\ sold[d] \in 0..MaxSold /\ sold[d] + 1 \in 0..MaxSold
    BY <1>0, <1>1, PayrollNumbers DEF Sell, TypeOK
  <2>2. \A e \in Days : IF e = d THEN sold'[e] = sold[e] + 1 ELSE sold'[e] = sold[e]
    BY <1>0, <2>1 DEF TypeOK
  <2>3. EarnedWasSold'
    <3>1. \A e \in Days : 1..sold[e] \subseteq 1..sold'[e]
      BY <1>0, <2>1, <2>2 DEF TypeOK
    <3> QED
      BY <2>1, <3>1 DEF CommissionInv, EarnedWasSold
  <2>4. TotalsWereSold'
    <3>1. \A h \in Handlers : Recomputing(h) => task[h].day \in Days
      BY <1>0, TaskKinds DEF Recomputing, TypeOK
    <3>2. \A e \in Days : 1..sold[e] \subseteq 1..sold'[e]
      BY <1>0, <2>1, <2>2 DEF TypeOK
    <3> QED
      BY <2>1, <3>1, <3>2 DEF CommissionInv, TotalsWereSold, Recomputing
  <2>5. SettledIsCurrent'
    <3>1. \A h \in Handlers : Recomputing(h) => task[h].day \in Days
      BY <1>0, TaskKinds DEF Recomputing, TypeOK
    <3> QED
      BY <2>1, <2>2, <3>1 DEF CommissionInv, SettledIsCurrent, Recomputing
  <2>6. AloneHasWritten'
    BY <2>1 DEF CommissionInv, AloneHasWritten
  <2>7. LedgerAgrees'
    BY <1>0, <2>1, <2>2 DEF CommissionInv, LedgerAgrees, TypeOK
  <2> QED
    BY <2>3, <2>4, <2>5, <2>6, <2>7 DEF CommissionInv
<1>2. ASSUME NEW h \in Handlers, Fail(h)
      PROVE  CommissionInv'
  <2>1. /\ task' = [task EXCEPT ![h] = Idle] /\ alone' = alone \ {h} /\ settled' \subseteq settled
        /\ UNCHANGED <<sold, row, earned, ledger, reopened>>
    BY <1>2 DEF Fail, Finish, books
  <2> QED
    BY <1>0, <2>1, CommissionKept
<1>3. ASSUME UNCHANGED <<books, task, alone, settled, reopened>>
      PROVE  CommissionInv'
  BY <1>3 DEF books, CommissionInv, EarnedWasSold, TotalsWereSold, SettledIsCurrent,
              AloneHasWritten, LedgerAgrees, Recomputing
<1>4. CASE Charge \/ PayDues \/ UNCHANGED vars
  <2>1. UNCHANGED <<books, task, alone, settled, reopened>>
    BY <1>4 DEF Charge, PayDues, vars, history
  <2> QED
    BY <1>3, <2>1
<1> QED
  BY <1>1, <1>2, <1>4, CommissionRecompute, CommissionPayout DEF Next

(* What the nightly reconciliation expects holds for a settled day.        *)
THEOREM SettledAgree == Spec => []SettledDayAgrees
<1>1. Init => CommissionInv
  <2>1. ASSUME Init
        PROVE  CommissionInv
    <3>1. \A h \in Handlers : task[h].kind = "idle"
      BY <2>1 DEF Init, Idle
    <3>2. EarnedWasSold
      BY <2>1 DEF Init, EarnedWasSold
    <3>3. alone = {} /\ settled = {}
      BY <2>1 DEF Init
    <3> QED
      BY <3>1, <3>2, <3>3
         DEF CommissionInv, TotalsWereSold, SettledIsCurrent, AloneHasWritten, LedgerAgrees, Recomputing
  <2> QED
    BY <2>1
<1>2. Frame /\ CommissionInv => SettledDayAgrees
  BY DEF Frame, TypeOK, CommissionInv, LedgerAgrees, EarnedWasSold, SettledDayAgrees
<1> QED
  BY FrameInit, FrameInductive, CommissionInductive, <1>1, <1>2, PTL DEF Spec

(* With slabs in which more sales never earn less, which the code does not *)
(* demand, the amount paid never exceeds the ledger of a settled day (what *)
(* the comment of the reconciliation job says of every row).               *)
SlabsRise == \A m, n \in 0..MaxSold : m <= n => Commission[m] <= Commission[n]
PaidWithinLedger == \A d \in settled : row[d] \in Refs => earned[d] <= ledger[d]

THEOREM PaidWithinLedgerIfSlabsRise ==
  ASSUME SlabsRise
  PROVE  Spec => []PaidWithinLedger
<1>1. TypeOK /\ SettledDayAgrees => PaidWithinLedger
  <2>1. SUFFICES ASSUME TypeOK, SettledDayAgrees, NEW d \in settled, row[d] \in Refs
                 PROVE  earned[d] <= ledger[d]
    BY DEF PaidWithinLedger
  <2>2. d \in Days /\ sold[d] \in 0..MaxSold
    BY <2>1 DEF TypeOK
  <2>3. PICK n \in 1..sold[d] : earned[d] = Commission[n]
    BY <2>1, <2>2, RefsAreNew DEF SettledDayAgrees
  <2>4. Commission[n] <= Commission[sold[d]]
    BY <2>2, <2>3, PayrollNumbers DEF SlabsRise
  <2> QED
    BY <2>1, <2>3, <2>4 DEF SettledDayAgrees
<1> QED
  BY <1>1, SettledAgree, TypeCorrect, PTL
-----------------------------------------------------------------------------
(* Payouts: while none of them overlaps another handler, a slip that       *)
(* stands carries what the rows paid with its reference earned, and a      *)
(* payout under way what is unpaid.                                        *)

Part(days, e) == Total([d \in Days |-> IF d \in days THEN e[d] ELSE 0])
Paid == {d \in Days : row[d] \in Refs}

SlipsMatchRows ==
    \A s \in Standing :
        /\ \A u \in Standing : s = u
        /\ slip[s].commission = EarnedOn(PaidWith(slip[s].ref))

PayoutsAreCurrent ==
    \A h \in alone :
        /\ task[h].kind = "salary" => Standing = {}
        /\ task[h].kind \in {"salary", "commission"} => task[h].commission = EarnedOn(Unpaid)

PayoutInv == ~mixed => paidOut = EarnedOn(Paid) /\ SlipsMatchRows /\ PayoutsAreCurrent

LEMMA PartType ==
  ASSUME NEW D, NEW e \in [Days -> Nat]
  PROVE  Part(D, e) \in Nat
<1>1. [d \in Days |-> IF d \in D THEN e[d] ELSE 0] \in [Days -> Nat]
  OBVIOUS
<1> QED
  BY <1>1, PayrollSets, TotalType DEF Part

LEMMA PartUnion ==
  ASSUME NEW A, NEW B, NEW e \in [Days -> Nat], A \cap B = {}
  PROVE  Part(A \cup B, e) = Part(A, e) + Part(B, e)
<1> DEFINE f == [d \in Days |-> IF d \in A THEN e[d] ELSE 0]
           g == [d \in Days |-> IF d \in B THEN e[d] ELSE 0]
           k == [d \in Days |-> IF d \in A \cup B THEN e[d] ELSE 0]
<1>1. f \in [Days -> Nat] /\ g \in [Days -> Nat] /\ k \in [Days -> Nat]
  OBVIOUS
<1>2. \A d \in Days : (k[d] = f[d] /\ g[d] = 0) \/ (k[d] = g[d] /\ f[d] = 0)
  OBVIOUS
<1> HIDE DEF f, g, k
<1>3. Total(k) = Total(f) + Total(g)
  BY <1>1, <1>2, PayrollSets, TotalDivided
<1> QED
  BY <1>3 DEF f, g, k, Part

(* Rows that keep their amounts keep their sum.                            *)
LEMMA PartSame ==
  ASSUME NEW D, NEW e \in [Days -> Nat], NEW g \in [Days -> Nat],
         \A d \in Days : d \in D => g[d] = e[d]
  PROVE  Part(D, g) = Part(D, e)
<1>1. [d \in Days |-> IF d \in D THEN g[d] ELSE 0] = [d \in Days |-> IF d \in D THEN e[d] ELSE 0]
  OBVIOUS
<1> QED
  BY <1>1 DEF Part

(* Steps that leave rows, slips and payouts alone, and begin none.         *)
LEMMA PayoutKept ==
  ASSUME Frame, PayoutInv, NEW h \in Handlers, NEW t,
         task' = [task EXCEPT ![h] = t], t.kind \notin {"salary", "commission"},
         \A o \in alone' : o = h \/ o \in alone,
         UNCHANGED <<row, earned, slip, mixed, paidOut>>
  PROVE  PayoutInv'
<1>1. \A o \in Handlers : task'[o].kind \in {"salary", "commission"} => o # h /\ task'[o] = task[o]
  BY DEF Frame, TypeOK
<1>2. alone' \in SUBSET (alone \cup {h}) /\ alone \in SUBSET Handlers
  BY DEF Frame, TypeOK
<1>3. /\ EarnedOn(Paid)' = EarnedOn(Paid) /\ EarnedOn(Unpaid)' = EarnedOn(Unpaid)
      /\ Standing' = Standing
  BY DEF EarnedOn, Paid, Unpaid, Standing
<1>4. SlipsMatchRows => SlipsMatchRows'
  BY DEF SlipsMatchRows, Standing, EarnedOn, PaidWith
<1>5. PayoutsAreCurrent => PayoutsAreCurrent'
  BY <1>1, <1>2, <1>3 DEF PayoutsAreCurrent
<1> QED
  BY <1>3, <1>4, <1>5 DEF PayoutInv
(* A payout: all that is unpaid gets one reference, that no row has.       *)
LEMMA RowsPaid ==
  ASSUME TypeOK, NEW ref \in Refs, ref \notin UsedRefs, earned' = earned,
         row' = [d \in Days |-> IF d \in Unpaid THEN ref ELSE row[d]]
  PROVE  /\ EarnedOn(Paid)' = EarnedOn(Paid) + EarnedOn(Unpaid)
         /\ EarnedOn(PaidWith(ref))' = EarnedOn(Unpaid)
         /\ \A o \in Refs : o # ref => EarnedOn(PaidWith(o))' = EarnedOn(PaidWith(o))
<1>1. Paid' = Paid \cup Unpaid /\ Paid \cap Unpaid = {}
  BY RefsAreNew DEF TypeOK, Paid, Unpaid
<1>2. \A d \in Days : row[d] # ref
  BY DEF UsedRefs
<1>3. PaidWith(ref)' = Unpaid
  BY <1>2 DEF PaidWith, Unpaid
<1>4. ASSUME NEW o \in Refs, o # ref
      PROVE  PaidWith(o)' = PaidWith(o)
  BY <1>4, RefsAreNew DEF PaidWith, Unpaid
<1>5. earned \in [Days -> Nat]
  BY DEF TypeOK
<1>6. Part(Paid \cup Unpaid, earned) = Part(Paid, earned) + Part(Unpaid, earned)
  BY <1>1, <1>5, PartUnion
<1> QED
  BY <1>1, <1>3, <1>4, <1>6 DEF EarnedOn, Part

(* A cancellation: the rows paid with a reference are unpaid again.        *)
LEMMA RowsReopened ==
  ASSUME TypeOK, NEW ref \in Refs, earned' = earned,
         row' = [d \in Days |-> IF d \in PaidWith(ref) THEN "unpaid" ELSE row[d]]
  PROVE  EarnedOn(Paid) = EarnedOn(Paid)' + EarnedOn(PaidWith(ref))
<1>1. Paid = Paid' \cup PaidWith(ref) /\ Paid' \cap PaidWith(ref) = {}
  BY RefsAreNew DEF TypeOK, Paid, PaidWith
<1>2. earned \in [Days -> Nat]
  BY DEF TypeOK
<1>3. PICK P : P = Paid'
  OBVIOUS
<1>4. Part(P \cup PaidWith(ref), earned) = Part(P, earned) + Part(PaidWith(ref), earned)
  BY <1>1, <1>2, <1>3, PartUnion
<1>5. EarnedOn(Paid)' = Part(P, earned)
  BY <1>3 DEF EarnedOn, Part
<1> QED
  BY <1>1, <1>3, <1>4, <1>5 DEF EarnedOn, Part

LEMMA PayoutBegins ==
  ASSUME Frame, PayoutInv, NEW h \in Handlers, NEW t, Start(h, t),
         t.kind = "salary" => Standing = {},
         t.kind \in {"salary", "commission"} => t.commission = EarnedOn(Unpaid),
         UNCHANGED <<row, earned, slip, mixed, paidOut>>
  PROVE  PayoutInv'
<1>1. task'[h] = t /\ \A o \in alone' : o = h
  BY DEF Start, Frame, TypeOK
<1>2. /\ EarnedOn(Paid)' = EarnedOn(Paid) /\ EarnedOn(Unpaid)' = EarnedOn(Unpaid)
      /\ Standing' = Standing
  BY DEF EarnedOn, Paid, Unpaid, Standing
<1>3. SlipsMatchRows => SlipsMatchRows'
  BY DEF SlipsMatchRows, Standing, EarnedOn, PaidWith
<1>4. PayoutsAreCurrent'
  BY <1>1, <1>2 DEF PayoutsAreCurrent
<1> QED
  BY <1>2, <1>3, <1>4 DEF PayoutInv

LEMMA PayoutSalary ==
  ASSUME Frame, Frame', PayoutInv, NEW h \in Handlers, NEW s \in Slips, NEW ref \in Refs,
         CommitSalary(h, s, ref)
  PROVE  PayoutInv'
<1>0. TypeOK /\ TypeOK' /\ task[h] # Idle
  BY DEF Frame, CommitSalary, Idle
<1>1. SUFFICES ASSUME ~mixed'
               PROVE  paidOut' = EarnedOn(Paid)' /\ SlipsMatchRows' /\ PayoutsAreCurrent'
  BY DEF PayoutInv
<1>2. ~mixed /\ h \in alone /\ ref \notin UsedRefs
  BY <1>1 DEF CommitSalary
<1>3. alone' = {}
  BY <1>0, AloneAtWork DEF CommitSalary, Finish, Frame
<1>4. PICK k \in Nat, n \in Nat :
        /\ task[h].kind = "salary" /\ k = task[h].commission
        /\ slip[s] = NoSlip
        /\ slip' = [slip EXCEPT ![s] = [commission |-> k, deducted |-> n, ref |-> ref]]
        /\ paidOut' = IF mixed' THEN 0 ELSE paidOut + k
        /\ row' = [d \in Days |-> IF d \in Unpaid THEN ref ELSE row[d]]
        /\ earned' = earned
  BY <1>0, TaskKinds DEF CommitSalary, HandOut, TypeOK
<1>5. k = EarnedOn(Unpaid) /\ Standing = {} /\ paidOut = EarnedOn(Paid)
  BY <1>2, <1>4 DEF PayoutInv, PayoutsAreCurrent
<1>6. /\ EarnedOn(Paid)' = EarnedOn(Paid) + EarnedOn(Unpaid)
      /\ EarnedOn(PaidWith(ref))' = EarnedOn(Unpaid)
  BY <1>0, <1>2, <1>4, RowsPaid
<1>7. SlipsMatchRows'
  <2>1. \A u \in Slips : u # s => slip'[u] = slip[u]
    BY <1>4
  <2>2. slip'[s] = [commission |-> k, deducted |-> n, ref |-> ref]
    BY <1>0, <1>4 DEF TypeOK
  <2>3. Standing' = {s}
    BY <1>5, <2>1, <2>2 DEF Standing
  <2>4. slip'[s].ref = ref /\ slip'[s].commission = k
    BY <2>2
  <2> QED
    BY <1>5, <1>6, <2>3, <2>4 DEF SlipsMatchRows
<1> QED
  BY <1>1, <1>3, <1>4, <1>5, <1>6, <1>7 DEF PayoutsAreCurrent

LEMMA PayoutCommission ==
  ASSUME Frame, Frame', PayoutInv, NEW h \in Handlers, NEW ref \in Refs,
         CommitPayCommission(h, ref)
  PROVE  PayoutInv'
<1>0. TypeOK /\ task[h] # Idle
  BY DEF Frame, CommitPayCommission, Idle
<1>1. SUFFICES ASSUME ~mixed'
               PROVE  paidOut' = EarnedOn(Paid)' /\ SlipsMatchRows' /\ PayoutsAreCurrent'
  BY DEF PayoutInv
<1>2. ~mixed /\ h \in alone /\ ref \notin UsedRefs
  BY <1>1 DEF CommitPayCommission
<1>3. alone' = {}
  BY <1>0, AloneAtWork DEF CommitPayCommission, Finish, Frame
<1>4. /\ paidOut' = paidOut + EarnedOn(Unpaid) /\ paidOut = EarnedOn(Paid) /\ SlipsMatchRows
      /\ row' = [d \in Days |-> IF d \in Unpaid THEN ref ELSE row[d]]
      /\ earned' = earned /\ slip' = slip
  BY <1>1, <1>2 DEF CommitPayCommission, HandOut, PayoutInv, PayoutsAreCurrent
<1>5. /\ EarnedOn(Paid)' = EarnedOn(Paid) + EarnedOn(Unpaid)
      /\ \A o \in Refs : o # ref => EarnedOn(PaidWith(o))' = EarnedOn(PaidWith(o))
  BY <1>0, <1>2, <1>4, RowsPaid
<1>6. SlipsMatchRows'
  <2>1. Standing' = Standing
    BY <1>4 DEF Standing
  <2>2. \A u \in Standing : slip[u].ref \in Refs /\ slip[u].ref # ref
    BY <1>2 DEF Standing, UsedRefs
  <2>3. ASSUME NEW u \in Standing
        PROVE  EarnedOn(PaidWith(slip[u].ref))' = EarnedOn(PaidWith(slip[u].ref))
    BY <1>4, <1>5, <2>2 DEF EarnedOn, PaidWith
  <2> QED
    BY <1>4, <2>1, <2>3 DEF SlipsMatchRows
<1> QED
  BY <1>3, <1>4, <1>5, <1>6 DEF PayoutsAreCurrent

LEMMA PayoutCancelled ==
  ASSUME Frame, Frame', CancelHolds, PayoutInv, NEW h \in Handlers, CommitCancel(h)
  PROVE  PayoutInv'
<1>0. TypeOK /\ task[h] # Idle
  BY DEF Frame, CommitCancel, Idle
<1>1. SUFFICES ASSUME ~mixed'
               PROVE  paidOut' = EarnedOn(Paid)' /\ SlipsMatchRows' /\ PayoutsAreCurrent'
  BY DEF PayoutInv
<1>2. ~mixed /\ h \in alone
  BY <1>1 DEF CommitCancel
<1>3. alone' = {}
  BY <1>0, AloneAtWork DEF CommitCancel, Finish, Frame
<1>4. PICK s \in Slips, p \in Payslip :
        /\ p.ref \in Refs /\ p.commission \in Nat
        /\ slip[s] = p
        /\ slip' = [slip EXCEPT ![s] = Deleted]
        /\ row' = [d \in Days |-> IF d \in PaidWith(p.ref) THEN "unpaid" ELSE row[d]]
        /\ paidOut' = IF mixed' THEN 0 ELSE paidOut + (-p.commission)
        /\ earned' = earned
  BY <1>0, <1>2, TaskKinds DEF CommitCancel, CancelHolds, HandOut, TypeOK
<1>5. s \in Standing /\ paidOut = EarnedOn(Paid) /\ SlipsMatchRows
  BY <1>2, <1>4 DEF PayoutInv, Standing
<1>6. \A u \in Standing : u = s
  BY <1>5 DEF SlipsMatchRows
<1>7. p.commission = EarnedOn(PaidWith(p.ref))
  BY <1>4, <1>5 DEF SlipsMatchRows
<1>8. EarnedOn(Paid) = EarnedOn(Paid)' + EarnedOn(PaidWith(p.ref))
  BY <1>0, <1>4, RowsReopened
<1>9. paidOut' = EarnedOn(Paid)'
  <2>1. EarnedOn(Paid) \in Nat /\ EarnedOn(Paid)' \in Nat /\ EarnedOn(PaidWith(p.ref)) \in Nat
    <3>1. PICK P : P = Paid'
      OBVIOUS
    <3>2. Part(P, earned') \in Nat
      <4>1. earned' \in [Days -> Nat]
        BY DEF Frame, TypeOK
      <4> QED
        BY <4>1, PartType
    <3> QED
      BY <1>0, <3>1, <3>2, EarnedOnType DEF EarnedOn, Part
  <2> QED
    BY <1>1, <1>4, <1>5, <1>7, <1>8, <2>1
<1>10. Standing' = {}
  <2>1. slip'[s].ref \notin Refs
    BY <1>0, <1>4, RefsAreNew DEF TypeOK, Deleted
  <2>2. \A u \in Slips : u # s => slip'[u] = slip[u]
    BY <1>4
  <2> QED
    BY <1>6, <2>1, <2>2 DEF Standing
<1> QED
  BY <1>3, <1>9, <1>10 DEF SlipsMatchRows, PayoutsAreCurrent

(* A recomputation writes an unpaid row only, while no payout is alone.    *)
LEMMA PayoutWrite ==
  ASSUME Frame, Frame', PayoutInv, NEW h \in Handlers, WriteRow(h)
  PROVE  PayoutInv'
<1>0. TypeOK /\ TypeOK'
  BY DEF Frame
<1>1. /\ task'[h].kind = "written" /\ alone' = alone
      /\ UNCHANGED <<slip, mixed, paidOut>>
  BY <1>0 DEF WriteRow, TypeOK, history
<1>2. alone \subseteq {h}
  BY <1>0, AloneAtWork DEF Frame, WriteRow, Idle
<1>3. \A d \in Days : \/ row'[d] = row[d] /\ earned'[d] = earned[d]
                      \/ row[d] \notin Refs /\ row'[d] \notin Refs
  BY <1>0, RefsAreNew DEF WriteRow, Writable, TypeOK
<1>4. ASSUME NEW D \in SUBSET Days, \A d \in D : row[d] \in Refs
      PROVE  Part(D, earned)' = Part(D, earned)
  <2>1. earned \in [Days -> Nat] /\ earned' \in [Days -> Nat]
    BY <1>0 DEF TypeOK
  <2>2. PICK g \in [Days -> Nat] : g = earned'
    BY <2>1
  <2>3. \A d \in Days : d \in D => g[d] = earned[d]
    BY <1>3, <1>4, <2>2
  <2>4. Part(D, g) = Part(D, earned)
    BY <2>1, <2>2, <2>3, PartSame
  <2> QED
    BY <2>2, <2>4 DEF Part
<1>5. Paid' = Paid /\ \A r \in Refs : PaidWith(r)' = PaidWith(r)
  BY <1>3 DEF Paid, PaidWith
<1>6. EarnedOn(Paid)' = EarnedOn(Paid)
  <2>1. Part(Paid, earned)' = Part(Paid, earned)
    <3>1. PICK P : P = Paid
      OBVIOUS
    <3>2. P \in SUBSET Days /\ \A d \in P : row[d] \in Refs
      BY <3>1 DEF Paid
    <3>3. Part(P, earned)' = Part(P, earned)
      BY <1>4, <3>2
    <3> QED
      BY <1>5, <3>1, <3>3 DEF Part
  <2> QED
    BY <2>1 DEF EarnedOn, Part
<1>7. ASSUME NEW r \in Refs
      PROVE  EarnedOn(PaidWith(r))' = EarnedOn(PaidWith(r))
  <2>1. PICK P : P = PaidWith(r)
    OBVIOUS
  <2>2. P \in SUBSET Days /\ \A d \in P : row[d] \in Refs
    BY <2>1 DEF PaidWith
  <2>3. Part(P, earned)' = Part(P, earned)
    BY <1>4, <2>2
  <2> QED
    BY <1>5, <2>1, <2>3 DEF EarnedOn, Part
<1>8. SlipsMatchRows => SlipsMatchRows'
  <2>1. Standing' = Standing /\ \A u \in Standing : slip[u].ref \in Refs
    BY <1>1 DEF Standing
  <2>2. ASSUME NEW u \in Standing
        PROVE  EarnedOn(PaidWith(slip[u].ref))' = EarnedOn(PaidWith(slip[u].ref))
    BY <1>1, <1>7, <2>1 DEF EarnedOn, PaidWith
  <2> QED
    BY <1>1, <2>1, <2>2 DEF SlipsMatchRows
<1>9. PayoutsAreCurrent'
  BY <1>1, <1>2 DEF PayoutsAreCurrent
<1> QED
  BY <1>1, <1>6, <1>8, <1>9 DEF PayoutInv

LEMMA PayoutInductive ==
  ASSUME Frame, Frame', CancelHolds, PayoutInv, [Next]_vars
  PROVE  PayoutInv'
<1>0. TypeOK /\ Idle.kind = "idle"
  BY DEF Frame, Idle
<1>1. ASSUME NEW h \in Handlers, Recompute(h)
      PROVE  PayoutInv'
  <2>1. ASSUME NEW d \in Days, BeginUpdate(h, d)
        PROVE  PayoutInv'
    BY <2>1, PayoutBegins DEF BeginUpdate, books, history
  <2>2. CASE WriteRow(h)
    BY <2>2, PayoutWrite
  <2>3. ASSUME ReadLedger(h) \/ AppendDelta(h)
        PROVE  PayoutInv'
    <3>1. PICK t : /\ task' = [task EXCEPT ![h] = t] /\ t.kind \in {"append", "idle"}
                   /\ \A o \in alone' : o \in alone
                   /\ UNCHANGED <<row, earned, slip, mixed, paidOut>>
      BY <1>0, <2>3 DEF ReadLedger, AppendDelta, Finish, books, history
    <3> QED
      BY <3>1, PayoutKept
  <2> QED
    BY <1>1, <2>1, <2>2, <2>3 DEF Recompute
<1>2. ASSUME NEW h \in Handlers, Payout(h)
      PROVE  PayoutInv'
  <2>1. ASSUME NEW deduct \in BOOLEAN, BeginSalary(h, deduct)
        PROVE  PayoutInv'
    BY <2>1, PayoutBegins DEF BeginSalary, books, history
  <2>2. CASE BeginPayCommission(h)
    BY <2>2, PayoutBegins DEF BeginPayCommission, books, history
  <2>3. ASSUME NEW s \in Slips, BeginCancel(h, s)
        PROVE  PayoutInv'
    BY <2>3, PayoutBegins DEF BeginCancel, books, history
  <2> QED
    BY <1>2, <2>1, <2>2, <2>3, PayoutSalary, PayoutCommission, PayoutCancelled DEF Payout
<1>3. ASSUME NEW h \in Handlers, Fail(h)
      PROVE  PayoutInv'
  <2>1. /\ task' = [task EXCEPT ![h] = Idle] /\ alone' = alone \ {h}
        /\ UNCHANGED <<row, earned, slip, mixed, paidOut>>
    BY <1>3 DEF Fail, Finish, books
  <2> QED
    BY <1>0, <2>1, PayoutKept
<1>4. ASSUME UNCHANGED <<row, earned, slip, task, alone>>,
             ~mixed' => ~mixed /\ paidOut' = paidOut
      PROVE  PayoutInv'
  <2>1. /\ EarnedOn(Paid)' = EarnedOn(Paid) /\ EarnedOn(Unpaid)' = EarnedOn(Unpaid)
        /\ Standing' = Standing
    BY <1>4 DEF EarnedOn, Paid, Unpaid, Standing
  <2>2. SlipsMatchRows => SlipsMatchRows'
    BY <1>4 DEF SlipsMatchRows, Standing, EarnedOn, PaidWith
  <2>3. PayoutsAreCurrent => PayoutsAreCurrent'
    BY <1>4, <2>1 DEF PayoutsAreCurrent
  <2> QED
    BY <1>4, <2>1, <2>2, <2>3 DEF PayoutInv
<1>5. ASSUME NEW d \in Days, Sell(d)
      PROVE  PayoutInv'
  BY <1>4, <1>5 DEF Sell
<1>6. CASE Charge
  BY <1>4, <1>6 DEF Charge, books
<1>7. CASE PayDues
  <2>1. paidOut \in Int
    BY <1>0 DEF TypeOK
  <2> QED
    <3>1. UNCHANGED <<row, earned, slip, task, alone>>
      BY <1>7 DEF PayDues, books
    <3>2. ~mixed' => ~mixed
      BY <1>7, Zenon DEF PayDues
    <3>3. ~mixed' => paidOut' = paidOut + 0
      BY <1>7, Zenon DEF PayDues, HandOut
    <3> QED
      BY <1>4, <2>1, <3>1, <3>2, <3>3
<1>8. CASE UNCHANGED vars
  BY <1>4, <1>8 DEF vars, books, history
<1> QED
  BY <1>1, <1>2, <1>3, <1>5, <1>6, <1>7, <1>8 DEF Next

(* Through payments and cancellations that do not overlap, the commission  *)
(* handed out is that of the rows marked paid.                             *)
THEOREM RowsArePaidOnce == Spec => []PayoutsMatchRows
<1>1. Init => PayoutInv /\ DuesInv
  <2>1. ASSUME Init
        PROVE  PayoutInv
    <3>1. Standing = {} /\ alone = {} /\ paidOut = 0
      BY <2>1, RefsAreNew DEF Init, Standing, NoSlip
    <3>2. \A d \in Days : d \notin Paid
      BY <2>1, RefsAreNew DEF Init, Paid
    <3>3. EarnedOn(Paid) = 0
      <4>1. PICK f : f = [d \in Days |-> IF d \in Paid THEN earned[d] ELSE 0]
        OBVIOUS
      <4>2. f \in [Days -> Nat] /\ \A d \in Days : f[d] = 0
        BY <3>2, <4>1
      <4>3. Total(f) = 0
        BY <4>2, TotalZero
      <4> QED
        BY <4>1, <4>3 DEF EarnedOn
    <3> QED
      BY <3>1, <3>3 DEF PayoutInv, SlipsMatchRows, PayoutsAreCurrent
  <2> QED
    BY <2>1, DuesInit
<1>2. PayoutInv => PayoutsMatchRows
  BY DEF PayoutInv, PayoutsMatchRows, SlipsMatchRows, Paid
<1>3. DuesInv => CancelHolds
  BY DEF DuesInv
<1> QED
  BY FrameInit, FrameInductive, DuesInductive, PayoutInductive, <1>1, <1>2, <1>3, PTL DEF Spec
==============================================================================
