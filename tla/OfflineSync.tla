---------------------------- MODULE OfflineSync ----------------------------
(***************************************************************************)
(* The SR app's offline queue and its synchronisation with the server:     *)
(* offlineQueue.js (an IndexedDB store), syncService.js (syncAll,          *)
(* retryFailed, initAutoSync), and the idempotency check with which        *)
(* createSale meets the requests of the queue.                             *)
(*                                                                         *)
(* JavaScript runs one piece at a time, but every await lets others run:   *)
(* each access to the store and each request is a step.  Several calls of  *)
(* syncAll may be under way, since isSyncing is tested before the queue is *)
(* read and set after it, and initAutoSync installs its listener twice.    *)
(***************************************************************************)
EXTENDS Integers, FiniteSets

CONSTANTS
    Ids,            \* autoIncrement keys of the store
    Passes,         \* calls of syncAll that may be under way together
    Requests,       \* POST requests that may be under way together
    NoPass,         \* whose answer nobody waits for any more
    AutoTries,      \* 3 in the code: then a record is marked failed
    MaxManualRetry, \* 5 in the code
    Kinds,          \* kinds of entries that are made without network
    MaxEntries,     \* bound: entries the forms put in the store
    MaxRows,        \* bound: rows the server inserts for one record
    MaxStarts       \* bound: calls of initAutoSync

ASSUME IdsType == Ids \subseteq Nat
ASSUME RequestsFinite == IsFiniteSet(Requests)
ASSUME BoundTypes ==
    /\ NoPass \notin Passes
    /\ AutoTries \in Nat /\ MaxManualRetry \in Nat /\ AutoTries <= MaxManualRetry /\ MaxEntries \in Nat
    /\ MaxRows \in Nat /\ MaxStarts \in Nat

VARIABLES
    queue,          \* the store: kind, status and retry_count of each record
    isSyncing,
    pc,             \* where each pass of syncAll is
    todo,           \* what is left of its toSync
    snap,           \* the retry_count of each record when the pass read it
    repend,         \* records that a start-up or a manual retry will set to pending
    broken,         \* an exception has left syncAll since the app was loaded
    req,            \* requests on their way, at the server, or answered
    rows,           \* rows the server has inserted for each record
    starts          \* calls of initAutoSync since the installation

passes == <<isSyncing, pc, todo, snap, broken>>
vars == <<queue, passes, repend, req, rows, starts>>

-----------------------------------------------------------------------------

Stored == {"pending", "syncing", "failed"}
Status == Stored \cup {"unused", "gone", "cleared"}

(* A SALE carries an idempotency key; a COLLECTION, like every other type, *)
(* does not.  A ghost is a record that updateQueueItem creates.            *)
Forms == {"sale", "collection"}
ASSUME KindsType == Kinds \subseteq Forms
Record == [kind : Forms \cup {"none", "ghost"}, status : Status, retries : Nat]

Rec(kind, status, retries) == [kind |-> kind, status |-> status, retries |-> retries]
Unused == Rec("none", "unused", 0)

Idle == [state |-> "idle"]
Asked(i, p, s) == [state |-> s, id |-> i, pass |-> p]
Request == {Idle} \cup
    [state : {"sent", "checked", "accepted", "refused"}, id : Ids, pass : Passes \cup {NoPass}]

Oldest(S) == CHOOSE i \in S : \A j \in S : i <= j
Fresh == {i \in Ids : queue[i].status = "unused"}
Cur(p) == Oldest(todo[p])

(* updateQueueItem: get, then put what was found with the new fields.  When*)
(* the record is gone, put creates one that has the new fields only.  The  *)
(* faulty one puts back the record the pass has in memory.                 *)
PutBack(i, status, retries) == [queue EXCEPT ![i] = Rec(queue[i].kind, status, retries)]
Update(i, status, retries) ==
    IF queue[i].status \in Stored
    THEN [queue EXCEPT ![i] = Rec(queue[i].kind, status, retries)]
    ELSE IF Fresh = {} THEN queue
    ELSE [queue EXCEPT ![Oldest(Fresh)] = Rec("ghost", status, retries)]

SetStatus(i, status) ==
    Update(i, status, IF queue[i].status \in Stored THEN queue[i].retries ELSE 0)

(* removeQueueItem.  The faulty one marks the record instead.              *)
MarkedSynced == "synced"
Removed == "gone"
Remove(i) ==
    IF queue[i].status \in Stored
    THEN [queue EXCEPT ![i] = Rec(queue[i].kind, Removed, queue[i].retries)]
    ELSE queue

(* The retry_count after a failure, and the status it gives.  Counts from  *)
(* MaxManualRetry on are one value: the code compares them with the two    *)
(* limits only.  The faulty count stands still.                            *)
SameCount(n) == n
NextCount(n) == IF n < MaxManualRetry THEN n + 1 ELSE n
StatusAfter(n) == IF n >= AutoTries THEN "failed" ELSE "pending"

(* Whether axios resolves with this answer.  The faulty one always does.   *)
AnyAnswer(s) == s \in {"accepted", "refused"}
Resolves(s) == s = "accepted"

(* isSyncing at the end of a pass.  The faulty one is not reset.           *)
KeptFlag == isSyncing
FlagAfterPass == FALSE

(* createSale: SELECT ... WHERE idempotency_key.  The faulty one finds     *)
(* nothing.                                                                *)
NeverKnown(i) == FALSE
Known(i) == queue[i].kind = "sale" /\ rows[i] > 0

(* A request in state s for which pass p waits, if it is a pass: an answer *)
(* that nobody waits for is lost.                                          *)
InFlight(i, p, s) ==
    IF p = NoPass /\ s \in {"accepted", "refused"} THEN Idle ELSE Asked(i, p, s)

Orphaned(P) ==
    [r \in Requests |->
        IF req[r].state # "idle" /\ req[r].pass \in P
        THEN InFlight(req[r].id, NoPass, req[r].state) ELSE req[r]]

Init ==
    /\ queue = [i \in Ids |-> Unused]
    /\ isSyncing = FALSE
    /\ pc = [p \in Passes |-> "idle"]
    /\ todo = [p \in Passes |-> {}]
    /\ snap = [p \in Passes |-> [i \in Ids |-> 0]]
    /\ repend = {}
    /\ broken = FALSE
    /\ req = [r \in Requests |-> Idle]
    /\ rows = [i \in Ids |-> 0]
    /\ starts = 0

-----------------------------------------------------------------------------
(* The forms: without network the entry goes to the store.                 *)
Enqueue(kind) ==
    /\ Fresh # {}
    /\ Cardinality({i \in Ids : queue[i].kind \in Forms}) < MaxEntries
    /\ queue' = [queue EXCEPT ![Oldest(Fresh)] = Rec(kind, "pending", 0)]
    /\ UNCHANGED <<passes, repend, req, rows, starts>>

-----------------------------------------------------------------------------
(* syncAll and syncItem                                                    *)

(* Called 3 s after a start, 1.5 s after an online event, by retryFailed.  *)
StartPass(p) ==
    /\ pc[p] = "idle"
    /\ ~isSyncing
    /\ pc' = [pc EXCEPT ![p] = "reading"]
    /\ UNCHANGED <<queue, isSyncing, todo, snap, broken, repend, req, rows, starts>>

ReadQueue(p) ==
    LET toSync == {i \in Ids : queue[i].status \in {"pending", "syncing"}} IN
    /\ pc[p] = "reading"
    /\ pc' = [pc EXCEPT ![p] = IF toSync = {} THEN "idle" ELSE "next"]
    /\ todo' = [todo EXCEPT ![p] = toSync]
    /\ snap' = [snap EXCEPT ![p] = [i \in Ids |-> IF i \in toSync THEN queue[i].retries ELSE 0]]
    /\ isSyncing' = (isSyncing \/ toSync # {})
    /\ UNCHANGED <<queue, broken, repend, req, rows, starts>>

(* status: 'syncing', then the POST of a record that a form entered.  A    *)
(* ghost has no type: no branch of syncItem applies and it is removed.     *)
(* Without a request slot r, and after a storage error, the attempt fails. *)
MarkSyncing(p) ==
    /\ pc[p] = "next"
    /\ todo[p] # {}
    /\ queue[Cur(p)].kind \notin Forms
    /\ queue' = SetStatus(Cur(p), "syncing")
    /\ pc' = [pc EXCEPT ![p] = "remove"]
    /\ UNCHANGED <<isSyncing, todo, snap, broken, repend, req, rows, starts>>

Post(p, r) ==
    /\ pc[p] = "next"
    /\ todo[p] # {}
    /\ queue[Cur(p)].kind \in Forms
    /\ req[r] = Idle
    /\ queue' = SetStatus(Cur(p), "syncing")
    /\ req' = [req EXCEPT ![r] = Asked(Cur(p), p, "sent")]
    /\ pc' = [pc EXCEPT ![p] = "wait"]
    /\ UNCHANGED <<isSyncing, todo, snap, broken, repend, rows, starts>>

(* A storage error: the record stays as it is, the attempt counts.         *)
MarkFails(p) ==
    /\ pc[p] = "next"
    /\ todo[p] # {}
    /\ pc' = [pc EXCEPT ![p] = "fail"]
    /\ UNCHANGED <<queue, isSyncing, todo, snap, broken, repend, req, rows, starts>>

Answer(p, r) ==
    /\ req[r].state \in {"accepted", "refused"}
    /\ req[r].pass = p
    /\ pc[p] = "wait"
    /\ pc' = [pc EXCEPT ![p] = IF Resolves(req[r].state) THEN "remove" ELSE "fail"]
    /\ req' = [req EXCEPT ![r] = Idle]
    /\ UNCHANGED <<queue, isSyncing, todo, snap, broken, repend, rows, starts>>

(* 12 s without an answer, or the network is lost.  The server may still   *)
(* receive the request, or have carried it out.                            *)
Timeout(p) ==
    /\ pc[p] = "wait"
    /\ pc' = [pc EXCEPT ![p] = "fail"]
    /\ req' = Orphaned({p})
    /\ UNCHANGED <<queue, isSyncing, todo, snap, broken, repend, rows, starts>>

(* A storage error here, too, counts as a failed attempt.                  *)
RemoveItem(p) ==
    /\ pc[p] = "remove"
    /\ \/ /\ queue' = Remove(Cur(p))
          /\ pc' = [pc EXCEPT ![p] = "next"]
          /\ todo' = [todo EXCEPT ![p] = @ \ {Cur(p)}]
          /\ snap' = [snap EXCEPT ![p][Cur(p)] = 0]
       \/ /\ pc' = [pc EXCEPT ![p] = "fail"]
          /\ UNCHANGED <<queue, todo, snap>>
    /\ UNCHANGED <<isSyncing, broken, repend, req, rows, starts>>

(* The catch of syncItem counts from the retry_count the pass has read.    *)
RecordFailure(p) ==
    LET n == NextCount(snap[p][Cur(p)]) IN
    /\ pc[p] = "fail"
    /\ queue' = Update(Cur(p), StatusAfter(n), n)
    /\ pc' = [pc EXCEPT ![p] = "next"]
    /\ todo' = [todo EXCEPT ![p] = @ \ {Cur(p)}]
    /\ snap' = [snap EXCEPT ![p][Cur(p)] = 0]
    /\ UNCHANGED <<isSyncing, broken, repend, req, rows, starts>>

(* A storage error in the catch leaves syncAll: isSyncing stays set.       *)
Escape(p) ==
    /\ pc[p] = "fail"
    /\ pc' = [pc EXCEPT ![p] = "idle"]
    /\ todo' = [todo EXCEPT ![p] = {}]
    /\ snap' = [snap EXCEPT ![p] = [i \in Ids |-> 0]]
    /\ broken' = TRUE
    /\ UNCHANGED <<queue, isSyncing, repend, req, rows, starts>>

EndPass(p) ==
    /\ pc[p] = "next"
    /\ todo[p] = {}
    /\ isSyncing' = FlagAfterPass
    /\ pc' = [pc EXCEPT ![p] = "idle"]
    /\ UNCHANGED <<queue, todo, snap, broken, repend, req, rows, starts>>

-----------------------------------------------------------------------------
(* initAutoSync, at every load and whenever the worker's layout is         *)
(* mounted, and retryFailed: the records are read first and updated one by *)
(* one.                                                                    *)

Stuck(store) == {i \in Ids : store[i].status = "syncing"}

MountLayout ==
    /\ starts < MaxStarts
    /\ starts' = starts + 1
    /\ repend' = repend \cup Stuck(queue)
    /\ UNCHANGED <<queue, passes, req, rows>>

(* Which of the failed records are still in their backoff is left open.    *)
BeginRetry(due) ==
    /\ due # {}
    /\ due \subseteq {i \in Ids : queue[i].status = "failed" /\ queue[i].retries < MaxManualRetry}
    /\ repend' = repend \cup due
    /\ UNCHANGED <<queue, passes, req, rows, starts>>

SetPending(i) ==
    /\ i \in repend
    /\ queue' = SetStatus(i, "pending")
    /\ repend' = repend \ {i}
    /\ UNCHANGED <<passes, req, rows, starts>>

-----------------------------------------------------------------------------
(* The server                                                              *)

Receive(r) ==
    /\ req[r].state = "sent"
    /\ req' = [req EXCEPT ![r] =
          InFlight(req[r].id, req[r].pass, IF Known(req[r].id) THEN "accepted" ELSE "checked")]
    /\ UNCHANGED <<queue, passes, repend, rows, starts>>

Insert(r) ==
    LET i == req[r].id IN
    /\ req[r].state = "checked"
    /\ rows[i] < MaxRows
    /\ rows' = [rows EXCEPT ![i] = @ + 1]
    /\ req' = [req EXCEPT ![r] = InFlight(i, req[r].pass, "accepted")]
    /\ UNCHANGED <<queue, passes, repend, starts>>

(* A validation, a lock that is taken, a constraint or a database error.   *)
Refuse(r) ==
    /\ req[r].state = "checked"
    /\ req' = [req EXCEPT ![r] = InFlight(req[r].id, req[r].pass, "refused")]
    /\ UNCHANGED <<queue, passes, repend, rows, starts>>

(* A request that never arrives.                                           *)
Lose(r) ==
    /\ req[r].state = "sent"
    /\ req[r].pass = NoPass
    /\ req' = [req EXCEPT ![r] = Idle]
    /\ UNCHANGED <<queue, passes, repend, rows, starts>>

-----------------------------------------------------------------------------
(* The app is killed or reloaded: the store and the requests stay.  logout *)
(* deletes the store (clearAllData) and reloads.                           *)
Reload(store) ==
    /\ starts < MaxStarts
    /\ starts' = starts + 1
    /\ queue' = store
    /\ isSyncing' = FALSE
    /\ pc' = [p \in Passes |-> "idle"]
    /\ todo' = [p \in Passes |-> {}]
    /\ snap' = [p \in Passes |-> [i \in Ids |-> 0]]
    /\ broken' = FALSE
    /\ repend' = Stuck(store)
    /\ req' = Orphaned(Passes)
    /\ UNCHANGED rows

Restart == Reload(queue)

Logout ==
    Reload([i \in Ids |-> IF queue[i].status \in Stored
                          THEN Rec(queue[i].kind, "cleared", queue[i].retries) ELSE queue[i]])

-----------------------------------------------------------------------------

PassStep(p) ==
    \/ ReadQueue(p) \/ MarkSyncing(p) \/ MarkFails(p) \/ Timeout(p)
    \/ \E r \in Requests : Post(p, r) \/ Answer(p, r)
    \/ RemoveItem(p) \/ RecordFailure(p) \/ Escape(p) \/ EndPass(p)

Server == \E r \in Requests : Receive(r) \/ Insert(r) \/ Refuse(r) \/ Lose(r)

Next ==
    \/ \E kind \in Kinds : Enqueue(kind)
    \/ \E p \in Passes : StartPass(p) \/ PassStep(p)
    \/ MountLayout
    \/ \E due \in SUBSET Ids : BeginRetry(due)
    \/ \E i \in Ids : SetPending(i)
    \/ Server
    \/ Restart \/ Logout

Spec == Init /\ [][Next]_vars

(* A pass that is under way goes on: its awaits end, a request at the      *)
(* latest at its timeout.  Passes keep being started: the network returns  *)
(* or the app is opened again.                                             *)
Fairness ==
    /\ \A p \in Passes : WF_vars(PassStep(p))
    /\ WF_vars(\E p \in Passes : StartPass(p))

FairSpec == Spec /\ Fairness

-----------------------------------------------------------------------------
(* Properties                                                              *)

TypeOK ==
    /\ queue \in [Ids -> Record]
    /\ isSyncing \in BOOLEAN /\ broken \in BOOLEAN
    /\ pc \in [Passes -> {"idle", "reading", "next", "wait", "remove", "fail"}]
    /\ todo \in [Passes -> SUBSET Ids]
    /\ snap \in [Passes -> [Ids -> Nat]]
    /\ repend \subseteq Ids
    /\ req \in [Requests -> Request]
    /\ rows \in [Ids -> Nat]
    /\ starts \in Nat

(* No entry is lost: what syncItem removes from the store has been         *)
(* recorded by the server, whatever passes overlap, requests are lost and  *)
(* restarts happen in between.                                           *)
RemovedWasRecorded ==
    \A i \in Ids : queue[i].kind \in Forms /\ queue[i].status = "gone" => rows[i] > 0

(* However often a sale is sent again, over lost answers, restarts and   *)
(* manual retries, its key gives no more invoices than there were requests *)
(* inside createSale at the same time (its check is a plain SELECT): with  *)
(* one at a time, one invoice.                                             *)
CheckedFor(i) == {r \in Requests : req[r].state = "checked" /\ req[r].id = i}
SalesPerKeyBounded ==
    \A i \in Ids : queue[i].kind = "sale" =>
        rows[i] + Cardinality(CheckedFor(i)) <= Cardinality(Requests)

(* isSyncing never stays behind, unless an exception left syncAll: while it*)
(* keeps further passes from starting, some pass is at work that will      *)
(* reset it (syncAll, however its calls overlap and restarts cut in).      *)
AtWork(p) == pc[p] \in {"next", "wait", "remove", "fail"}
FlagHasHolder == isSyncing /\ ~broken => \E p \in Passes : AtWork(p)

(* The store is an outbox: an entry leaves it when the server has recorded *)
(* it, or by a logout, and never comes back, although passes write records *)
(* that others have removed.                                               *)
EntryOf(q) ==
    IF q.kind \notin Forms THEN "none"
    ELSE IF q.status \in Stored THEN "queued"
    ELSE IF q.status = "gone" THEN "delivered" ELSE "cleared"
Box == INSTANCE Outbox WITH
    entry <- [i \in Ids |-> EntryOf(queue[i])],
    recorded <- {i \in Ids : rows[i] > 0}
ImplementsOutbox == Box!Spec

(* isSyncing is always released again, unless an exception left syncAll:   *)
(* no answer, failure or overlapping pass stops the synchronisation.       *)
FlagReleased == isSyncing ~> (~isSyncing \/ broken)

(* A record that waits is delivered or marked failed, so that the SR sees  *)
(* it, although overlapping passes write back old retry counts.            *)
PendingSettles ==
    \A i \in Ids : queue[i].status \in {"pending", "syncing"} ~>
        (queue[i].status \in {"failed", "gone", "cleared"} \/ broken)
=============================================================================
