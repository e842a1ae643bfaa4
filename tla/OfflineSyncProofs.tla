------------------------- MODULE OfflineSyncProofs -------------------------
(***************************************************************************)
(* Theorems about OfflineSync, for every number of records, of passes that *)
(* overlap, of requests under way and of restarts.                         *)
(***************************************************************************)
EXTENDS OfflineSync, FiniteSetTheorems, WellFoundedInduction, TLAPS

(* A record has a kind from the moment it is used.                         *)
KindsFit == \A i \in Ids : queue[i].kind = "none" <=> queue[i].status = "unused"

(* What a pass has read exists, or has existed; it works on its oldest.    *)
TodoUsed ==
    \A p \in Passes :
        /\ \A i \in todo[p] : queue[i].kind # "none"
        /\ pc[p] \in {"wait", "remove", "fail"} => todo[p] # {}

(* Requests carry entries of the forms; a pass waits for one request, the  *)
(* one of the record it works on.                                          *)
RequestsFit ==
    \A r \in Requests : req[r] # Idle =>
        /\ queue[req[r].id].kind \in Forms
        /\ req[r].pass \in Passes =>
              /\ pc[req[r].pass] = "wait"
              /\ req[r].id = Cur(req[r].pass)
              /\ \A x \in Requests \ {r} : req[x] = Idle \/ req[x].pass # req[r].pass

(* The server has recorded what it answers to have accepted, and what a    *)
(* pass is about to remove.                                                *)
AcceptedWasRecorded ==
    \A r \in Requests : req[r].state = "accepted" => rows[req[r].id] > 0
RemovingWasRecorded ==
    \A p \in Passes : pc[p] = "remove" /\ queue[Cur(p)].kind \in Forms => rows[Cur(p)] > 0

(* Only entries of the forms have rows.                                    *)
RowsFit == \A i \in Ids : rows[i] > 0 => queue[i].kind \in Forms

Shape == TypeOK /\ KindsFit /\ TodoUsed
DeliveryInv == Shape /\ RequestsFit /\ AcceptedWasRecorded /\ RemovingWasRecorded /\ RemovedWasRecorded
KeyInv == Shape /\ RequestsFit /\ RowsFit /\ SalesPerKeyBounded

-----------------------------------------------------------------------------
(* The store                                                               *)

LEMMA OldestIn ==
  ASSUME NEW S \in SUBSET Ids, S # {}
  PROVE  Oldest(S) \in S
<1> DEFINE R == {ss \in Nat \X Nat : ss[1] < ss[2]}
<1>1. IsWellFoundedOn(R, Nat)
  BY NatLessThanWellFounded DEF OpToRel
<1>2. \A i, j \in Nat : j < i => <<j, i>> \in R
  BY Z3
<1>3. S \subseteq Nat
  BY IdsType
<1> HIDE DEF R
<1>4. PICK i \in S : \A j \in S : ~(<<j, i>> \in R)
  BY <1>1, <1>3, WFMin
<1>5. \A j \in S : i <= j
  <2> SUFFICES ASSUME NEW j \in S, ~(i <= j)
               PROVE  FALSE
    OBVIOUS
  <2>1. i \in Nat /\ j \in Nat
    BY <1>3
  <2>2. j < i
    BY <2>1
  <2>3. <<j, i>> \in R
    BY <1>2, <2>1, <2>2
  <2> QED
    BY <1>4, <2>3
<1> QED
  BY <1>5 DEF Oldest

(* How a step may change the store: kinds last, and nothing is removed.    *)
(* Only RemoveItem does more.                                              *)
Evolves(q) ==
    /\ q \in [Ids -> Record]
    /\ \A i \in Ids :
        /\ queue[i].kind # "none" => q[i].kind = queue[i].kind
        /\ q[i].kind = "none" <=> q[i].status = "unused"
        /\ q[i].kind \in Forms /\ q[i].status = "gone" => queue[i].status = "gone"

LEMMA RecFields ==
  ASSUME NEW kind \in Forms \cup {"none", "ghost"}, NEW status \in Status, NEW n \in Nat
  PROVE  /\ Rec(kind, status, n) \in Record
         /\ Rec(kind, status, n).kind = kind
         /\ Rec(kind, status, n).status = status
BY DEF Rec, Record

LEMMA QueueFields ==
  ASSUME TypeOK, NEW i \in Ids
  PROVE  /\ queue[i] \in Record
         /\ queue[i].kind \in Forms \cup {"none", "ghost"}
         /\ queue[i].status \in Status
         /\ queue[i].retries \in Nat
BY DEF TypeOK, Record

LEMMA SameEvolves ==
  ASSUME TypeOK, KindsFit
  PROVE  Evolves(queue)
BY DEF Evolves, TypeOK, KindsFit

(* One record is replaced by another of its kind, or a fresh one is used.  *)
LEMMA PutEvolves ==
  ASSUME TypeOK, KindsFit, NEW i \in Ids,
         NEW kind \in Forms \cup {"ghost"}, NEW status \in Stored \cup {"cleared"}, NEW n \in Nat,
         queue[i].kind \in {"none", kind}
  PROVE  Evolves([queue EXCEPT ![i] = Rec(kind, status, n)])
<1> DEFINE q == [queue EXCEPT ![i] = Rec(kind, status, n)]
<1>1. status \in Status \ {"unused", "gone"} /\ kind # "none"
  BY DEF Status, Stored, Forms
<1>2. Rec(kind, status, n) \in Record /\ Rec(kind, status, n).kind = kind
      /\ Rec(kind, status, n).status = status
  BY <1>1, RecFields
<1>3. q \in [Ids -> Record]
  BY <1>2 DEF TypeOK
<1>4. \A j \in Ids : q[j] = IF j = i THEN Rec(kind, status, n) ELSE queue[j]
  BY DEF TypeOK
<1> HIDE DEF q
<1>5. ASSUME NEW j \in Ids
      PROVE  /\ queue[j].kind # "none" => q[j].kind = queue[j].kind
             /\ q[j].kind = "none" <=> q[j].status = "unused"
             /\ q[j].kind \in Forms /\ q[j].status = "gone" => queue[j].status = "gone"
  <2>1. CASE j = i
    BY <1>1, <1>2, <1>4, <2>1
  <2>2. CASE j # i
    BY <1>4, <2>2 DEF KindsFit
  <2> QED
    BY <2>1, <2>2
<1>6. Evolves(q)
  BY <1>3, <1>5 DEF Evolves
<1> QED
  BY <1>6 DEF q

(* updateQueueItem.                                                        *)
LEMMA UpdateEvolves ==
  ASSUME TypeOK, KindsFit, NEW i \in Ids, NEW status \in Stored, NEW n \in Nat
  PROVE  Evolves(Update(i, status, n))
<1>1. CASE queue[i].status \in Stored
  <2>1. queue[i].kind \in Forms \cup {"ghost"}
    BY <1>1, QueueFields DEF KindsFit, Stored
  <2>2. Evolves([queue EXCEPT ![i] = Rec(queue[i].kind, status, n)])
    BY <2>1, PutEvolves
  <2> QED
    BY <1>1, <2>2 DEF Update
<1>2. CASE queue[i].status \notin Stored /\ Fresh = {}
  BY <1>2, SameEvolves DEF Update
<1>3. CASE queue[i].status \notin Stored /\ Fresh # {}
  <2>1. Oldest(Fresh) \in Fresh
    BY <1>3, OldestIn DEF Fresh
  <2>2. Oldest(Fresh) \in Ids /\ queue[Oldest(Fresh)].kind = "none"
    BY <2>1 DEF Fresh, KindsFit
  <2>3. Evolves([queue EXCEPT ![Oldest(Fresh)] = Rec("ghost", status, n)])
    BY <2>2, PutEvolves
  <2> QED
    BY <1>3, <2>3 DEF Update
<1> QED
  BY <1>1, <1>2, <1>3

LEMMA SetStatusEvolves ==
  ASSUME TypeOK, KindsFit, NEW i \in Ids, NEW status \in Stored
  PROVE  Evolves(SetStatus(i, status))
<1>1. (IF queue[i].status \in Stored THEN queue[i].retries ELSE 0) \in Nat
  BY QueueFields
<1> QED
  BY <1>1, UpdateEvolves DEF SetStatus

LEMMA CurType ==
  ASSUME Shape, NEW p \in Passes, todo[p] # {}
  PROVE  /\ Cur(p) \in todo[p]
         /\ Cur(p) \in Ids
         /\ queue[Cur(p)].kind # "none"
<1>1. todo[p] \in SUBSET Ids
  BY DEF Shape, TypeOK
<1> QED
  BY <1>1, OldestIn DEF Cur, Shape, TodoUsed

LEMMA CountType ==
  ASSUME TypeOK, NEW p \in Passes, NEW i \in Ids
  PROVE  /\ NextCount(snap[p][i]) \in Nat
         /\ StatusAfter(NextCount(snap[p][i])) \in Stored
<1>1. snap[p][i] \in Nat
  BY DEF TypeOK
<1> QED
  BY <1>1, BoundTypes DEF NextCount, StatusAfter, Stored

(* removeQueueItem: only the record the pass works on may be gone then.    *)
LEMMA RemoveChanges ==
  ASSUME Shape, NEW p \in Passes, RemoveItem(p)
  PROVE  /\ Cur(p) \in Ids
         /\ queue' \in [Ids -> Record]
         /\ \A i \in Ids :
               /\ queue'[i].kind = queue[i].kind
               /\ queue'[i].kind = "none" <=> queue'[i].status = "unused"
               /\ queue'[i].status = "gone" => queue[i].status = "gone" \/ i = Cur(p)
<1>1. Cur(p) \in Ids /\ queue[Cur(p)].kind # "none"
  BY CurType DEF RemoveItem, Shape, TodoUsed
<1>2. \A i \in Ids : queue[i].kind = "none" <=> queue[i].status = "unused"
  BY DEF Shape, KindsFit
<1>3. CASE queue' = queue
  BY <1>1, <1>2, <1>3 DEF Shape, TypeOK
<1>4. CASE queue' = [queue EXCEPT ![Cur(p)] =
                       Rec(queue[Cur(p)].kind, "gone", queue[Cur(p)].retries)]
  <2> DEFINE new == Rec(queue[Cur(p)].kind, "gone", queue[Cur(p)].retries)
  <2>1. new \in Record /\ new.kind = queue[Cur(p)].kind /\ new.status = "gone"
    <3>1. /\ queue[Cur(p)].kind \in Forms \cup {"none", "ghost"}
          /\ queue[Cur(p)].retries \in Nat
          /\ "gone" \in Status
      BY <1>1, QueueFields DEF Shape, Status
    <3> QED
      BY <3>1 DEF Rec, Record
  <2>2. queue \in [Ids -> Record]
    BY DEF Shape, TypeOK
  <2> HIDE DEF new
  <2>3. queue' = [queue EXCEPT ![Cur(p)] = new]
    BY <1>4 DEF new
  <2>4. \A i \in Ids : queue'[i] = IF i = Cur(p) THEN new ELSE queue[i]
    BY <2>2, <2>3
  <2>5. queue' \in [Ids -> Record]
    BY <2>1, <2>2, <2>3
  <2> QED
    BY <1>1, <1>2, <2>1, <2>4, <2>5
<1> QED
  BY <1>3, <1>4 DEF RemoveItem, Remove, Removed

LEMMA LogoutEvolves ==
  ASSUME TypeOK, KindsFit
  PROVE  Evolves([i \in Ids |-> IF queue[i].status \in Stored
                                THEN Rec(queue[i].kind, "cleared", queue[i].retries) ELSE queue[i]])
<1> DEFINE q == [i \in Ids |-> IF queue[i].status \in Stored
                               THEN Rec(queue[i].kind, "cleared", queue[i].retries) ELSE queue[i]]
<1>1. ASSUME NEW i \in Ids
      PROVE  /\ q[i] \in Record
             /\ q[i].kind = queue[i].kind
             /\ q[i].kind = "none" <=> q[i].status = "unused"
             /\ q[i].status = "gone" => queue[i].status = "gone"
  <2>1. CASE queue[i].status \in Stored
    <3>1. q[i] = Rec(queue[i].kind, "cleared", queue[i].retries)
      BY <2>1
    <3>2. /\ queue[i].kind \in Forms \cup {"none", "ghost"}
          /\ queue[i].retries \in Nat
          /\ "cleared" \in Status
      BY QueueFields DEF Status
    <3>3. q[i] \in Record /\ q[i].kind = queue[i].kind /\ q[i].status = "cleared"
      BY <3>1, <3>2 DEF Rec, Record
    <3> QED
      BY <2>1, <3>3 DEF KindsFit, Stored
  <2>2. CASE queue[i].status \notin Stored
    BY <2>2, QueueFields DEF KindsFit
  <2> QED
    BY <2>1, <2>2
<1>2. q \in [Ids -> Record]
  BY <1>1
<1> HIDE DEF q
<1>3. Evolves(q)
  BY <1>1, <1>2 DEF Evolves
<1> QED
  BY <1>3 DEF q

(* Every step but RemoveItem.                                              *)
LEMMA QueueSteps ==
  ASSUME Shape, [Next]_vars, \A p \in Passes : ~RemoveItem(p)
  PROVE  Evolves(queue')
<1> USE DEF Shape
<1>1. CASE UNCHANGED queue
  BY <1>1, SameEvolves
<1>2. ASSUME NEW kind \in Kinds, Enqueue(kind)
      PROVE  Evolves(queue')
  <2>1. Oldest(Fresh) \in Fresh
    BY <1>2, OldestIn DEF Enqueue, Fresh
  <2>2. Oldest(Fresh) \in Ids /\ queue[Oldest(Fresh)].kind = "none" /\ kind \in Forms
    BY <2>1, KindsType DEF Fresh, KindsFit
  <2> QED
    BY <1>2, <2>2, PutEvolves DEF Enqueue, Stored
<1>3. ASSUME NEW p \in Passes, PassStep(p)
      PROVE  Evolves(queue')
  <2>1. CASE UNCHANGED queue
    BY <2>1, SameEvolves
  <2>2. CASE MarkSyncing(p) \/ \E r \in Requests : Post(p, r)
    <3>1. Cur(p) \in Ids /\ queue' = SetStatus(Cur(p), "syncing")
      BY <2>2, CurType DEF MarkSyncing, Post
    <3> QED
      BY <3>1, SetStatusEvolves DEF Stored
  <2>3. CASE RecordFailure(p)
    <3>1. Cur(p) \in Ids
      BY <2>3, CurType DEF RecordFailure, TodoUsed
    <3> QED
      BY <2>3, <3>1, CountType, UpdateEvolves DEF RecordFailure
  <2> QED
    BY <1>3, <2>1, <2>2, <2>3
       DEF PassStep, ReadQueue, MarkFails, Timeout, Answer, Escape, EndPass
<1>4. ASSUME NEW i \in Ids, SetPending(i)
      PROVE  Evolves(queue')
  BY <1>4, SetStatusEvolves DEF SetPending, Stored
<1>5. CASE Restart
  BY <1>5, SameEvolves DEF Restart, Reload
<1>6. CASE Logout
  BY <1>6, LogoutEvolves DEF Logout, Reload
<1> QED
  BY <1>1, <1>2, <1>3, <1>4, <1>5, <1>6
     DEF Next, vars, StartPass, MountLayout, BeginRetry, Server, Receive, Insert, Refuse, Lose

-----------------------------------------------------------------------------
(* Requests                                                                *)

Phase == {"sent", "checked", "accepted", "refused"}

LEMMA AskedFields ==
  ASSUME NEW i \in Ids, NEW p \in Passes \cup {NoPass}, NEW s \in Phase
  PROVE  /\ Asked(i, p, s) \in Request
         /\ Asked(i, p, s) # Idle
         /\ Asked(i, p, s).id = i
         /\ Asked(i, p, s).pass = p
         /\ Asked(i, p, s).state = s
<1>1. Asked(i, p, s).state # Idle.state
  BY DEF Asked, Idle, Phase
<1> QED
  BY <1>1 DEF Asked, Request, Phase

LEMMA RequestFields ==
  ASSUME TypeOK, NEW r \in Requests
  PROVE  /\ req[r] = Idle <=> req[r].state = "idle"
         /\ req[r] # Idle => /\ req[r].id \in Ids
                             /\ req[r].pass \in Passes \cup {NoPass}
                             /\ req[r].state \in Phase
<1>1. req[r] \in Request
  BY DEF TypeOK
<1>2. CASE req[r] = Idle
  BY <1>2 DEF Idle
<1>3. CASE req[r] # Idle
  BY <1>1, <1>3 DEF Request, Phase
<1> QED
  BY <1>2, <1>3 DEF Phase

(* The same request, possibly further on, with no more passes waiting.     *)
Goes(q, r) ==
    q # Idle =>
        /\ req[r] # Idle
        /\ q.id = req[r].id
        /\ q.pass \in {req[r].pass, NoPass}

LEMMA InFlightGoes ==
  ASSUME TypeOK, NEW r \in Requests, req[r] # Idle, NEW s \in Phase,
         NEW p \in {req[r].pass, NoPass}
  PROVE  /\ InFlight(req[r].id, p, s) \in Request
         /\ Goes(InFlight(req[r].id, p, s), r)
         /\ InFlight(req[r].id, p, s) # Idle => InFlight(req[r].id, p, s).state = s
         /\ InFlight(req[r].id, p, s) # Idle => InFlight(req[r].id, p, s).pass = p
<1>1. req[r].id \in Ids /\ p \in Passes \cup {NoPass}
  BY RequestFields
<1>2. CASE InFlight(req[r].id, p, s) = Idle
  BY <1>2 DEF Goes, Request
<1>3. CASE InFlight(req[r].id, p, s) = Asked(req[r].id, p, s)
  BY <1>1, <1>3, AskedFields DEF Goes
<1> QED
  BY <1>2, <1>3 DEF InFlight

LEMMA OrphanedGoes ==
  ASSUME TypeOK, NEW P \in SUBSET Passes
  PROVE  /\ Orphaned(P) \in [Requests -> Request]
         /\ \A r \in Requests :
               /\ Goes(Orphaned(P)[r], r)
               /\ Orphaned(P)[r] # Idle =>
                     /\ Orphaned(P)[r].state = req[r].state
                     /\ Orphaned(P)[r].pass \notin P
<1>1. ASSUME NEW r \in Requests
      PROVE  /\ Orphaned(P)[r] \in Request
             /\ Goes(Orphaned(P)[r], r)
             /\ Orphaned(P)[r] # Idle =>
                   /\ Orphaned(P)[r].state = req[r].state
                   /\ Orphaned(P)[r].pass \notin P
  <2>1. CASE req[r].state # "idle" /\ req[r].pass \in P
    <3>1. req[r] # Idle /\ req[r].state \in Phase
      BY <2>1, RequestFields
    <3>2. Orphaned(P)[r] = InFlight(req[r].id, NoPass, req[r].state)
      BY <2>1 DEF Orphaned
    <3> QED
      BY <3>1, <3>2, InFlightGoes, BoundTypes
  <2>2. CASE ~(req[r].state # "idle" /\ req[r].pass \in P)
    <3>1. Orphaned(P)[r] = req[r]
      BY <2>2 DEF Orphaned
    <3>2. req[r] \in Request
      BY DEF TypeOK
    <3>3. req[r] # Idle => req[r].pass \notin P
      BY <2>2, RequestFields
    <3> QED
      BY <3>1, <3>2, <3>3 DEF Goes
  <2> QED
    BY <2>1, <2>2
<1>2. Orphaned(P) = [r \in Requests |-> Orphaned(P)[r]]
  BY DEF Orphaned
<1>3. Orphaned(P) \in [Requests -> Request]
  BY <1>1, <1>2
<1> QED
  BY <1>1, <1>3

(* How a step changes the requests: the only new one is that of Post.      *)
LEMMA RequestSteps ==
  ASSUME Shape, [Next]_vars
  PROVE  /\ req' \in [Requests -> Request]
         /\ \A r \in Requests :
               Goes(req'[r], r) \/ \E p \in Passes : Post(p, r) /\ req'[r] = Asked(Cur(p), p, "sent")
<1> USE DEF Shape
<1> DEFINE Changed == /\ req' \in [Requests -> Request]
                      /\ \A r \in Requests :
                            Goes(req'[r], r) \/ \E p \in Passes :
                                Post(p, r) /\ req'[r] = Asked(Cur(p), p, "sent")
<1>1. ASSUME UNCHANGED req
      PROVE  Changed
  BY <1>1 DEF Goes, TypeOK
<1>2. ASSUME NEW r \in Requests, NEW q, req' = [req EXCEPT ![r] = q], q \in Request, Goes(q, r)
      PROVE  Changed
  <2>1. \A x \in Requests : req'[x] = IF x = r THEN q ELSE req[x]
    BY <1>2 DEF TypeOK
  <2>2. req' \in [Requests -> Request]
    BY <1>2 DEF TypeOK
  <2> QED
    BY <1>2, <2>1, <2>2 DEF Goes
<1>3. ASSUME NEW p \in Passes, NEW r \in Requests, Post(p, r)
      PROVE  Changed
  <2>1. Cur(p) \in Ids
    BY <1>3, CurType DEF Post
  <2>2. Asked(Cur(p), p, "sent") \in Request
    BY <2>1, AskedFields DEF Phase
  <2>3. req' = [req EXCEPT ![r] = Asked(Cur(p), p, "sent")]
    BY <1>3 DEF Post
  <2>4. req' \in [Requests -> Request]
    BY <2>2, <2>3 DEF TypeOK
  <2>5. \A x \in Requests : req'[x] = IF x = r THEN Asked(Cur(p), p, "sent") ELSE req[x]
    BY <2>3 DEF TypeOK
  <2> QED
    BY <1>3, <2>4, <2>5 DEF Goes
<1>4. ASSUME NEW r \in Requests, Server, Receive(r) \/ Insert(r) \/ Refuse(r)
      PROVE  Changed
  <2>1. req[r] # Idle
    BY <1>4, RequestFields DEF Receive, Insert, Refuse
  <2>2. PICK s \in Phase : req' = [req EXCEPT ![r] = InFlight(req[r].id, req[r].pass, s)]
    BY <1>4 DEF Receive, Insert, Refuse, Phase
  <2> QED
    BY <1>2, <2>1, <2>2, InFlightGoes
<1>5. ASSUME NEW r \in Requests, req' = [req EXCEPT ![r] = Idle]
      PROVE  Changed
  BY <1>2, <1>5 DEF Goes, Request
<1>6. ASSUME NEW P \in SUBSET Passes, req' = Orphaned(P)
      PROVE  Changed
  <2>1. /\ Orphaned(P) \in [Requests -> Request]
        /\ \A r \in Requests : Goes(Orphaned(P)[r], r)
    BY OrphanedGoes
  <2>2. /\ req' \in [Requests -> Request]
        /\ \A r \in Requests : Goes(req'[r], r)
    BY <1>6, <2>1
  <2> QED
    BY <2>2
<1> HIDE DEF Changed
<1>7. ASSUME NEW p \in Passes, Timeout(p)
      PROVE  Changed
  <2>1. {p} \in SUBSET Passes /\ req' = Orphaned({p})
    BY <1>7 DEF Timeout
  <2> QED
    BY <1>6, <2>1
<1>8. ASSUME Restart \/ Logout
      PROVE  Changed
  <2>1. Passes \in SUBSET Passes /\ req' = Orphaned(Passes)
    BY <1>8 DEF Restart, Logout, Reload
  <2> QED
    BY <1>6, <2>1
<1>9. ASSUME NEW p \in Passes, PassStep(p)
      PROVE  Changed
  BY <1>1, <1>3, <1>5, <1>7, <1>9
     DEF PassStep, ReadQueue, MarkSyncing, MarkFails, Answer, RemoveItem, RecordFailure, Escape, EndPass
<1>10. ASSUME Server
       PROVE  Changed
  BY <1>4, <1>5, <1>10 DEF Server, Lose
<1>11. Changed
  BY <1>1, <1>8, <1>9, <1>10
     DEF Next, vars, Enqueue, StartPass, MountLayout, BeginRetry, SetPending
<1> QED
  BY <1>11 DEF Changed

(* How far a request is: its state changes at the server only.             *)
LEMMA StateSteps ==
  ASSUME Shape, [Next]_vars, NEW r \in Requests, req'[r] # Idle
  PROVE  \/ req'[r].state \in {req[r].state, "sent", "refused"}
         \/ Receive(r) \/ Insert(r)
<1> USE DEF Shape
<1> DEFINE Moved == \/ req'[r].state \in {req[r].state, "sent", "refused"}
                    \/ Receive(r) \/ Insert(r)
<1>1. ASSUME UNCHANGED req
      PROVE  Moved
  BY <1>1
<1>2. ASSUME NEW x \in Requests, NEW q, req' = [req EXCEPT ![x] = q],
             x = r => q = Idle \/ q.state \in {"sent", "refused"}
      PROVE  Moved
  BY <1>2 DEF TypeOK
<1>3. ASSUME NEW P \in SUBSET Passes, req' = Orphaned(P)
      PROVE  Moved
  BY <1>3, OrphanedGoes
<1>4. ASSUME NEW p \in Passes, PassStep(p)
      PROVE  Moved
  <2>1. ASSUME NEW x \in Requests, Post(p, x)
        PROVE  Moved
    <3>1. Cur(p) \in Ids
      BY <2>1, CurType DEF Post
    <3>2. Asked(Cur(p), p, "sent").state = "sent"
      BY <3>1, AskedFields DEF Phase
    <3>3. req' = [req EXCEPT ![x] = Asked(Cur(p), p, "sent")]
      BY <2>1 DEF Post
    <3> HIDE DEF Moved
    <3> QED
      BY <1>2, <3>2, <3>3
  <2>2. ASSUME NEW x \in Requests, Answer(p, x)
        PROVE  Moved
    <3>1. req' = [req EXCEPT ![x] = Idle]
      BY <2>2 DEF Answer
    <3> HIDE DEF Moved
    <3> QED
      BY <1>2, <3>1
  <2>3. ASSUME Timeout(p)
        PROVE  Moved
    <3>1. {p} \in SUBSET Passes /\ req' = Orphaned({p})
      BY <2>3 DEF Timeout
    <3> HIDE DEF Moved
    <3> QED
      BY <1>3, <3>1
  <2> HIDE DEF Moved
  <2> QED
    BY <1>1, <1>4, <2>1, <2>2, <2>3
       DEF PassStep, ReadQueue, MarkSyncing, MarkFails, RemoveItem, RecordFailure, Escape, EndPass
<1>5. ASSUME NEW x \in Requests, Receive(x) \/ Insert(x) \/ Refuse(x) \/ Lose(x)
      PROVE  Moved
  <2>1. CASE Receive(x) \/ Insert(x)
    <3>1. x # r => req'[r] = req[r]
      BY <2>1 DEF Receive, Insert, TypeOK
    <3> QED
      BY <2>1, <3>1
  <2>2. CASE Refuse(x)
    <3>1. req[x] # Idle
      BY <2>2, RequestFields DEF Refuse
    <3> DEFINE q == InFlight(req[x].id, req[x].pass, "refused")
    <3>2. q # Idle => q.state = "refused"
      BY <3>1, InFlightGoes DEF Phase
    <3>3. req' = [req EXCEPT ![x] = q]
      BY <2>2 DEF Refuse
    <3> HIDE DEF q, Moved
    <3> QED
      BY <1>2, <3>2, <3>3
  <2>3. CASE Lose(x)
    <3>1. req' = [req EXCEPT ![x] = Idle]
      BY <2>3 DEF Lose
    <3> HIDE DEF Moved
    <3> QED
      BY <1>2, <3>1
  <2> HIDE DEF Moved
  <2> QED
    BY <1>5, <2>1, <2>2, <2>3
<1>6. ASSUME Restart \/ Logout
      PROVE  Moved
  <2>1. Passes \in SUBSET Passes /\ req' = Orphaned(Passes)
    BY <1>6 DEF Restart, Logout, Reload
  <2> HIDE DEF Moved
  <2> QED
    BY <1>3, <2>1
<1> HIDE DEF Moved
<1>7. Moved
  BY <1>1, <1>4, <1>5, <1>6
     DEF Next, vars, Server, Enqueue, StartPass, MountLayout, BeginRetry, SetPending
<1> QED
  BY <1>7 DEF Moved

-----------------------------------------------------------------------------
(* The shape                                                               *)

LEMMA KindsLast ==
  ASSUME Shape, [Next]_vars
  PROVE  /\ queue' \in [Ids -> Record]
         /\ KindsFit'
         /\ \A i \in Ids : queue[i].kind # "none" => queue'[i].kind = queue[i].kind
<1>1. CASE \E p \in Passes : RemoveItem(p)
  BY <1>1, RemoveChanges DEF KindsFit
<1>2. CASE \A p \in Passes : ~RemoveItem(p)
  BY <1>2, QueueSteps DEF Evolves, KindsFit
<1> QED
  BY <1>1, <1>2

(* What a pass still has to do was there before, or it has just read it.   *)
LEMMA TodoSteps ==
  ASSUME Shape, [Next]_vars
  PROVE  /\ pc' \in [Passes -> {"idle", "reading", "next", "wait", "remove", "fail"}]
         /\ todo' \in [Passes -> SUBSET Ids]
         /\ \A p \in Passes :
               /\ \A i \in todo'[p] : queue[i].kind # "none"
               /\ pc'[p] \in {"wait", "remove", "fail"} => todo'[p] # {}
<1> USE DEF Shape
<1> DEFINE Works ==
             /\ pc' \in [Passes -> {"idle", "reading", "next", "wait", "remove", "fail"}]
             /\ todo' \in [Passes -> SUBSET Ids]
             /\ \A p \in Passes :
                   /\ \A i \in todo'[p] : queue[i].kind # "none"
                   /\ pc'[p] \in {"wait", "remove", "fail"} => todo'[p] # {}
<1>1. ASSUME UNCHANGED <<pc, todo>>
      PROVE  Works
  BY <1>1 DEF TypeOK, TodoUsed
<1>2. ASSUME NEW p \in Passes, NEW at \in {"idle", "reading", "next", "wait", "remove", "fail"},
             NEW S \in SUBSET Ids,
             pc' = [pc EXCEPT ![p] = at], todo' = [todo EXCEPT ![p] = S],
             \A i \in S : queue[i].kind # "none",
             at \in {"wait", "remove", "fail"} => S # {}
      PROVE  Works
  BY <1>2 DEF TypeOK, TodoUsed
<1>3. ASSUME NEW p \in Passes, StartPass(p) \/ PassStep(p)
      PROVE  Works
  <2>1. /\ todo[p] \in SUBSET Ids
        /\ \A i \in todo[p] : queue[i].kind # "none"
        /\ pc[p] \in {"wait", "remove", "fail"} => todo[p] # {}
        /\ todo = [todo EXCEPT ![p] = todo[p]]
    BY DEF TypeOK, TodoUsed
  <2>2. ASSUME NEW at \in {"idle", "reading", "next", "wait", "remove", "fail"},
               pc' = [pc EXCEPT ![p] = at], todo' = todo,
               at \in {"wait", "remove", "fail"} => todo[p] # {}
        PROVE  Works
    <3> HIDE DEF Works
    <3>1. todo' = [todo EXCEPT ![p] = todo[p]]
      BY <2>1, <2>2
    <3> QED
      BY <1>2, <2>1, <2>2, <3>1
  <2>3. ASSUME NEW at \in {"idle", "next"}, NEW S \in SUBSET todo[p],
               pc' = [pc EXCEPT ![p] = at], todo' = [todo EXCEPT ![p] = S]
        PROVE  Works
    <3> HIDE DEF Works
    <3> QED
      BY <1>2, <2>1, <2>3
  <2>4. ASSUME ReadQueue(p)
        PROVE  Works
    <3> DEFINE toSync == {i \in Ids : queue[i].status \in {"pending", "syncing"}}
    <3>1. \A i \in toSync : queue[i].kind # "none"
      BY DEF KindsFit
    <3>2. PICK at \in {"idle", "next"} : pc' = [pc EXCEPT ![p] = at]
      BY <2>4 DEF ReadQueue
    <3>3. todo' = [todo EXCEPT ![p] = toSync]
      BY <2>4 DEF ReadQueue
    <3>4. toSync \in SUBSET Ids
      OBVIOUS
    <3> HIDE DEF toSync, Works
    <3> QED
      BY <1>2, <3>1, <3>2, <3>3, <3>4
  <2>5. ASSUME StartPass(p) \/ MarkSyncing(p) \/ MarkFails(p) \/ Timeout(p) \/ EndPass(p)
               \/ \E r \in Requests : Post(p, r) \/ Answer(p, r)
        PROVE  Works
    <3>1. PICK at \in {"idle", "reading", "next", "wait", "remove", "fail"} :
             /\ pc' = [pc EXCEPT ![p] = at]
             /\ at \in {"wait", "remove", "fail"} => todo[p] # {}
      BY <2>1, <2>5 DEF StartPass, MarkSyncing, MarkFails, Timeout, EndPass, Post, Answer
    <3>2. todo' = todo
      BY <2>5 DEF StartPass, MarkSyncing, MarkFails, Timeout, EndPass, Post, Answer
    <3> HIDE DEF Works
    <3> QED
      BY <2>2, <3>1, <3>2
  <2>6. ASSUME RemoveItem(p)
        PROVE  Works
    <3>1. CASE pc' = [pc EXCEPT ![p] = "next"] /\ todo' = [todo EXCEPT ![p] = @ \ {Cur(p)}]
      <4>1. todo' = [todo EXCEPT ![p] = todo[p] \ {Cur(p)}] /\ todo[p] \ {Cur(p)} \in SUBSET todo[p]
        BY <3>1
      <4> HIDE DEF Works
      <4> QED
        BY <2>3, <3>1, <4>1
    <3>2. CASE pc' = [pc EXCEPT ![p] = "fail"] /\ todo' = todo
      <4>1. todo[p] # {}
        BY <2>1, <2>6 DEF RemoveItem
      <4> HIDE DEF Works
      <4> QED
        BY <2>2, <3>2, <4>1
    <3> QED
      BY <2>6, <3>1, <3>2 DEF RemoveItem
  <2>7. ASSUME RecordFailure(p)
        PROVE  Works
    <3>1. /\ pc' = [pc EXCEPT ![p] = "next"]
          /\ todo' = [todo EXCEPT ![p] = todo[p] \ {Cur(p)}]
          /\ todo[p] \ {Cur(p)} \in SUBSET todo[p]
      BY <2>7 DEF RecordFailure
    <3> HIDE DEF Works
    <3> QED
      BY <2>3, <3>1
  <2>8. ASSUME Escape(p)
        PROVE  Works
    <3>1. /\ pc' = [pc EXCEPT ![p] = "idle"]
          /\ todo' = [todo EXCEPT ![p] = {}]
          /\ {} \in SUBSET todo[p]
      BY <2>8 DEF Escape
    <3> HIDE DEF Works
    <3> QED
      BY <2>3, <3>1
  <2> HIDE DEF Works
  <2> QED
    BY <1>3, <2>4, <2>5, <2>6, <2>7, <2>8 DEF PassStep
<1>4. ASSUME Restart \/ Logout
      PROVE  Works
  <2>1. pc' = [p \in Passes |-> "idle"] /\ todo' = [p \in Passes |-> {}]
    BY <1>4 DEF Restart, Logout, Reload
  <2> QED
    BY <2>1
<1> HIDE DEF Works
<1>5. Works
  BY <1>1, <1>3, <1>4
     DEF Next, vars, passes, Server, Enqueue, MountLayout, BeginRetry, SetPending,
         Receive, Insert, Refuse, Lose
<1> QED
  BY <1>5 DEF Works

(* The remaining variables.                                                *)
LEMMA OtherTypes ==
  ASSUME Shape, [Next]_vars
  PROVE  /\ isSyncing' \in BOOLEAN /\ broken' \in BOOLEAN
         /\ snap' \in [Passes -> [Ids -> Nat]]
         /\ repend' \subseteq Ids
         /\ rows' \in [Ids -> Nat]
         /\ starts' \in Nat
<1> USE DEF Shape, TypeOK
<1> DEFINE Typed == /\ isSyncing' \in BOOLEAN /\ broken' \in BOOLEAN
                    /\ snap' \in [Passes -> [Ids -> Nat]]
                    /\ repend' \subseteq Ids
                    /\ rows' \in [Ids -> Nat]
                    /\ starts' \in Nat
<1>1. CASE UNCHANGED <<isSyncing, broken, snap, repend, rows, starts>>
  BY <1>1
<1>2. ASSUME NEW p \in Passes, PassStep(p)
      PROVE  Typed
  <2>1. CASE UNCHANGED snap
    BY <1>2, <2>1
       DEF PassStep, ReadQueue, MarkSyncing, MarkFails, Timeout, Post, Answer, RemoveItem,
           RecordFailure, Escape, EndPass, FlagAfterPass
  <2>2. ASSUME NEW s \in [Ids -> Nat], snap' = [snap EXCEPT ![p] = s]
        PROVE  snap' \in [Passes -> [Ids -> Nat]]
    BY <2>2
  <2>3. CASE ReadQueue(p)
    <3> DEFINE s == [i \in Ids |-> IF i \in {j \in Ids : queue[j].status \in {"pending", "syncing"}}
                                   THEN queue[i].retries ELSE 0]
    <3>1. s \in [Ids -> Nat]
      BY QueueFields
    <3>2. snap' = [snap EXCEPT ![p] = s]
      BY <2>3 DEF ReadQueue
    <3> HIDE DEF s
    <3>3. snap' \in [Passes -> [Ids -> Nat]]
      BY <2>2, <3>1, <3>2
    <3> QED
      BY <2>3, <3>3 DEF ReadQueue
  <2>4. CASE Escape(p)
    <3>1. [i \in Ids |-> 0] \in [Ids -> Nat]
      OBVIOUS
    <3>2. snap' \in [Passes -> [Ids -> Nat]]
      BY <2>2, <2>4, <3>1 DEF Escape
    <3> QED
      BY <2>4, <3>2 DEF Escape
  <2>5. CASE snap' = [snap EXCEPT ![p][Cur(p)] = 0]
    <3>1. [snap[p] EXCEPT ![Cur(p)] = 0] \in [Ids -> Nat]
      OBVIOUS
    <3>2. snap' = [snap EXCEPT ![p] = [snap[p] EXCEPT ![Cur(p)] = 0]]
      BY <2>5
    <3>3. snap' \in [Passes -> [Ids -> Nat]]
      BY <2>2, <3>1, <3>2
    <3> QED
      BY <1>2, <3>3
         DEF PassStep, ReadQueue, MarkSyncing, MarkFails, Timeout, Post, Answer, RemoveItem,
             RecordFailure, Escape, EndPass, FlagAfterPass
  <2> HIDE DEF Typed
  <2>6. CASE RemoveItem(p)
    <3>1. UNCHANGED snap \/ snap' = [snap EXCEPT ![p][Cur(p)] = 0]
      BY <2>6 DEF RemoveItem
    <3> QED
      BY <2>1, <2>5, <3>1
  <2>7. CASE RecordFailure(p)
    <3>1. snap' = [snap EXCEPT ![p][Cur(p)] = 0]
      BY <2>7 DEF RecordFailure
    <3> QED
      BY <2>5, <3>1
  <2> QED
    BY <1>2, <2>1, <2>3, <2>4, <2>6, <2>7
       DEF PassStep, MarkSyncing, MarkFails, Timeout, Post, Answer, EndPass
<1>3. ASSUME NEW p \in Passes, StartPass(p)
      PROVE  Typed
  BY <1>3 DEF StartPass
<1>4. ASSUME MountLayout
      PROVE  Typed
  BY <1>4 DEF MountLayout, passes, Stuck
<1>5. ASSUME NEW due \in SUBSET Ids, BeginRetry(due)
      PROVE  Typed
  BY <1>5 DEF BeginRetry, passes
<1>6. ASSUME NEW i \in Ids, SetPending(i)
      PROVE  Typed
  BY <1>6 DEF SetPending, passes
<1>7. ASSUME NEW r \in Requests, Receive(r) \/ Insert(r) \/ Refuse(r) \/ Lose(r)
      PROVE  Typed
  BY <1>7 DEF Receive, Insert, Refuse, Lose, passes
<1>8. ASSUME Restart \/ Logout
      PROVE  Typed
  <2>1. PICK store : Reload(store)
    BY <1>8 DEF Restart, Logout
  <2>2. repend' = Stuck(store) /\ Stuck(store) \subseteq Ids
    BY <2>1 DEF Reload, Stuck
  <2>3. snap' \in [Passes -> [Ids -> Nat]]
    BY <2>1 DEF Reload
  <2>4. isSyncing' \in BOOLEAN /\ broken' \in BOOLEAN
    BY <2>1 DEF Reload
  <2>5. rows' = rows /\ starts' = starts + 1
    BY <2>1 DEF Reload
  <2> QED
    BY <2>2, <2>3, <2>4, <2>5
<1>9. ASSUME NEW kind \in Kinds, Enqueue(kind)
      PROVE  Typed
  BY <1>9 DEF Enqueue, passes
<1>10. CASE UNCHANGED vars
  BY <1>1, <1>10 DEF vars, passes
<1> HIDE DEF Typed
<1>11. Typed
  <2>1. CASE UNCHANGED vars
    BY <1>10, <2>1 DEF Typed
  <2>2. CASE Next
    BY <1>2, <1>3, <1>4, <1>5, <1>6, <1>7, <1>8, <1>9, <2>2 DEF Next, Server
  <2> QED
    BY <2>1, <2>2
<1> QED
  BY <1>11 DEF Typed

LEMMA InitShape ==
  ASSUME Init
  PROVE  Shape
<1>1. Unused \in Record /\ Unused.kind = "none" /\ Unused.status = "unused"
  BY DEF Unused, Rec, Record, Status
<1> HIDE DEF Unused
<1>2. Idle \in Request
  BY DEF Request
<1> HIDE DEF Idle
<1>3. queue \in [Ids -> Record] /\ KindsFit
  BY <1>1 DEF Init, KindsFit
<1>4. TypeOK
  BY <1>2, <1>3 DEF Init, TypeOK
<1> QED
  BY <1>3, <1>4 DEF Init, Shape, TodoUsed

LEMMA NextShape ==
  ASSUME Shape, [Next]_vars
  PROVE  Shape'
<1>1. TypeOK'
  BY KindsLast, TodoSteps, RequestSteps, OtherTypes DEF TypeOK
<1>2. TodoUsed'
  <2> SUFFICES ASSUME NEW p \in Passes
               PROVE  /\ \A i \in todo'[p] : queue'[i].kind # "none"
                      /\ pc'[p] \in {"wait", "remove", "fail"} => todo'[p] # {}
    BY DEF TodoUsed
  <2>1. todo'[p] \in SUBSET Ids
    BY TodoSteps
  <2>2. \A i \in todo'[p] : queue[i].kind # "none"
    BY TodoSteps
  <2>3. \A i \in todo'[p] : queue'[i].kind # "none"
    BY <2>1, <2>2, KindsLast
  <2> QED
    BY <2>3, TodoSteps
<1> QED
  BY <1>1, <1>2, KindsLast DEF Shape

(* The store, the passes and the requests always have their types: in      *)
(* particular every request names a record of the store.                   *)
THEOREM Typing == Spec => []TypeOK
<1>1. Init => Shape
  BY InitShape
<1>2. Shape /\ [Next]_vars => Shape'
  BY NextShape
<1>3. Shape => TypeOK
  BY DEF Shape
<1> QED
  BY <1>1, <1>2, <1>3, PTL DEF Spec

-----------------------------------------------------------------------------
(* Requests and the passes that wait for them                              *)

(* A pass whose request is still under way waits for it, at its record.    *)
LEMMA WaitGoesOn ==
  ASSUME Shape, RequestsFit, [Next]_vars, NEW r \in Requests, req[r] # Idle, req'[r] # Idle,
         Goes(req'[r], r), req'[r].pass \in Passes
  PROVE  LET p == req[r].pass IN
         req'[r].pass = p /\ pc'[p] = "wait" /\ todo'[p] = todo[p]
<1> DEFINE p == req[r].pass
<1>1. /\ p \in Passes
      /\ req'[r].pass = p
      /\ pc[p] = "wait"
      /\ \A x \in Requests \ {r} : req[x] = Idle \/ req[x].pass # p
  BY BoundTypes DEF Goes, RequestsFit
<1>2. pc \in [Passes -> {"idle", "reading", "next", "wait", "remove", "fail"}]
      /\ todo \in [Passes -> SUBSET Ids]
  BY DEF Shape, TypeOK
<1> HIDE DEF p
<1> DEFINE Same == pc'[p] = "wait" /\ todo'[p] = todo[p]
<1>3. ASSUME UNCHANGED <<pc, todo>>
      PROVE  Same
  BY <1>1, <1>3
<1>4. ASSUME NEW o \in Passes \ {p}, StartPass(o) \/ PassStep(o)
      PROVE  Same
  <2>1. /\ pc'[p] = pc[p]
        /\ todo'[p] = todo[p]
    BY <1>1, <1>2, <1>4
       DEF StartPass, PassStep, ReadQueue, MarkSyncing, MarkFails, Timeout, Post, Answer,
           RemoveItem, RecordFailure, Escape, EndPass
  <2> QED
    BY <1>1, <2>1
<1>5. ~StartPass(p)
  BY <1>1 DEF StartPass
<1>6. ~PassStep(p)
  <2>1. ASSUME Timeout(p)
        PROVE  FALSE
    <3>1. {p} \in SUBSET Passes /\ req' = Orphaned({p})
      BY <1>1, <2>1 DEF Timeout
    <3> QED
      BY <1>1, <3>1, OrphanedGoes DEF Shape
  <2>2. ASSUME NEW x \in Requests, Answer(p, x)
        PROVE  FALSE
    <3>1. req[x] # Idle /\ req[x].pass = p
      BY <2>2, RequestFields DEF Answer, Shape
    <3>2. x = r
      BY <1>1, <3>1
    <3>3. req'[r] = Idle
      BY <2>2, <3>2 DEF Answer, Shape, TypeOK
    <3> QED
      BY <3>3
  <2> QED
    BY <1>1, <2>1, <2>2
       DEF PassStep, ReadQueue, MarkSyncing, MarkFails, Post, RemoveItem, RecordFailure,
           Escape, EndPass
<1>7. ~(Restart \/ Logout)
  <2> SUFFICES ASSUME Restart \/ Logout
               PROVE  FALSE
    OBVIOUS
  <2>1. Passes \in SUBSET Passes /\ req' = Orphaned(Passes)
    BY DEF Restart, Logout, Reload
  <2> QED
    BY <1>1, <2>1, OrphanedGoes DEF Shape
<1> HIDE DEF Same
<1>8. Same
  <2>1. CASE \E o \in Passes : StartPass(o) \/ PassStep(o)
    BY <1>4, <1>5, <1>6, <2>1
  <2> QED
    BY <1>3, <1>7, <2>1
       DEF Next, vars, passes, Server, Enqueue, MountLayout, BeginRetry, SetPending,
           Receive, Insert, Refuse, Lose
<1> QED
  BY <1>1, <1>8 DEF p, Same

LEMMA InitRequests ==
  ASSUME Init
  PROVE  RequestsFit
BY DEF Init, RequestsFit

LEMMA NextRequests ==
  ASSUME Shape, RequestsFit, [Next]_vars
  PROVE  RequestsFit'
<1>1. ASSUME NEW r \in Requests, req'[r] # Idle, req[r] # Idle, Goes(req'[r], r)
      PROVE  /\ queue'[req'[r].id].kind \in Forms
             /\ req'[r].pass \in Passes =>
                   /\ req'[r].pass = req[r].pass
                   /\ pc'[req'[r].pass] = "wait"
                   /\ req'[r].id = Oldest(todo'[req'[r].pass])
  <2>1. req'[r].id = req[r].id /\ req[r].id \in Ids /\ queue[req[r].id].kind \in Forms
    BY <1>1, RequestFields DEF Goes, RequestsFit, Shape
  <2>2. queue'[req'[r].id].kind \in Forms
    BY <2>1, KindsLast DEF Forms
  <2>3. ASSUME req'[r].pass \in Passes
        PROVE  /\ req'[r].pass = req[r].pass
               /\ pc'[req'[r].pass] = "wait"
               /\ req'[r].id = Oldest(todo'[req'[r].pass])
    <3>1. /\ req'[r].pass = req[r].pass
          /\ pc'[req[r].pass] = "wait"
          /\ todo'[req[r].pass] = todo[req[r].pass]
      BY <1>1, <2>3, WaitGoesOn
    <3>2. req[r].id = Oldest(todo[req[r].pass])
      BY <1>1, <2>3, <3>1 DEF RequestsFit, Cur
    <3> QED
      BY <2>1, <3>1, <3>2 DEF Cur
  <2> QED
    BY <2>2, <2>3
<1>2. ASSUME NEW r \in Requests, NEW p \in Passes, Post(p, r),
             req'[r] = Asked(Cur(p), p, "sent")
      PROVE  /\ queue'[req'[r].id].kind \in Forms
             /\ req'[r].pass = p
             /\ pc'[p] = "wait"
             /\ req'[r].id = Oldest(todo'[p])
             /\ pc[p] = "next"
             /\ \A x \in Requests \ {r} : req'[x] = req[x]
  <2>1. Cur(p) \in Ids /\ queue[Cur(p)].kind \in Forms
    BY <1>2, CurType DEF Post
  <2>2. req'[r].id = Cur(p) /\ req'[r].pass = p
    BY <1>2, <2>1, AskedFields DEF Phase
  <2>3. queue'[Cur(p)].kind \in Forms
    BY <2>1, KindsLast DEF Forms
  <2>4. pc'[p] = "wait" /\ todo' = todo /\ pc[p] = "next"
    BY <1>2 DEF Post, Shape, TypeOK
  <2>5. \A x \in Requests \ {r} : req'[x] = req[x]
    BY <1>2 DEF Post, Shape, TypeOK
  <2> QED
    BY <2>2, <2>3, <2>4, <2>5 DEF Cur
<1>3. \A r \in Requests : req'[r] # Idle =>
         \/ req[r] # Idle /\ Goes(req'[r], r)
         \/ \E p \in Passes : Post(p, r) /\ req'[r] = Asked(Cur(p), p, "sent")
  BY RequestSteps DEF Goes
<1>4. ASSUME NEW r \in Requests, req'[r] # Idle, req'[r].pass \in Passes,
             NEW x \in Requests \ {r}, req'[x] # Idle
      PROVE  req'[x].pass # req'[r].pass
  <2>1. CASE /\ req[r] # Idle /\ Goes(req'[r], r)
             /\ req[x] # Idle /\ Goes(req'[x], x)
    <3> SUFFICES ASSUME req'[x].pass = req'[r].pass
                 PROVE  FALSE
      OBVIOUS
    <3>1. req'[r].pass = req[r].pass /\ req'[x].pass = req[x].pass
      BY <1>1, <1>4, <2>1
    <3> QED
      BY <1>4, <2>1, <3>1 DEF RequestsFit
  <2>2. ASSUME NEW p \in Passes, Post(p, r), req'[r] = Asked(Cur(p), p, "sent")
        PROVE  req'[x].pass # req'[r].pass
    <3>1. req'[x] = req[x] /\ req'[r].pass = p /\ pc[p] = "next"
      BY <1>2, <1>4, <2>2
    <3> QED
      BY <1>4, <3>1 DEF RequestsFit
  <2>3. ASSUME NEW p \in Passes, Post(p, x), req'[x] = Asked(Cur(p), p, "sent")
        PROVE  req'[x].pass # req'[r].pass
    <3>1. req'[r] = req[r] /\ req'[x].pass = p /\ pc[p] = "next"
      BY <1>2, <1>4, <2>3
    <3> QED
      BY <1>4, <3>1 DEF RequestsFit
  <2> QED
    BY <1>3, <1>4, <2>1, <2>2, <2>3
<1>5. ASSUME NEW r \in Requests, req'[r] # Idle
      PROVE  /\ queue'[req'[r].id].kind \in Forms
             /\ req'[r].pass \in Passes =>
                   pc'[req'[r].pass] = "wait" /\ req'[r].id = Oldest(todo'[req'[r].pass])
  <2>1. CASE req[r] # Idle /\ Goes(req'[r], r)
    BY <1>1, <1>5, <2>1
  <2>2. ASSUME NEW p \in Passes, Post(p, r), req'[r] = Asked(Cur(p), p, "sent")
        PROVE  /\ queue'[req'[r].id].kind \in Forms
               /\ req'[r].pass \in Passes =>
                     pc'[req'[r].pass] = "wait" /\ req'[r].id = Oldest(todo'[req'[r].pass])
    BY <1>2, <2>2
  <2> QED
    BY <1>3, <1>5, <2>1, <2>2
<1> QED
  <2> SUFFICES ASSUME NEW r \in Requests, req'[r] # Idle
               PROVE  /\ queue'[req'[r].id].kind \in Forms
                      /\ req'[r].pass \in Passes =>
                            /\ pc'[req'[r].pass] = "wait"
                            /\ req'[r].id = Oldest(todo'[req'[r].pass])
                            /\ \A x \in Requests \ {r} :
                                  req'[x] = Idle \/ req'[x].pass # req'[r].pass
    BY DEF RequestsFit, Cur
  <2> QED
    BY <1>4, <1>5

-----------------------------------------------------------------------------
(* Delivery                                                                *)

LEMMA RowsSteps ==
  ASSUME TypeOK, [Next]_vars, NEW i \in Ids
  PROVE  /\ rows[i] > 0 => rows'[i] > 0
         /\ rows'[i] = rows[i] \/ \E r \in Requests : Insert(r) /\ req[r].id = i
<1>1. CASE UNCHANGED rows
  BY <1>1
<1>2. ASSUME NEW r \in Requests, Insert(r)
      PROVE  /\ rows[i] > 0 => rows'[i] > 0
             /\ rows'[i] = rows[i] \/ \E x \in Requests : Insert(x) /\ req[x].id = i
  <2>1. rows' = [rows EXCEPT ![req[r].id] = rows[req[r].id] + 1]
    BY <1>2 DEF Insert
  <2>2. rows[i] \in Nat
    BY DEF TypeOK
  <2>3. CASE req[r].id = i
    <3>1. rows'[i] = rows[i] + 1
      BY <2>1, <2>3 DEF TypeOK
    <3> QED
      BY <1>2, <2>2, <2>3, <3>1
  <2>4. CASE req[r].id # i
    BY <2>1, <2>4 DEF TypeOK
  <2> QED
    BY <2>3, <2>4
<1> QED
  BY <1>1, <1>2
     DEF Next, vars, passes, Server, Enqueue, MountLayout, BeginRetry, SetPending,
         Receive, Refuse, Lose, StartPass, PassStep, ReadQueue, MarkSyncing, MarkFails, Timeout,
         Post, Answer, RemoveItem, RecordFailure, Escape, EndPass, Restart, Logout, Reload

LEMMA InsertRows ==
  ASSUME TypeOK, NEW r \in Requests, Insert(r)
  PROVE  /\ req[r].id \in Ids
         /\ rows'[req[r].id] = rows[req[r].id] + 1
         /\ rows'[req[r].id] > 0
<1>1. req[r].id \in Ids
  BY RequestFields DEF Insert
<1>2. rows[req[r].id] \in Nat
  BY <1>1 DEF TypeOK
<1>3. rows'[req[r].id] = rows[req[r].id] + 1
  BY <1>1 DEF Insert, TypeOK
<1> QED
  BY <1>1, <1>2, <1>3

LEMMA AcceptedStep ==
  ASSUME Shape, RequestsFit, AcceptedWasRecorded, [Next]_vars
  PROVE  AcceptedWasRecorded'
<1> USE DEF Shape
<1> SUFFICES ASSUME NEW r \in Requests, req'[r].state = "accepted"
             PROVE  rows'[req'[r].id] > 0
  BY DEF AcceptedWasRecorded
<1>1. req'[r] # Idle
  BY DEF Idle
<1>2. ASSUME NEW p \in Passes, Post(p, r), req'[r] = Asked(Cur(p), p, "sent")
      PROVE  FALSE
  BY <1>2, CurType, AskedFields DEF Post, Phase
<1>3. req[r] # Idle /\ req'[r].id = req[r].id
  BY <1>1, <1>2, RequestSteps DEF Goes
<1>4. req[r].id \in Ids
  BY <1>3, RequestFields
<1>5. CASE Receive(r)
  <2>1. CASE Known(req[r].id)
    BY <1>3, <1>4, <2>1, RowsSteps DEF Known
  <2>2. CASE ~Known(req[r].id)
    <3>1. req'[r] = InFlight(req[r].id, req[r].pass, "checked")
      BY <1>5, <2>2 DEF Receive, TypeOK
    <3>2. req'[r].state = "checked"
      BY <1>1, <1>3, <3>1, InFlightGoes DEF Phase
    <3> QED
      BY <3>2
  <2> QED
    BY <2>1, <2>2
<1>6. CASE Insert(r)
  BY <1>3, <1>6, InsertRows
<1>7. CASE req'[r].state \in {req[r].state, "sent", "refused"}
  <2>1. req[r].state = "accepted"
    BY <1>7
  <2>2. rows[req[r].id] > 0
    BY <2>1 DEF AcceptedWasRecorded
  <2> QED
    BY <1>3, <1>4, <2>2, RowsSteps
<1> QED
  BY <1>1, <1>5, <1>6, <1>7, StateSteps

(* A pass comes to removing a record by an accepted answer or a ghost.     *)
LEMMA RemovingStep ==
  ASSUME Shape, RequestsFit, AcceptedWasRecorded, RemovingWasRecorded, [Next]_vars
  PROVE  RemovingWasRecorded'
<1> USE DEF Shape
<1> SUFFICES ASSUME NEW p \in Passes, pc'[p] = "remove",
                    queue'[Oldest(todo'[p])].kind \in Forms
             PROVE  rows'[Oldest(todo'[p])] > 0
  BY DEF RemovingWasRecorded, Cur
<1>1. pc \in [Passes -> {"idle", "reading", "next", "wait", "remove", "fail"}]
      /\ todo \in [Passes -> SUBSET Ids]
  BY DEF TypeOK
<1>2. ASSUME pc[p] = "remove", todo'[p] = todo[p]
      PROVE  rows'[Oldest(todo'[p])] > 0
  <2>1. Cur(p) \in Ids /\ queue[Cur(p)].kind # "none"
    BY <1>2, CurType DEF TodoUsed
  <2>2. queue[Cur(p)].kind \in Forms
    BY <1>2, <2>1, KindsLast DEF Cur
  <2>3. rows[Cur(p)] > 0
    BY <1>2, <2>2 DEF RemovingWasRecorded
  <2> QED
    BY <1>2, <2>1, <2>3, RowsSteps DEF Cur
<1>3. ASSUME MarkSyncing(p)
      PROVE  FALSE
  <2>1. Cur(p) \in Ids /\ queue[Cur(p)].kind # "none" /\ queue[Cur(p)].kind \notin Forms
    BY <1>3, CurType DEF MarkSyncing
  <2>2. todo'[p] = todo[p]
    BY <1>3 DEF MarkSyncing
  <2> QED
    BY <2>1, <2>2, KindsLast DEF Cur
<1>4. ASSUME NEW r \in Requests, Answer(p, r)
      PROVE  rows'[Oldest(todo'[p])] > 0
  <2>1. req[r].state = "accepted"
    BY <1>1, <1>4 DEF Answer, Resolves
  <2>2. req[r] # Idle /\ req[r].pass = p
    BY <1>4, <2>1, RequestFields DEF Answer
  <2>3. req[r].id = Cur(p) /\ req[r].id \in Ids
    BY <2>2, RequestFields DEF RequestsFit
  <2>4. rows[Cur(p)] > 0
    BY <2>1, <2>3 DEF AcceptedWasRecorded
  <2>5. todo'[p] = todo[p]
    BY <1>4 DEF Answer
  <2> QED
    BY <2>3, <2>4, <2>5, RowsSteps DEF Cur
<1>5. CASE UNCHANGED <<pc, todo>>
  BY <1>2, <1>5
<1>6. ASSUME NEW o \in Passes \ {p}, StartPass(o) \/ PassStep(o)
      PROVE  rows'[Oldest(todo'[p])] > 0
  <2>1. pc'[p] = pc[p] /\ todo'[p] = todo[p]
    BY <1>1, <1>6
       DEF StartPass, PassStep, ReadQueue, MarkSyncing, MarkFails, Timeout, Post, Answer,
           RemoveItem, RecordFailure, Escape, EndPass
  <2> QED
    BY <1>2, <2>1
<1>7. ASSUME StartPass(p) \/ PassStep(p)
      PROVE  rows'[Oldest(todo'[p])] > 0
  <2>1. ~StartPass(p) /\ ~ReadQueue(p) /\ ~MarkFails(p) /\ ~Timeout(p) /\ ~RemoveItem(p)
        /\ ~RecordFailure(p) /\ ~Escape(p) /\ ~EndPass(p) /\ \A r \in Requests : ~Post(p, r)
    BY <1>1
       DEF StartPass, ReadQueue, MarkFails, Timeout, Post, RemoveItem, RecordFailure, Escape, EndPass
  <2> QED
    BY <1>3, <1>4, <1>7, <2>1 DEF PassStep
<1>8. ~(Restart \/ Logout)
  BY DEF Restart, Logout, Reload
<1> QED
  <2>1. CASE \E o \in Passes : StartPass(o) \/ PassStep(o)
    BY <1>6, <1>7, <2>1
  <2> QED
    BY <1>5, <1>8, <2>1
       DEF Next, vars, passes, Server, Enqueue, MountLayout, BeginRetry, SetPending,
           Receive, Insert, Refuse, Lose

LEMMA RemovedStep ==
  ASSUME Shape, RemovingWasRecorded, RemovedWasRecorded, [Next]_vars
  PROVE  RemovedWasRecorded'
<1> USE DEF Shape
<1> SUFFICES ASSUME NEW i \in Ids, queue'[i].kind \in Forms, queue'[i].status = "gone"
             PROVE  rows'[i] > 0
  BY DEF RemovedWasRecorded
<1>1. ASSUME queue[i].status = "gone"
      PROVE  rows'[i] > 0
  <2>1. queue[i].kind # "none"
    BY <1>1 DEF KindsFit
  <2>2. queue[i].kind \in Forms
    BY <2>1, KindsLast
  <2> QED
    BY <1>1, <2>2, RowsSteps DEF RemovedWasRecorded
<1>2. ASSUME NEW p \in Passes, RemoveItem(p)
      PROVE  rows'[i] > 0
  <2>1. CASE i = Cur(p)
    <3>1. queue[i].kind \in Forms
      BY <1>2, <2>1, RemoveChanges
    <3>2. rows[i] > 0
      BY <1>2, <2>1, <3>1 DEF RemovingWasRecorded, RemoveItem
    <3> QED
      BY <3>2, RowsSteps
  <2>2. CASE i # Cur(p)
    BY <1>1, <1>2, <2>2, RemoveChanges
  <2> QED
    BY <2>1, <2>2
<1>3. CASE \A p \in Passes : ~RemoveItem(p)
  BY <1>1, <1>3, QueueSteps DEF Evolves
<1> QED
  BY <1>2, <1>3

LEMMA DeliveryAlways == Spec => []DeliveryInv
<1>1. Init => DeliveryInv
  <2> SUFFICES ASSUME Init
               PROVE  DeliveryInv
    OBVIOUS
  <2>1. AcceptedWasRecorded
    BY DEF Init, AcceptedWasRecorded, Idle
  <2>2. RemovingWasRecorded
    BY DEF Init, RemovingWasRecorded
  <2>3. RemovedWasRecorded
    BY DEF Init, RemovedWasRecorded, Unused, Rec
  <2> QED
    BY <2>1, <2>2, <2>3, InitShape, InitRequests DEF DeliveryInv
<1>2. DeliveryInv /\ [Next]_vars => DeliveryInv'
  <2> SUFFICES ASSUME DeliveryInv, [Next]_vars
               PROVE  DeliveryInv'
    OBVIOUS
  <2> QED
    BY NextShape, NextRequests, AcceptedStep, RemovingStep, RemovedStep DEF DeliveryInv
<1> QED
  BY <1>1, <1>2, PTL DEF Spec

(* What synchronisation removes from the phone is on the server, however   *)
(* passes overlap and requests are lost.                                   *)
THEOREM NothingIsLost == Spec => []RemovedWasRecorded
<1>1. DeliveryInv => RemovedWasRecorded
  BY DEF DeliveryInv
<1> QED
  BY <1>1, DeliveryAlways, PTL

-----------------------------------------------------------------------------
(* The flag                                                                *)

(* isSyncing never keeps passes from starting when none is at work that    *)
(* will reset it, unless an exception has left syncAll.                    *)
THEOREM FlagIsHeld == Spec => []FlagHasHolder
<1>1. Init => FlagHasHolder
  BY DEF Init, FlagHasHolder
<1>2. TypeOK /\ FlagHasHolder /\ [Next]_vars => FlagHasHolder'
  <2> SUFFICES ASSUME TypeOK, FlagHasHolder, [Next]_vars, isSyncing', ~broken'
               PROVE  \E p \in Passes : pc'[p] \in {"next", "wait", "remove", "fail"}
    BY DEF FlagHasHolder, AtWork
  <2> DEFINE Held == \E p \in Passes : pc'[p] \in {"next", "wait", "remove", "fail"}
  <2>0. pc \in [Passes -> {"idle", "reading", "next", "wait", "remove", "fail"}]
    BY DEF TypeOK
  <2>1. CASE UNCHANGED <<isSyncing, pc, broken>>
    BY <2>1 DEF FlagHasHolder, AtWork
  <2>2. ASSUME NEW p \in Passes, pc[p] \in {"idle", "reading"}, UNCHANGED <<isSyncing, broken>>,
               NEW s, pc' = [pc EXCEPT ![p] = s]
        PROVE  Held
    <3>1. PICK o \in Passes : pc[o] \in {"next", "wait", "remove", "fail"}
      BY <2>2 DEF FlagHasHolder, AtWork
    <3> QED
      BY <2>0, <2>2, <3>1
  <2>3. ASSUME NEW p \in Passes, ReadQueue(p)
        PROVE  Held
    <3> DEFINE toSync == {i \in Ids : queue[i].status \in {"pending", "syncing"}}
    <3>1. /\ pc[p] = "reading" /\ UNCHANGED broken
          /\ pc' = [pc EXCEPT ![p] = IF toSync = {} THEN "idle" ELSE "next"]
          /\ isSyncing' = (isSyncing \/ toSync # {})
      BY <2>3 DEF ReadQueue
    <3> HIDE DEF toSync
    <3>2. CASE toSync = {}
      <4>1. isSyncing' = isSyncing /\ pc' = [pc EXCEPT ![p] = "idle"]
        BY <3>1, <3>2 DEF TypeOK
      <4> QED
        BY <2>2, <3>1, <4>1
    <3>3. CASE toSync # {}
      BY <2>0, <3>1, <3>3
    <3> QED
      BY <3>2, <3>3
  <2>4. ASSUME NEW p \in Passes, StartPass(p)
        PROVE  Held
    BY <2>4 DEF StartPass
  <2>5. ASSUME NEW p \in Passes, NEW s \in {"next", "wait", "remove", "fail"},
               pc' = [pc EXCEPT ![p] = s]
        PROVE  Held
    BY <2>0, <2>5
  <2> HIDE DEF Held
  <2>6. ASSUME NEW p \in Passes, PassStep(p)
        PROVE  Held
    <3>1. ~Escape(p) /\ ~EndPass(p)
      BY DEF Escape, EndPass, FlagAfterPass
    <3>2. CASE MarkSyncing(p) \/ MarkFails(p) \/ Timeout(p) \/ RemoveItem(p) \/ RecordFailure(p)
      BY <2>5, <3>2 DEF MarkSyncing, MarkFails, Timeout, RemoveItem, RecordFailure
    <3>3. ASSUME NEW r \in Requests, Post(p, r) \/ Answer(p, r)
          PROVE  Held
      BY <2>5, <3>3 DEF Post, Answer
    <3> QED
      BY <2>3, <2>6, <3>1, <3>2, <3>3 DEF PassStep
  <2>7. ~Restart /\ ~Logout
    BY DEF Restart, Logout, Reload
  <2>8. Held
    BY <2>1, <2>4, <2>6, <2>7
       DEF Held, Next, vars, passes, Server, Enqueue, MountLayout, BeginRetry, SetPending,
           Receive, Insert, Refuse, Lose
  <2> QED
    BY <2>8 DEF Held
<1> QED
  BY <1>1, <1>2, Typing, PTL DEF Spec

-----------------------------------------------------------------------------
(* The outbox                                                              *)

(* A record that is stored stays what it is to the outbox, and a ghost is  *)
(* nothing to it.                                                          *)
LEMMA UpdateSteady ==
  ASSUME TypeOK, KindsFit, NEW i \in Ids, NEW status \in Stored, NEW n \in Nat, NEW j \in Ids
  PROVE  EntryOf(Update(i, status, n)[j]) = EntryOf(queue[j])
<1>1. ASSUME NEW k \in Ids, NEW rec, EntryOf(rec) = EntryOf(queue[k])
      PROVE  EntryOf([queue EXCEPT ![k] = rec][j]) = EntryOf(queue[j])
  BY <1>1 DEF TypeOK
<1>2. CASE queue[i].status \in Stored
  <2>1. Rec(queue[i].kind, status, n).kind = queue[i].kind
        /\ Rec(queue[i].kind, status, n).status = status
    BY DEF Rec
  <2>2. EntryOf(Rec(queue[i].kind, status, n)) = EntryOf(queue[i])
    BY <1>2, <2>1 DEF EntryOf
  <2> QED
    BY <1>1, <1>2, <2>2 DEF Update
<1>3. CASE queue[i].status \notin Stored /\ Fresh # {}
  <2>1. Oldest(Fresh) \in Fresh
    BY <1>3, OldestIn DEF Fresh
  <2>2. PICK k \in Ids : k = Oldest(Fresh) /\ queue[k].kind = "none"
    BY <2>1 DEF Fresh, KindsFit
  <2>3. Rec("ghost", status, n).kind = "ghost"
    BY DEF Rec
  <2>4. EntryOf(Rec("ghost", status, n)) = EntryOf(queue[k])
    BY <2>2, <2>3 DEF EntryOf, Forms
  <2> QED
    BY <1>1, <1>3, <2>2, <2>4 DEF Update
<1> QED
  BY <1>2, <1>3 DEF Update

LEMMA SetStatusSteady ==
  ASSUME TypeOK, KindsFit, NEW i \in Ids, NEW status \in Stored, NEW j \in Ids
  PROVE  EntryOf(SetStatus(i, status)[j]) = EntryOf(queue[j])
BY UpdateSteady, QueueFields DEF SetStatus

(* The entries as the outbox sees them, and what the server has recorded.  *)
entries == [i \in Ids |-> EntryOf(queue[i])]
onServer == {i \in Ids : rows[i] > 0}

(* What changes an entry: the form, the removal of a record, and logout.   *)
LEMMA EntrySteps ==
  ASSUME Shape, [Next]_vars,
         \A kind \in Kinds : ~Enqueue(kind), \A p \in Passes : ~RemoveItem(p), ~Logout
  PROVE  entries' = entries
<1> USE DEF Shape
<1> DEFINE Steady == \A j \in Ids : EntryOf(queue'[j]) = EntryOf(queue[j])
<1>1. CASE UNCHANGED queue
  BY <1>1 DEF entries
<1>2. ASSUME NEW p \in Passes, PassStep(p)
      PROVE  UNCHANGED queue \/ Steady
  <2>1. CASE MarkSyncing(p) \/ \E r \in Requests : Post(p, r)
    <3>1. Cur(p) \in Ids /\ queue' = SetStatus(Cur(p), "syncing")
      BY <2>1, CurType DEF MarkSyncing, Post
    <3> QED
      BY <3>1, SetStatusSteady DEF Stored
  <2>2. CASE RecordFailure(p)
    <3>1. Cur(p) \in Ids
      BY <2>2, CurType DEF RecordFailure, TodoUsed
    <3> QED
      BY <2>2, <3>1, CountType, UpdateSteady DEF RecordFailure
  <2> QED
    BY <1>2, <2>1, <2>2
       DEF PassStep, ReadQueue, MarkFails, Timeout, Answer, Escape, EndPass
<1>3. ASSUME NEW i \in Ids, SetPending(i)
      PROVE  Steady
  BY <1>3, SetStatusSteady DEF SetPending, Stored
<1>4. UNCHANGED queue \/ Steady
  BY <1>2, <1>3
     DEF Next, vars, StartPass, MountLayout, BeginRetry, Server, Receive, Insert, Refuse, Lose,
         Restart, Reload
<1> QED
  BY <1>1, <1>4 DEF entries

(* The server's steps record an entry the form has made.                   *)
LEMMA RecordSteps ==
  ASSUME Shape, RequestsFit, [Next]_vars, onServer' # onServer
  PROVE  \E i \in Ids : /\ entries[i] # "none" /\ entries' = entries
                        /\ onServer' = onServer \cup {i}
<1> USE DEF Shape
<1>1. PICK r \in Requests : Insert(r)
  BY RowsSteps DEF onServer
<1>2. PICK i \in Ids : i = req[r].id /\ queue[i].kind \in Forms
  BY <1>1, RequestFields DEF Insert, RequestsFit
<1>3. entries[i] # "none" /\ entries' = entries
  BY <1>1, <1>2 DEF Insert, entries, EntryOf
<1>4. /\ rows' = [rows EXCEPT ![i] = rows[i] + 1]
      /\ rows \in [Ids -> Nat]
  BY <1>1, <1>2 DEF Insert, TypeOK
<1>5. onServer' = onServer \cup {i}
  BY <1>4 DEF onServer
<1> QED
  BY <1>3, <1>5

(* The store implements the outbox: entries leave when they are recorded   *)
(* or by a logout, and never come back, whatever passes write over each    *)
(* other.                                                                  *)
THEOREM BoxImplemented == Spec => ImplementsOutbox
<1>1. Init => Box!Init
  <2> SUFFICES ASSUME Init PROVE Box!Init
    OBVIOUS
  <2>1. EntryOf(Unused) = "none"
    BY DEF EntryOf, Unused, Rec, Forms
  <2> QED
    BY <2>1 DEF Init, Box!Init
<1>2. DeliveryInv /\ [Next]_vars => [Box!Next]_<<entries, onServer>>
  <2> SUFFICES ASSUME DeliveryInv, [Next]_vars
               PROVE  [Box!Next]_<<entries, onServer>>
    OBVIOUS
  <2>0. Shape /\ RequestsFit
    BY DEF DeliveryInv
  <2>1. CASE onServer' # onServer
    <3>1. PICK i \in Ids : /\ entries[i] # "none" /\ entries' = entries
                          /\ onServer' = onServer \cup {i}
      BY <2>0, <2>1, RecordSteps
    <3>2. Box!Record(i)
      BY <3>1 DEF Box!Record, entries, onServer
    <3> QED
      BY <3>2 DEF Box!Next
  <2>2. ASSUME NEW kind \in Kinds, Enqueue(kind)
        PROVE  Box!Next
    <3>1. Oldest(Fresh) \in Fresh
      BY <2>2, OldestIn DEF Enqueue, Fresh
    <3>2. PICK i \in Ids : i = Oldest(Fresh) /\ queue[i].kind = "none"
      BY <2>0, <3>1 DEF Fresh, Shape, KindsFit
    <3>3. Rec(kind, "pending", 0).kind = kind /\ Rec(kind, "pending", 0).status = "pending"
      BY DEF Rec
    <3>4. EntryOf(Rec(kind, "pending", 0)) = "queued" /\ EntryOf(queue[i]) = "none"
      BY <3>2, <3>3, KindsType DEF EntryOf, Forms, Stored
    <3>5. queue' = [queue EXCEPT ![i] = Rec(kind, "pending", 0)] /\ queue \in [Ids -> Record]
      BY <2>0, <2>2, <3>2 DEF Enqueue, Shape, TypeOK
    <3>6. entries' = [entries EXCEPT ![i] = "queued"]
      BY <3>4, <3>5 DEF entries
    <3>7. entries[i] = "none" /\ onServer' = onServer
      BY <2>2, <3>4 DEF entries, onServer, Enqueue
    <3>8. Box!Enter(i)
      BY <3>6, <3>7 DEF Box!Enter, entries, onServer
    <3> QED
      BY <3>8 DEF Box!Next
  <2>3. ASSUME NEW p \in Passes, RemoveItem(p)
        PROVE  [Box!Next]_<<entries, onServer>>
    <3>1. PICK i \in Ids : i = Cur(p)
      BY <2>0, <2>3, RemoveChanges
    <3>2. onServer' = onServer /\ queue \in [Ids -> Record]
      BY <2>0, <2>3 DEF RemoveItem, onServer, Shape, TypeOK
    <3>3. CASE queue' = queue
      BY <3>2, <3>3 DEF entries
    <3>4. CASE queue[i].status \in Stored /\ queue' = [queue EXCEPT ![i] =
                  Rec(queue[i].kind, "gone", queue[i].retries)]
      <4> DEFINE new == Rec(queue[i].kind, "gone", queue[i].retries)
      <4>1. new.kind = queue[i].kind /\ new.status = "gone"
        BY DEF Rec
      <4>2. queue' = [queue EXCEPT ![i] = new]
        BY <3>4
      <4> HIDE DEF new
      <4>3. CASE queue[i].kind \in Forms
        <5>1. EntryOf(new) = "delivered" /\ EntryOf(queue[i]) = "queued"
          BY <3>4, <4>1, <4>3 DEF EntryOf, Stored
        <5>2. entries' = [entries EXCEPT ![i] = "delivered"] /\ entries[i] = "queued"
          BY <3>2, <4>2, <5>1 DEF entries
        <5>3. i \in onServer
          BY <2>3, <3>1, <4>3 DEF DeliveryInv, RemovingWasRecorded, RemoveItem, onServer
        <5>4. Box!Deliver(i)
          BY <3>2, <5>2, <5>3 DEF Box!Deliver, entries, onServer
        <5> QED
          BY <5>4 DEF Box!Next
      <4>4. CASE queue[i].kind \notin Forms
        <5>1. EntryOf(new) = EntryOf(queue[i])
          BY <4>1, <4>4 DEF EntryOf
        <5>2. entries' = entries
          BY <3>2, <4>2, <5>1 DEF entries
        <5> QED
          BY <3>2, <5>2
      <4> QED
        BY <4>3, <4>4
    <3> QED
      BY <2>3, <3>1, <3>3, <3>4 DEF RemoveItem, Remove, Removed
  <2>4. ASSUME Logout
        PROVE  Box!Next
    <3>1. /\ queue' = [i \in Ids |-> IF queue[i].status \in Stored
                          THEN Rec(queue[i].kind, "cleared", queue[i].retries) ELSE queue[i]]
          /\ onServer' = onServer
      BY <2>4 DEF Logout, Reload, onServer
    <3>2. ASSUME NEW i \in Ids
          PROVE  EntryOf(queue'[i]) =
                    IF EntryOf(queue[i]) = "queued" THEN "cleared" ELSE EntryOf(queue[i])
      <4>1. CASE queue[i].status \in Stored
        <5>1. queue'[i].kind = queue[i].kind /\ queue'[i].status = "cleared"
          BY <3>1, <4>1 DEF Rec
        <5> QED
          BY <4>1, <5>1 DEF EntryOf, Stored
      <4>2. CASE queue[i].status \notin Stored
        BY <3>1, <4>2 DEF EntryOf
      <4> QED
        BY <4>1, <4>2
    <3>3. entries' = [i \in Ids |-> IF entries[i] = "queued" THEN "cleared" ELSE entries[i]]
      BY <3>2 DEF entries
    <3>4. Box!Clear
      BY <3>1, <3>3 DEF Box!Clear, entries, onServer
    <3> QED
      BY <3>4 DEF Box!Next
  <2> QED
    BY <2>0, <2>1, <2>2, <2>3, <2>4, EntrySteps
<1> QED
  BY <1>1, <1>2, DeliveryAlways, PTL DEF Spec, ImplementsOutbox, Box!Spec, entries, onServer

-----------------------------------------------------------------------------
(* One key                                                                 *)

LEMMA RowsFitStep ==
  ASSUME Shape, RequestsFit, RowsFit, [Next]_vars
  PROVE  RowsFit'
<1> USE DEF Shape
<1> SUFFICES ASSUME NEW i \in Ids, rows'[i] > 0
             PROVE  queue'[i].kind \in Forms
  BY DEF RowsFit
<1>1. queue[i].kind \in Forms
  <2>1. CASE rows'[i] = rows[i]
    BY <2>1 DEF RowsFit
  <2>2. ASSUME NEW r \in Requests, Insert(r), req[r].id = i
        PROVE  queue[i].kind \in Forms
    BY <2>2, RequestFields DEF Insert, RequestsFit
  <2> QED
    BY <2>1, <2>2, RowsSteps
<1> QED
  BY <1>1, KindsLast DEF Forms

(* Which requests are inside createSale after its check.                   *)
LEMMA CheckedSteps ==
  ASSUME Shape, [Next]_vars, NEW r \in Requests, req'[r].state = "checked"
  PROVE  /\ req[r] # Idle
         /\ req'[r].id = req[r].id
         /\ \/ req[r].state = "checked" /\ ~Insert(r)
            \/ Receive(r) /\ ~Known(req[r].id)
<1> USE DEF Shape
<1>1. req'[r] # Idle
  BY DEF Idle
<1>2. ASSUME NEW p \in Passes, Post(p, r), req'[r] = Asked(Cur(p), p, "sent")
      PROVE  FALSE
  BY <1>2, CurType, AskedFields DEF Post, Phase
<1>3. req[r] # Idle /\ req'[r].id = req[r].id
  BY <1>1, <1>2, RequestSteps DEF Goes
<1>4. ~Insert(r)
  <2> SUFFICES ASSUME Insert(r)
               PROVE  FALSE
    OBVIOUS
  <2>1. req'[r] = InFlight(req[r].id, req[r].pass, "accepted")
    BY DEF Insert, TypeOK
  <2>2. req'[r].state = "accepted"
    BY <1>1, <1>3, <2>1, InFlightGoes DEF Phase
  <2> QED
    BY <2>2
<1>5. CASE Receive(r)
  <2>1. ASSUME Known(req[r].id)
        PROVE  FALSE
    <3>1. req'[r] = InFlight(req[r].id, req[r].pass, "accepted")
      BY <1>5, <2>1 DEF Receive, TypeOK
    <3>2. req'[r].state = "accepted"
      BY <1>1, <1>3, <3>1, InFlightGoes DEF Phase
    <3> QED
      BY <3>2
  <2> QED
    BY <1>3, <1>5, <2>1
<1>6. CASE req'[r].state \in {req[r].state, "sent", "refused"}
  BY <1>3, <1>4, <1>6
<1> QED
  BY <1>1, <1>4, <1>5, <1>6, StateSteps

LEMMA CheckedFinite ==
  ASSUME NEW S \in SUBSET Requests
  PROVE  /\ IsFiniteSet(S)
         /\ Cardinality(S) \in Nat
         /\ Cardinality(S) <= Cardinality(Requests)
BY RequestsFinite, FS_Subset, FS_CardinalityType

LEMMA KeyStep ==
  ASSUME Shape, RequestsFit, RowsFit, SalesPerKeyBounded, [Next]_vars
  PROVE  SalesPerKeyBounded'
<1> USE DEF Shape
<1> DEFINE Checked(i) == {r \in Requests : req[r].state = "checked" /\ req[r].id = i}
           After(i) == {r \in Requests : req'[r].state = "checked" /\ req'[r].id = i}
<1> SUFFICES ASSUME NEW i \in Ids, queue'[i].kind = "sale"
             PROVE  rows'[i] + Cardinality(After(i)) <= Cardinality(Requests)
  BY DEF SalesPerKeyBounded, CheckedFor
<1>1. /\ Checked(i) \in SUBSET Requests
      /\ After(i) \in SUBSET Requests
  OBVIOUS
<1>2. /\ IsFiniteSet(Checked(i)) /\ Cardinality(Checked(i)) \in Nat
      /\ IsFiniteSet(After(i)) /\ Cardinality(After(i)) \in Nat
      /\ Cardinality(After(i)) <= Cardinality(Requests)
      /\ Cardinality(Requests) \in Nat
  <2>1. Requests \in SUBSET Requests
    OBVIOUS
  <2> HIDE DEF Checked, After
  <2> QED
    BY <1>1, <2>1, CheckedFinite
<1>3. rows[i] \in Nat /\ rows'[i] \in Nat
  BY OtherTypes DEF TypeOK
<1>4. CASE queue[i].kind = "none"
  <2>1. rows'[i] = 0
    <3>1. rows[i] = 0
      BY <1>3, <1>4 DEF RowsFit, Forms
    <3>2. ASSUME NEW r \in Requests, Insert(r), req[r].id = i
          PROVE  FALSE
      BY <1>4, <3>2, RequestFields DEF Insert, RequestsFit, Forms
    <3> QED
      BY <3>1, <3>2, RowsSteps
  <2>2. After(i) = {}
    <3> SUFFICES ASSUME NEW r \in Requests, req'[r].state = "checked", req'[r].id = i
                 PROVE  FALSE
      OBVIOUS
    <3>1. req[r] # Idle /\ req[r].id = i
      BY CheckedSteps
    <3> QED
      BY <1>4, <3>1 DEF RequestsFit, Forms
  <2>3. Cardinality({}) = 0
    BY FS_EmptySet
  <2> HIDE DEF After
  <2> QED
    BY <1>2, <2>1, <2>2, <2>3
<1>5. CASE queue[i].kind # "none"
  <2>1. queue[i].kind = "sale"
    BY <1>5, KindsLast
  <2>2. rows[i] + Cardinality(Checked(i)) <= Cardinality(Requests)
    BY <2>1 DEF SalesPerKeyBounded, CheckedFor
  <2>3. CASE \E r \in Requests : Receive(r) /\ ~Known(req[r].id) /\ req[r].id = i
    <3>1. rows[i] = 0
      BY <1>3, <2>1, <2>3 DEF Known
    <3>2. rows' = rows
      BY <2>3 DEF Receive
    <3> HIDE DEF Checked, After
    <3> QED
      BY <1>2, <3>1, <3>2
  <2>4. CASE ~\E r \in Requests : Receive(r) /\ ~Known(req[r].id) /\ req[r].id = i
    <3>1. \A r \in After(i) : r \in Checked(i) /\ ~Insert(r)
      BY <2>4, CheckedSteps
    <3>2. CASE rows'[i] = rows[i]
      <4>1. After(i) \subseteq Checked(i)
        BY <3>1
      <4> HIDE DEF Checked, After
      <4>2. Cardinality(After(i)) <= Cardinality(Checked(i))
        BY <1>2, <4>1, FS_Subset
      <4> QED
        BY <1>2, <1>3, <2>2, <3>2, <4>2
    <3>3. ASSUME NEW r \in Requests, Insert(r), req[r].id = i
          PROVE  rows'[i] + Cardinality(After(i)) <= Cardinality(Requests)
      <4>1. r \in Checked(i)
        BY <3>3 DEF Insert
      <4>2. After(i) \subseteq Checked(i) \ {r}
        BY <3>1, <3>3
      <4>3. rows'[i] = rows[i] + 1
        BY <3>3, InsertRows
      <4> HIDE DEF Checked, After
      <4>4. /\ IsFiniteSet(Checked(i) \ {r})
            /\ Cardinality(Checked(i) \ {r}) = Cardinality(Checked(i)) - 1
        BY <1>2, <4>1, FS_RemoveElement
      <4>5. Cardinality(After(i)) <= Cardinality(Checked(i) \ {r})
        BY <4>2, <4>4, FS_Subset
      <4> QED
        BY <1>2, <1>3, <2>2, <4>3, <4>4, <4>5
    <3> QED
      BY <3>2, <3>3, RowsSteps
  <2> QED
    BY <2>3, <2>4
<1> QED
  BY <1>4, <1>5

(* The key of a sale gives at most as many invoices as createSale has      *)
(* requests inside it at once: with one, exactly-once.                     *)
THEOREM KeysBoundSales == Spec => []SalesPerKeyBounded
<1>1. Init => KeyInv
  <2> SUFFICES ASSUME Init
               PROVE  KeyInv
    OBVIOUS
  <2>1. RowsFit
    BY DEF Init, RowsFit
  <2>2. SalesPerKeyBounded
    BY DEF Init, SalesPerKeyBounded, Unused, Rec
  <2> QED
    BY <2>1, <2>2, InitShape, InitRequests DEF KeyInv
<1>2. KeyInv /\ [Next]_vars => KeyInv'
  <2> SUFFICES ASSUME KeyInv, [Next]_vars
               PROVE  KeyInv'
    OBVIOUS
  <2> QED
    BY NextShape, NextRequests, RowsFitStep, KeyStep DEF KeyInv
<1>3. KeyInv => SalesPerKeyBounded
  BY DEF KeyInv
<1> QED
  BY <1>1, <1>2, <1>3, PTL DEF Spec

(* A sale has at most one invoice, and when synchronisation has removed it *)
(* from the phone, one.                                                    *)
ExactlyOnce ==
    \A i \in Ids : queue[i].kind = "sale" =>
        /\ rows[i] <= 1
        /\ queue[i].status = "gone" => rows[i] = 1

(* When requests reach createSale one after another, a sale is invoiced    *)
(* exactly once, over all retries, lost answers, restarts and passes that  *)
(* overlap.  A second invoice needs two requests behind its plain SELECT.  *)
THEOREM OneByOne ==
  ASSUME NEW r, Requests = {r}
  PROVE  Spec => []ExactlyOnce
<1>1. Cardinality(Requests) = 1
  BY FS_Singleton
<1>2. ASSUME TypeOK, RemovedWasRecorded, SalesPerKeyBounded, NEW i \in Ids, queue[i].kind = "sale"
      PROVE  /\ rows[i] <= 1
             /\ queue[i].status = "gone" => rows[i] = 1
  <2>1. Cardinality(CheckedFor(i)) \in Nat
    <3>1. CheckedFor(i) \subseteq Requests
      BY DEF CheckedFor
    <3>2. IsFiniteSet(Requests)
      BY FS_Singleton
    <3>3. IsFiniteSet(CheckedFor(i))
      BY <3>1, <3>2, FS_Subset
    <3> QED
      BY <3>3, FS_CardinalityType
  <2>2. rows[i] \in Nat
    BY <1>2 DEF TypeOK
  <2>3. rows[i] + Cardinality(CheckedFor(i)) <= 1
    BY <1>1, <1>2 DEF SalesPerKeyBounded
  <2>4. queue[i].status = "gone" => rows[i] > 0
    BY <1>2 DEF RemovedWasRecorded, Forms
  <2> QED
    BY <2>1, <2>2, <2>3, <2>4
<1>3. TypeOK /\ RemovedWasRecorded /\ SalesPerKeyBounded => ExactlyOnce
  BY <1>2 DEF ExactlyOnce
<1> QED
  BY <1>3, Typing, NothingIsLost, KeysBoundSales, PTL
=============================================================================
