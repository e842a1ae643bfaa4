------------------------------- MODULE Outbox -------------------------------
(***************************************************************************)
(* What the offline queue of the SR's app promises: an entry made without  *)
(* network waits on the phone until the server has recorded it.  It leaves *)
(* by that or by a logout, and does not come back.  The server may record  *)
(* it more than once, and after a logout still, when a request is late.    *)
(***************************************************************************)
CONSTANT Ids            \* entries the forms may make

VARIABLES
    entry,              \* what has become of each entry
    recorded            \* entries the server has recorded

Init ==
    /\ entry = [i \in Ids |-> "none"]
    /\ recorded = {}

Enter(i) ==
    /\ entry[i] = "none"
    /\ entry' = [entry EXCEPT ![i] = "queued"]
    /\ UNCHANGED recorded

Record(i) ==
    /\ entry[i] # "none"
    /\ recorded' = recorded \cup {i}
    /\ UNCHANGED entry

Deliver(i) ==
    /\ entry[i] = "queued"
    /\ i \in recorded
    /\ entry' = [entry EXCEPT ![i] = "delivered"]
    /\ UNCHANGED recorded

Clear ==
    /\ entry' = [i \in Ids |-> IF entry[i] = "queued" THEN "cleared" ELSE entry[i]]
    /\ UNCHANGED recorded

Next ==
    \/ \E i \in Ids : Enter(i) \/ Record(i) \/ Deliver(i)
    \/ Clear

Spec == Init /\ [][Next]_<<entry, recorded>>
=============================================================================
