---------------------------- MODULE MCSettlement ----------------------------
(***************************************************************************)
(* Settlement for TLC, and the properties that the code's comments and     *)
(* tests state but its handlers do not keep.                               *)
(***************************************************************************)
EXTENDS Settlement, TLC

MCPrice == [p \in Products |-> 1]

(* Settlement rows and handlers are interchangeable.                       *)
Symmetry == Permutations(Settlements) \cup Permutations(Requests)

-----------------------------------------------------------------------------
(* settlementReturns.controller.js:153-155: a resolved discrepancy cannot  *)
(* be charged again, so clicking twice cannot add the dues twice.  The     *)
(* discrepancies of a settlement then never cost more than the SR claimed  *)
(* to have returned with it.                                               *)
ChargedOnce ==
    \A d \in Settlements :
        extra[d] <= Value([p \in Products |-> receipt[d][p].claimed])

(* settlement.controller.test.js:191: of 10 units taken, 6 sold and 2      *)
(* replaced, 2 are missing; settlement.controller.js:88-89 takes the units *)
(* that are in hand now for the units taken.  So on a day without          *)
(* replacements, a unit that is in hand when the day is settled and is     *)
(* neither returned nor carried forward is declared missing.               *)
MissingDeclared ==
    \A r \in Requests, p \in Products :
        req[r].kind = "settle" /\ req[r].day = today /\ replaced[p] = 0 =>
            req[r].taken[p] <= req[r].returned[p] + req[r].carried[p] + req[r].missing[p]
=============================================================================
