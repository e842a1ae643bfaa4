--------------------------- MODULE MCOfflineSync ---------------------------
(* Instances of OfflineSync for TLC.  Passes and requests are              *)
(* interchangeable: no operator chooses among them.                        *)
EXTENDS OfflineSync, TLC

MCSymmetry == Permutations(Passes) \cup Permutations(Requests)
=============================================================================
