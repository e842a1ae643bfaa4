-------------------------------- MODULE Sums --------------------------------
(***************************************************************************)
(* The SUM(...) of a database column.                                      *)
(*                                                                         *)
(* A column of natural numbers over a finite set of rows is a function f;  *)
(* its total counts the units <<row, i>> with i \in 1..f[row].  Counting   *)
(* (instead of folding) makes Total a plain definition, so its facts are   *)
(* theorems about cardinalities (module SumsProofs).                       *)
(***************************************************************************)
EXTENDS Integers, FiniteSets

Units(f) == UNION {{x} \X (1..f[x]) : x \in DOMAIN f}

Total(f) == Cardinality(Units(f))
=============================================================================
