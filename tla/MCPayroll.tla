----------------------------- MODULE MCPayroll -----------------------------
(***************************************************************************)
(* A day with up to two units sold, two handlers, two payslips, two        *)
(* references and two units of dues: a late sale, a salary cancelled and   *)
(* paid again, and a reference used twice all happen.  The first unit      *)
(* earns commission, the second takes the day to a slab whose rate is 0:   *)
(* a late sale lowers what the day earns, a late handler raises its row.   *)
(***************************************************************************)
EXTENDS Payroll, TLC

CONSTANTS h1, h2, s1, s2, d1, A, B

MCCommission == 0 :> 0 @@ 1 :> 1 @@ 2 :> 0

Symmetry ==
    {h @@ s @@ r : h \in Permutations(Handlers), s \in Permutations(Slips), r \in Permutations(Refs)}
=============================================================================
