------------------------------- MODULE Forks -------------------------------
(***************************************************************************)
(* The round table of directory 8: philosopher p sits between fork p and   *)
(* fork (p + 1) % N.  The programs have N = 5.                             *)
(***************************************************************************)
EXTENDS Naturals

CONSTANT N

ASSUME ForksAssumption == N \in Nat /\ N >= 2

Phils == 0..(N-1)
Left(p)  == p
Right(p) == IF p = N-1 THEN 0 ELSE p + 1
ForksOf(p) == {Left(p), Right(p)}
=============================================================================
