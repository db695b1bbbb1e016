----------------------------- MODULE MCBarrier -----------------------------
(***************************************************************************)
(* Model-checking instance of Barrier: a few workers, interchangeable in   *)
(* the runs that check safety only.                                        *)
(***************************************************************************)
EXTENDS Barrier, TLC

Symmetry == Permutations(Workers)
=============================================================================
