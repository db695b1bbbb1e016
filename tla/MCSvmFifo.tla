----------------------------- MODULE MCSvmFifo -----------------------------
(***************************************************************************)
(* Model-checking instance of SvmFifo.                                     *)
(***************************************************************************)
EXTENDS SvmFifo

Symmetry == Permutations(Chunks)
=============================================================================
