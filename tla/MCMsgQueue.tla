----------------------------- MODULE MCMsgQueue -----------------------------
(***************************************************************************)
(* Model-checking instance of MsgQueue.                                    *)
(***************************************************************************)
EXTENDS MsgQueue, TLC

Symmetry == Permutations(Producers) \cup Permutations(Rings)
=============================================================================
