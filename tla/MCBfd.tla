------------------------------- MODULE MCBfd -------------------------------
(***************************************************************************)
(* Instances of Bfd for TLC: the two peers.                                *)
(***************************************************************************)
EXTENDS Bfd

CONSTANTS p1, p2
=============================================================================
