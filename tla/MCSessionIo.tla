---------------------------- MODULE MCSessionIo ----------------------------
(* Instances of SessionIo for TLC.                                         *)
EXTENDS SessionIo
=============================================================================
