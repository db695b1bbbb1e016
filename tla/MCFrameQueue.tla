---------------------------- MODULE MCFrameQueue ----------------------------
(***************************************************************************)
(* Model-checking instance of FrameQueue: threads as model values, and how *)
(* many buffers each of them hands off.                                    *)
(***************************************************************************)
EXTENDS FrameQueue

CONSTANTS t1, t2

\* t1 hands off more than the other threads.
Mostly1(n, m) == [t \in Threads |-> IF t = t1 THEN n ELSE m]
TwoAndOne == Mostly1(2, 1)
ThreeAndOne == Mostly1(3, 1)
TwoEach == Mostly1(2, 2)
=============================================================================
