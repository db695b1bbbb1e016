------------------------------ MODULE MCBihash ------------------------------
(***************************************************************************)
(* Instances of Bihash for TLC.  Keys a and b collide on every hash bit, c *)
(* shares their bucket, d is alone in the other one.                       *)
(***************************************************************************)
EXTENDS Bihash

MCBucketOf == [k \in Keys |-> IF k = "d" THEN 2 ELSE 1]
MCPageHash == [k \in Keys |-> CASE k = "a" -> 1 [] k = "b" -> 1 [] k = "c" -> 3
                                [] OTHER -> 0]
MCBudgets == {[t1 |-> 6, t2 |-> 0, r |-> 0], [t1 |-> 3, t2 |-> 2, r |-> 0],
              [t1 |-> 4, t2 |-> 0, r |-> 1], [t1 |-> 2, t2 |-> 1, r |-> 1]}
=============================================================================
