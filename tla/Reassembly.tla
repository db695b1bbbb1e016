----------------------------- MODULE Reassembly -----------------------------
(***************************************************************************)
(* What a stream fifo promises: a window of Size positions that starts at  *)
(* head.  Whatever arrives inside the window is kept; tail is always the   *)
(* first position that has not arrived; the reader takes bytes in order    *)
(* and never passes tail.  Positions are counted modulo W.                 *)
(***************************************************************************)
EXTENDS Integers, FiniteSets

CONSTANTS W, Size

VARIABLES head, tail, ahead   \* ahead: the positions beyond tail that arrived

At(p, n) == (p + n) % W

Fill == (tail - head) % W

\* The n positions that start at offset off from tail.
Span(off, n) == {At(tail, k) : k \in off .. off + n - 1}

\* How many positions from tail on are in S without a gap.
Run(S) == CHOOSE n \in 0 .. W :
            /\ \A k \in 0 .. n - 1 : At(tail, k) \in S
            /\ At(tail, n) \notin S

Init == head = 0 /\ tail = 0 /\ ahead = {}

Arrive == \E off \in 0 .. Size, n \in 1 .. Size :
            /\ Fill + off + n <= Size
            /\ LET all == ahead \cup Span(off, n) IN
               /\ tail' = At(tail, Run(all))
               /\ ahead' = all \ Span(0, Run(all))
            /\ UNCHANGED head

Take == \E n \in 1 .. Fill :
          /\ head' = At(head, n)
          /\ UNCHANGED <<tail, ahead>>

Next == Arrive \/ Take

Spec == Init /\ [][Next]_<<head, tail, ahead>>
=============================================================================
