----------------------------- MODULE BoundedFifo -----------------------------
(***************************************************************************)
(* What a message queue promises to the two sides: a channel of bounded    *)
(* capacity that loses, duplicates, reorders and changes nothing.          *)
(***************************************************************************)
EXTENDS Naturals, Sequences, FiniteSets

CONSTANTS
  Msgs,     \* the messages, each sent at most once
  Capacity  \* how many may be in the channel

VARIABLES
  chan,     \* accepted and not yet received
  received  \* received, in order

Used == {chan[i] : i \in DOMAIN chan} \cup {received[i] : i \in DOMAIN received}

Init == chan = << >> /\ received = << >>

Send(m) ==
  /\ m \notin Used
  /\ Len(chan) < Capacity
  /\ chan' = Append(chan, m)
  /\ UNCHANGED received

\* The receiver takes the n oldest messages at once.
Receive(n) ==
  /\ n <= Len(chan)
  /\ received' = received \o SubSeq(chan, 1, n)
  /\ chan' = SubSeq(chan, n + 1, Len(chan))

Next == (\E m \in Msgs : Send(m)) \/ (\E n \in 1 .. Capacity : Receive(n))

Spec == Init /\ [][Next]_<<chan, received>>
=============================================================================
