-------------------------------- MODULE Bfd --------------------------------
(***************************************************************************)
(* Bidirectional Forwarding Detection between two VPP peers: the session   *)
(* state machine, poll sequences that negotiate the intervals, the echo    *)
(* function, administrative changes, and deleting and re-creating a        *)
(* session, over a link that loses and reorders packets.  Time is          *)
(* abstract: a timer may expire at any moment, and intervals are small     *)
(* numbers that are only compared.  Every handler runs under bfd_lock.     *)
(***************************************************************************)
EXTENDS Integers, Sequences, FiniteSets, FiniteSetsExt, SequencesExt

CONSTANTS Sides,      \* the two peers
          TxIntervals, RxIntervals,  \* desired-min-tx and required-min-rx values
          SlowTx,     \* default_desired_min_tx: at least this while not up
          EchoRx,     \* min_required_min_rx_while_echo
          EchoSource, \* sides that have a usable echo source at first
          MaxNet,     \* periodic packets in flight in one direction, and answers
          Operated,   \* sides whose operator intervenes
          MaxChanges, \* how often
          MaxDisc     \* sessions a side creates, one after another

ASSUME BfdAssumption ==
  /\ IsFiniteSet(Sides) /\ Cardinality(Sides) = 2
  /\ EchoSource \subseteq Sides /\ Operated \subseteq Sides
  /\ TxIntervals \subseteq Nat \ {0} /\ TxIntervals # {}
  /\ RxIntervals \subseteq Nat /\ RxIntervals # {}
  /\ SlowTx \in Nat /\ EchoRx \in Nat /\ MaxNet \in Nat /\ MaxChanges \in Nat
  /\ MaxDisc \in Nat \ {0}

VARIABLES bs,      \* bs[s]: the session of side s
          net,     \* net[s]: packets on their way to s
          event,   \* event[s]: BFD_EVENT_CONFIG_CHANGED is signalled
          source,  \* source[s]: the echo source is usable
          changes, \* interventions so far
          calm,    \* nothing is lost and nobody interferes any more
          heard,   \* pairs of a session and the peer session that heard it
          crossed  \* sides that sent while a packet was on its way to them

vars == <<bs, net, event, source, changes, calm, heard, crossed>>

Other(s) == CHOOSE p \in Sides : p # s
NoDisc == 0
MaxOf(x, y) == IF x >= y THEN x ELSE y
Slower(b) == MaxOf(b.cfgTx, SlowTx)

\* bfd_set_defaults, then the parameters of bfd_udp_add_session and
\* bfd_session_start.  cut is history: a poll sequence of the session, or its
\* echo function, was given up since it last was down.
NewSession(disc, tx, rx) ==
  [st |-> "down", rst |-> "down", disc |-> disc, rdisc |-> NoDisc,
   poll |-> "no", wait |-> FALSE, cfgTx |-> tx, cfgRx |-> rx,
   effTx |-> SlowTx, effRx |-> rx, rTx |-> 0, rRx |-> 1, echo |-> FALSE,
   det |-> 0, cut |-> FALSE]

Init ==
  /\ bs = [s \in Sides |-> NewSession(1, Min(TxIntervals), Min(RxIntervals))]
  /\ net = [s \in Sides |-> <<>>]
  /\ event = [s \in Sides |-> FALSE]
  /\ source = [s \in Sides |-> s \in EchoSource]
  /\ changes = 0
  /\ calm = FALSE
  /\ heard = {}
  /\ crossed = {}

-----------------------------------------------------------------------------
(* Setters: each returns the session after it.                             *)

\* bfd_recalc_detection_time, without the constant detect multiplier
Recalc(b) == IF b.st \in {"init", "up"} THEN [b EXCEPT !.det = MaxOf(b.effRx, b.rTx)]
                                        ELSE b
SetEffective(b, tx, rx) == Recalc([b EXCEPT !.effTx = tx, !.effRx = rx])
SetRemoteRx(b, v) == IF b.rRx = v THEN b ELSE Recalc([b EXCEPT !.rRx = v])

\* bfd_on_state_change
OnStateChange(b) ==
  LET down == b.st \in {"admin", "down"}
      up == b.st = "up"
  IN  SetEffective([b EXCEPT !.echo = up /\ @, !.cut = ~down /\ @],
        IF down THEN Slower(b) ELSE b.cfgTx,
        IF down \/ (up /\ b.poll = "no") THEN b.cfgRx ELSE b.effRx)
SetState(b, st) == IF b.st = st THEN b ELSE OnStateChange([b EXCEPT !.st = st])

-----------------------------------------------------------------------------
(* Packets.                                                                *)

\* bfd_init_control_frame
Frame(b, poll, final) ==
  [st |-> b.st, my |-> b.disc, your |-> b.rdisc, tx |-> b.cfgTx,
   rx |-> IF b.echo THEN b.effRx ELSE b.cfgRx, poll |-> poll, final |-> final]

\* A packet enters the link, if it has room for one more of its kind.
Push(q, p) == IF Len(q) < (IF p.final THEN 2 * MaxNet ELSE MaxNet)
              THEN Append(q, p) ELSE q

EchoPossible(s, b) == b.st = "up" /\ b.rst = "up" /\ b.rdisc # NoDisc /\ source[s]

-----------------------------------------------------------------------------
(* Timers: bfd_on_timeout.                                                 *)

\* bfd_check_rx_timeout; why is "detect", "echo" or "none"
CheckRxTimeout(b, why) ==
  CASE why = "detect" -> SetRemoteRx(SetState([b EXCEPT !.rdisc = NoDisc], "down"), 1)
    [] why = "echo" -> SetState(b, "down")
    [] why = "none" -> b

\* An up session whose peer can echo switches to it and tells it in a poll.
SwitchOnEcho(s, b) ==
  IF b.poll = "no" /\ ~b.echo /\ EchoPossible(s, b)
  THEN SetEffective([b EXCEPT !.echo = TRUE, !.poll = "needed"],
                    b.effTx, MaxOf(EchoRx, b.cfgRx))
  ELSE b

\* bfd_send_periodic: may it send, and does this frame poll?
MaySend(b) == b.rRx # 0 \/ b.poll # "no"
StartPoll(b) == IF b.poll = "needed" /\ ~b.wait THEN [b EXCEPT !.poll = "running"] ELSE b
Polls(b) == b.poll \in {"running", "queued"}

\* bfd_send_echo switches the function off when it is no longer possible, or
\* when an echo cannot be transported.
SendEcho(s, b, sent) ==
  IF b.echo /\ ~(EchoPossible(s, b) /\ sent) THEN [b EXCEPT !.echo = FALSE, !.cut = TRUE]
                                             ELSE b

\* The timer of side s expires.  due: it is time to send; sent: an echo that
\* is due is transported.
OnTimeout(s, why, due) ==
  /\ \E sent \in IF calm THEN {TRUE} ELSE BOOLEAN :
     LET b0 == bs[s]
     IN  \E b1 \in {IF b0.st \in {"init", "up"} THEN CheckRxTimeout(b0, why) ELSE b0} :
         \E b2 \in {IF b0.st = "up" THEN SwitchOnEcho(s, b1) ELSE b1} :
         \E b3 \in {IF due /\ MaySend(b2) THEN StartPoll(b2) ELSE b2} :
           /\ bs' = [bs EXCEPT ![s] = IF b0.st = "up" THEN SendEcho(s, b3, sent) ELSE b3]
           /\ net' = IF due /\ MaySend(b2)
                     THEN [net EXCEPT ![Other(s)] = Push(@, Frame(b3, Polls(b3), FALSE))]
                     ELSE net
  /\ UNCHANGED <<event, source, changes, calm, heard>>

\* It is time to send, and nothing was missed.  On a calm link what a side has
\* sent, the answer to it, and what was on its way to the side when it sent
\* arrive before its next packet is due.  Packets of the two sides may cross.
Tick(s) ==
  /\ calm => /\ net[Other(s)] = <<>> /\ s \notin crossed
             /\ \A i \in DOMAIN net[s] : ~net[s][i].final
  /\ crossed' = IF calm /\ net[s] # <<>> THEN crossed \union {s} ELSE crossed
  /\ OnTimeout(s, "none", TRUE)

\* The detection time passed without a packet, or the echoes failed.
Expire(s) ==
  /\ ~calm /\ bs[s].st \in {"init", "up"}
  /\ \E due \in BOOLEAN :
       \/ OnTimeout(s, "detect", due)
       \/ bs[s].echo /\ OnTimeout(s, "echo", due)
  /\ UNCHANGED crossed

\* The round trip time before the next poll sequence has passed.
PollDelayOver(s) ==
  /\ bs[s].wait
  /\ bs' = [bs EXCEPT ![s].wait = FALSE]
  /\ UNCHANGED <<net, event, source, changes, calm, heard, crossed>>

-----------------------------------------------------------------------------
(* Packet receipt: bfd_udp_input.                                          *)

\* (mutant) looks every session up by the addresses
AcceptsAnyDisc(b, p) == p.your = NoDisc => p.st \in {"down", "admin"}

\* The session is found by its discriminator, or by the addresses when the
\* packet does not name one, which only a down peer may do.
Accepts(b, p) == IF p.your = NoDisc THEN p.st \in {"down", "admin"}
                                    ELSE p.your = b.disc

\* (mutant) the receive interval stays as it was before the poll sequence
OnFinalTxOnly(b) ==
  CASE b.poll = "running" /\ b.st = "up" ->
         SetEffective([b EXCEPT !.poll = "no"], b.cfgTx, b.effRx)
    [] b.poll = "running" /\ b.st # "up" -> [b EXCEPT !.poll = "no"]
    [] b.poll = "queued" -> [b EXCEPT !.poll = "needed", !.wait = TRUE]
    [] OTHER -> b

\* (mutant) a queued poll sequence is not moved on
OnFinalForgetsQueued(b) ==
  IF b.poll = "running" THEN [b EXCEPT !.poll = "no"] ELSE b

\* The final bit ends a poll sequence.
OnFinal(b) ==
  CASE b.poll = "running" /\ b.st = "up" ->
         SetEffective([b EXCEPT !.poll = "no"], b.cfgTx,
                      MaxOf(IF b.echo THEN EchoRx ELSE 0, b.cfgRx))
    [] b.poll = "running" /\ b.st # "up" -> [b EXCEPT !.poll = "no"]
    [] b.poll = "queued" -> [b EXCEPT !.poll = "needed", !.wait = TRUE]
    [] OTHER -> b

\* (mutant) an up session does not follow its peer down
NextStateStaysUp(b) ==
  CASE b.st = "admin" -> "admin"
    [] b.st # "admin" /\ b.rst = "admin" -> "down"
    [] b.st = "down" /\ b.rst = "down" -> "init"
    [] b.st = "down" /\ b.rst = "init" -> "up"
    [] b.st = "init" /\ b.rst \in {"init", "up"} -> "up"
    [] OTHER -> b.st

\* The state machine
NextState(b) ==
  CASE b.st = "admin" -> "admin"
    [] b.st # "admin" /\ b.rst = "admin" -> "down"
    [] b.st = "down" /\ b.rst = "down" -> "init"
    [] b.st = "down" /\ b.rst = "init" -> "up"
    [] b.st = "init" /\ b.rst \in {"init", "up"} -> "up"
    [] b.st = "up" /\ b.rst = "down" -> "down"
    [] OTHER -> b.st

\* bfd_consume_pkt: what the packet says, the final bit, the state machine
Learn(b, p) == SetRemoteRx([b EXCEPT !.rdisc = p.my, !.rst = p.st, !.rTx = p.tx], p.rx)

\* A packet with the poll bit is answered at once; that answer also ends
\* whatever poll sequence the session had itself (bfd_init_final_control_frame).
Answered(b) == [b EXCEPT !.poll = "no", !.cut = @ \/ b.poll # "no"]

Consume(s, p, rest) ==
  \E b1 \in {Learn(bs[s], p)} :
  \E b2 \in {IF p.final THEN OnFinal(b1) ELSE b1} :
  \E b3 \in {SetState(b2, NextState(b2))} :
    /\ bs' = [bs EXCEPT ![s] = IF p.poll THEN Answered(b3) ELSE b3]
    /\ net' = [net EXCEPT ![s] = rest, ![Other(s)] =
                 IF p.poll THEN Push(@, Frame(b3, FALSE, TRUE)) ELSE @]

Receive(s) ==
  /\ \E i \in IF calm THEN {1} \intersect DOMAIN net[s] ELSE DOMAIN net[s] :
       LET p == net[s][i]
           rest == RemoveAt(net[s], i)
       IN  IF Accepts(bs[s], p)
           THEN /\ Consume(s, p, rest)
                /\ heard' = heard \union {<<Other(s), p.my, bs[s].disc>>}
           ELSE net' = [net EXCEPT ![s] = rest] /\ UNCHANGED <<bs, heard>>
  /\ crossed' = crossed \ {s}
  /\ UNCHANGED <<event, source, changes, calm>>

-----------------------------------------------------------------------------
(* Configuration.                                                          *)

Intervention(s) ==
  ~calm /\ s \in Operated /\ changes < MaxChanges /\ changes' = changes + 1

\* bfd_session_set_params
PollFor(b) == CASE b.poll = "no" /\ b.st \in {"init", "up"} -> "needed"
                [] b.poll = "running" -> "queued"
                [] OTHER -> b.poll
SetParams(s) ==
  /\ Intervention(s)
  /\ \E tx \in TxIntervals, rx \in RxIntervals :
       /\ tx # bs[s].cfgTx \/ rx # bs[s].cfgRx
       /\ bs' = [bs EXCEPT ![s].poll = PollFor(bs[s]), ![s].cfgTx = tx, ![s].cfgRx = rx]
  /\ event' = [event EXCEPT ![s] = TRUE]
  /\ UNCHANGED <<net, source, calm, heard, crossed>>

\* bfd_on_config_change, in the bfd process
OnConfigChange(s) ==
  /\ event[s]
  /\ event' = [event EXCEPT ![s] = FALSE]
  /\ bs' = [bs EXCEPT ![s] = Recalc(@)]
  /\ UNCHANGED <<net, source, changes, calm, heard, crossed>>

\* bfd_session_set_flags
SetFlags(s) ==
  /\ Intervention(s)
  /\ \E st \in {"down", "admin"} : bs' = [bs EXCEPT ![s] = SetState(@, st)]
  /\ UNCHANGED <<net, event, source, calm, heard, crossed>>

\* bfd_udp_set_echo_source, bfd_udp_del_echo_source
SetEchoSource(s) ==
  /\ Intervention(s) /\ s \in EchoSource
  /\ source' = [source EXCEPT ![s] = ~@]
  /\ UNCHANGED <<bs, net, event, calm, heard, crossed>>

\* bfd_udp_add_session with any parameters
AddSession(disc) == {NewSession(disc, tx, rx) : tx \in TxIntervals, rx \in RxIntervals}

\* bfd_udp_del_session, then bfd_udp_add_session: a new session, with a new
\* discriminator.  Its parameters differ from the defaults (no multiplier is
\* zero), so that bfd_session_set_params signals the change.
Recreate(s) ==
  /\ Intervention(s) /\ bs[s].disc < MaxDisc
  /\ \E b \in AddSession(bs[s].disc + 1) : bs' = [bs EXCEPT ![s] = b]
  /\ event' = [event EXCEPT ![s] = TRUE]
  /\ UNCHANGED <<net, source, calm, heard, crossed>>

\* The link loses a packet.
Lose(s) ==
  /\ ~calm /\ net[s] # <<>>
  /\ net' = [net EXCEPT ![s] = Tail(@)]
  /\ UNCHANGED <<bs, event, source, changes, calm, heard, crossed>>

\* From here on the link works and keeps the order, packets come in time and
\* nobody intervenes.
CalmDown ==
  /\ ~calm
  /\ calm' = TRUE
  /\ UNCHANGED <<bs, net, event, source, changes, heard, crossed>>

Next ==
  \E s \in Sides :
    \/ Tick(s) \/ Expire(s) \/ PollDelayOver(s) \/ Receive(s) \/ SetParams(s)
    \/ OnConfigChange(s) \/ SetFlags(s) \/ SetEchoSource(s) \/ Recreate(s)
    \/ Lose(s)

Spec == Init /\ [][Next]_vars

\* The transmit timer of each side is armed again whenever it ran out, packets
\* on a working link arrive, and the bfd process handles its events.
FairSpec ==
  /\ Init /\ [][Next \/ CalmDown]_vars
  /\ \A s \in Sides : SF_vars(Tick(s))
  /\ \A s \in Sides : WF_vars(Receive(s))
  /\ WF_vars(\E s \in Sides : PollDelayOver(s) \/ OnConfigChange(s))

-----------------------------------------------------------------------------
States == {"admin", "down", "init", "up"}
Session ==
  [st : States, rst : States, disc : 1..MaxDisc, rdisc : 0..MaxDisc,
   poll : {"no", "needed", "running", "queued"}, wait : BOOLEAN,
   cfgTx : TxIntervals, cfgRx : RxIntervals,
   effTx : TxIntervals \union {SlowTx}, effRx : RxIntervals \union {EchoRx},
   rTx : TxIntervals \union {0}, rRx : RxIntervals \union {1, EchoRx},
   echo : BOOLEAN, det : Nat, cut : BOOLEAN]

\* Types; in particular an interval in use is one that was configured (or a
\* default), and one learnt from the peer is one the peer may ask for.
TypeOK ==
  /\ \A s \in Sides : bs[s] \in Session /\ Len(net[s]) <= 2 * MaxNet

\* The handshake is three-way: a session is up only if the very peer session
\* it names has heard this very session, whatever was lost, reordered, or sent
\* by or to a session that has since been deleted and re-created.
UpIsMutual ==
  \A s \in Sides : bs[s].st = "up" => <<s, bs[s].disc, bs[s].rdisc>> \in heard

\* When no poll sequence is due the intervals in use are the configured ones,
\* or those of the echo function, unless a poll sequence was given up.
InUse(b) == b.effTx = b.cfgTx /\ b.effRx = MaxOf(IF b.echo THEN EchoRx ELSE 0, b.cfgRx)
IntervalsSettled ==
  \A s \in Sides : bs[s].st = "up" /\ bs[s].poll = "no" /\ ~bs[s].cut => InUse(bs[s])

\* "if there were any pending, we already did that, thus we can clear any
\* pending poll needs": the same for every session.
PendingDone == \A s \in Sides : bs[s].st = "up" /\ bs[s].poll = "no" => InUse(bs[s])

\* "the timeouts are adjusted if required": once the parameters have been
\* exchanged, a session waits for at least as long as its peer may take.
DetectsInTime ==
  (/\ \A s \in Sides : /\ bs[s].st = "up" /\ bs[s].poll = "no" /\ net[s] = <<>>
                       /\ ~event[s] /\ ~bs[s].echo
   /\ \A s \in Sides : bs[s].rTx = bs[Other(s)].cfgTx)
  => \A s \in Sides : bs[s].det >= bs[Other(s)].cfgTx

\* Once the faults are over, two sessions that are not administratively down
\* come up and stay up, from whatever state the faults left them in.
Converges ==
  <>[](calm /\ (\A s \in Sides : bs[s].st # "admin") => \A s \in Sides : bs[s].st = "up")

\* Once the faults are over every poll sequence ends, queued ones too.
PollsEnd == <>[](calm => \A s \in Sides : bs[s].poll = "no")
=============================================================================
