----------------------------- MODULE BfdProofs -----------------------------
(***************************************************************************)
(* Proofs about Bfd, for any intervals and any bounds.                     *)
(***************************************************************************)
EXTENDS Bfd, NatLemmas, FiniteSetTheorems, SequenceTheorems, TLAPS

\* What a control packet can carry.
Packet ==
  [st : States, my : 1..MaxDisc, your : 0..MaxDisc, tx : TxIntervals,
   rx : RxIntervals \union {EchoRx}, poll : BOOLEAN, final : BOOLEAN]

-----------------------------------------------------------------------------
(* The operators.                                                          *)

\* The peer of the peer is the side itself.
LEMMA OtherSide ==
  ASSUME NEW s \in Sides
  PROVE  Other(s) \in Sides /\ Other(s) # s /\ Other(Other(s)) = s
<1>1. IsFiniteSet(Sides) /\ Cardinality(Sides) = 2
  BY BfdAssumption
<1>2. IsFiniteSet(Sides \ {s}) /\ Cardinality(Sides \ {s}) = 1
  BY <1>1, FS_RemoveElement
<1>3. PICK p : Sides \ {s} = {p}
  BY <1>2, FS_Singleton
<1>4. Other(s) = p
  BY <1>3 DEF Other
<1>5. Other(p) = s
  BY <1>3 DEF Other
<1> QED
  BY <1>3, <1>4, <1>5

\* Intervals are natural numbers.
LEMMA IntervalsNat ==
  /\ \A t \in TxIntervals \union {SlowTx, 0} : t \in Nat
  /\ \A r \in RxIntervals \union {EchoRx} : r \in Nat
  BY BfdAssumption

\* Taking a packet out of the link.
LEMMA RemoveAtType ==
  ASSUME NEW S, NEW q \in Seq(S), NEW i \in 1..Len(q)
  PROVE  RemoveAt(q, i) \in Seq(S) /\ Len(RemoveAt(q, i)) = Len(q) - 1
<1>1. /\ SubSeq(q, 1, i - 1) \in Seq(S)
      /\ Len(SubSeq(q, 1, i - 1)) = i - 1
  BY SubSeqProperties, ElementOfSeq, LenProperties
<1>2. /\ SubSeq(q, i + 1, Len(q)) \in Seq(S)
      /\ Len(SubSeq(q, i + 1, Len(q))) = Len(q) - i
  BY SubSeqProperties, ElementOfSeq, LenProperties
<1>3. Len(q) \in Nat
  BY LenProperties
<1>4. \A t, u \in Seq(S) : t \o u \in Seq(S) /\ Len(t \o u) = Len(t) + Len(u)
  BY ConcatProperties
<1>5. /\ RemoveAt(q, i) \in Seq(S)
      /\ Len(RemoveAt(q, i)) = (i - 1) + (Len(q) - i)
  BY <1>1, <1>2, <1>4, Zenon DEF RemoveAt
<1> QED
  BY <1>3, <1>5

\* Putting one in.
LEMMA PushType ==
  ASSUME NEW S, NEW q \in Seq(S), NEW p \in S, p \in Packet,
         Len(q) <= 2 * MaxNet
  PROVE  Push(q, p) \in Seq(S) /\ Len(Push(q, p)) <= 2 * MaxNet
  BY BfdAssumption, AppendProperties, LenProperties DEF Push, Packet

-----------------------------------------------------------------------------
(* The setters.                                                            *)

\* The larger of two intervals is one of them.
LEMMA MaxOfIn ==
  ASSUME NEW x, NEW y
  PROVE  MaxOf(x, y) \in {x, y}
  BY DEF MaxOf

\* Recalc only touches the detection time.
LEMMA RecalcType ==
  ASSUME NEW b \in Session
  PROVE  \E d \in Nat : Recalc(b) = [b EXCEPT !.det = d]
<1>1. b.effRx \in RxIntervals \union {EchoRx} /\ b.rTx \in TxIntervals \union {0}
  BY DEF Session
<1>2. b.effRx \in Nat /\ b.rTx \in Nat
  BY <1>1, IntervalsNat
<1>3. MaxOf(b.effRx, b.rTx) \in Nat
  BY <1>2, MaxOfIn
<1>4. b = [b EXCEPT !.det = b.det] /\ b.det \in Nat
  BY DEF Session
<1> QED
  BY <1>3, <1>4 DEF Recalc

\* c is b with the intervals tx and rx in use.
WithIntervals(b, tx, rx, c) ==
  \E d \in Nat : c = [b EXCEPT !.effTx = tx, !.effRx = rx, !.det = d]

\* bfd_set_effective_desired_min_tx/required_min_rx change the intervals in use
\* and the detection time, and nothing else.
LEMMA SetEffectiveType ==
  ASSUME NEW b \in Session,
         NEW tx \in TxIntervals \union {SlowTx}, NEW rx \in RxIntervals \union {EchoRx}
  PROVE  WithIntervals(b, tx, rx, SetEffective(b, tx, rx))
<1> DEFINE c == [b EXCEPT !.effTx = tx, !.effRx = rx]
<1>1. c \in Session
  BY DEF Session
<1>2. \A d : [c EXCEPT !.det = d] = [b EXCEPT !.effTx = tx, !.effRx = rx, !.det = d]
  BY DEF Session
<1> QED
  BY <1>1, <1>2, RecalcType DEF SetEffective, WithIntervals

\* bfd_set_remote_required_min_rx changes the peer's interval and the detection
\* time, and nothing else.
LEMMA SetRemoteRxType ==
  ASSUME NEW b \in Session, NEW v \in RxIntervals \union {1, EchoRx}
  PROVE  \E d \in Nat : SetRemoteRx(b, v) = [b EXCEPT !.rRx = v, !.det = d]
<1>1. [b EXCEPT !.rRx = v] \in Session
  BY DEF Session
<1>2. \A d : [[b EXCEPT !.rRx = v] EXCEPT !.det = d] = [b EXCEPT !.rRx = v, !.det = d]
  BY DEF Session
<1>3. b.rRx = v => b = [b EXCEPT !.rRx = v, !.det = b.det] /\ b.det \in Nat
  BY DEF Session
<1> QED
  BY <1>1, <1>2, <1>3, RecalcType DEF SetRemoteRx

-----------------------------------------------------------------------------
(* What every handler keeps of one session.                                *)

\* The echo function is off unless the session is up.
EchoOnlyUp(b) == b.st # "up" => ~b.echo

\* The session's part of IntervalsSettled.
Settled(b) == b.st = "up" /\ b.poll = "no" /\ ~b.cut => InUse(b)

Good(b) == b \in Session /\ EchoOnlyUp(b) /\ Settled(b)

\* Only the state and the peer's discriminator decide who is up with whom.
SameNames(b, c) == c.disc = b.disc /\ c.rdisc = b.rdisc

\* SetState gives the session the state, and settled intervals if that is up.
LEMMA SetStateKeeps ==
  ASSUME NEW b, Good(b), NEW st \in States
  PROVE  /\ Good(SetState(b, st)) /\ SameNames(b, SetState(b, st))
         /\ SetState(b, st).st = st
<1> DEFINE c == [b EXCEPT !.st = st]
           down == st \in {"admin", "down"}
           e == [c EXCEPT !.echo = (st = "up") /\ @, !.cut = ~down /\ @]
           tx == IF down THEN Slower(b) ELSE b.cfgTx
           rx == IF down \/ (st = "up" /\ b.poll = "no") THEN b.cfgRx ELSE b.effRx
<1>1. CASE b.st = st
  BY <1>1 DEF SetState, SameNames
<1>2. CASE b.st # st
  <2>1. e \in Session
    BY DEF Good, Session
  <2>2. b.cfgTx \in TxIntervals /\ b.cfgRx \in RxIntervals
        /\ b.effRx \in RxIntervals \union {EchoRx}
    BY DEF Good, Session
  <2>3. tx \in TxIntervals \union {SlowTx} /\ rx \in RxIntervals \union {EchoRx}
    BY <2>2, MaxOfIn DEF Slower
  <2>4. SetState(b, st) = SetEffective(e, tx, rx)
    BY <1>2 DEF SetState, OnStateChange, Slower, Good, Session
  <2>5. PICK d \in Nat :
          SetState(b, st) = [e EXCEPT !.effTx = tx, !.effRx = rx, !.det = d]
    <3> HIDE DEF e, tx, rx
    <3>1. WithIntervals(e, tx, rx, SetState(b, st))
      BY <2>1, <2>3, <2>4, SetEffectiveType, Zenon
    <3> QED
      BY <3>1 DEF WithIntervals
  <2>6. SetState(b, st) \in Session /\ SetState(b, st).st = st
        /\ SameNames(b, SetState(b, st))
    <3>1. e.st = st /\ SameNames(b, e)
      BY DEF Good, Session, SameNames
    <3> HIDE DEF e, tx, rx
    <3> QED
      BY <2>1, <2>3, <2>5, <3>1 DEF Session, SameNames
  <2>7. EchoOnlyUp(SetState(b, st))
    BY <2>5, <2>6, <2>1 DEF EchoOnlyUp, Session, Good
  <2>8. ASSUME st = "up", b.poll = "no"
        PROVE  InUse(SetState(b, st))
    <3>1. ~b.echo
      BY <1>2, <2>8 DEF Good, EchoOnlyUp
    <3>2. ~SetState(b, st).echo
      BY <2>1, <2>5, <3>1 DEF Session, Good
    <3>3. /\ SetState(b, st).effTx = b.cfgTx /\ SetState(b, st).effRx = b.cfgRx
          /\ SetState(b, st).cfgTx = b.cfgTx /\ SetState(b, st).cfgRx = b.cfgRx
      BY <2>1, <2>5, <2>8 DEF Session, Good
    <3>4. MaxOf(0, b.cfgRx) = b.cfgRx
      BY <2>2, IntervalsNat DEF MaxOf
    <3> QED
      BY <3>2, <3>3, <3>4 DEF InUse
  <2>9. SetState(b, st).poll = b.poll
    BY <2>1, <2>5 DEF Session, Good
  <2> QED
    BY <2>6, <2>7, <2>8, <2>9 DEF Good, Settled
<1> QED
  BY <1>1, <1>2

\* Timers.
LEMMA CheckRxTimeoutKeeps ==
  ASSUME NEW b, Good(b), NEW why \in {"detect", "echo", "none"}
  PROVE  LET c == CheckRxTimeout(b, why)
         IN  /\ Good(c) /\ c.disc = b.disc /\ c.rdisc \in {b.rdisc, NoDisc}
             /\ c.st = "up" => c = b
<1>1. CASE why = "detect"
  <2> DEFINE c == [b EXCEPT !.rdisc = NoDisc]
             e == SetState(c, "down")
  <2>1. Good(c) /\ c.disc = b.disc /\ c.rdisc = NoDisc
    BY BfdAssumption DEF Good, Session, NoDisc, EchoOnlyUp, Settled, InUse
  <2>2. Good(e) /\ SameNames(c, e) /\ e.st = "down"
    BY <2>1, SetStateKeeps DEF States
  <2>3. PICK d \in Nat : SetRemoteRx(e, 1) = [e EXCEPT !.rRx = 1, !.det = d]
    <3> HIDE DEF e
    <3>1. e \in Session /\ 1 \in RxIntervals \union {1, EchoRx}
      BY <2>2 DEF Good
    <3> QED
      BY <3>1, SetRemoteRxType, Zenon
  <2>4. CheckRxTimeout(b, why) = SetRemoteRx(e, 1)
    BY <1>1 DEF CheckRxTimeout
  <2> HIDE DEF e, c
  <2>5. /\ SetRemoteRx(e, 1) \in Session
        /\ SetRemoteRx(e, 1).st = "down" /\ SetRemoteRx(e, 1).echo = e.echo
        /\ SameNames(e, SetRemoteRx(e, 1))
    BY <2>2, <2>3 DEF Good, Session, SameNames
  <2> QED
    BY <2>1, <2>2, <2>4, <2>5 DEF Good, SameNames, EchoOnlyUp, Settled
<1>2. CASE why = "echo"
  BY <1>2, SetStateKeeps DEF CheckRxTimeout, States, SameNames
<1>3. CASE why = "none"
  BY <1>3 DEF CheckRxTimeout
<1> QED
  BY <1>1, <1>2, <1>3

\* Switching the echo function on, with its poll, keeps a session good.
LEMMA SwitchOnEchoKeeps ==
  ASSUME NEW s, NEW b, Good(b)
  PROVE  LET c == SwitchOnEcho(s, b)
         IN  Good(c) /\ SameNames(b, c) /\ c.st = b.st
<1>1. CASE b.poll = "no" /\ ~b.echo /\ EchoPossible(s, b)
  <2> DEFINE e == [b EXCEPT !.echo = TRUE, !.poll = "needed"]
  <2>1. e \in Session /\ b.st = "up"
    BY <1>1 DEF Good, Session, EchoPossible
  <2>2. b.effTx \in TxIntervals \union {SlowTx}
        /\ MaxOf(EchoRx, b.cfgRx) \in RxIntervals \union {EchoRx}
    BY MaxOfIn DEF Good, Session
  <2>3. SwitchOnEcho(s, b) = SetEffective(e, b.effTx, MaxOf(EchoRx, b.cfgRx))
    BY <1>1 DEF SwitchOnEcho
  <2>4. PICK d \in Nat : SwitchOnEcho(s, b) =
          [e EXCEPT !.effTx = b.effTx, !.effRx = MaxOf(EchoRx, b.cfgRx), !.det = d]
    <3> HIDE DEF e
    <3>1. WithIntervals(e, b.effTx, MaxOf(EchoRx, b.cfgRx), SwitchOnEcho(s, b))
      BY <2>1, <2>2, <2>3, SetEffectiveType, Zenon
    <3> QED
      BY <3>1 DEF WithIntervals
  <2> QED
    BY <2>1, <2>2, <2>4 DEF Good, Session, SameNames, EchoOnlyUp, Settled
<1>2. CASE ~(b.poll = "no" /\ ~b.echo /\ EchoPossible(s, b))
  BY <1>2 DEF SwitchOnEcho, SameNames
<1> QED
  BY <1>1, <1>2

\* Starting the poll sequence that is needed keeps a session good.
LEMMA StartPollKeeps ==
  ASSUME NEW b, Good(b)
  PROVE  LET c == StartPoll(b)
         IN  Good(c) /\ SameNames(b, c) /\ c.st = b.st
  BY DEF StartPoll, Good, Session, EchoOnlyUp, Settled, SameNames

\* Sending an echo packet, or switching the function off, keeps a session good.
LEMMA SendEchoKeeps ==
  ASSUME NEW s, NEW b, Good(b), NEW sent
  PROVE  LET c == SendEcho(s, b, sent)
         IN  Good(c) /\ SameNames(b, c) /\ c.st = b.st
<1>1. CASE b.echo /\ ~(EchoPossible(s, b) /\ sent)
  BY <1>1 DEF SendEcho, Good, Session, EchoOnlyUp, Settled, SameNames
<1>2. CASE ~(b.echo /\ ~(EchoPossible(s, b) /\ sent))
  BY <1>2 DEF SendEcho, SameNames
<1> QED
  BY <1>1, <1>2

\* Packets.
LEMMA LearnKeeps ==
  ASSUME NEW b, Good(b), NEW p \in Packet
  PROVE  LET c == Learn(b, p)
         IN  /\ Good(c) /\ c.disc = b.disc /\ c.rdisc = p.my
             /\ c.st = b.st /\ c.rst = p.st
<1> DEFINE e == [b EXCEPT !.rdisc = p.my, !.rst = p.st, !.rTx = p.tx]
<1>1. p.my \in 0..MaxDisc /\ p.st \in States /\ p.tx \in TxIntervals
      /\ p.rx \in RxIntervals \union {1, EchoRx}
  BY BfdAssumption DEF Packet
<1>2. e \in Session /\ Good(e)
  BY <1>1 DEF Good, Session, EchoOnlyUp, Settled, InUse
<1>3. e.disc = b.disc /\ e.rdisc = p.my /\ e.st = b.st /\ e.rst = p.st
  BY DEF Good, Session
<1> HIDE DEF e
<1>4. PICK d \in Nat : SetRemoteRx(e, p.rx) = [e EXCEPT !.rRx = p.rx, !.det = d]
  BY <1>1, <1>2, SetRemoteRxType, Zenon
<1>5. Good([e EXCEPT !.rRx = p.rx, !.det = d])
  <2> DEFINE g == [e EXCEPT !.rRx = p.rx, !.det = d]
  <2>1. g \in Session
    BY <1>1, <1>2 DEF Session
  <2>2. /\ g.st = e.st /\ g.poll = e.poll /\ g.cut = e.cut /\ g.echo = e.echo
        /\ g.effTx = e.effTx /\ g.cfgTx = e.cfgTx
        /\ g.effRx = e.effRx /\ g.cfgRx = e.cfgRx
    BY <1>2 DEF Session
  <2> HIDE DEF g
  <2>3. Good(g)
    BY <1>2, <2>1, <2>2 DEF Good, EchoOnlyUp, Settled, InUse
  <2> QED
    BY <2>3 DEF g
<1>6. Learn(b, p) = [e EXCEPT !.rRx = p.rx, !.det = d]
  BY <1>4 DEF Learn, e
<1> QED
  BY <1>2, <1>3, <1>5, <1>6 DEF Session

\* The end of a poll sequence keeps a session good: the intervals waited for are
\* in use now.
LEMMA OnFinalKeeps ==
  ASSUME NEW b, Good(b)
  PROVE  LET c == OnFinal(b)
         IN  Good(c) /\ SameNames(b, c) /\ c.st = b.st /\ c.rst = b.rst
<1>1. CASE b.poll = "running" /\ b.st = "up"
  <2> DEFINE e == [b EXCEPT !.poll = "no"]
             rx == MaxOf(IF b.echo THEN EchoRx ELSE 0, b.cfgRx)
  <2>1. e \in Session /\ b.cfgTx \in TxIntervals /\ b.cfgRx \in RxIntervals
    BY DEF Good, Session
  <2>2. rx \in RxIntervals \union {EchoRx}
    BY <2>1, IntervalsNat DEF MaxOf
  <2>3. OnFinal(b) = SetEffective(e, b.cfgTx, rx)
    BY <1>1 DEF OnFinal
  <2>4. WithIntervals(e, b.cfgTx, rx, OnFinal(b))
    <3> HIDE DEF e, rx
    <3> QED
      BY <2>1, <2>2, <2>3, SetEffectiveType
  <2>5. PICK d \in Nat :
          OnFinal(b) = [e EXCEPT !.effTx = b.cfgTx, !.effRx = rx, !.det = d]
    BY <2>4 DEF WithIntervals
  <2>6. OnFinal(b) \in Session /\ SameNames(b, OnFinal(b))
        /\ OnFinal(b).st = b.st /\ OnFinal(b).rst = b.rst
    BY <2>1, <2>2, <2>5 DEF Session, SameNames
  <2>7. /\ OnFinal(b).effTx = OnFinal(b).cfgTx /\ OnFinal(b).effRx = rx
        /\ OnFinal(b).cfgRx = b.cfgRx /\ OnFinal(b).echo = b.echo
    BY <2>1, <2>5 DEF Session
  <2> QED
    BY <1>1, <2>6, <2>7 DEF Good, EchoOnlyUp, Settled, InUse
<1>2. CASE b.poll = "running" /\ b.st # "up"
  BY <1>2 DEF OnFinal, Good, Session, EchoOnlyUp, Settled, SameNames
<1>3. CASE b.poll = "queued"
  BY <1>3 DEF OnFinal, Good, Session, EchoOnlyUp, Settled, SameNames
<1>4. CASE b.poll \notin {"running", "queued"}
  BY <1>4 DEF OnFinal, SameNames
<1> QED
  BY <1>1, <1>2, <1>3, <1>4

\* Answering the peer's poll keeps a session good.
LEMMA AnsweredKeeps ==
  ASSUME NEW b, Good(b)
  PROVE  LET c == Answered(b)
         IN  Good(c) /\ SameNames(b, c) /\ c.st = b.st
<1>1. CASE b.poll = "no"
  BY <1>1 DEF Answered, Good, Session, EchoOnlyUp, Settled, InUse, SameNames
<1>2. CASE b.poll # "no"
  BY <1>2 DEF Answered, Good, Session, EchoOnlyUp, Settled, SameNames
<1> QED
  BY <1>1, <1>2

\* A session only gets, or stays, up on a packet that names it.
LEMMA NextStateUp ==
  ASSUME NEW b \in Session
  PROVE  /\ NextState(b) \in States
         /\ NextState(b) = "up" => b.rst \in {"init", "up"}
  BY DEF NextState, Session, States

\* A new session is good, down, and knows nobody.
LEMMA NewSessionGood ==
  ASSUME NEW disc \in 1..MaxDisc, NEW tx \in TxIntervals, NEW rx \in RxIntervals
  PROVE  LET c == NewSession(disc, tx, rx)
         IN  Good(c) /\ c.st = "down" /\ c.rdisc = NoDisc
  BY BfdAssumption
     DEF NewSession, Good, Session, States, NoDisc, EchoOnlyUp, Settled

\* What a session sends carries its discriminator and the one it has heard.
LEMMA FrameType ==
  ASSUME NEW b \in Session, NEW poll \in BOOLEAN, NEW final \in BOOLEAN
  PROVE  LET p == Frame(b, poll, final)
         IN  p \in Packet /\ p.my = b.disc /\ p.your = b.rdisc
<1>1. (IF b.echo THEN b.effRx ELSE b.cfgRx) \in RxIntervals \union {EchoRx}
  BY DEF Session
<1> QED
  BY <1>1 DEF Frame, Packet, Session

-----------------------------------------------------------------------------
(* The inductive invariant.                                                *)

\* Packets to s that name a session of s were sent by one that heard it.
Truthful(s, h) == {p \in Packet : p.your # NoDisc => <<s, p.your, p.my>> \in h}

\* A session names a peer session only if it heard it.
Named(s, b, h) == b.rdisc # NoDisc => <<Other(s), b.rdisc, b.disc>> \in h

Sessions ==
  /\ bs \in [Sides -> Session]
  /\ \A s \in Sides : Good(bs[s]) /\ Named(s, bs[s], heard)

Links ==
  /\ net \in [Sides -> Seq(Packet)]
  /\ \A s \in Sides : net[s] \in Seq(Truthful(s, heard)) /\ Len(net[s]) <= 2 * MaxNet

Flags ==
  /\ event \in [Sides -> BOOLEAN] /\ source \in [Sides -> BOOLEAN]
  /\ changes \in Nat /\ calm \in BOOLEAN

IInv == Sessions /\ Links /\ Flags /\ UpIsMutual

\* The session of one side changes.
LEMMA SessionsStep ==
  ASSUME IInv, NEW s \in Sides, NEW c, bs' = [bs EXCEPT ![s] = c],
         heard \subseteq heard', Good(c), Named(s, c, heard'),
         c.st = "up" => <<s, c.disc, c.rdisc>> \in heard'
  PROVE  Sessions' /\ UpIsMutual'
<1>1. c \in Session
  BY DEF Good
<1>2. bs' \in [Sides -> Session]
  BY <1>1 DEF IInv, Sessions
<1>3. ASSUME NEW t \in Sides
      PROVE  /\ Good(bs'[t]) /\ Named(t, bs'[t], heard')
             /\ bs'[t].st = "up" => <<t, bs'[t].disc, bs'[t].rdisc>> \in heard'
  <2>1. CASE t = s
    <3>1. bs'[t] = c
      BY <2>1 DEF IInv, Sessions
    <3> QED
      BY <2>1, <3>1
  <2>2. CASE t # s
    <3>1. bs'[t] = bs[t]
      BY <2>2 DEF IInv, Sessions
    <3>2. /\ Good(bs[t]) /\ Named(t, bs[t], heard)
          /\ bs[t].st = "up" => <<t, bs[t].disc, bs[t].rdisc>> \in heard
      BY DEF IInv, Sessions, UpIsMutual
    <3> QED
      BY <3>1, <3>2 DEF Named
  <2> QED
    BY <2>1, <2>2
<1> QED
  BY <1>2, <1>3 DEF Sessions, UpIsMutual, Good, Named

\* A packet a session sends is truthful.
LEMMA FrameTruthful ==
  ASSUME NEW s \in Sides, NEW b \in Session, NEW h, Named(s, b, h),
         NEW poll \in BOOLEAN, NEW final \in BOOLEAN
  PROVE  /\ Frame(b, poll, final) \in Packet
         /\ Frame(b, poll, final) \in Truthful(Other(s), h)
  BY FrameType DEF Truthful, Named

\* More that was heard leaves packets truthful.
LEMMA TruthfulGrows ==
  ASSUME NEW s \in Sides, NEW h, NEW k, h \subseteq k, NEW q \in Seq(Truthful(s, h))
  PROVE  q \in Seq(Truthful(s, k))
<1>1. Truthful(s, h) \subseteq Truthful(s, k)
  BY DEF Truthful
<1> QED
  BY <1>1, SeqMonotonic

\* Truthful packets are packets.
LEMMA TruthfulPackets ==
  ASSUME NEW s \in Sides, NEW h, NEW q \in Seq(Truthful(s, h))
  PROVE  q \in Seq(Packet)
<1>1. Truthful(s, h) \subseteq Packet
  BY DEF Truthful
<1> QED
  BY <1>1, SeqMonotonic

\* What is on the links changes.
LEMMA LinksStep ==
  ASSUME DOMAIN net' = Sides, net' = [s \in Sides |-> net'[s]],
         \A s \in Sides : net'[s] \in Seq(Truthful(s, heard'))
                          /\ Len(net'[s]) <= 2 * MaxNet
  PROVE  Links'
<1>1. \A s \in Sides : net'[s] \in Seq(Packet)
  BY TruthfulPackets
<1> QED
  BY <1>1 DEF Links, Truthful, Packet

\* The timer expires.
LEMMA TimeoutStep ==
  ASSUME IInv, NEW s \in Sides, NEW why \in {"detect", "echo", "none"},
         NEW due \in BOOLEAN, OnTimeout(s, why, due)
  PROVE  IInv'
<1> DEFINE b0 == bs[s]
<1>1. /\ Good(b0) /\ Named(s, b0, heard)
      /\ b0.st = "up" => <<s, b0.disc, b0.rdisc>> \in heard
  BY DEF IInv, Sessions, UpIsMutual
<1>2. PICK sent, b1, b2, b3 :
        /\ b1 = IF b0.st \in {"init", "up"} THEN CheckRxTimeout(b0, why) ELSE b0
        /\ b2 = IF b0.st = "up" THEN SwitchOnEcho(s, b1) ELSE b1
        /\ b3 = IF due /\ MaySend(b2) THEN StartPoll(b2) ELSE b2
        /\ bs' = [bs EXCEPT ![s] = IF b0.st = "up" THEN SendEcho(s, b3, sent) ELSE b3]
        /\ net' = IF due /\ MaySend(b2)
                  THEN [net EXCEPT ![Other(s)] = Push(@, Frame(b3, Polls(b3), FALSE))]
                  ELSE net
  BY Zenon DEF OnTimeout
<1>3. heard' = heard /\ Flags'
  BY DEF OnTimeout, IInv, Flags
<1>4. /\ Good(b1) /\ b1.disc = b0.disc /\ b1.rdisc \in {b0.rdisc, NoDisc}
      /\ b1.st = "up" => b1 = b0
  BY <1>1, <1>2, CheckRxTimeoutKeeps
<1>5. Good(b2) /\ SameNames(b1, b2) /\ b2.st = b1.st
  BY <1>2, <1>4, SwitchOnEchoKeeps DEF SameNames
<1>6. Good(b3) /\ SameNames(b2, b3) /\ b3.st = b2.st
  BY <1>2, <1>5, StartPollKeeps DEF SameNames
<1> DEFINE b4 == IF b0.st = "up" THEN SendEcho(s, b3, sent) ELSE b3
<1>7. Good(b4) /\ SameNames(b3, b4) /\ b4.st = b3.st
  BY <1>6, SendEchoKeeps DEF SameNames
<1>8. /\ Named(s, b3, heard) /\ Named(s, b4, heard)
      /\ b4.st = "up" => <<s, b4.disc, b4.rdisc>> \in heard
  BY <1>1, <1>4, <1>5, <1>6, <1>7 DEF Named, SameNames
<1>9. Sessions' /\ UpIsMutual'
  <2>1. bs' = [bs EXCEPT ![s] = b4]
    BY <1>2
  <2> HIDE DEF b4
  <2> QED
    BY <1>3, <1>7, <1>8, <2>1, SessionsStep
<1>10. Links'
  <2> DEFINE o == Other(s)
             f == Frame(b3, Polls(b3), FALSE)
  <2>1. o \in Sides /\ net \in [Sides -> Seq(Packet)]
        /\ \A t \in Sides : net[t] \in Seq(Truthful(t, heard)) /\ Len(net[t]) <= 2 * MaxNet
    BY OtherSide DEF IInv, Links
  <2>2. f \in Packet /\ f \in Truthful(o, heard)
    <3>1. b3 \in Session /\ Polls(b3) \in BOOLEAN /\ FALSE \in BOOLEAN
      BY <1>6 DEF Good, Polls
    <3> QED
      BY <1>8, <3>1, FrameTruthful, Zenon
  <2>3. Push(net[o], f) \in Seq(Truthful(o, heard)) /\ Len(Push(net[o], f)) <= 2 * MaxNet
    <3> HIDE DEF o, f
    <3> QED
      BY <2>1, <2>2, PushType
  <2>4. net' = [net EXCEPT ![o] = Push(net[o], f)] \/ net' = net
    BY <1>2
  <2> HIDE DEF o, f
  <2>5. DOMAIN net' = Sides /\ net' = [t \in Sides |-> net'[t]]
    BY <2>1, <2>4
  <2>6. ASSUME NEW t \in Sides
        PROVE  net'[t] \in Seq(Truthful(t, heard')) /\ Len(net'[t]) <= 2 * MaxNet
    BY <1>3, <2>1, <2>3, <2>4
  <2> QED
    BY <2>5, <2>6, LinksStep
<1> QED
  BY <1>3, <1>9, <1>10 DEF IInv

\* A packet is accepted.
LEMMA ConsumeStep ==
  ASSUME IInv, NEW s \in Sides, NEW i \in 1..Len(net[s]),
         Accepts(bs[s], net[s][i]), Consume(s, net[s][i], RemoveAt(net[s], i)),
         heard' = heard \union {<<Other(s), net[s][i].my, bs[s].disc>>}
  PROVE  Sessions' /\ UpIsMutual' /\ Links'
<1> DEFINE p == net[s][i]
           o == Other(s)
           rest == RemoveAt(net[s], i)
<1>1. Good(bs[s]) /\ p \in Packet /\ p \in Truthful(s, heard)
  BY ElementOfSeq DEF IInv, Sessions, Links
<1>2. PICK b1, b2, b3 :
        /\ b1 = Learn(bs[s], p)
        /\ b2 = IF p.final THEN OnFinal(b1) ELSE b1
        /\ b3 = SetState(b2, NextState(b2))
        /\ bs' = [bs EXCEPT ![s] = IF p.poll THEN Answered(b3) ELSE b3]
        /\ net' = [net EXCEPT ![s] = rest,
                     ![o] = IF p.poll THEN Push(@, Frame(b3, FALSE, TRUE)) ELSE @]
  BY Zenon DEF Consume
<1> DEFINE b4 == IF p.poll THEN Answered(b3) ELSE b3
<1>3. /\ Good(b1) /\ b1.disc = bs[s].disc /\ b1.rdisc = p.my
      /\ b1.st = bs[s].st /\ b1.rst = p.st
  BY <1>1, <1>2, LearnKeeps
<1>4. Good(b2) /\ SameNames(b1, b2) /\ b2.st = b1.st /\ b2.rst = b1.rst
  BY <1>2, <1>3, OnFinalKeeps DEF SameNames
<1>5. NextState(b2) \in States /\ (NextState(b2) = "up" => b2.rst \in {"init", "up"})
  BY <1>4, NextStateUp DEF Good
<1>6. Good(b3) /\ SameNames(b2, b3) /\ b3.st = NextState(b2)
  BY <1>2, <1>4, <1>5, SetStateKeeps
<1>7. Good(b4) /\ SameNames(b3, b4) /\ b4.st = b3.st
  BY <1>6, AnsweredKeeps DEF SameNames
<1>8. b3.rdisc = p.my /\ b3.disc = bs[s].disc
  BY <1>3, <1>4, <1>6 DEF SameNames
<1>9. Named(s, b3, heard') /\ Named(s, b4, heard')
  BY <1>7, <1>8 DEF Named, SameNames
<1>10. ASSUME b4.st = "up" PROVE <<s, b4.disc, b4.rdisc>> \in heard'
  <2>1. p.st \in {"init", "up"}
    BY <1>3, <1>4, <1>5, <1>6, <1>7, <1>10
  <2>2. p.your = bs[s].disc /\ p.your # NoDisc
    BY <2>1 DEF Accepts
  <2>3. <<s, bs[s].disc, p.my>> \in heard
    BY <1>1, <2>2 DEF Truthful
  <2> QED
    BY <1>7, <1>8, <2>3 DEF SameNames
<1>11. Sessions' /\ UpIsMutual'
  <2>1. bs' = [bs EXCEPT ![s] = b4]
    BY <1>2
  <2> HIDE DEF b4
  <2> QED
    BY <1>7, <1>9, <1>10, <2>1, SessionsStep
<1>12. Links'
  <2> DEFINE f == Frame(b3, FALSE, TRUE)
  <2>1. o \in Sides /\ o # s /\ net \in [Sides -> Seq(Packet)]
    BY OtherSide DEF IInv, Links
  <2>2. ASSUME NEW t \in Sides
        PROVE  net[t] \in Seq(Truthful(t, heard')) /\ Len(net[t]) <= 2 * MaxNet
    BY TruthfulGrows DEF IInv, Links
  <2>3. f \in Packet /\ f \in Truthful(o, heard')
    <3>1. b3 \in Session
      BY <1>6 DEF Good
    <3> QED
      BY <1>9, <3>1, FrameTruthful, Zenon
  <2>4. Push(net[o], f) \in Seq(Truthful(o, heard')) /\ Len(Push(net[o], f)) <= 2 * MaxNet
    <3> HIDE DEF o, f
    <3> QED
      BY <2>1, <2>2, <2>3, PushType
  <2>5. rest \in Seq(Truthful(s, heard')) /\ Len(rest) = Len(net[s]) - 1
    BY <2>2, RemoveAtType
  <2>6. Len(net[s]) \in Nat /\ MaxNet \in Nat
    BY <2>1, LenProperties, BfdAssumption
  <2>7. /\ net'[s] = rest
        /\ net'[o] = net[o] \/ net'[o] = Push(net[o], f)
        /\ \A t \in Sides : t # s /\ t # o => net'[t] = net[t]
        /\ DOMAIN net' = Sides /\ net' = [t \in Sides |-> net'[t]]
    <3> HIDE DEF rest, f, o, p
    <3> QED
      BY <1>2, <2>1 DEF f
  <2> HIDE DEF rest, f, o, p
  <2>8. ASSUME NEW t \in Sides
        PROVE  net'[t] \in Seq(Truthful(t, heard')) /\ Len(net'[t]) <= 2 * MaxNet
    <3>1. CASE t = s
      BY <2>2, <2>5, <2>6, <2>7, <3>1
    <3>2. CASE t = o
      BY <2>2, <2>4, <2>7, <3>2
    <3>3. CASE t # s /\ t # o
      BY <2>2, <2>7, <3>3
    <3> QED
      BY <3>1, <3>2, <3>3
  <2> QED
    BY <2>7, <2>8, LinksStep
<1> QED
  BY <1>11, <1>12

\* Packets leave one link; nothing else on the links changes.
LEMMA LossStep ==
  ASSUME IInv, NEW s \in Sides, NEW q, net' = [net EXCEPT ![s] = q],
         q \in Seq(Truthful(s, heard)), Len(q) <= Len(net[s]),
         UNCHANGED <<bs, heard>>
  PROVE  Sessions' /\ UpIsMutual' /\ Links'
<1>1. Sessions' /\ UpIsMutual'
  BY DEF IInv, Sessions, UpIsMutual
<1>2. net \in [Sides -> Seq(Packet)]
      /\ \A t \in Sides : net[t] \in Seq(Truthful(t, heard)) /\ Len(net[t]) <= 2 * MaxNet
  BY DEF IInv, Links
<1>3. Len(q) \in Nat /\ Len(net[s]) \in Nat /\ MaxNet \in Nat
  BY <1>2, LenProperties, BfdAssumption
<1>4. DOMAIN net' = Sides /\ net' = [t \in Sides |-> net'[t]]
  BY <1>2
<1>5. ASSUME NEW t \in Sides
      PROVE  net'[t] \in Seq(Truthful(t, heard')) /\ Len(net'[t]) <= 2 * MaxNet
  <2>1. CASE t = s
    BY <1>2, <1>3, <2>1
  <2>2. CASE t # s
    BY <1>2, <2>2
  <2> QED
    BY <2>1, <2>2
<1> QED
  BY <1>1, <1>4, <1>5, LinksStep

\* bfd_consume_pkt keeps the invariant.
LEMMA ReceiveStep ==
  ASSUME IInv, NEW s \in Sides, Receive(s)
  PROVE  IInv'
<1>1. net[s] \in Seq(Packet) /\ net[s] \in Seq(Truthful(s, heard))
  BY DEF IInv, Links
<1>2. DOMAIN net[s] = 1..Len(net[s]) /\ Len(net[s]) \in Nat
  BY <1>1, LenProperties
<1>3. PICK i \in 1..Len(net[s]) :
        IF Accepts(bs[s], net[s][i])
        THEN /\ Consume(s, net[s][i], RemoveAt(net[s], i))
             /\ heard' = heard \union {<<Other(s), net[s][i].my, bs[s].disc>>}
        ELSE net' = [net EXCEPT ![s] = RemoveAt(net[s], i)] /\ UNCHANGED <<bs, heard>>
  BY <1>2 DEF Receive
<1>4. Flags'
  BY DEF Receive, IInv, Flags
<1>5. CASE Accepts(bs[s], net[s][i])
  BY <1>3, <1>4, <1>5, ConsumeStep DEF IInv
<1>6. CASE ~Accepts(bs[s], net[s][i])
  <2>1. RemoveAt(net[s], i) \in Seq(Truthful(s, heard))
        /\ Len(RemoveAt(net[s], i)) = Len(net[s]) - 1
    BY <1>1, RemoveAtType
  <2> QED
    BY <1>2, <1>3, <1>4, <1>6, <2>1, LossStep DEF IInv
<1> QED
  BY <1>5, <1>6

\* The network losing a packet keeps the invariant.
LEMMA LoseStep ==
  ASSUME IInv, NEW s \in Sides, Lose(s)
  PROVE  IInv'
<1>1. net[s] \in Seq(Truthful(s, heard)) /\ net[s] # <<>>
  BY DEF IInv, Links, Lose
<1>2. /\ Tail(net[s]) \in Seq(Truthful(s, heard))
      /\ Len(Tail(net[s])) = Len(net[s]) - 1 /\ Len(net[s]) \in Nat
  BY <1>1, HeadTailProperties, LenProperties
<1>3. Flags'
  BY DEF Lose, IInv, Flags
<1>4. net' = [net EXCEPT ![s] = Tail(net[s])] /\ UNCHANGED <<bs, heard>>
  BY DEF Lose
<1>5. Len(Tail(net[s])) <= Len(net[s])
  BY <1>2
<1>6. Sessions' /\ UpIsMutual' /\ Links'
  BY <1>2, <1>4, <1>5, LossStep
<1> QED
  BY <1>3, <1>6 DEF IInv

\* Only the session of one side changes, and nothing is heard.
LEMMA LocalStep ==
  ASSUME IInv, NEW s \in Sides, NEW c, bs' = [bs EXCEPT ![s] = c],
         UNCHANGED <<net, heard>>, Flags', Good(c), c.disc = bs[s].disc,
         c.rdisc = bs[s].rdisc, c.st = "up" => bs[s].st = "up"
  PROVE  IInv'
<1>1. Named(s, c, heard')
  BY DEF IInv, Sessions, Named
<1>2. c.st = "up" => <<s, c.disc, c.rdisc>> \in heard'
  BY DEF IInv, UpIsMutual
<1>3. Sessions' /\ UpIsMutual'
  BY <1>1, <1>2, SessionsStep
<1>4. Links'
  BY DEF IInv, Links
<1> QED
  BY <1>3, <1>4 DEF IInv

\* The operator's changes keep the invariant.
LEMMA ConfigStep ==
  ASSUME IInv, NEW s \in Sides,
         PollDelayOver(s) \/ SetParams(s) \/ OnConfigChange(s) \/ SetFlags(s)
           \/ SetEchoSource(s) \/ Recreate(s)
  PROVE  IInv'
<1> DEFINE b == bs[s]
<1>1. Good(b) /\ b \in Session /\ bs \in [Sides -> Session]
  BY DEF IInv, Sessions, Good
<1>2. CASE PollDelayOver(s)
  <2> DEFINE c == [b EXCEPT !.wait = FALSE]
  <2>1. bs' = [bs EXCEPT ![s] = c] /\ UNCHANGED <<net, heard>>
    BY <1>1, <1>2 DEF PollDelayOver
  <2>2. Good(c) /\ c.disc = b.disc /\ c.rdisc = b.rdisc /\ c.st = b.st
    BY <1>1 DEF Good, Session, EchoOnlyUp, Settled, InUse
  <2>3. Flags'
    BY <1>2 DEF PollDelayOver, IInv, Flags
  <2> HIDE DEF c
  <2> QED
    BY <2>1, <2>2, <2>3, LocalStep
<1>3. CASE SetParams(s)
  <2>1. PICK tx \in TxIntervals, rx \in RxIntervals :
          bs' = [bs EXCEPT ![s].poll = PollFor(bs[s]), ![s].cfgTx = tx, ![s].cfgRx = rx]
    BY <1>3 DEF SetParams
  <2> DEFINE c == [b EXCEPT !.poll = PollFor(b), !.cfgTx = tx, !.cfgRx = rx]
  <2>2. bs' = [bs EXCEPT ![s] = c] /\ UNCHANGED <<net, heard>>
    BY <1>1, <1>3, <2>1 DEF SetParams
  <2>3. PollFor(b) \in {"no", "needed", "running", "queued"}
        /\ (PollFor(b) = "no" => b.st # "up")
    BY <1>1 DEF PollFor, Session
  <2>4. c \in Session /\ c.disc = b.disc /\ c.rdisc = b.rdisc /\ c.st = b.st
        /\ c.poll = PollFor(b) /\ c.echo = b.echo
    BY <1>1, <2>3 DEF Session
  <2>5. Good(c)
    BY <1>1, <2>3, <2>4 DEF Good, EchoOnlyUp, Settled
  <2>6. Flags'
    <3>1. event' = [event EXCEPT ![s] = TRUE] /\ changes' = changes + 1
          /\ source' = source /\ calm' = calm
      BY <1>3 DEF SetParams, Intervention
    <3>2. event' \in [Sides -> BOOLEAN]
      BY <3>1 DEF IInv, Flags
    <3> QED
      BY <3>1, <3>2 DEF IInv, Flags
  <2> HIDE DEF c
  <2> QED
    BY <2>2, <2>4, <2>5, <2>6, LocalStep
<1>4. CASE OnConfigChange(s)
  <2>1. PICK d \in Nat : Recalc(b) = [b EXCEPT !.det = d]
    BY <1>1, RecalcType
  <2>2. Good(Recalc(b)) /\ Recalc(b).disc = b.disc /\ Recalc(b).rdisc = b.rdisc
        /\ Recalc(b).st = b.st
    BY <1>1, <2>1 DEF Good, Session, EchoOnlyUp, Settled, InUse
  <2>3. Flags'
    BY <1>4 DEF OnConfigChange, IInv, Flags
  <2> QED
    BY <1>1, <1>4, <2>2, <2>3, LocalStep DEF OnConfigChange
<1>5. CASE SetFlags(s)
  <2>1. PICK st \in {"down", "admin"} : bs' = [bs EXCEPT ![s] = SetState(b, st)]
    BY <1>5 DEF SetFlags
  <2>2. Good(SetState(b, st)) /\ SameNames(b, SetState(b, st)) /\ SetState(b, st).st = st
    BY <1>1, SetStateKeeps DEF States
  <2>3. Flags' /\ UNCHANGED <<net, heard>>
    BY <1>5 DEF SetFlags, Intervention, IInv, Flags
  <2> QED
    BY <2>1, <2>2, <2>3, LocalStep DEF SameNames
<1>6. CASE SetEchoSource(s)
  <2>1. Flags'
    BY <1>6 DEF SetEchoSource, Intervention, IInv, Flags
  <2> QED
    BY <1>6, <2>1 DEF SetEchoSource, IInv, Sessions, Links, UpIsMutual
<1>7. CASE Recreate(s)
  <2>1. PICK tx \in TxIntervals, rx \in RxIntervals :
          bs' = [bs EXCEPT ![s] = NewSession(b.disc + 1, tx, rx)]
    <3>1. PICK n \in AddSession(b.disc + 1) : bs' = [bs EXCEPT ![s] = n]
      BY <1>7 DEF Recreate
    <3>2. \E tx \in TxIntervals, rx \in RxIntervals : n = NewSession(b.disc + 1, tx, rx)
      BY <3>1 DEF AddSession
    <3> QED
      BY <3>1, <3>2
  <2> DEFINE c == NewSession(b.disc + 1, tx, rx)
  <2>2. b.disc + 1 \in 1..MaxDisc
    BY <1>1, <1>7, BfdAssumption DEF Recreate, Session
  <2>3. Good(c) /\ c.st = "down" /\ c.rdisc = NoDisc
    BY <2>2, NewSessionGood
  <2>4. Flags' /\ Links' /\ heard' = heard
    <3>1. event' = [event EXCEPT ![s] = TRUE] /\ changes' = changes + 1
          /\ UNCHANGED <<net, source, calm, heard>>
      BY <1>7 DEF Recreate, Intervention
    <3>2. event' \in [Sides -> BOOLEAN]
      BY <3>1 DEF IInv, Flags
    <3> QED
      BY <3>1, <3>2 DEF IInv, Flags, Links
  <2> HIDE DEF c
  <2>5. Sessions' /\ UpIsMutual'
    BY <2>1, <2>3, <2>4, SessionsStep DEF Named, c
  <2> QED
    BY <2>4, <2>5 DEF IInv
<1> QED
  BY <1>2, <1>3, <1>4, <1>5, <1>6, <1>7

\* The invariant holds for all intervals, bounds and orders of packets.
THEOREM Invariance == Spec => []IInv
<1>1. Init => IInv
  <2> SUFFICES ASSUME Init PROVE IInv
    OBVIOUS
  <2> DEFINE c == NewSession(1, Min(TxIntervals), Min(RxIntervals))
  <2>1. Min(TxIntervals) \in TxIntervals /\ Min(RxIntervals) \in RxIntervals
    BY BfdAssumption, MinIn
  <2>2. Good(c) /\ c.st = "down" /\ c.rdisc = NoDisc /\ c \in Session
    <3>1. 1 \in 1..MaxDisc
      BY BfdAssumption
    <3> QED
      BY <2>1, <3>1, NewSessionGood DEF Good
  <2> HIDE DEF c
  <2>3. bs = [s \in Sides |-> c]
    BY DEF Init, c
  <2>4. Sessions /\ UpIsMutual
    BY <2>2, <2>3 DEF Sessions, UpIsMutual, Named
  <2>5. Links
    BY BfdAssumption, EmptySeq DEF Init, Links
  <2>6. Flags
    <3>1. [s \in Sides |-> FALSE] \in [Sides -> BOOLEAN]
          /\ [s \in Sides |-> s \in EchoSource] \in [Sides -> BOOLEAN]
      OBVIOUS
    <3> QED
      BY <3>1 DEF Init, Flags
  <2> QED
    BY <2>4, <2>5, <2>6 DEF IInv
<1>2. IInv /\ [Next]_vars => IInv'
  <2> SUFFICES ASSUME IInv, [Next]_vars PROVE IInv'
    OBVIOUS
  <2>1. ASSUME NEW s \in Sides, Tick(s) PROVE IInv'
    BY <2>1, TimeoutStep DEF Tick
  <2>2. ASSUME NEW s \in Sides, Expire(s) PROVE IInv'
    BY <2>2, TimeoutStep DEF Expire
  <2>3. CASE UNCHANGED vars
    BY <2>3 DEF vars, IInv, Sessions, Links, Flags, UpIsMutual
  <2> QED
    BY <2>1, <2>2, <2>3, ReceiveStep, LoseStep, ConfigStep DEF Next
<1> QED
  BY <1>1, <1>2, PTL DEF Spec

\* Types: intervals in use were configured or are defaults, what was learnt
\* is what the peer may ask for, and the links hold what they have room for.
THEOREM TypeCorrect == Spec => []TypeOK
<1>1. IInv => TypeOK
  BY DEF IInv, Sessions, Links, TypeOK
<1> QED
  BY <1>1, Invariance, PTL

\* bfd_consume_pkt: whatever is lost, reordered or left over from a session
\* since deleted, a session is up only with a peer session that heard it.
THEOREM UpMutual == Spec => []UpIsMutual
<1>1. IInv => UpIsMutual
  BY DEF IInv
<1> QED
  BY <1>1, Invariance, PTL

\* bfd_set_poll_state, bfd_session_set_params, bfd_on_state_change: an up
\* session without a poll sequence uses the intervals it is configured for.
THEOREM IntervalsInUse == Spec => []IntervalsSettled
<1>1. IInv => IntervalsSettled
  BY DEF IInv, Sessions, Good, Settled, IntervalsSettled
<1> QED
  BY <1>1, Invariance, PTL
=============================================================================
