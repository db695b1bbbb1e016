-------------------------- MODULE SessionIoProofs --------------------------
(***************************************************************************)
(* Proofs about SessionIo, for fifos, queues and bounds of any size.       *)
(***************************************************************************)
EXTENDS SessionIo, SequenceTheorems, TLAPS

VppStates == {"idle", "rxTest", "rxSet", "rxAdd", "txUnset", "txTest", "txSwap",
              "ntf", "clear", "store", "send", "resched", "rsTest", "rsSwap"}

\* The steps of vppcom_epoll_wait, and those that go through todo.
Handle == {"unh", "unhUnset", "unhAgain", "mq", "mqUnset", "mqAgain"}
Epoll == Handle \union {"ltIn", "ltOut", "mqWait"}
EventLoop == Epoll \union {"add", "modStore"}
Blocking == {"rdWait", "wrWait", "wrLoad", "wrStore"}
Reading == {"rdTest", "rdUnset", "rdRetest", "rdSwap"}
AppStates == EventLoop \union Blocking \union Reading
             \union {"ep", "rd", "wouldBlock", "wr", "wrSwap", "wrSend"}

Types ==
  /\ mode \in Modes
  /\ rx \in 0 .. Size /\ tx \in 0 .. Size /\ off \in 0 .. tx
  /\ vppQ \in Nat /\ elts \in Nat /\ mods \in Nat
  /\ vn \in 0 .. Size /\ voff \in 0 .. Size /\ an \in 0 .. Size
  /\ rep \subseteq Evt
  /\ vpc \in VppStates /\ apc \in AppStates
Flags ==
  /\ peek \in Peeks
  /\ rxEvent \in BOOLEAN /\ txEvent \in BOOLEAN /\ hasNtf \in BOOLEAN
  /\ desched \in BOOLEAN /\ accepting \in BOOLEAN /\ congested \in BOOLEAN
  /\ hasRx \in BOOLEAN /\ lt \in BOOLEAN /\ outOn \in BOOLEAN
  /\ canRead \in BOOLEAN /\ canWrite \in BOOLEAN
Lists ==
  /\ appQ \in Seq(Evt) /\ postponed \in Seq(Evt)
  /\ unhandled \in Seq(Evt) /\ todo \in Seq(Evt)

\* What the queues hold at most, and the sets of notification flags.
Bounds ==
  /\ want \subseteq Ntf /\ vwant \subseteq Ntf /\ awant \subseteq Ntf
  /\ vppQ <= VppQ /\ mods <= MaxMods
  /\ RingInUse <= AppQ
  /\ vpc \in {"rxSet", "rxAdd"} => RingInUse < AppQ
  /\ Len(postponed) <= MaxPostponed
  /\ vpc \notin {"idle", "resched", "rsTest", "rsSwap"} => Len(postponed) < MaxPostponed

\* Where the application can be in which mode, and when events are being
\* handled.
Control ==
  /\ apc \in Blocking => mode = "block"
  /\ apc \in EventLoop => mode # "block"
  /\ apc \notin Handle => todo = <<>>
  /\ apc \in {"unhUnset", "unhAgain", "mqUnset", "mqAgain"} =>
       todo # <<>> /\ Head(todo) = "rx"
  /\ apc \in Epoll \union {"add"} => unhandled = <<>>
  /\ apc \notin Epoll => rep = {}
  /\ lt => mode = "lt"
  /\ apc \in {"ltIn", "ltOut"} => lt

\* The tx flag is set while data waits or is about to be looked for, and a set
\* flag is an element, a message or a tcp connection that is descheduled.
TxInv ==
  /\ txEvent => vppQ > 0 \/ elts > 0 \/ apc = "wrSend" \/ (peek /\ desched)
                \/ vpc = "txUnset"
  /\ Unsent > 0 => txEvent \/ apc = "wrSwap"
                   \/ vpc \in {"txTest", "txSwap", "rsTest", "rsSwap"}
  /\ vpc \in {"txUnset", "txTest"} => voff <= off

\* An rx event that is in a queue or about to be, or one the application is
\* about to handle.
RxSent == vpc = "rxAdd" \/ Contains(appQ, "rx")
RxQueued == RxSent \/ Contains(unhandled, "rx") \/ Contains(todo, "rx")
\* vpp still has to announce data.
RxComing == accepting \/ vpc \in {"rxTest", "rxSet"} \/ Contains(postponed, "rx")
\* The application knows, or finds out when it polls the level-triggered list.
RxKnown == "rx" \in rep \/ canRead \/ (lt /\ apc # "ltOut")

RxInv ==
  /\ hasRx => "rx" \in rep \/ (apc = "rd" /\ canRead)
  /\ mode = "lt" /\ apc \in Epoll => ~canRead
  /\ mode = "lt" /\ ("rx" \in rep \/ canRead \/ apc \in Reading) => lt
  /\ mode # "block" /\ rxEvent =>
       RxQueued \/ apc \in {"rdTest", "rdUnset"} \/ (rx > 0 /\ RxKnown)
  /\ mode # "block" /\ rxEvent /\ apc \in {"rdRetest", "rdSwap", "unhAgain", "mqAgain"} =>
       RxSent
  /\ mode # "block" /\ rxEvent /\ apc = "wouldBlock" =>
       RxSent \/ Contains(unhandled, "rx")
  /\ mode # "block" /\ rx > 0 => RxComing \/ RxQueued \/ RxKnown \/ apc \in Reading
  /\ mode # "block" /\ rx > 0 /\ apc = "wouldBlock" =>
       RxComing \/ RxSent \/ Contains(unhandled, "rx")

TxSent == Contains(appQ, "tx") \/ Contains(postponed, "tx") \/ Contains(todo, "tx")
\* vpp has made room and will see that a notification is due.
NtfDue == \/ vpc \in {"txUnset", "txTest", "txSwap"} /\ ~peek /\ tx + vn >= Size
          \/ vpc = "ntf" /\ tx + vn >= Size
          \/ vpc \in {"clear", "store", "send"}
WriteInv ==
  mode # "block" /\ mods = 0 =>
    /\ want = (IF apc = "add" THEN {} ELSE {"full"})
    /\ vpc = "store" => vwant = {"full"}
    /\ vpc \in {"clear", "store", "send"} => apc # "add"
    /\ apc # "modStore"
    /\ apc # "add" => outOn
    /\ hasNtf => TxSent \/ vpc \in {"store", "send"}
    /\ tx < Size /\ apc # "add" =>
         \/ TxSent \/ NtfDue \/ Contains(unhandled, "tx")
         \/ mode = "et" /\ (canWrite \/ "tx" \in rep)
         \/ lt

IInv == Types /\ Flags /\ Lists /\ Bounds /\ Control /\ TxInv /\ RxInv /\ WriteInv
-----------------------------------------------------------------------------
(* Lists of events.                                                        *)

\* What a list contains after events were added or taken.
LEMMA ContainsEmpty ==
  ASSUME NEW e
  PROVE  ~Contains(<< >>, e) /\ << >> \in Seq(Evt)
  BY EmptySeq DEF Contains

\* What a list contains after an event was added,
LEMMA ContainsAppend ==
  ASSUME NEW s \in Seq(Evt), NEW f \in Evt, NEW e
  PROVE  Append(s, f) \in Seq(Evt) /\ (Contains(Append(s, f), e) <=> Contains(s, e) \/ f = e)
<1>1. /\ Append(s, f) \in Seq(Evt) /\ Len(Append(s, f)) = Len(s) + 1
      /\ \A i \in 1 .. Len(s) : Append(s, f)[i] = s[i]
      /\ Append(s, f)[Len(s) + 1] = f /\ Len(s) \in Nat
  BY AppendProperties, LenProperties
<1> QED
  BY <1>1 DEF Contains

\* after two lists were joined,
LEMMA ContainsCat ==
  ASSUME NEW s \in Seq(Evt), NEW r \in Seq(Evt), NEW e
  PROVE  s \o r \in Seq(Evt) /\ (Contains(s \o r, e) <=> Contains(s, e) \/ Contains(r, e))
<1>1. /\ s \o r \in Seq(Evt) /\ Len(s \o r) = Len(s) + Len(r)
      /\ \A i \in 1 .. Len(s) + Len(r) : (s \o r)[i] = IF i <= Len(s) THEN s[i] ELSE r[i - Len(s)]
      /\ Len(s) \in Nat /\ Len(r) \in Nat
  BY ConcatProperties, LenProperties
<1>2. ASSUME Contains(s \o r, e) PROVE Contains(s, e) \/ Contains(r, e)
  BY <1>1, <1>2 DEF Contains
<1>3. ASSUME Contains(s, e) PROVE Contains(s \o r, e)
  BY <1>1, <1>3 DEF Contains
<1>4. ASSUME Contains(r, e) PROVE Contains(s \o r, e)
  <2>1. PICK i \in 1 .. Len(r) : r[i] = e
    BY <1>4 DEF Contains
  <2>2. Len(s) + i \in 1 .. Len(s) + Len(r) /\ ~(Len(s) + i <= Len(s)) /\ (Len(s) + i) - Len(s) = i
    BY <1>1
  <2> QED
    BY <1>1, <2>1, <2>2 DEF Contains
<1> QED
  BY <1>1, <1>2, <1>3, <1>4

\* and after its first event was taken.
LEMMA ContainsTail ==
  ASSUME NEW s \in Seq(Evt), s # << >>, NEW e
  PROVE  /\ Tail(s) \in Seq(Evt) /\ Head(s) \in Evt
         /\ (Contains(s, e) <=> Head(s) = e \/ Contains(Tail(s), e))
<1>1. /\ Tail(s) \in Seq(Evt) /\ Head(s) \in Evt /\ Len(Tail(s)) = Len(s) - 1
      /\ \A i \in 1 .. Len(s) - 1 : Tail(s)[i] = s[i + 1]
      /\ Len(s) \in Nat /\ Len(s) > 0 /\ Head(s) = s[1]
  BY HeadTailProperties, LenProperties, EmptySeq
<1>2. ASSUME Contains(s, e) PROVE Head(s) = e \/ Contains(Tail(s), e)
  <2>1. PICK i \in 1 .. Len(s) : s[i] = e
    BY <1>2 DEF Contains
  <2>2. i # 1 => i - 1 \in 1 .. Len(s) - 1 /\ (i - 1) + 1 = i
    BY <1>1
  <2> QED
    BY <1>1, <2>1, <2>2 DEF Contains
<1>3. ASSUME Contains(Tail(s), e) PROVE Contains(s, e)
  <2>1. PICK i \in 1 .. Len(s) - 1 : Tail(s)[i] = e
    BY <1>1, <1>3 DEF Contains
  <2>2. i + 1 \in 1 .. Len(s)
    BY <1>1
  <2> QED
    BY <1>1, <2>1, <2>2 DEF Contains
<1> QED
  BY <1>1, <1>2, <1>3 DEF Contains

\* Cutting a list in two loses nothing.
LEMMA ContainsSplit ==
  ASSUME NEW s \in Seq(Evt), NEW k \in 0 .. Len(s), NEW e
  PROVE  /\ SubSeq(s, 1, k) \in Seq(Evt) /\ SubSeq(s, k + 1, Len(s)) \in Seq(Evt)
         /\ Len(SubSeq(s, 1, k)) = k /\ Len(SubSeq(s, k + 1, Len(s))) = Len(s) - k
         /\ Contains(s, e) => \/ Contains(SubSeq(s, 1, k), e)
                              \/ Contains(SubSeq(s, k + 1, Len(s)), e)
<1> DEFINE a == SubSeq(s, 1, k)
           b == SubSeq(s, k + 1, Len(s))
<1>1. Len(s) \in Nat /\ \A i \in 1 .. Len(s) : s[i] \in Evt
  BY LenProperties, ElementOfSeq
<1>2. a \in Seq(Evt) /\ Len(a) = k /\ \A i \in 1 .. k : a[i] = s[i]
  BY <1>1, SubSeqProperties
<1>3. b \in Seq(Evt) /\ Len(b) = Len(s) - k /\ \A i \in 1 .. Len(s) - k : b[i] = s[k + i]
  BY <1>1, SubSeqProperties
<1>4. ASSUME Contains(s, e) PROVE Contains(a, e) \/ Contains(b, e)
  <2>1. PICK i \in 1 .. Len(s) : s[i] = e
    BY <1>4 DEF Contains
  <2>2. CASE i <= k
    BY <1>1, <1>2, <2>1, <2>2 DEF Contains
  <2>3. CASE i > k
    <3>1. i - k \in 1 .. Len(s) - k /\ k + (i - k) = i
      BY <1>1, <2>3
    <3> QED
      BY <1>1, <1>3, <2>1, <3>1 DEF Contains
  <2> QED
    BY <1>1, <2>2, <2>3
<1> QED
  BY <1>2, <1>3, <1>4


-----------------------------------------------------------------------------
(* Types.                                                                  *)

\* The constants are positive.
LEMMA Sizes ==
  /\ Size \in Nat /\ Size > 0 /\ AppQ \in Nat /\ AppQ > 0 /\ VppQ \in Nat /\ VppQ > 0
  /\ MaxPostponed \in Nat /\ MaxPostponed > 0 /\ MaxMods \in Nat
  /\ Modes \subseteq {"block", "et", "lt"}
  BY SessionIoAssumption

\* Every step keeps numbers and places in their types, ...
LEMMA TypesStep == IInv /\ Next => Types'
<1> SUFFICES ASSUME IInv, Next PROVE Types'
  OBVIOUS
<1> USE DEF Types, fifos, worker, app, appRest, setup, VGoto, AGoto, VppStates,
            AppStates, EventLoop, Epoll, Handle, Blocking, Reading, Evt
<1>0. Types /\ Size \in Nat /\ Size > 0
  BY Sizes DEF IInv
<1>1. CASE RxEnqueue
  BY <1>0, <1>1 DEF RxEnqueue, Idle
<1>2. CASE AcceptReply
  BY <1>0, <1>2 DEF AcceptReply, Idle
<1>3. CASE MqPoll
  BY <1>0, <1>3 DEF MqPoll
<1>4. CASE TxNoSpace
  BY <1>0, <1>4 DEF TxNoSpace, TxTake, Idle
<1>5. CASE TxSend
  BY <1>0, <1>5 DEF TxSend, FillBuffer, TxTake, Idle, Unsent
<1>6. CASE Ack
  <2>1. PICK k \in 1 .. off : tx' = tx - k /\ off' = off - k /\ vn' = k
    BY <1>6 DEF Ack
  <2>2. tx' \in 0 .. Size /\ off' \in 0 .. tx' /\ vn' \in 0 .. Size
    BY <1>0, <2>1
  <2> QED
    BY <1>0, <1>6, <2>2 DEF Ack, Idle
<1>7. CASE Reschedule
  <2>1. vpc' \in {"idle", "rsTest"} /\ vn' \in {vn, 0} /\ voff' \in {voff, 0}
    BY <1>7 DEF Reschedule
  <2>2. elts' \in Nat
    BY <1>0, <1>7 DEF Reschedule
  <2> QED
    BY <1>0, <1>7, <2>1, <2>2 DEF Reschedule
<1>8. CASE RxTest
  BY <1>0, <1>8 DEF RxTest, Postpone
<1>9. CASE RxSet
  BY <1>0, <1>9 DEF RxSet
<1>10. CASE RxAdd
  BY <1>0, <1>10 DEF RxAdd
<1>11. CASE TxUnset
  BY <1>0, <1>11 DEF TxUnset
<1>12. CASE TxTest
  BY <1>0, <1>12 DEF TxTest, AfterTx
<1>13. CASE TxSwap
  BY <1>0, <1>13 DEF TxSwap, AfterTx
<1>14. CASE NtfTest
  BY <1>0, <1>14 DEF NtfTest
<1>15. CASE NtfClear
  BY <1>0, <1>15 DEF NtfClear
<1>16. CASE NtfStore
  BY <1>0, <1>16 DEF NtfStore
<1>17. CASE NtfSend
  BY <1>0, <1>17 DEF NtfSend, Postpone
<1>18. CASE RescheduleTest
  BY <1>0, <1>18 DEF RescheduleTest
<1>19. CASE NoReschedule
  BY <1>0, <1>19 DEF NoReschedule
<1>20. CASE EpollAdd
  BY <1>0, <1>20 DEF EpollAdd
<1>21. CASE EpollMod
  BY <1>0, <1>21 DEF EpollMod
<1>22. CASE EpollModStore
  BY <1>0, <1>22 DEF EpollModStore
<1>23. CASE ReadEmpty
  BY <1>0, <1>23 DEF ReadEmpty
<1>24. CASE ReadWouldBlock
  BY <1>0, <1>24 DEF ReadWouldBlock
<1>25. CASE WaitFlush
  BY <1>0, <1>25 DEF WaitFlush
<1>26. CASE ReadSome
  <2>1. PICK n \in 1 .. Size : Dequeue(n)
    BY <1>0, <1>26 DEF ReadSome
  <2>2. Least(n, rx) \in 0 .. rx /\ Least(n, rx) <= n /\ Least(n, rx) \in Nat
    BY <1>0 DEF Least
  <2>3. rx' \in 0 .. Size /\ an' \in 0 .. Size
    BY <1>0, <2>1, <2>2 DEF Dequeue
  <2> QED
    BY <1>0, <2>1, <2>3 DEF Dequeue
<1>27. CASE ReadDone
  BY <1>0, <1>27 DEF ReadDone, ReadReturns
<1>28. CASE ReadEmptied
  BY <1>0, <1>28 DEF ReadEmptied
<1>29. CASE ReadUnset
  BY <1>0, <1>29 DEF ReadUnset
<1>30. CASE ReadRetest
  BY <1>0, <1>30 DEF ReadRetest
<1>31. CASE ReadSwap
  BY <1>0, <1>31 DEF ReadSwap, ReadReturns
<1>32. CASE NoRead
  BY <1>0, <1>32 DEF NoRead
<1>33. CASE Write
  BY <1>0, <1>33 DEF Write, Least
<1>34. CASE WriteSwap
  BY <1>0, <1>34 DEF WriteSwap
<1>35. CASE WriteSend
  BY <1>0, <1>35 DEF WriteSend
<1>36. CASE WriteFull
  BY <1>0, <1>36 DEF WriteFull
<1>37. CASE WriteLoad
  BY <1>0, <1>37 DEF WriteLoad
<1>38. CASE WriteStore
  BY <1>0, <1>38 DEF WriteStore
<1>39. CASE NoWrite
  BY <1>0, <1>39 DEF NoWrite
<1>40. CASE NextCall
  BY <1>0, <1>40 DEF NextCall
<1>41. CASE EpollWait
  BY <1>0, <1>41 DEF EpollWait, Told
<1>42. CASE HandleRxEmpty
  BY <1>0, <1>42 DEF HandleRxEmpty
<1>43. CASE HandleRxUnset
  BY <1>0, <1>43 DEF HandleRxUnset
<1>44. CASE HandleRxStillEmpty
  BY <1>0, <1>44 DEF HandleRxStillEmpty, First
<1>45. CASE HandleRx
  BY <1>0, <1>45 DEF HandleRx, Handling, First, Reports
<1>46. CASE HandleTx
  BY <1>0, <1>46 DEF HandleTx, Handling
<1>47. CASE UnhandledDone
  BY <1>0, <1>47 DEF UnhandledDone
<1>48. CASE LtIn
  BY <1>0, <1>48 DEF LtIn
<1>49. CASE LtOut
  BY <1>0, <1>49 DEF LtOut
<1>50. CASE MqDequeue
  BY <1>0, <1>50 DEF MqDequeue
<1>51. CASE EpollTimeout
  BY <1>0, <1>51 DEF EpollTimeout, EpollReturns
<1>52. CASE EpollLoop
  BY <1>0, <1>52 DEF EpollLoop, EpollReturns
<1>53. ASSUME NEW k \in 0 .. MaxPostponed, HandlePostponed(k) PROVE Types'
  BY <1>0, <1>53 DEF HandlePostponed
<1> QED
  BY <1>1, <1>2, <1>3, <1>4, <1>5, <1>6, <1>7, <1>8, <1>9, <1>10, <1>11,
     <1>12, <1>13, <1>14, <1>15, <1>16, <1>17, <1>18, <1>19, <1>20, <1>21,
     <1>22, <1>23, <1>24, <1>25, <1>26, <1>27, <1>28, <1>29, <1>30, <1>31,
     <1>32, <1>33, <1>34, <1>35, <1>36, <1>37, <1>38, <1>39, <1>40, <1>41,
     <1>42, <1>43, <1>44, <1>45, <1>46, <1>47, <1>48, <1>49, <1>50, <1>51,
     <1>52, <1>53
     DEF Next, VppStep, AppStep

\* ... flags stay flags, ...
LEMMA FlagsStep == IInv /\ Next => Flags'
<1> SUFFICES ASSUME IInv, Next PROVE Flags'
  OBVIOUS
<1> USE DEF Flags, fifos, worker, app, appRest, setup
<1>0. Flags
  BY DEF IInv
<1>1. CASE RxEnqueue
  BY <1>0, <1>1, Zenon DEF RxEnqueue
<1>2. CASE AcceptReply
  BY <1>0, <1>2, Zenon DEF AcceptReply
<1>3. CASE MqPoll
  BY <1>0, <1>3, Zenon DEF MqPoll
<1>4. CASE TxNoSpace
  BY <1>0, <1>4, Zenon DEF TxNoSpace
<1>5. CASE TxSend
  BY <1>0, <1>5, Zenon DEF TxSend, FillBuffer
<1>6. CASE Ack
  BY <1>0, <1>6, Zenon DEF Ack
<1>7. CASE Reschedule
  BY <1>0, <1>7, Zenon DEF Reschedule
<1>8. CASE RxTest
  BY <1>0, <1>8, Zenon DEF RxTest, Postpone
<1>9. CASE RxSet
  BY <1>0, <1>9, Zenon DEF RxSet
<1>10. CASE RxAdd
  BY <1>0, <1>10, Zenon DEF RxAdd
<1>11. CASE TxUnset
  BY <1>0, <1>11, Zenon DEF TxUnset
<1>12. CASE TxTest
  BY <1>0, <1>12, Zenon DEF TxTest
<1>13. CASE TxSwap
  BY <1>0, <1>13, Zenon DEF TxSwap
<1>14. CASE NtfTest
  BY <1>0, <1>14, Zenon DEF NtfTest
<1>15. CASE NtfClear
  BY <1>0, <1>15, Zenon DEF NtfClear
<1>16. CASE NtfStore
  BY <1>0, <1>16, Zenon DEF NtfStore
<1>17. CASE NtfSend
  BY <1>0, <1>17, Zenon DEF NtfSend, Postpone
<1>18. CASE RescheduleTest
  BY <1>0, <1>18, Zenon DEF RescheduleTest
<1>19. CASE NoReschedule
  BY <1>0, <1>19, Zenon DEF NoReschedule
<1>20. CASE EpollAdd
  BY <1>0, <1>20, Zenon DEF EpollAdd
<1>21. CASE EpollMod
  BY <1>0, <1>21, Zenon DEF EpollMod
<1>22. CASE EpollModStore
  BY <1>0, <1>22, Zenon DEF EpollModStore
<1>23. CASE ReadEmpty
  BY <1>0, <1>23, Zenon DEF ReadEmpty
<1>24. CASE ReadWouldBlock
  BY <1>0, <1>24, Zenon DEF ReadWouldBlock
<1>25. CASE WaitFlush
  BY <1>0, <1>25, Zenon DEF WaitFlush
<1>26. CASE ReadSome
  <2>1. PICK n : Dequeue(n)
    BY <1>26 DEF ReadSome
  <2> QED
    BY <1>0, <2>1, Zenon DEF Dequeue
<1>27. CASE ReadDone
  BY <1>0, <1>27, Zenon DEF ReadDone, ReadReturns
<1>28. CASE ReadEmptied
  BY <1>0, <1>28, Zenon DEF ReadEmptied
<1>29. CASE ReadUnset
  BY <1>0, <1>29, Zenon DEF ReadUnset
<1>30. CASE ReadRetest
  BY <1>0, <1>30, Zenon DEF ReadRetest
<1>31. CASE ReadSwap
  BY <1>0, <1>31, Zenon DEF ReadSwap, ReadReturns
<1>32. CASE NoRead
  BY <1>0, <1>32, Zenon DEF NoRead
<1>33. CASE Write
  BY <1>0, <1>33, Zenon DEF Write
<1>34. CASE WriteSwap
  BY <1>0, <1>34, Zenon DEF WriteSwap
<1>35. CASE WriteSend
  BY <1>0, <1>35, Zenon DEF WriteSend
<1>36. CASE WriteFull
  BY <1>0, <1>36, Zenon DEF WriteFull
<1>37. CASE WriteLoad
  BY <1>0, <1>37, Zenon DEF WriteLoad
<1>38. CASE WriteStore
  BY <1>0, <1>38, Zenon DEF WriteStore
<1>39. CASE NoWrite
  BY <1>0, <1>39, Zenon DEF NoWrite
<1>40. CASE NextCall
  BY <1>0, <1>40, Zenon DEF NextCall
<1>41. CASE EpollWait
  BY <1>0, <1>41, Zenon DEF EpollWait, Told
<1>42. CASE HandleRxEmpty
  BY <1>0, <1>42, Zenon DEF HandleRxEmpty
<1>43. CASE HandleRxUnset
  BY <1>0, <1>43, Zenon DEF HandleRxUnset
<1>44. CASE HandleRxStillEmpty
  BY <1>0, <1>44, Zenon DEF HandleRxStillEmpty
<1>45. CASE HandleRx
  BY <1>0, <1>45, Zenon DEF HandleRx
<1>46. CASE HandleTx
  BY <1>0, <1>46, Zenon DEF HandleTx
<1>47. CASE UnhandledDone
  BY <1>0, <1>47, Zenon DEF UnhandledDone
<1>48. CASE LtIn
  BY <1>0, <1>48, Zenon DEF LtIn
<1>49. CASE LtOut
  BY <1>0, <1>49, Zenon DEF LtOut
<1>50. CASE MqDequeue
  BY <1>0, <1>50, Zenon DEF MqDequeue
<1>51. CASE EpollTimeout
  BY <1>0, <1>51, Zenon DEF EpollTimeout, EpollReturns
<1>52. CASE EpollLoop
  BY <1>0, <1>52, Zenon DEF EpollLoop, EpollReturns
<1>53. ASSUME NEW k \in 0 .. MaxPostponed, HandlePostponed(k) PROVE Flags'
  BY <1>0, <1>53, Zenon DEF HandlePostponed
<1> QED
  BY <1>1, <1>2, <1>3, <1>4, <1>5, <1>6, <1>7, <1>8, <1>9, <1>10, <1>11,
     <1>12, <1>13, <1>14, <1>15, <1>16, <1>17, <1>18, <1>19, <1>20, <1>21,
     <1>22, <1>23, <1>24, <1>25, <1>26, <1>27, <1>28, <1>29, <1>30, <1>31,
     <1>32, <1>33, <1>34, <1>35, <1>36, <1>37, <1>38, <1>39, <1>40, <1>41,
     <1>42, <1>43, <1>44, <1>45, <1>46, <1>47, <1>48, <1>49, <1>50, <1>51,
     <1>52, <1>53
     DEF Next, VppStep, AppStep

\* The elements of the application's ring in use are a number.
LEMMA RingCount ==
  ASSUME Lists
  PROVE  RingInUse \in Nat /\ Len(appQ) \in Nat /\ Len(todo) \in Nat /\ Len(postponed) \in Nat
  BY LenProperties DEF Lists, RingInUse

\* The elements of the ring in use grow with the queue.
LEMMA RingGrows ==
  ASSUME Lists, apc' = apc, todo' = todo, NEW k \in Nat, Len(appQ') = Len(appQ) + k
  PROVE  RingInUse' = RingInUse + k
<1>1. Len(appQ) \in Nat /\ Len(todo) \in Nat
  BY RingCount
<1>2. CASE apc \in {"mq", "mqUnset", "mqAgain"}
  BY <1>1, <1>2 DEF RingInUse
<1>3. CASE apc \notin {"mq", "mqUnset", "mqAgain"}
  BY <1>1, <1>3 DEF RingInUse
<1> QED
  BY <1>2, <1>3

\* ... and lists hold events.
LEMMA ListsStep == IInv /\ Next => Lists'
<1> SUFFICES ASSUME IInv, Next PROVE Lists'
  OBVIOUS
<1> USE DEF Lists, fifos, worker, app, appRest, setup, Evt
<1>0. Lists
  BY DEF IInv
<1>1. CASE RxEnqueue
  BY <1>0, <1>1 DEF RxEnqueue
<1>2. CASE AcceptReply
  BY <1>0, <1>2 DEF AcceptReply
<1>3. CASE MqPoll
  BY <1>0, <1>3 DEF MqPoll
<1>4. CASE TxNoSpace
  BY <1>0, <1>4 DEF TxNoSpace
<1>5. CASE TxSend
  BY <1>0, <1>5 DEF TxSend, FillBuffer
<1>6. CASE Ack
  BY <1>0, <1>6 DEF Ack
<1>7. CASE Reschedule
  BY <1>0, <1>7 DEF Reschedule
<1>8. CASE RxTest
  BY <1>0, <1>8, ContainsAppend DEF RxTest, Postpone
<1>9. CASE RxSet
  BY <1>0, <1>9 DEF RxSet
<1>10. CASE RxAdd
  BY <1>0, <1>10, ContainsAppend DEF RxAdd
<1>11. CASE TxUnset
  BY <1>0, <1>11 DEF TxUnset
<1>12. CASE TxTest
  BY <1>0, <1>12 DEF TxTest
<1>13. CASE TxSwap
  BY <1>0, <1>13 DEF TxSwap
<1>14. CASE NtfTest
  BY <1>0, <1>14 DEF NtfTest
<1>15. CASE NtfClear
  BY <1>0, <1>15 DEF NtfClear
<1>16. CASE NtfStore
  BY <1>0, <1>16 DEF NtfStore
<1>17. CASE NtfSend
  BY <1>0, <1>17, ContainsAppend DEF NtfSend, Postpone
<1>18. CASE RescheduleTest
  BY <1>0, <1>18 DEF RescheduleTest
<1>19. CASE NoReschedule
  BY <1>0, <1>19 DEF NoReschedule
<1>20. CASE EpollAdd
  <2>1. <<"tx">> \in Seq(Evt) /\ <<"rx">> \in Seq(Evt) /\ << >> \in Seq(Evt)
    BY ContainsEmpty
  <2>2. unhandled' \in Seq(Evt)
    BY <1>20, <2>1, ContainsCat DEF EpollAdd
  <2> QED
    BY <1>0, <1>20, <2>2 DEF EpollAdd
<1>21. CASE EpollMod
  BY <1>0, <1>21, ContainsAppend DEF EpollMod, AddUnhandled
<1>22. CASE EpollModStore
  BY <1>0, <1>22 DEF EpollModStore
<1>23. CASE ReadEmpty
  BY <1>0, <1>23 DEF ReadEmpty
<1>24. CASE ReadWouldBlock
  BY <1>0, <1>24 DEF ReadWouldBlock
<1>25. CASE WaitFlush
  BY <1>0, <1>25, ContainsEmpty DEF WaitFlush
<1>26. CASE ReadSome
  BY <1>0, <1>26 DEF ReadSome, Dequeue
<1>27. CASE ReadDone
  BY <1>0, <1>27 DEF ReadDone
<1>28. CASE ReadEmptied
  BY <1>0, <1>28 DEF ReadEmptied
<1>29. CASE ReadUnset
  BY <1>0, <1>29 DEF ReadUnset
<1>30. CASE ReadRetest
  BY <1>0, <1>30 DEF ReadRetest
<1>31. CASE ReadSwap
  BY <1>0, <1>31, ContainsAppend DEF ReadSwap, AddUnhandled
<1>32. CASE NoRead
  BY <1>0, <1>32 DEF NoRead
<1>33. CASE Write
  BY <1>0, <1>33 DEF Write
<1>34. CASE WriteSwap
  BY <1>0, <1>34 DEF WriteSwap
<1>35. CASE WriteSend
  BY <1>0, <1>35 DEF WriteSend
<1>36. CASE WriteFull
  BY <1>0, <1>36 DEF WriteFull
<1>37. CASE WriteLoad
  BY <1>0, <1>37 DEF WriteLoad
<1>38. CASE WriteStore
  BY <1>0, <1>38 DEF WriteStore
<1>39. CASE NoWrite
  BY <1>0, <1>39 DEF NoWrite
<1>40. CASE NextCall
  BY <1>0, <1>40 DEF NextCall
<1>41. CASE EpollWait
  BY <1>0, <1>41, ContainsEmpty DEF EpollWait
<1>42. CASE HandleRxEmpty
  BY <1>0, <1>42 DEF HandleRxEmpty
<1>43. CASE HandleRxUnset
  BY <1>0, <1>43 DEF HandleRxUnset
<1>44. CASE HandleRxStillEmpty
  <2>1. todo # << >>
    BY <1>44 DEF HandleRxStillEmpty, IInv, Control
  <2> QED
    BY <1>0, <1>44, <2>1, ContainsTail DEF HandleRxStillEmpty
<1>45. CASE HandleRx
  BY <1>0, <1>45, ContainsTail DEF HandleRx, Handling
<1>46. CASE HandleTx
  BY <1>0, <1>46, ContainsTail DEF HandleTx, Handling
<1>47. CASE UnhandledDone
  BY <1>0, <1>47 DEF UnhandledDone
<1>48. CASE LtIn
  BY <1>0, <1>48 DEF LtIn
<1>49. CASE LtOut
  BY <1>0, <1>49 DEF LtOut
<1>50. CASE MqDequeue
  BY <1>0, <1>50, ContainsEmpty DEF MqDequeue
<1>51. CASE EpollTimeout
  BY <1>0, <1>51 DEF EpollTimeout
<1>52. CASE EpollLoop
  BY <1>0, <1>52 DEF EpollLoop
<1>53. ASSUME NEW k \in 0 .. MaxPostponed, HandlePostponed(k) PROVE Lists'
  <2>1. k \in 0 .. Len(postponed) /\ Len(postponed) \in Nat
    BY <1>0, <1>53, LenProperties, RingCount, Sizes DEF HandlePostponed, Least
  <2>2. SubSeq(postponed, 1, k) \in Seq(Evt) /\ SubSeq(postponed, k + 1, Len(postponed)) \in Seq(Evt)
    BY <1>0, <2>1, ContainsSplit
  <2> QED
    BY <1>0, <1>53, <2>2, ContainsCat DEF HandlePostponed
<1> QED
  BY <1>1, <1>2, <1>3, <1>4, <1>5, <1>6, <1>7, <1>8, <1>9, <1>10, <1>11,
     <1>12, <1>13, <1>14, <1>15, <1>16, <1>17, <1>18, <1>19, <1>20, <1>21,
     <1>22, <1>23, <1>24, <1>25, <1>26, <1>27, <1>28, <1>29, <1>30, <1>31,
     <1>32, <1>33, <1>34, <1>35, <1>36, <1>37, <1>38, <1>39, <1>40, <1>41,
     <1>42, <1>43, <1>44, <1>45, <1>46, <1>47, <1>48, <1>49, <1>50, <1>51,
     <1>52, <1>53
     DEF Next, VppStep, AppStep

\* Every step keeps to the control flow of the two sides.
LEMMA ControlStep == IInv /\ Next => Control'
<1> SUFFICES ASSUME IInv, Next PROVE Control'
  OBVIOUS
<1> USE DEF Control, fifos, worker, app, appRest, setup, AGoto, VGoto,
            AppStates, EventLoop, Epoll, Handle, Blocking, Reading
<1>0. Control /\ apc \in AppStates
  BY DEF IInv, Types
<1>1. CASE RxEnqueue
  BY <1>0, <1>1 DEF RxEnqueue, Idle
<1>2. CASE AcceptReply
  BY <1>0, <1>2 DEF AcceptReply, Idle
<1>3. CASE MqPoll
  BY <1>0, <1>3 DEF MqPoll
<1>4. CASE TxNoSpace
  BY <1>0, <1>4 DEF TxNoSpace, TxTake, Idle
<1>5. CASE TxSend
  BY <1>0, <1>5 DEF TxSend, FillBuffer, TxTake, Idle
<1>6. CASE Ack
  BY <1>0, <1>6 DEF Ack, Idle
<1>7. CASE Reschedule
  BY <1>0, <1>7 DEF Reschedule
<1>8. CASE RxTest
  BY <1>0, <1>8 DEF RxTest, Postpone
<1>9. CASE RxSet
  BY <1>0, <1>9 DEF RxSet
<1>10. CASE RxAdd
  BY <1>0, <1>10 DEF RxAdd
<1>11. CASE TxUnset
  BY <1>0, <1>11 DEF TxUnset
<1>12. CASE TxTest
  BY <1>0, <1>12 DEF TxTest, AfterTx
<1>13. CASE TxSwap
  BY <1>0, <1>13 DEF TxSwap, AfterTx
<1>14. CASE NtfTest
  BY <1>0, <1>14 DEF NtfTest
<1>15. CASE NtfClear
  BY <1>0, <1>15 DEF NtfClear
<1>16. CASE NtfStore
  BY <1>0, <1>16 DEF NtfStore
<1>17. CASE NtfSend
  BY <1>0, <1>17 DEF NtfSend, Postpone
<1>18. CASE RescheduleTest
  BY <1>0, <1>18 DEF RescheduleTest
<1>19. CASE NoReschedule
  BY <1>0, <1>19 DEF NoReschedule
<1>20. CASE EpollAdd
  BY <1>0, <1>20 DEF EpollAdd
<1>21. CASE EpollMod
  BY <1>0, <1>21 DEF EpollMod
<1>22. CASE EpollModStore
  BY <1>0, <1>22 DEF EpollModStore
<1>23. CASE ReadEmpty
  BY <1>0, <1>23 DEF ReadEmpty
<1>24. CASE ReadWouldBlock
  BY <1>0, <1>24 DEF ReadWouldBlock
<1>25. CASE WaitFlush
  BY <1>0, <1>25 DEF WaitFlush
<1>26. CASE ReadSome
  BY <1>0, <1>26 DEF ReadSome, Dequeue
<1>27. CASE ReadDone
  BY <1>0, <1>27 DEF ReadDone, ReadReturns
<1>28. CASE ReadEmptied
  BY <1>0, <1>28 DEF ReadEmptied
<1>29. CASE ReadUnset
  BY <1>0, <1>29 DEF ReadUnset
<1>30. CASE ReadRetest
  BY <1>0, <1>30 DEF ReadRetest
<1>31. CASE ReadSwap
  BY <1>0, <1>31 DEF ReadSwap, ReadReturns
<1>32. CASE NoRead
  BY <1>0, <1>32 DEF NoRead
<1>33. CASE Write
  BY <1>0, <1>33 DEF Write
<1>34. CASE WriteSwap
  BY <1>0, <1>34 DEF WriteSwap
<1>35. CASE WriteSend
  BY <1>0, <1>35 DEF WriteSend
<1>36. CASE WriteFull
  BY <1>0, <1>36 DEF WriteFull
<1>37. CASE WriteLoad
  BY <1>0, <1>37 DEF WriteLoad
<1>38. CASE WriteStore
  BY <1>0, <1>38 DEF WriteStore
<1>39. CASE NoWrite
  BY <1>0, <1>39 DEF NoWrite
<1>40. CASE NextCall
  BY <1>0, <1>40 DEF NextCall
<1>41. CASE EpollWait
  BY <1>0, <1>41 DEF EpollWait, Told
<1>42. CASE HandleRxEmpty
  BY <1>0, <1>42 DEF HandleRxEmpty
<1>43. CASE HandleRxUnset
  BY <1>0, <1>43 DEF HandleRxUnset
<1>44. CASE HandleRxStillEmpty
  BY <1>0, <1>44 DEF HandleRxStillEmpty, First
<1>45. CASE HandleRx
  BY <1>0, <1>45 DEF HandleRx, Handling, First, Reports
<1>46. CASE HandleTx
  BY <1>0, <1>46 DEF HandleTx, Handling
<1>47. CASE UnhandledDone
  BY <1>0, <1>47 DEF UnhandledDone
<1>48. CASE LtIn
  BY <1>0, <1>48 DEF LtIn
<1>49. CASE LtOut
  BY <1>0, <1>49 DEF LtOut
<1>50. CASE MqDequeue
  BY <1>0, <1>50 DEF MqDequeue
<1>51. CASE EpollTimeout
  BY <1>0, <1>51 DEF EpollTimeout, EpollReturns
<1>52. CASE EpollLoop
  BY <1>0, <1>52 DEF EpollLoop, EpollReturns
<1>53. ASSUME NEW k \in 0 .. MaxPostponed, HandlePostponed(k) PROVE Control'
  BY <1>0, <1>53 DEF HandlePostponed
<1> QED
  BY <1>1, <1>2, <1>3, <1>4, <1>5, <1>6, <1>7, <1>8, <1>9, <1>10, <1>11,
     <1>12, <1>13, <1>14, <1>15, <1>16, <1>17, <1>18, <1>19, <1>20, <1>21,
     <1>22, <1>23, <1>24, <1>25, <1>26, <1>27, <1>28, <1>29, <1>30, <1>31,
     <1>32, <1>33, <1>34, <1>35, <1>36, <1>37, <1>38, <1>39, <1>40, <1>41,
     <1>42, <1>43, <1>44, <1>45, <1>46, <1>47, <1>48, <1>49, <1>50, <1>51,
     <1>52, <1>53
     DEF Next, VppStep, AppStep

\* Every step keeps track of data to send.
LEMMA TxStep == IInv /\ Next => TxInv'
<1> SUFFICES ASSUME IInv, Next PROVE TxInv'
  OBVIOUS
<1> USE DEF TxInv, Unsent, fifos, worker, app, appRest, setup, AGoto, VGoto
<1>0. /\ TxInv /\ Size \in Nat /\ tx \in Nat /\ off \in Nat /\ off <= tx
      /\ elts \in Nat /\ vppQ \in Nat /\ voff \in Nat /\ vn \in Nat
  BY Sizes DEF IInv, Types
<1>1. CASE RxEnqueue
  BY <1>0, <1>1 DEF RxEnqueue, Idle
<1>2. CASE AcceptReply
  BY <1>0, <1>2 DEF AcceptReply, Idle
<1>3. CASE MqPoll
  BY <1>0, <1>3 DEF MqPoll
<1>4. CASE TxNoSpace
  BY <1>0, <1>4 DEF TxNoSpace, TxTake, Idle
<1>5. CASE TxSend
  BY <1>0, <1>5 DEF TxSend, FillBuffer, TxTake, Idle
<1>6. CASE Ack
  BY <1>0, <1>6 DEF Ack, Idle
<1>7. CASE Reschedule
  BY <1>0, <1>7 DEF Reschedule
<1>8. CASE RxTest
  BY <1>0, <1>8 DEF RxTest, Postpone
<1>9. CASE RxSet
  BY <1>0, <1>9 DEF RxSet
<1>10. CASE RxAdd
  BY <1>0, <1>10 DEF RxAdd
<1>11. CASE TxUnset
  BY <1>0, <1>11 DEF TxUnset
<1>12. CASE TxTest
  BY <1>0, <1>12 DEF TxTest, AfterTx
<1>13. CASE TxSwap
  BY <1>0, <1>13 DEF TxSwap, AfterTx
<1>14. CASE NtfTest
  BY <1>0, <1>14 DEF NtfTest
<1>15. CASE NtfClear
  BY <1>0, <1>15 DEF NtfClear
<1>16. CASE NtfStore
  BY <1>0, <1>16 DEF NtfStore
<1>17. CASE NtfSend
  BY <1>0, <1>17 DEF NtfSend, Postpone
<1>18. CASE RescheduleTest
  BY <1>0, <1>18 DEF RescheduleTest
<1>19. CASE NoReschedule
  BY <1>0, <1>19 DEF NoReschedule
<1>20. CASE EpollAdd
  BY <1>0, <1>20 DEF EpollAdd
<1>21. CASE EpollMod
  BY <1>0, <1>21 DEF EpollMod
<1>22. CASE EpollModStore
  BY <1>0, <1>22 DEF EpollModStore
<1>23. CASE ReadEmpty
  BY <1>0, <1>23 DEF ReadEmpty
<1>24. CASE ReadWouldBlock
  BY <1>0, <1>24 DEF ReadWouldBlock
<1>25. CASE WaitFlush
  BY <1>0, <1>25 DEF WaitFlush
<1>26. CASE ReadSome
  BY <1>0, <1>26 DEF ReadSome, Dequeue
<1>27. CASE ReadDone
  BY <1>0, <1>27 DEF ReadDone, ReadReturns
<1>28. CASE ReadEmptied
  BY <1>0, <1>28 DEF ReadEmptied
<1>29. CASE ReadUnset
  BY <1>0, <1>29 DEF ReadUnset
<1>30. CASE ReadRetest
  BY <1>0, <1>30 DEF ReadRetest
<1>31. CASE ReadSwap
  BY <1>0, <1>31 DEF ReadSwap, ReadReturns
<1>32. CASE NoRead
  BY <1>0, <1>32 DEF NoRead
<1>33. CASE Write
  BY <1>0, <1>33 DEF Write
<1>34. CASE WriteSwap
  BY <1>0, <1>34 DEF WriteSwap
<1>35. CASE WriteSend
  BY <1>0, <1>35 DEF WriteSend
<1>36. CASE WriteFull
  BY <1>0, <1>36 DEF WriteFull
<1>37. CASE WriteLoad
  BY <1>0, <1>37 DEF WriteLoad
<1>38. CASE WriteStore
  BY <1>0, <1>38 DEF WriteStore
<1>39. CASE NoWrite
  BY <1>0, <1>39 DEF NoWrite
<1>40. CASE NextCall
  BY <1>0, <1>40 DEF NextCall
<1>41. CASE EpollWait
  BY <1>0, <1>41 DEF EpollWait, Told
<1>42. CASE HandleRxEmpty
  BY <1>0, <1>42 DEF HandleRxEmpty
<1>43. CASE HandleRxUnset
  BY <1>0, <1>43 DEF HandleRxUnset
<1>44. CASE HandleRxStillEmpty
  BY <1>0, <1>44 DEF HandleRxStillEmpty, First
<1>45. CASE HandleRx
  BY <1>0, <1>45 DEF HandleRx, Handling, First, Reports
<1>46. CASE HandleTx
  BY <1>0, <1>46 DEF HandleTx, Handling
<1>47. CASE UnhandledDone
  BY <1>0, <1>47 DEF UnhandledDone
<1>48. CASE LtIn
  BY <1>0, <1>48 DEF LtIn
<1>49. CASE LtOut
  BY <1>0, <1>49 DEF LtOut
<1>50. CASE MqDequeue
  BY <1>0, <1>50 DEF MqDequeue
<1>51. CASE EpollTimeout
  BY <1>0, <1>51 DEF EpollTimeout, EpollReturns
<1>52. CASE EpollLoop
  BY <1>0, <1>52 DEF EpollLoop, EpollReturns
<1>53. ASSUME NEW k \in 0 .. MaxPostponed, HandlePostponed(k) PROVE TxInv'
  BY <1>0, <1>53 DEF HandlePostponed
<1> QED
  BY <1>1, <1>2, <1>3, <1>4, <1>5, <1>6, <1>7, <1>8, <1>9, <1>10, <1>11,
     <1>12, <1>13, <1>14, <1>15, <1>16, <1>17, <1>18, <1>19, <1>20, <1>21,
     <1>22, <1>23, <1>24, <1>25, <1>26, <1>27, <1>28, <1>29, <1>30, <1>31,
     <1>32, <1>33, <1>34, <1>35, <1>36, <1>37, <1>38, <1>39, <1>40, <1>41,
     <1>42, <1>43, <1>44, <1>45, <1>46, <1>47, <1>48, <1>49, <1>50, <1>51,
     <1>52, <1>53
     DEF Next, VppStep, AppStep

\* Every step keeps track of received data.
LEMMA RxStep == IInv /\ Next => RxInv'
<1> SUFFICES ASSUME IInv, Next PROVE RxInv'
  OBVIOUS
<1> USE DEF RxInv, RxSent, RxQueued, RxComing, RxKnown, Lists, Control, fifos, worker, app,
            appRest, setup, AGoto, VGoto, AppStates, EventLoop, Epoll, Handle, Blocking, Reading, Evt
<1>0. /\ RxInv /\ Lists /\ Control /\ rx \in Nat /\ Size \in Nat /\ rx <= Size
      /\ apc \in AppStates /\ mode \in {"block", "et", "lt"}
  BY Sizes DEF IInv, Types
<1>1. CASE RxEnqueue
  BY <1>0, <1>1 DEF RxEnqueue, Idle
<1>2. CASE AcceptReply
  BY <1>0, <1>2 DEF AcceptReply, Idle
<1>3. CASE MqPoll
  BY <1>0, <1>3 DEF MqPoll
<1>4. CASE TxNoSpace
  BY <1>0, <1>4 DEF TxNoSpace, TxTake, Idle
<1>5. CASE TxSend
  BY <1>0, <1>5 DEF TxSend, FillBuffer, TxTake, Idle
<1>6. CASE Ack
  BY <1>0, <1>6 DEF Ack, Idle
<1>7. CASE Reschedule
  BY <1>0, <1>7 DEF Reschedule
<1>8. CASE RxTest
  <2>1. CASE Postpone("rx") /\ VGoto("idle")
    <3>1. Contains(postponed', "rx")
      BY <1>0, <2>1, ContainsAppend DEF Postpone
    <3> QED
      BY <1>0, <1>8, <2>1, <3>1 DEF RxTest, Postpone
  <2>2. CASE UNCHANGED <<postponed, appQ>>
    BY <1>0, <1>8, <2>2 DEF RxTest, Postpone
  <2> QED
    BY <1>8, <2>1, <2>2 DEF RxTest
<1>9. CASE RxSet
  BY <1>0, <1>9 DEF RxSet
<1>10. CASE RxAdd
  BY <1>0, <1>10, ContainsAppend DEF RxAdd
<1>11. CASE TxUnset
  BY <1>0, <1>11 DEF TxUnset
<1>12. CASE TxTest
  BY <1>0, <1>12 DEF TxTest, AfterTx
<1>13. CASE TxSwap
  BY <1>0, <1>13 DEF TxSwap, AfterTx
<1>14. CASE NtfTest
  BY <1>0, <1>14 DEF NtfTest
<1>15. CASE NtfClear
  BY <1>0, <1>15 DEF NtfClear
<1>16. CASE NtfStore
  BY <1>0, <1>16 DEF NtfStore
<1>17. CASE NtfSend
  <2>1. /\ Contains(postponed, "rx") => Contains(postponed', "rx")
        /\ Contains(appQ, "rx") => Contains(appQ', "rx")
    BY <1>0, <1>17, ContainsAppend DEF NtfSend, Postpone
  <2> QED
    BY <1>0, <1>17, <2>1 DEF NtfSend
<1>18. CASE RescheduleTest
  BY <1>0, <1>18 DEF RescheduleTest
<1>19. CASE NoReschedule
  BY <1>0, <1>19 DEF NoReschedule
<1>20. CASE EpollAdd
  <2>1. <<"tx">> \in Seq(Evt) /\ <<"rx">> \in Seq(Evt) /\ Contains(<<"rx">>, "rx")
    BY DEF Contains
  <2>2. rx > 0 => Contains(unhandled', "rx")
    BY <1>20, <2>1, ContainsCat DEF EpollAdd
  <2> QED
    BY <1>0, <1>20, <2>2, ContainsEmpty DEF EpollAdd
<1>21. CASE EpollMod
  BY <1>0, <1>21, ContainsAppend DEF EpollMod, AddUnhandled
<1>22. CASE EpollModStore
  BY <1>0, <1>22 DEF EpollModStore
<1>23. CASE ReadEmpty
  BY <1>0, <1>23, ContainsEmpty DEF ReadEmpty
<1>24. CASE ReadWouldBlock
  BY <1>0, <1>24 DEF ReadWouldBlock
<1>25. CASE WaitFlush
  BY <1>0, <1>25, ContainsEmpty DEF WaitFlush
<1>26. CASE ReadSome
  BY <1>0, <1>26 DEF ReadSome, Dequeue, Least
<1>27. CASE ReadDone
  <2>1. mode = "et" /\ an = 0 => canRead'
    BY <1>27 DEF ReadDone, ReadReturns
  <2>2. mode = "lt" => ~canRead'
    BY <1>27 DEF ReadDone, ReadReturns
  <2>3. CASE apc = "rdTest" /\ rx > 0 /\ an = 0
    BY <1>0, <1>27, <2>1, <2>2, <2>3 DEF ReadDone, ReadReturns
  <2>4. CASE apc = "rdRetest" /\ rx = 0
    BY <1>0, <1>27, <2>2, <2>4 DEF ReadDone, ReadReturns
  <2> QED
    BY <1>27, <2>3, <2>4 DEF ReadDone
<1>28. CASE ReadEmptied
  BY <1>0, <1>28 DEF ReadEmptied
<1>29. CASE ReadUnset
  BY <1>0, <1>29 DEF ReadUnset
<1>30. CASE ReadRetest
  BY <1>0, <1>30 DEF ReadRetest
<1>31. CASE ReadSwap
  BY <1>0, <1>31, ContainsAppend DEF ReadSwap, AddUnhandled, ReadReturns
<1>32. CASE NoRead
  BY <1>0, <1>32 DEF NoRead
<1>33. CASE Write
  BY <1>0, <1>33 DEF Write, Least
<1>34. CASE WriteSwap
  BY <1>0, <1>34 DEF WriteSwap
<1>35. CASE WriteSend
  BY <1>0, <1>35 DEF WriteSend
<1>36. CASE WriteFull
  BY <1>0, <1>36 DEF WriteFull
<1>37. CASE WriteLoad
  BY <1>0, <1>37 DEF WriteLoad
<1>38. CASE WriteStore
  BY <1>0, <1>38 DEF WriteStore
<1>39. CASE NoWrite
  BY <1>0, <1>39 DEF NoWrite
<1>40. CASE NextCall
  BY <1>0, <1>40 DEF NextCall
<1>41. CASE EpollWait
  BY <1>0, <1>41, ContainsEmpty DEF EpollWait, Told
<1>42. CASE HandleRxEmpty
  BY <1>0, <1>42 DEF HandleRxEmpty
<1>43. CASE HandleRxUnset
  BY <1>0, <1>43 DEF HandleRxUnset
<1>44. CASE HandleRxStillEmpty
  BY <1>0, <1>44, ContainsTail DEF HandleRxStillEmpty, First
<1>45. CASE HandleRx
  BY <1>0, <1>45, ContainsTail DEF HandleRx, Handling, First, Reports
<1>46. CASE HandleTx
  BY <1>0, <1>46, ContainsTail DEF HandleTx, Handling
<1>47. CASE UnhandledDone
  BY <1>0, <1>47 DEF UnhandledDone
<1>48. CASE LtIn
  BY <1>0, <1>48 DEF LtIn
<1>49. CASE LtOut
  BY <1>0, <1>49 DEF LtOut
<1>50. CASE MqDequeue
  BY <1>0, <1>50, ContainsEmpty DEF MqDequeue
<1>51. CASE EpollTimeout
  BY <1>0, <1>51 DEF EpollTimeout, EpollReturns
<1>52. CASE EpollLoop
  <2>1. CASE EpollReturns
    BY <1>0, <1>52, <2>1 DEF EpollLoop, EpollReturns
  <2>2. CASE UNCHANGED <<canRead, canWrite, rep, timeout>> /\ AGoto("mqWait")
    BY <1>0, <1>52, <2>2 DEF EpollLoop
  <2> QED
    BY <1>52, <2>1, <2>2 DEF EpollLoop
<1>53. ASSUME NEW k \in 0 .. MaxPostponed, HandlePostponed(k) PROVE RxInv'
  <2>1. k \in 0 .. Len(postponed) /\ Len(postponed) \in Nat
    BY <1>0, <1>53, RingCount, Sizes DEF HandlePostponed, Least, IInv
  <2>2. Contains(postponed, "rx") => Contains(postponed', "rx") \/ Contains(appQ', "rx")
    BY <1>0, <1>53, <2>1, ContainsSplit, ContainsCat DEF HandlePostponed
  <2>3. Contains(appQ, "rx") => Contains(appQ', "rx")
    BY <1>0, <1>53, <2>1, ContainsSplit, ContainsCat DEF HandlePostponed
  <2> QED
    BY <1>0, <1>53, <2>2, <2>3 DEF HandlePostponed
<1> QED
  BY <1>1, <1>2, <1>3, <1>4, <1>5, <1>6, <1>7, <1>8, <1>9, <1>10, <1>11,
     <1>12, <1>13, <1>14, <1>15, <1>16, <1>17, <1>18, <1>19, <1>20, <1>21,
     <1>22, <1>23, <1>24, <1>25, <1>26, <1>27, <1>28, <1>29, <1>30, <1>31,
     <1>32, <1>33, <1>34, <1>35, <1>36, <1>37, <1>38, <1>39, <1>40, <1>41,
     <1>42, <1>43, <1>44, <1>45, <1>46, <1>47, <1>48, <1>49, <1>50, <1>51,
     <1>52, <1>53
     DEF Next, VppStep, AppStep

\* Every step keeps track of the room a writer waits for.
LEMMA WriteStep == IInv /\ Next => WriteInv'
<1> SUFFICES ASSUME IInv, Next PROVE WriteInv'
  OBVIOUS
<1> USE DEF WriteInv, TxSent, NtfDue, Lists, Control, fifos, worker, app,
            appRest, setup, AGoto, VGoto, AppStates, EventLoop, Epoll, Handle, Blocking, Reading, Evt
<1>0. /\ WriteInv /\ Lists /\ Control /\ tx \in Nat /\ Size \in Nat /\ tx <= Size
      /\ off \in Nat /\ off <= tx /\ vn \in Nat /\ mods \in Nat
      /\ apc \in AppStates /\ mode \in {"block", "et", "lt"}
  BY Sizes DEF IInv, Types
<1>1. CASE RxEnqueue
  BY <1>0, <1>1 DEF RxEnqueue, Idle
<1>2. CASE AcceptReply
  BY <1>0, <1>2 DEF AcceptReply, Idle
<1>3. CASE MqPoll
  BY <1>0, <1>3 DEF MqPoll
<1>4. CASE TxNoSpace
  BY <1>0, <1>4 DEF TxNoSpace, TxTake, Idle
<1>5. CASE TxSend
  BY <1>0, <1>5 DEF TxSend, FillBuffer, TxTake, Idle, Unsent
<1>6. CASE Ack
  BY <1>0, <1>6 DEF Ack, Idle
<1>7. CASE Reschedule
  BY <1>0, <1>7 DEF Reschedule
<1>8. CASE RxTest
  <2>1. Contains(postponed, "tx") => Contains(postponed', "tx")
    BY <1>0, <1>8, ContainsAppend DEF RxTest, Postpone
  <2>2. appQ' = appQ
    BY <1>8 DEF RxTest, Postpone
  <2> QED
    BY <1>0, <1>8, <2>1, <2>2 DEF RxTest
<1>9. CASE RxSet
  BY <1>0, <1>9 DEF RxSet
<1>10. CASE RxAdd
  BY <1>0, <1>10, ContainsAppend DEF RxAdd
<1>11. CASE TxUnset
  BY <1>0, <1>11 DEF TxUnset
<1>12. CASE TxTest
  BY <1>0, <1>12 DEF TxTest, AfterTx
<1>13. CASE TxSwap
  BY <1>0, <1>13 DEF TxSwap, AfterTx
<1>14. CASE NtfTest
  BY <1>0, <1>14 DEF NtfTest, NeedsDeqNtf
<1>15. CASE NtfClear
  BY <1>0, <1>15 DEF NtfClear
<1>16. CASE NtfStore
  BY <1>0, <1>16 DEF NtfStore
<1>17. CASE NtfSend
  <2>1. CASE Postpone("tx")
    <3>1. Contains(postponed', "tx")
      BY <1>0, <2>1, ContainsAppend DEF Postpone
    <3> QED
      BY <1>0, <1>17, <3>1 DEF NtfSend
  <2>2. CASE appQ' = Append(appQ, "tx")
    <3>1. Contains(appQ', "tx")
      BY <1>0, <2>2, ContainsAppend
    <3> QED
      BY <1>0, <1>17, <3>1 DEF NtfSend
  <2> QED
    BY <1>17, <2>1, <2>2 DEF NtfSend
<1>18. CASE RescheduleTest
  BY <1>0, <1>18 DEF RescheduleTest
<1>19. CASE NoReschedule
  BY <1>0, <1>19 DEF NoReschedule
<1>20. CASE EpollAdd
  <2>1. <<"tx">> \in Seq(Evt) /\ <<"rx">> \in Seq(Evt) /\ Contains(<<"tx">>, "tx")
    BY DEF Contains
  <2>2. Contains(unhandled', "tx")
    BY <1>20, <2>1, ContainsCat, ContainsEmpty DEF EpollAdd
  <2> QED
    BY <1>0, <1>20, <2>2 DEF EpollAdd
<1>21. CASE EpollMod
  BY <1>0, <1>21, ContainsAppend DEF EpollMod
<1>22. CASE EpollModStore
  BY <1>0, <1>22 DEF EpollModStore
<1>23. CASE ReadEmpty
  BY <1>0, <1>23 DEF ReadEmpty
<1>24. CASE ReadWouldBlock
  BY <1>0, <1>24 DEF ReadWouldBlock
<1>25. CASE WaitFlush
  BY <1>0, <1>25, ContainsEmpty DEF WaitFlush
<1>26. CASE ReadSome
  BY <1>0, <1>26 DEF ReadSome, Dequeue, Least
<1>27. CASE ReadDone
  BY <1>0, <1>27 DEF ReadDone, ReadReturns
<1>28. CASE ReadEmptied
  BY <1>0, <1>28 DEF ReadEmptied
<1>29. CASE ReadUnset
  BY <1>0, <1>29 DEF ReadUnset
<1>30. CASE ReadRetest
  BY <1>0, <1>30 DEF ReadRetest
<1>31. CASE ReadSwap
  BY <1>0, <1>31, ContainsAppend DEF ReadSwap, AddUnhandled, ReadReturns
<1>32. CASE NoRead
  BY <1>0, <1>32 DEF NoRead
<1>33. CASE Write
  BY <1>0, <1>33 DEF Write, Least
<1>34. CASE WriteSwap
  BY <1>0, <1>34 DEF WriteSwap
<1>35. CASE WriteSend
  BY <1>0, <1>35 DEF WriteSend
<1>36. CASE WriteFull
  BY <1>0, <1>36 DEF WriteFull
<1>37. CASE WriteLoad
  BY <1>0, <1>37 DEF WriteLoad
<1>38. CASE WriteStore
  BY <1>0, <1>38 DEF WriteStore
<1>39. CASE NoWrite
  BY <1>0, <1>39 DEF NoWrite
<1>40. CASE NextCall
  BY <1>0, <1>40 DEF NextCall
<1>41. CASE EpollWait
  BY <1>0, <1>41, ContainsEmpty DEF EpollWait, Told
<1>42. CASE HandleRxEmpty
  BY <1>0, <1>42 DEF HandleRxEmpty
<1>43. CASE HandleRxUnset
  BY <1>0, <1>43 DEF HandleRxUnset
<1>44. CASE HandleRxStillEmpty
  BY <1>0, <1>44, ContainsTail DEF HandleRxStillEmpty, First
<1>45. CASE HandleRx
  BY <1>0, <1>45, ContainsTail DEF HandleRx, Handling, First, Reports
<1>46. CASE HandleTx
  BY <1>0, <1>46, ContainsTail DEF HandleTx, Handling
<1>47. CASE UnhandledDone
  BY <1>0, <1>47 DEF UnhandledDone
<1>48. CASE LtIn
  BY <1>0, <1>48 DEF LtIn
<1>49. CASE LtOut
  BY <1>0, <1>49 DEF LtOut
<1>50. CASE MqDequeue
  BY <1>0, <1>50, ContainsEmpty DEF MqDequeue
<1>51. CASE EpollTimeout
  BY <1>0, <1>51 DEF EpollTimeout, EpollReturns
<1>52. CASE EpollLoop
  BY <1>0, <1>52 DEF EpollLoop, EpollReturns
<1>53. ASSUME NEW k \in 0 .. MaxPostponed, HandlePostponed(k) PROVE WriteInv'
  <2>1. k \in 0 .. Len(postponed) /\ Len(postponed) \in Nat
    BY <1>0, <1>53, RingCount, Sizes DEF HandlePostponed, Least, IInv
  <2>2. Contains(postponed, "tx") => Contains(postponed', "tx") \/ Contains(appQ', "tx")
    BY <1>0, <1>53, <2>1, ContainsSplit, ContainsCat DEF HandlePostponed
  <2>3. Contains(appQ, "tx") => Contains(appQ', "tx")
    BY <1>0, <1>53, <2>1, ContainsSplit, ContainsCat DEF HandlePostponed
  <2> QED
    BY <1>0, <1>53, <2>2, <2>3 DEF HandlePostponed
<1> QED
  BY <1>1, <1>2, <1>3, <1>4, <1>5, <1>6, <1>7, <1>8, <1>9, <1>10, <1>11,
     <1>12, <1>13, <1>14, <1>15, <1>16, <1>17, <1>18, <1>19, <1>20, <1>21,
     <1>22, <1>23, <1>24, <1>25, <1>26, <1>27, <1>28, <1>29, <1>30, <1>31,
     <1>32, <1>33, <1>34, <1>35, <1>36, <1>37, <1>38, <1>39, <1>40, <1>41,
     <1>42, <1>43, <1>44, <1>45, <1>46, <1>47, <1>48, <1>49, <1>50, <1>51,
     <1>52, <1>53
     DEF Next, VppStep, AppStep

\* Every step keeps the queues within their sizes.
LEMMA BoundsStep == IInv /\ Next => Bounds'
<1> SUFFICES ASSUME IInv, Next PROVE Bounds'
  OBVIOUS
<1> USE DEF Bounds, RingInUse, RingFull, Ntf, fifos, worker, app, appRest, setup, AGoto, VGoto
<1>0. /\ Bounds /\ Len(appQ) \in Nat /\ Len(todo) \in Nat /\ Len(postponed) \in Nat
      /\ mods \in Nat /\ vppQ \in Nat
  BY RingCount DEF IInv, Types
<1>a. AppQ \in Nat /\ VppQ \in Nat /\ VppQ > 0 /\ MaxPostponed \in Nat /\ MaxMods \in Nat
  BY Sizes
<1>1. CASE RxEnqueue
  BY <1>0, <1>a, <1>1 DEF RxEnqueue, Idle
<1>2. CASE AcceptReply
  BY <1>0, <1>a, <1>2 DEF AcceptReply, Idle
<1>3. CASE MqPoll
  BY <1>0, <1>a, <1>3 DEF MqPoll
<1>4. CASE TxNoSpace
  BY <1>0, <1>a, <1>4 DEF TxNoSpace, TxTake, Idle
<1>5. CASE TxSend
  BY <1>0, <1>a, <1>5 DEF TxSend, FillBuffer, TxTake, Idle, Unsent
<1>6. CASE Ack
  BY <1>0, <1>a, <1>6 DEF Ack, Idle
<1>7. CASE Reschedule
  BY <1>0, <1>a, <1>7 DEF Reschedule
<1>8. CASE RxTest
  <2>1. Len(postponed') \in {Len(postponed), Len(postponed) + 1} /\ appQ' = appQ
    BY <1>8, AppendProperties DEF RxTest, Postpone, IInv, Lists, Evt
  <2>2. vpc' \notin {"idle", "rxSet"} => FALSE
    BY <1>8 DEF RxTest
  <2>3. vpc' = "rxSet" => Len(postponed') = Len(postponed) /\ RingInUse < AppQ
    BY <1>0, <1>a, <1>8 DEF RxTest
  <2>4. UNCHANGED <<apc, todo, want, awant, vppQ, mods>> /\ vwant' \in {vwant, {}}
    BY <1>8 DEF RxTest
  <2>5. RingInUse' = RingInUse
    BY <2>1, <2>4
  <2>6. vpc = "rxTest"
    BY <1>8 DEF RxTest
  <2> HIDE DEF RingInUse
  <2> QED
    BY <1>0, <1>a, <2>1, <2>2, <2>3, <2>4, <2>5, <2>6
<1>9. CASE RxSet
  BY <1>0, <1>a, <1>9 DEF RxSet
<1>10. CASE RxAdd
  <2>1. Len(appQ') = Len(appQ) + 1
    BY <1>10, AppendProperties DEF RxAdd, IInv, Lists, Evt
  <2>2. RingInUse' = RingInUse + 1 /\ RingInUse \in Nat
    <3>1. apc' = apc /\ todo' = todo
      BY <1>10 DEF RxAdd
    <3>2. Lists /\ 1 \in Nat /\ RingInUse \in Nat
      BY RingCount DEF IInv
    <3> HIDE DEF RingInUse
    <3> QED
      BY <2>1, <3>1, <3>2, RingGrows
  <2> HIDE DEF RingInUse
  <2> QED
    BY <1>0, <1>a, <1>10, <2>2 DEF RxAdd
<1>11. CASE TxUnset
  BY <1>0, <1>a, <1>11 DEF TxUnset
<1>12. CASE TxTest
  BY <1>0, <1>a, <1>12 DEF TxTest, AfterTx
<1>13. CASE TxSwap
  BY <1>0, <1>a, <1>13 DEF TxSwap, AfterTx
<1>14. CASE NtfTest
  BY <1>0, <1>a, <1>14 DEF NtfTest, NeedsDeqNtf
<1>15. CASE NtfClear
  BY <1>0, <1>a, <1>15 DEF NtfClear
<1>16. CASE NtfStore
  BY <1>0, <1>a, <1>16 DEF NtfStore
<1>17. CASE NtfSend
  <2>1. \/ Len(postponed') = Len(postponed) + 1 /\ appQ' = appQ
        \/ postponed' = postponed /\ Len(appQ') = Len(appQ) + 1 /\ ~RingFull
    BY <1>17, AppendProperties DEF NtfSend, Postpone, IInv, Lists, Evt
  <2>2. UNCHANGED <<apc, todo, want, awant, vppQ, mods>> /\ vwant' \in {vwant, {}}
        /\ vpc = "send" /\ vpc' \in {"idle", "resched"}
    BY <1>17 DEF NtfSend
  <2>3. /\ RingInUse \in Nat
        /\ \/ Len(postponed') = Len(postponed) + 1 /\ RingInUse' = RingInUse
           \/ postponed' = postponed /\ RingInUse' = RingInUse + 1 /\ RingInUse < AppQ
    BY <1>0, <1>a, <2>1, <2>2
  <2> HIDE DEF RingInUse
  <2> QED
    BY <1>0, <1>a, <2>2, <2>3
<1>18. CASE RescheduleTest
  BY <1>0, <1>a, <1>18 DEF RescheduleTest
<1>19. CASE NoReschedule
  BY <1>0, <1>a, <1>19 DEF NoReschedule
<1>20. CASE EpollAdd
  BY <1>0, <1>a, <1>20 DEF EpollAdd
<1>21. CASE EpollMod
  BY <1>0, <1>a, <1>21 DEF EpollMod
<1>22. CASE EpollModStore
  BY <1>0, <1>a, <1>22 DEF EpollModStore
<1>23. CASE ReadEmpty
  BY <1>0, <1>a, <1>23 DEF ReadEmpty
<1>24. CASE ReadWouldBlock
  BY <1>0, <1>a, <1>24 DEF ReadWouldBlock
<1>25. CASE WaitFlush
  BY <1>0, <1>a, <1>25 DEF WaitFlush
<1>26. CASE ReadSome
  BY <1>0, <1>a, <1>26 DEF ReadSome, Dequeue, Least
<1>27. CASE ReadDone
  BY <1>0, <1>a, <1>27 DEF ReadDone, ReadReturns
<1>28. CASE ReadEmptied
  BY <1>0, <1>a, <1>28 DEF ReadEmptied
<1>29. CASE ReadUnset
  BY <1>0, <1>a, <1>29 DEF ReadUnset
<1>30. CASE ReadRetest
  BY <1>0, <1>a, <1>30 DEF ReadRetest
<1>31. CASE ReadSwap
  BY <1>0, <1>a, <1>31 DEF ReadSwap, ReadReturns
<1>32. CASE NoRead
  BY <1>0, <1>a, <1>32 DEF NoRead
<1>33. CASE Write
  BY <1>0, <1>a, <1>33 DEF Write, Least
<1>34. CASE WriteSwap
  BY <1>0, <1>a, <1>34 DEF WriteSwap
<1>35. CASE WriteSend
  BY <1>0, <1>a, <1>35 DEF WriteSend
<1>36. CASE WriteFull
  BY <1>0, <1>a, <1>36 DEF WriteFull
<1>37. CASE WriteLoad
  BY <1>0, <1>a, <1>37 DEF WriteLoad
<1>38. CASE WriteStore
  BY <1>0, <1>a, <1>38 DEF WriteStore
<1>39. CASE NoWrite
  BY <1>0, <1>a, <1>39 DEF NoWrite
<1>40. CASE NextCall
  BY <1>0, <1>a, <1>40 DEF NextCall
<1>41. CASE EpollWait
  BY <1>0, <1>a, <1>41 DEF EpollWait, Told
<1>42. CASE HandleRxEmpty
  BY <1>0, <1>a, <1>42 DEF HandleRxEmpty
<1>43. CASE HandleRxUnset
  BY <1>0, <1>a, <1>43 DEF HandleRxUnset
<1>44. CASE HandleRxStillEmpty
  BY <1>0, <1>a, <1>44 DEF HandleRxStillEmpty, First
<1>45. CASE HandleRx
  BY <1>0, <1>a, <1>45 DEF HandleRx, Handling, First, Reports
<1>46. CASE HandleTx
  BY <1>0, <1>a, <1>46 DEF HandleTx, Handling
<1>47. CASE UnhandledDone
  BY <1>0, <1>a, <1>47 DEF UnhandledDone
<1>48. CASE LtIn
  BY <1>0, <1>a, <1>48 DEF LtIn
<1>49. CASE LtOut
  BY <1>0, <1>a, <1>49 DEF LtOut
<1>50. CASE MqDequeue
  BY <1>0, <1>a, <1>50 DEF MqDequeue
<1>51. CASE EpollTimeout
  BY <1>0, <1>a, <1>51 DEF EpollTimeout, EpollReturns
<1>52. CASE EpollLoop
  BY <1>0, <1>a, <1>52 DEF EpollLoop, EpollReturns
<1>53. ASSUME NEW k \in 0 .. MaxPostponed, HandlePostponed(k) PROVE Bounds'
  <2>a. RingInUse \in Nat
    BY <1>0
  <2> HIDE DEF RingInUse
  <2>1. k \in 0 .. Len(postponed) /\ k <= AppQ - RingInUse
    BY <1>0, <1>a, <1>53, <2>a DEF HandlePostponed, Least
  <2>2. Len(SubSeq(postponed, 1, k)) = k /\ SubSeq(postponed, 1, k) \in Seq(Evt)
        /\ Len(postponed') = Len(postponed) - k
    BY <1>53, <2>1, ContainsSplit DEF HandlePostponed, IInv, Lists
  <2>3. Len(appQ') = Len(appQ) + k
    BY <1>53, <2>2, ConcatProperties DEF HandlePostponed, IInv, Lists
  <2>4. RingInUse' = RingInUse + k
    <3>1. apc' = apc /\ todo' = todo
      BY <1>53 DEF HandlePostponed
    <3> QED
      BY <2>1, <2>3, <3>1, RingGrows DEF IInv
  <2> QED
    BY <1>0, <1>a, <1>53, <2>a, <2>1, <2>2, <2>4 DEF HandlePostponed
<1> QED
  BY <1>1, <1>2, <1>3, <1>4, <1>5, <1>6, <1>7, <1>8, <1>9, <1>10, <1>11,
     <1>12, <1>13, <1>14, <1>15, <1>16, <1>17, <1>18, <1>19, <1>20, <1>21,
     <1>22, <1>23, <1>24, <1>25, <1>26, <1>27, <1>28, <1>29, <1>30, <1>31,
     <1>32, <1>33, <1>34, <1>35, <1>36, <1>37, <1>38, <1>39, <1>40, <1>41,
     <1>42, <1>43, <1>44, <1>45, <1>46, <1>47, <1>48, <1>49, <1>50, <1>51,
     <1>52, <1>53
     DEF Next, VppStep, AppStep

-----------------------------------------------------------------------------
\* The inductive invariant of the two fifos and their events.
THEOREM Invariance == Spec => []IInv
<1>1. Init => IInv
  <2> SUFFICES ASSUME Init PROVE IInv
    OBVIOUS
  <2>1. Types /\ Lists /\ Control
    BY Sizes, SessionIoAssumption, ContainsEmpty
       DEF Init, Types, Lists, Control, VppStates, AppStates, EventLoop, Epoll, Handle,
           Blocking, Reading
  <2>2. Flags
    BY Zenon DEF Init, Flags
  <2>3. Bounds
    BY Sizes, EmptySeq DEF Init, Bounds, RingInUse
  <2>4. TxInv
    BY Sizes DEF Init, TxInv, Unsent
  <2>5. RxInv /\ WriteInv
    BY Sizes DEF Init, RxInv, WriteInv, RxKnown, Epoll, Handle, Reading
  <2> QED
    BY <2>1, <2>2, <2>3, <2>4, <2>5 DEF IInv
<1>2. IInv /\ Next => IInv'
  BY TypesStep, FlagsStep, ListsStep, BoundsStep, ControlStep, TxStep, RxStep, WriteStep
     DEF IInv
<1>3. IInv /\ UNCHANGED vars => IInv'
  <2> SUFFICES ASSUME IInv, UNCHANGED vars PROVE IInv'
    OBVIOUS
  <2> USE DEF IInv, vars, fifos, worker, app, setup
  <2>1. Types' /\ Lists' /\ Bounds'
    BY DEF Types, Lists, Bounds, RingInUse
  <2>2. Flags' /\ Control'
    <3>1. Flags'
      BY Zenon DEF Flags
    <3>2. Control'
      BY DEF Control
    <3> QED
      BY <3>1, <3>2
  <2>a. TxInv'
    BY DEF TxInv, Unsent
  <2>3. RxInv' /\ WriteInv'
    BY DEF RxInv, RxSent, RxQueued, RxComing, RxKnown, WriteInv, TxSent, NtfDue
  <2> QED
    BY <2>1, <2>2, <2>3, <2>a
<1> QED
  BY <1>1, <1>2, <1>3, PTL DEF Spec

\* Types and bounds: in particular the application's queue never holds more
\* messages than its ring has elements, although vpp tests the ring some steps
\* before it adds the message, and the bound on postponed messages is kept.
THEOREM TypeCorrect == Spec => []TypeOK
<1>1. IInv => TypeOK
  <2> SUFFICES ASSUME IInv PROVE TypeOK
    OBVIOUS
  <2>1. peek \in Peeks
        /\ {rxEvent, txEvent, hasNtf, desched, accepting, congested, hasRx, lt, outOn,
            canRead, canWrite} \subseteq BOOLEAN
    BY Zenon DEF IInv, Flags
  <2> QED
    BY <2>1, Sizes DEF IInv, Types, Lists, Bounds, TypeOK
<1> QED
  BY <1>1, Invariance, PTL

\* Written data is never stranded: has_event of the tx fifo, cleared and tested
\* again by the worker and set by both sides, always stands for an element, a
\* message on its way or a tcp connection that is descheduled.
THEOREM TxNeverLost == Spec => []NoLostTx
<1>1. IInv => NoLostTx
  BY DEF IInv, TxInv, NoLostTx, Types
<1> QED
  BY <1>1, Invariance, PTL

\* An event loop is never left asleep on received data, edge or level
\* triggered, for fifos and queues of any size.
THEOREM RxNeverLost == Spec => []NoLostRx
<1>1. IInv => NoLostRx
  <2> SUFFICES ASSUME IInv, Asleep, ~canRead, rx # 0 PROVE FALSE
    BY DEF NoLostRx
  <2>1. /\ RxInv /\ Control /\ rx > 0
        /\ appQ = << >> /\ postponed = << >> /\ vpc = "idle" /\ ~accepting
        /\ apc = "mqWait" /\ rep = {} /\ ~lt
    BY Sizes DEF IInv, Types, Asleep, Quiet
  <2>2. todo = << >> /\ unhandled = << >> /\ mode # "block"
    BY <2>1 DEF Control, Handle, Epoll, EventLoop
  <2> QED
    BY <2>1, <2>2, ContainsEmpty
       DEF RxInv, RxComing, RxQueued, RxSent, RxKnown, Reading
<1> QED
  BY <1>1, Invariance, PTL

\* An event loop that was refused a write is never left asleep on a tx fifo
\* with room.
THEOREM WriteNeverLost == Spec => []NoLostWrite
<1>1. IInv => NoLostWrite
  <2> SUFFICES ASSUME IInv, Asleep, ~canWrite, mods = 0, tx # Size PROVE FALSE
    BY DEF NoLostWrite
  <2>1. /\ WriteInv /\ Control /\ tx < Size
        /\ appQ = << >> /\ postponed = << >> /\ vpc = "idle"
        /\ apc = "mqWait" /\ rep = {} /\ ~lt
    BY Sizes DEF IInv, Types, Asleep, Quiet
  <2>2. todo = << >> /\ unhandled = << >> /\ mode # "block"
    BY <2>1 DEF Control, Handle, Epoll, EventLoop
  <2> QED
    BY <2>1, <2>2, ContainsEmpty DEF WriteInv, TxSent, NtfDue
<1> QED
  BY <1>1, Invariance, PTL
=============================================================================
