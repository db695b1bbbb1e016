--------------------------- MODULE MsgQueueProofs ---------------------------
(***************************************************************************)
(* Proofs about MsgQueue, for any number of producers and rings, any size  *)
(* of the queue and of the rings, and producers that may die anywhere.     *)
(***************************************************************************)
EXTENDS MsgQueue, NatLemmas, SequenceTheorems, TLAPS

Slot == 0 .. QItems - 1
Elt == 0 .. RingItems - 1

\* Types of the two kinds of arrays and of what the two sides keep.
Types ==
  /\ mode \in [cond : Conds, batch : Batches, add : Adds]
  /\ lock \in Procs \union {Free, Dead, Lost}
  /\ pc \in [Procs -> ProdStates \union ConsStates]
  /\ \A p \in Producers : pc[p] \in ProdStates
  /\ consPc \in ConsStates
  /\ back \in {"idle", "read", "process"}
QueueTypes ==
  /\ slots \in [Slot -> Msg \union {NoMsg}]
  /\ qHead \in Slot /\ qTail \in Slot /\ qSize \in 0 .. QItems
  /\ batch \in Seq(Msg) /\ got \in Seq(Msg)
  /\ nMsgs \in Nat /\ sz \in Nat /\ cur \in Msg \union {NoMsg}
RingTypes ==
  /\ rHead \in [Rings -> Elt] /\ rTail \in [Rings -> Elt]
  /\ rSize \in [Rings -> 0 .. RingItems]
  /\ data \in [Rings -> [Elt -> Content \union {NoContent}]]
CallTypes ==
  /\ call \in [Producers -> [ring : Rings \union {"none"}, noblock : BOOLEAN]]
  /\ msg \in [Producers -> Msg \union {NoMsg}]
  /\ sent \in [Producers -> 0 .. MaxMsgs]
  /\ received \in Seq(Content \union {NoContent})

\* The mutex: who is inside has it.
Inside == {"test", "sleep", "alloc", "write", "publish", "signal", "unlock"}
Locking ==
  /\ \A p \in Producers : pc[p] \in Inside => lock = p
  /\ consPc \in {"test", "sleep", "signal"} => lock = Consumer
  /\ lock = Dead => ~AllAlive
  /\ lock \in Producers => pc[lock] # "dead"

\* What a producer knows of its message, of its ring and of the queue.
Has(p) == msg[p] # NoMsg
Calls ==
  \A p \in Producers :
    /\ pc[p] \in {"lock", "test", "sleep", "asleep", "relock"} =>
         IF UseAdd THEN Has(p) ELSE call[p].ring \in Rings
    /\ pc[p] = "alloc" => ~UseAdd /\ call[p].ring \in Rings
                          /\ rSize[call[p].ring] < RingItems
    /\ pc[p] \in {"write", "publish"} => Has(p)
    /\ pc[p] \in {"alloc", "write", "publish"} => qSize < QItems
    /\ pc[p] = "publish" => slots[qTail] = msg[p]
    /\ ~UseAdd /\ Has(p) => pc[p] \in {"write", "publish", "dead"}
    /\ Has(p) \/ pc[p] \in {"lock", "test", "sleep", "asleep", "relock", "alloc"} =>
         sent[p] < MaxMsgs
    /\ UseAdd /\ (Has(p) \/ sent[p] > 0) =>
         \A q \in Producers \ {p} : ~Has(q) /\ sent[q] = 0

\* What is in the queue, and the messages on their way in the order in which
\* they are freed: the one being freed, those taken out, those in the queue.
Waiting == [i \in 1 .. qSize |-> QueueAt(qTail + QItems - qSize + i - 1)]
Flight == (IF cur = NoMsg THEN << >> ELSE <<cur>>) \o (got \o Waiting)

\* The consumer's copy is the front of the queue, and head is behind it.
Consuming ==
  /\ consPc # "decrement" => batch = << >>
  /\ Len(batch) <= qSize
  /\ \A i \in DOMAIN batch : batch[i] = Waiting[i]
  /\ qHead = (qTail + QItems - qSize + Len(batch)) % QItems
  /\ back = "read" => Batch
  /\ (cur # NoMsg) <=> consPc \in {"freeTest", "freeDecrement"}
  /\ Cond = "nowait" => consPc \notin {"lock", "test", "sleep", "asleep", "relock"}

\* How many elements of its ring were allocated after that of a message.
Age(m) ==
  IF m.elt < rTail[m.ring] THEN rTail[m.ring] - 1 - m.elt
                           ELSE rTail[m.ring] - 1 - m.elt + RingItems

\* A message is younger than the one before it and no older than its ring is
\* full; the one being sent is the youngest.
Live(p) == Has(p) /\ pc[p] # "dead"
Ordered ==
  /\ \A i \in DOMAIN Flight :
       Flight[i] \in Msg /\ Age(Flight[i]) < rSize[Flight[i].ring]
  /\ \A i, j \in DOMAIN Flight :
       i < j /\ Flight[i].ring = Flight[j].ring => Age(Flight[j]) < Age(Flight[i])
  /\ \A p \in Producers : Live(p) =>
       /\ Age(msg[p]) = 0 /\ rSize[msg[p].ring] > 0
       /\ \A i \in DOMAIN Flight :
            Flight[i].ring = msg[p].ring => Age(Flight[i]) > 0
  /\ \A p, q \in Producers : Live(p) /\ Live(q) => p = q

\* While nobody has died every element counted is on its way, and head is at
\* the oldest that is not being freed.
Freeing(r) == IF cur # NoMsg /\ cur.ring = r THEN 1 ELSE 0
BackFrom(r, k) == IF k <= rTail[r] THEN rTail[r] - k ELSE rTail[r] - k + RingItems
NoGaps ==
  AllAlive => \A r \in Rings :
    /\ rHead[r] = BackFrom(r, rSize[r] - Freeing(r))
    /\ \A a \in 0 .. rSize[r] - 1 :
         \/ \E i \in DOMAIN Flight : Flight[i].ring = r /\ Age(Flight[i]) = a
         \/ \E p \in Producers : Has(p) /\ msg[p].ring = r /\ Age(msg[p]) = a

\* What the elements on their way hold, and what was received, was sent once.
Contents ==
  /\ \A i \in DOMAIN Flight :
       \E p \in Producers : \E n \in 1 .. sent[p] : ContentOf(Flight[i]) = <<p, n>>
  /\ \A i \in DOMAIN received :
       \E p \in Producers : \E n \in 1 .. sent[p] : received[i] = <<p, n>>
  /\ \A p \in Producers : Live(p) => ContentOf(msg[p]) = <<p, sent[p] + 1>>

\* The consumer sleeps on an empty queue, and dequeues from one that is not.
Waking ==
  /\ AllAlive /\ Cond # "timedwait" =>
       /\ SubExpectsMsg /\ SleepsOnEmpty
       /\ consPc = "sleep" => IsEmpty
  /\ Cond = "nowait" => SubExpectsMsg

\* The inductive invariant of a queue that is not damaged, and the steps that
\* do not damage it.
IInv == /\ Types /\ QueueTypes /\ RingTypes /\ CallTypes
        /\ Locking /\ Calls /\ Consuming /\ Ordered /\ NoGaps /\ Contents /\ Waking
Sound == Works /\ UNCHANGED mode

\* Only the death of a producer, or the timed wait, leads to damage.
Spared == AllAlive /\ Cond # "timedwait" => ~damaged

\* The invariant of the specification.
Inv == Types /\ damaged \in BOOLEAN /\ (~damaged => IInv) /\ Spared

-----------------------------------------------------------------------------
(* Sizes and names.                                                        *)

\* The constants are positive.
LEMMA Sizes ==
  /\ QItems \in Nat /\ QItems > 0 /\ RingItems \in Nat /\ RingItems > 0 /\ MaxMsgs \in Nat
  /\ NoBlocks \subseteq BOOLEAN
  BY QueueAssumption

\* Within its bounds a size does not wrap.
LEMMA NoWrap ==
  /\ \A n \in 0 .. QItems : n % W = n
  /\ \A n \in 0 .. RingItems : n % W = n
<1>1. W \in Nat /\ QItems < W /\ RingItems < W /\ W > 0
  BY QueueAssumption
<1>2. ASSUME NEW n \in Nat, n < W PROVE n % W = n
  <2>1. n \in 0 .. 2 * W - 1
    BY <1>1, <1>2
  <2> QED
    BY <1>1, <1>2, <2>1, ModSmall
<1> QED
  BY <1>1, <1>2, Sizes

\* The consumer is none of the producers, and no message is NoMsg.
LEMMA Names ==
  /\ Consumer \notin Producers /\ Consumer \in Procs /\ Producers \subseteq Procs
  /\ Free # Dead /\ Free # Lost /\ Dead # Lost
  /\ Free \notin Procs /\ Dead \notin Procs /\ Lost \notin Procs
  /\ NoMsg \notin Msg /\ "none" \notin Rings
  BY NamesAssumption DEF Procs, Msg, NoMsg

-----------------------------------------------------------------------------
(* The queue and the messages on their way.                                *)

Ref == Msg \union {NoMsg}

\* Where the i-th waiting message is.
LEMMA WaitingIndex ==
  ASSUME QueueTypes, NEW i \in 1 .. qSize
  PROVE  /\ (qTail + QItems - qSize + i - 1) % QItems \in Slot
         /\ (qTail + QItems - qSize + i - 1) % QItems =
              IF qTail - qSize + i - 1 < 0 THEN qTail + QItems - qSize + i - 1
                                           ELSE qTail - qSize + i - 1
<1>1. qTail \in 0 .. QItems - 1 /\ qSize \in 0 .. QItems
  BY DEF QueueTypes, Slot
<1>2. qTail + QItems - qSize + i - 1 \in 0 .. 2 * QItems - 1
  BY <1>1, Sizes
<1> QED
  BY <1>1, <1>2, Sizes, ModSmall DEF Slot

\* What waits is as long as cursize says.
LEMMA WaitingType ==
  ASSUME QueueTypes
  PROVE  Waiting \in Seq(Ref) /\ Len(Waiting) = qSize /\ qSize \in Nat
<1>1. qSize \in Nat
  BY DEF QueueTypes
<1>2. \A i \in 1 .. qSize : QueueAt(qTail + QItems - qSize + i - 1) \in Ref
  BY WaitingIndex DEF QueueAt, QueueTypes, Ref
<1> QED
  BY <1>1, <1>2 DEF Waiting

\* The slot at tail is not one of the waiting messages.
LEMMA WaitingWrite ==
  ASSUME QueueTypes, qSize < QItems, NEW m, UNCHANGED <<qTail, qSize>>,
         slots' = [slots EXCEPT ![qTail] = m]
  PROVE  Waiting' = Waiting
<1>1. qTail \in 0 .. QItems - 1 /\ qSize \in 0 .. QItems /\ slots \in [Slot -> Ref]
  BY DEF QueueTypes, Slot, Ref
<1>2. ASSUME NEW i \in 1 .. qSize
      PROVE  QueueAt(qTail + QItems - qSize + i - 1)' = QueueAt(qTail + QItems - qSize + i - 1)
  <2> DEFINE k == (qTail + QItems - qSize + i - 1) % QItems
  <2>a. k \in Slot /\ k = IF qTail - qSize + i - 1 < 0 THEN qTail + QItems - qSize + i - 1
                                                      ELSE qTail - qSize + i - 1
    BY WaitingIndex
  <2> HIDE DEF k
  <2>1. k \in Slot /\ k # qTail
    BY <1>1, <2>a, Sizes
  <2>2. slots'[k] = slots[k]
    BY <1>1, <2>1
  <2> QED
    BY <2>2 DEF k, QueueAt
<1> QED
  BY <1>2 DEF Waiting

\* cursize raised: the message at tail is the last one waiting.
LEMMA WaitingPublish ==
  ASSUME QueueTypes, qSize < QItems, UNCHANGED slots,
         qTail' = (qTail + 1) % QItems, qSize' = qSize + 1
  PROVE  Waiting' = Append(Waiting, slots[qTail]) /\ qTail' \in Slot
<1>1. qTail \in 0 .. QItems - 1 /\ qSize \in 0 .. QItems /\ slots \in [Slot -> Ref]
  BY DEF QueueTypes, Slot, Ref
<1>2. qTail' = (IF qTail + 1 < QItems THEN qTail + 1 ELSE 0) /\ qTail' \in Slot
  BY <1>1, Sizes, ModSmall DEF Slot
<1>3. ASSUME NEW i \in 1 .. qSize + 1
      PROVE  Waiting'[i] = slots[IF qTail - qSize + i - 1 < 0
                                 THEN qTail + QItems - qSize + i - 1
                                 ELSE qTail - qSize + i - 1]
  <2>1. qTail' + QItems - (qSize + 1) + i - 1 \in 0 .. 2 * QItems - 1
    BY <1>1, <1>2, Sizes DEF Slot
  <2>2. (qTail' + QItems - (qSize + 1) + i - 1) % QItems =
          IF qTail - qSize + i - 1 < 0 THEN qTail + QItems - qSize + i - 1
                                       ELSE qTail - qSize + i - 1
    BY <1>1, <1>2, <2>1, Sizes, ModSmall
  <2>3. Waiting'[i] = slots[(qTail' + QItems - (qSize + 1) + i - 1) % QItems]
    BY <1>3 DEF Waiting, QueueAt
  <2> QED
    BY <2>2, <2>3
<1>4. slots[qTail] \in Ref /\ Waiting \in Seq(Ref) /\ Len(Waiting) = qSize
  BY <1>1, WaitingType DEF Slot
<1>5. \A i \in 1 .. qSize : Waiting'[i] = Waiting[i]
  BY <1>1, <1>3, WaitingIndex DEF Waiting, QueueAt
<1>6. Waiting'[qSize + 1] = slots[qTail]
  <2>1. qSize + 1 \in 1 .. qSize + 1 /\ qTail - qSize + (qSize + 1) - 1 = qTail /\ ~(qTail < 0)
    BY <1>1
  <2> QED
    BY <1>3, <2>1
<1>7. /\ Append(Waiting, slots[qTail]) \in Seq(Ref)
      /\ Len(Append(Waiting, slots[qTail])) = qSize + 1
      /\ \A i \in 1 .. qSize : Append(Waiting, slots[qTail])[i] = Waiting[i]
      /\ Append(Waiting, slots[qTail])[qSize + 1] = slots[qTail]
  BY <1>4, AppendProperties
<1>8. \A i \in 1 .. qSize + 1 : Waiting'[i] = Append(Waiting, slots[qTail])[i]
  BY <1>1, <1>5, <1>6, <1>7
<1>9. \A i \in 1 .. qSize + 1 : Waiting'[i] \in Ref
  BY <1>4, <1>7, <1>8, ElementOfSeq
<1>10. qSize + 1 \in Nat /\ Waiting' = [i \in 1 .. qSize + 1 |-> Waiting'[i]]
  BY <1>1 DEF Waiting
<1>11. Waiting' \in Seq(Ref) /\ Len(Waiting') = qSize + 1
  BY <1>9, <1>10
<1> QED
  BY <1>2, <1>7, <1>8, <1>11, SeqEqual

\* cursize lowered: the first n messages wait no more.
LEMMA WaitingDecrement ==
  ASSUME QueueTypes, UNCHANGED <<slots, qTail>>, NEW n \in 0 .. qSize, qSize' = qSize - n
  PROVE  Waiting' = SubSeq(Waiting, n + 1, qSize)
<1>1. qTail \in 0 .. QItems - 1 /\ qSize \in 0 .. QItems /\ QItems \in Nat
  BY Sizes DEF QueueTypes, Slot
<1>2. Waiting \in Seq(Ref) /\ Len(Waiting) = qSize /\ qSize' \in Nat
  BY <1>1, WaitingType
<1>3. \A i \in n + 1 .. qSize : Waiting[i] \in Ref
  BY <1>1, <1>2, ElementOfSeq
<1>4. /\ SubSeq(Waiting, n + 1, qSize) \in Seq(Ref)
      /\ Len(SubSeq(Waiting, n + 1, qSize)) = qSize - n
      /\ \A i \in 1 .. qSize - n : SubSeq(Waiting, n + 1, qSize)[i] = Waiting[n + i]
  <2>1. n + 1 \in Int /\ qSize \in Int
    BY <1>1
  <2> HIDE DEF Waiting
  <2>2. /\ SubSeq(Waiting, n + 1, qSize) \in Seq(Ref)
        /\ Len(SubSeq(Waiting, n + 1, qSize)) = IF n + 1 <= qSize THEN qSize - (n + 1) + 1 ELSE 0
        /\ \A i \in 1 .. qSize - (n + 1) + 1 :
             SubSeq(Waiting, n + 1, qSize)[i] = Waiting[(n + 1) + i - 1]
    BY <1>3, <2>1, SubSeqProperties
  <2>3. qSize - (n + 1) + 1 = qSize - n
    BY <1>1
  <2>4. \A i \in 1 .. qSize - n : (n + 1) + i - 1 = n + i
    BY <1>1
  <2> QED
    BY <1>1, <2>2, <2>3, <2>4
<1>5. ASSUME NEW i \in 1 .. qSize - n PROVE Waiting'[i] = Waiting[n + i]
  <2>1. qTail + QItems - (qSize - n) + i - 1 = qTail + QItems - qSize + (n + i) - 1
    BY <1>1
  <2>2. n + i \in 1 .. qSize
    BY <1>1
  <2> QED
    BY <2>1, <2>2 DEF Waiting, QueueAt
<1>6. \A i \in 1 .. qSize - n : Waiting[n + i] \in Ref
  BY <1>1, <1>2, ElementOfSeq
<1>7. Waiting' = [i \in 1 .. qSize - n |-> Waiting'[i]]
  BY DEF Waiting
<1>8. Waiting' \in Seq(Ref) /\ Len(Waiting') = qSize - n
  BY <1>2, <1>5, <1>6, <1>7
<1> QED
  BY <1>4, <1>5, <1>8, SeqEqual

\* The messages on their way.
LEMMA FlightType ==
  ASSUME QueueTypes
  PROVE  /\ Flight \in Seq(Ref) /\ DOMAIN Flight = 1 .. Len(Flight) /\ Len(Flight) \in Nat
         /\ got \in Seq(Ref) /\ Waiting \in Seq(Ref) /\ got \o Waiting \in Seq(Ref)
         /\ cur # NoMsg => Flight = <<cur>> \o (got \o Waiting)
         /\ cur = NoMsg => Flight = got \o Waiting
<1>1. got \in Seq(Ref)
  <2>1. \A i \in 1 .. Len(got) : got[i] \in Ref
    BY ElementOfSeq DEF QueueTypes, Ref
  <2> QED
    BY <2>1 DEF QueueTypes
<1>2. Waiting \in Seq(Ref)
  BY WaitingType
<1>3. got \o Waiting \in Seq(Ref)
  BY <1>1, <1>2, ConcatProperties
<1>4. << >> \in Seq(Ref) /\ (cur # NoMsg => <<cur>> \in Seq(Ref))
  BY EmptySeq DEF QueueTypes, Ref
<1>5. cur = NoMsg => Flight = got \o Waiting
  BY <1>3, ConcatEmptySeq DEF Flight
<1>6. cur # NoMsg => Flight = <<cur>> \o (got \o Waiting)
  BY DEF Flight
<1>7. Flight \in Seq(Ref)
  BY <1>3, <1>4, <1>5, <1>6, ConcatProperties
<1> HIDE DEF Flight
<1> QED
  BY <1>1, <1>2, <1>3, <1>5, <1>6, <1>7, LenProperties

\* The first of them is the one being freed, or else the next to be freed.
LEMMA FlightFirst ==
  ASSUME QueueTypes
  PROVE  /\ cur # NoMsg =>
              /\ Len(Flight) > 0 /\ Flight[1] = cur
              /\ Len(got \o Waiting) = Len(Flight) - 1
              /\ \A i \in 1 .. Len(Flight) - 1 : (got \o Waiting)[i] = Flight[i + 1]
         /\ cur = NoMsg /\ got # << >> => Len(Flight) > 0 /\ Flight[1] = Head(got)
<1>1. /\ got \in Seq(Ref) /\ Waiting \in Seq(Ref) /\ got \o Waiting \in Seq(Ref)
      /\ Len(got) \in Nat /\ Len(Waiting) \in Nat /\ Len(got \o Waiting) \in Nat
  BY FlightType, LenProperties
<1>2. ASSUME cur # NoMsg
      PROVE  /\ Len(Flight) > 0 /\ Flight[1] = cur
             /\ Len(got \o Waiting) = Len(Flight) - 1
             /\ \A i \in 1 .. Len(Flight) - 1 : (got \o Waiting)[i] = Flight[i + 1]
  <2> DEFINE X == got \o Waiting
  <2>1. <<cur>> \in Seq(Ref) /\ Len(<<cur>>) = 1 /\ <<cur>>[1] = cur
    BY <1>2 DEF QueueTypes, Ref
  <2>2. Flight = <<cur>> \o X
    BY <1>2, FlightType
  <2> HIDE DEF X, Flight
  <2>3. X \in Seq(Ref) /\ Len(X) \in Nat
    BY <1>1 DEF X
  <2>4. /\ Len(Flight) = 1 + Len(X)
        /\ \A i \in 1 .. 1 + Len(X) : Flight[i] = IF i <= 1 THEN <<cur>>[i] ELSE X[i - 1]
    BY <2>1, <2>2, <2>3, ConcatProperties
  <2>5. ASSUME NEW i \in 1 .. Len(X) PROVE X[i] = Flight[i + 1]
    <3>1. i + 1 \in 1 .. 1 + Len(X) /\ ~(i + 1 <= 1) /\ (i + 1) - 1 = i
      BY <2>3
    <3> QED
      BY <2>4, <3>1
  <2>6. Flight[1] = cur
    BY <2>1, <2>3, <2>4
  <2> QED
    BY <2>3, <2>4, <2>5, <2>6 DEF X
<1>3. ASSUME cur = NoMsg, got # << >> PROVE Len(Flight) > 0 /\ Flight[1] = Head(got)
  <2>1. Flight = got \o Waiting
    BY <1>3, FlightType
  <2>2. Len(got) > 0
    BY <1>1, <1>3, EmptySeq
  <2> HIDE DEF Flight, Waiting
  <2>3. Len(Flight) = Len(got) + Len(Waiting) /\ Flight[1] = got[1]
    BY <1>1, <2>1, <2>2, ConcatProperties
  <2> QED
    BY <1>1, <2>2, <2>3
<1> QED
  BY <1>2, <1>3

-----------------------------------------------------------------------------
(* Types.                                                                  *)

\* Every step keeps locks and places in their types.
LEMMA TypesStep == Types /\ Next => Types'
<1> SUFFICES ASSUME Types, Next PROVE Types'
  OBVIOUS
<1> USE DEF Types, Goto, consPc, ConsGoto, ProdStates, ConsStates, Procs,
            Acquire, Reacquire, Release, TimedReturn, lockVars, queueVars, ringVars, prodVars, consVars
<1>0. Types /\ Consumer \notin Producers /\ mode' = mode
  BY Names DEF Next, Goes
<1>1. ASSUME NEW p \in Producers, Call(p) PROVE Types'
  BY <1>0, <1>1 DEF Call
<1>2. ASSUME NEW p \in Producers, ProdLock(p) PROVE Types'
  BY <1>0, <1>2 DEF ProdLock, CanLock
<1>3. ASSUME NEW p \in Producers, TryLockFails(p) PROVE Types'
  BY <1>0, <1>3 DEF TryLockFails, CanLock
<1>4. ASSUME NEW p \in Producers, Test(p) PROVE Types'
  BY <1>0, <1>4 DEF Test, AfterFull, AfterSpace
<1>5. ASSUME NEW p \in Producers, Sleep(p) PROVE Types'
  BY <1>0, <1>5 DEF Sleep
<1>6. ASSUME NEW p \in Producers, Alloc(p) PROVE Types'
  BY <1>0, <1>6 DEF Alloc, TakeElement, RingUp, AllocKeepsLock
<1>7. ASSUME NEW p \in Producers, AllocMsg(p) PROVE Types'
  BY <1>0, <1>7 DEF AllocMsg, MayAlloc, TakeElement, RingUp
<1>8. ASSUME NEW p \in Producers, Write(p) PROVE Types'
  BY <1>0, <1>8 DEF Write
<1>9. ASSUME NEW p \in Producers, Publish(p) PROVE Types'
  BY <1>0, <1>9 DEF Publish
<1>10. ASSUME NEW p \in Producers, ProdSignal(p) PROVE Types'
  BY <1>0, <1>10 DEF ProdSignal, BroadcastAndGoto
<1>11. ASSUME NEW p \in Producers, Unlock(p) PROVE Types'
  BY <1>0, <1>11 DEF Unlock
<1>12. ASSUME NEW p \in Producers, Crash(p) PROVE Types'
  BY <1>0, <1>12 DEF Crash
<1>13. CASE Sub
  BY <1>0, <1>13 DEF Sub
<1>14. CASE WaitLock
  BY <1>0, <1>14 DEF WaitLock, CanLock
<1>15. CASE WaitTest
  BY <1>0, <1>15 DEF WaitTest
<1>16. CASE ConsRelock
  BY <1>0, <1>16 DEF ConsRelock, CanLock
<1>17. CASE TimeOut
  BY <1>0, <1>17 DEF TimeOut, CanLock
<1>18. CASE Read
  BY <1>0, <1>18 DEF Read
<1>19. CASE BatchSize
  BY <1>0, <1>19 DEF BatchSize
<1>20. CASE Decrement
  BY <1>0, <1>20 DEF Decrement, AfterSub, Taken
<1>21. CASE SignalLock
  BY <1>0, <1>21 DEF SignalLock, CanLock
<1>22. CASE ConsSignal
  BY <1>0, <1>22 DEF ConsSignal, BroadcastAndGoto
<1>23. CASE Process
  BY <1>0, <1>23 DEF Process
<1>24. CASE FreeTest
  BY <1>0, <1>24 DEF FreeTest
<1>25. CASE FreeDecrement
  BY <1>0, <1>25 DEF FreeDecrement
<1>26. CASE ProcessDone
  BY <1>0, <1>26 DEF ProcessDone
<1>27. CASE Sleep(Consumer)
  BY <1>0, <1>27 DEF Sleep
<1>28. ASSUME NEW x \in Procs, WakeUp(x) PROVE Types'
  BY <1>0, <1>28 DEF WakeUp
<1>29. CASE ReadEmpty
  BY <1>0, <1>29 DEF ReadEmpty
<1>30. ASSUME NEW p \in Producers, CrashInside(p) PROVE Types'
  BY <1>0, <1>30 DEF CrashInside, Taking, MayAlloc
<1> QED
  BY <1>1, <1>2, <1>3, <1>4, <1>5, <1>6, <1>7, <1>8, <1>9, <1>10, <1>11,
     <1>12, <1>13, <1>14, <1>15, <1>16, <1>17, <1>18, <1>19, <1>20, <1>21,
     <1>22, <1>23, <1>24, <1>25, <1>26, <1>27, <1>28, <1>29, <1>30
     DEF Next, Works, Damages, ProducerStep, ConsumerStep

\* Every step keeps the mutex with the one inside.
LEMMA LockingStep == IInv /\ Sound => Locking'
<1> SUFFICES ASSUME IInv, Sound PROVE Locking'
  OBVIOUS
<1> USE DEF Types, Locking, AllAlive, Inside, Goto, consPc, ConsGoto, ProdStates, ConsStates, Procs,
            Acquire, Reacquire, Release, TimedReturn, lockVars, queueVars, ringVars, prodVars, consVars
<1>0. /\ Types /\ Locking /\ Consumer \notin Producers
      /\ Free # Dead /\ Free # Lost /\ Dead # Lost
      /\ Free \notin Procs /\ Dead \notin Procs /\ Lost \notin Procs
  BY Names DEF IInv
<1>1. ASSUME NEW p \in Producers, Call(p) PROVE Locking'
  BY <1>0, <1>1 DEF Call
<1>2. ASSUME NEW p \in Producers, ProdLock(p) PROVE Locking'
  BY <1>0, <1>2 DEF ProdLock, CanLock
<1>3. ASSUME NEW p \in Producers, TryLockFails(p) PROVE Locking'
  BY <1>0, <1>3 DEF TryLockFails, CanLock
<1>4. ASSUME NEW p \in Producers, Test(p) PROVE Locking'
  BY <1>0, <1>4 DEF Test, AfterFull, AfterSpace
<1>5. ASSUME NEW p \in Producers, Sleep(p) PROVE Locking'
  BY <1>0, <1>5 DEF Sleep
<1>6. ASSUME NEW p \in Producers, Alloc(p) PROVE Locking'
  BY <1>0, <1>6 DEF Alloc, TakeElement, RingUp, AllocKeepsLock
<1>7. ASSUME NEW p \in Producers, AllocMsg(p) PROVE Locking'
  BY <1>0, <1>7 DEF AllocMsg, MayAlloc, TakeElement, RingUp
<1>8. ASSUME NEW p \in Producers, Write(p) PROVE Locking'
  BY <1>0, <1>8 DEF Write
<1>9. ASSUME NEW p \in Producers, Publish(p) PROVE Locking'
  BY <1>0, <1>9 DEF Publish
<1>10. ASSUME NEW p \in Producers, ProdSignal(p) PROVE Locking'
  BY <1>0, <1>10 DEF ProdSignal, BroadcastAndGoto
<1>11. ASSUME NEW p \in Producers, Unlock(p) PROVE Locking'
  BY <1>0, <1>11 DEF Unlock
<1>12. ASSUME NEW p \in Producers, Crash(p) PROVE Locking'
  BY <1>0, <1>12 DEF Crash
<1>13. CASE Sub
  BY <1>0, <1>13 DEF Sub
<1>14. CASE WaitLock
  BY <1>0, <1>14 DEF WaitLock, CanLock
<1>15. CASE WaitTest
  BY <1>0, <1>15 DEF WaitTest
<1>16. CASE ConsRelock
  BY <1>0, <1>16 DEF ConsRelock, CanLock
<1>17. CASE TimeOut
  BY <1>0, <1>17 DEF TimeOut, CanLock
<1>18. CASE Read
  BY <1>0, <1>18 DEF Read
<1>19. CASE BatchSize
  BY <1>0, <1>19 DEF BatchSize
<1>20. CASE Decrement
  BY <1>0, <1>20 DEF Decrement, AfterSub, Taken
<1>21. CASE SignalLock
  BY <1>0, <1>21 DEF SignalLock, CanLock
<1>22. CASE ConsSignal
  BY <1>0, <1>22 DEF ConsSignal, BroadcastAndGoto
<1>23. CASE Process
  BY <1>0, <1>23 DEF Process
<1>24. CASE FreeTest
  BY <1>0, <1>24 DEF FreeTest
<1>25. CASE FreeDecrement
  BY <1>0, <1>25 DEF FreeDecrement
<1>26. CASE ProcessDone
  BY <1>0, <1>26 DEF ProcessDone
<1>27. CASE Sleep(Consumer)
  BY <1>0, <1>27 DEF Sleep
<1>28. ASSUME NEW x \in Procs, WakeUp(x) PROVE Locking'
  BY <1>0, <1>28 DEF WakeUp
<1> QED
  BY <1>1, <1>2, <1>3, <1>4, <1>5, <1>6, <1>7, <1>8, <1>9, <1>10, <1>11,
     <1>12, <1>13, <1>14, <1>15, <1>16, <1>17, <1>18, <1>19, <1>20, <1>21,
     <1>22, <1>23, <1>24, <1>25, <1>26, <1>27, <1>28
     DEF Sound, Works, ProducerStep, ConsumerStep

\* Publishing raises cursize by one, without wrapping.
LEMMA PublishCounts ==
  ASSUME QueueTypes, Calls, NEW p \in Producers, Publish(p)
  PROVE  qSize < QItems /\ qSize' = qSize + 1
<1>1. qSize \in 0 .. QItems /\ qSize < QItems
  BY DEF QueueTypes, Calls, Publish
<1>2. qSize + 1 \in 0 .. QItems
  BY <1>1, Sizes
<1>3. qSize' = (qSize + 1) % W
  BY DEF Publish
<1> QED
  BY <1>1, <1>2, <1>3, NoWrap

\* Lowering cursize takes off what was copied, without wrapping.
LEMMA DecrementCounts ==
  ASSUME QueueTypes, Consuming, Decrement
  PROVE  qSize' = qSize - Len(batch) /\ Len(batch) \in 0 .. qSize
<1>1. qSize \in 0 .. QItems /\ Len(batch) \in Nat /\ Len(batch) <= qSize
  BY LenProperties DEF QueueTypes, Consuming
<1>2. qSize - Len(batch) \in 0 .. QItems
  BY <1>1, Sizes
<1>3. qSize' = (qSize - Len(batch)) % W
  BY DEF Decrement, Taken
<1> QED
  BY <1>1, <1>2, <1>3, NoWrap

\* So does taking an element.
LEMMA TakeCounts ==
  ASSUME RingTypes, NEW p \in Producers, NEW r \in Rings,
         rSize[r] < RingItems, TakeElement(p, r)
  PROVE  rSize' = [rSize EXCEPT ![r] = @ + 1]
<1>1. rSize[r] \in 0 .. RingItems
  BY DEF RingTypes
<1>2. rSize[r] + 1 \in 0 .. RingItems
  BY <1>1, Sizes
<1>3. (rSize[r] + 1) % W = rSize[r] + 1
  BY <1>2, NoWrap
<1> QED
  BY <1>3 DEF TakeElement, RingUp

\* Taking an element keeps the rings and the message in their types.
LEMMA TakeElementTypes ==
  ASSUME RingTypes, CallTypes, NEW p \in Producers, NEW r \in Rings,
         rSize[r] < RingItems, sent[p] < MaxMsgs, TakeElement(p, r)
  PROVE  /\ rTail' \in [Rings -> Elt] /\ rSize' \in [Rings -> 0 .. RingItems]
         /\ data' \in [Rings -> [Elt -> Content \union {NoContent}]]
         /\ msg' \in [Producers -> Msg \union {NoMsg}]
<1>1. <<p, sent[p] + 1>> \in Content
  <2>1. sent[p] + 1 \in 1 .. MaxMsgs
    BY Sizes DEF CallTypes
  <2> QED
    BY <2>1 DEF Content
<1>2. rTail[r] \in Elt /\ rTail[r] \in Nat
  BY Sizes DEF RingTypes, Elt
<1>3. (rTail[r] + 1) % RingItems \in Elt
  BY <1>2, Sizes, Division DEF Elt
<1>4. [ring |-> r, elt |-> rTail[r]] \in Msg
  BY <1>2 DEF Msg, Elt
<1>5. rTail' \in [Rings -> Elt]
  BY <1>3 DEF TakeElement, RingTypes
<1>6. rSize' \in [Rings -> 0 .. RingItems]
  BY TakeCounts, Sizes DEF RingTypes
<1>7. data' \in [Rings -> [Elt -> Content \union {NoContent}]]
  <2> DEFINE C == Content \union {NoContent}
             c == <<p, sent[p] + 1>>
  <2>1. data \in [Rings -> [Elt -> C]] /\ c \in C /\ data' = [data EXCEPT ![r][rTail[r]] = c]
    BY <1>1 DEF RingTypes, TakeElement
  <2> HIDE DEF C, c
  <2>2. data' \in [Rings -> [Elt -> C]]
    BY <2>1, <1>2
  <2> QED
    BY <2>2 DEF C
<1>8. msg' \in [Producers -> Msg \union {NoMsg}]
  BY <1>4 DEF TakeElement, CallTypes
<1> QED
  BY <1>5, <1>6, <1>7, <1>8

\* The message being freed is counted in its ring.
LEMMA FreedIsCounted ==
  ASSUME QueueTypes, RingTypes, Ordered, cur # NoMsg
  PROVE  /\ cur \in Msg /\ cur.ring \in Rings /\ cur.elt \in Elt
         /\ Age(cur) \in Nat /\ Age(cur) < rSize[cur.ring]
         /\ rSize[cur.ring] \in 1 .. RingItems
<1>1. cur \in Msg /\ cur.ring \in Rings /\ cur.elt \in Elt
  BY DEF QueueTypes, Msg, Elt
<1>2. Age(cur) < rSize[cur.ring]
  <2>1. 1 \in DOMAIN Flight /\ Flight[1] = cur
    BY FlightFirst, FlightType
  <2> QED
    BY <2>1 DEF Ordered
<1>3. rTail[cur.ring] \in 0 .. RingItems - 1 /\ cur.elt \in 0 .. RingItems - 1
      /\ rSize[cur.ring] \in 0 .. RingItems
  BY <1>1 DEF RingTypes, Elt
<1>4. Age(cur) \in Nat
  BY <1>3, Sizes DEF Age
<1> QED
  BY <1>1, <1>2, <1>3, <1>4, Sizes

\* Freeing an element counts exactly.
LEMMA FreeCounts ==
  ASSUME QueueTypes, RingTypes, Ordered, cur # NoMsg, FreeDecrement
  PROVE  rSize' = [rSize EXCEPT ![cur.ring] = @ - 1]
<1>1. rSize[cur.ring] \in 1 .. RingItems
  BY FreedIsCounted
<1>2. rSize[cur.ring] - 1 \in 0 .. RingItems
  BY <1>1, Sizes
<1>3. (rSize[cur.ring] - 1) % W = rSize[cur.ring] - 1
  BY <1>2, NoWrap
<1> QED
  BY <1>3 DEF FreeDecrement

\* Every step keeps rings and calls in their types.
LEMMA RingTypesStep == IInv /\ Sound => (RingTypes /\ CallTypes)'
<1> SUFFICES ASSUME IInv, Sound PROVE (RingTypes /\ CallTypes)'
  OBVIOUS
<1> USE DEF RingTypes, CallTypes, Elt, lockVars, queueVars, ringVars, prodVars, consVars
<1>0. /\ RingTypes /\ CallTypes /\ QueueTypes /\ Calls /\ Consuming /\ Ordered
      /\ RingItems \in Nat /\ RingItems > 0 /\ MaxMsgs \in Nat
      /\ NoBlocks \subseteq BOOLEAN /\ NoMsg \notin Msg
  BY Names, Sizes DEF IInv
<1>1. ASSUME NEW p \in Producers, Call(p) PROVE (RingTypes /\ CallTypes)'
  BY <1>0, <1>1 DEF Call
<1>2. ASSUME NEW p \in Producers, ProdLock(p) PROVE (RingTypes /\ CallTypes)'
  BY <1>0, <1>2 DEF ProdLock, CanLock
<1>3. ASSUME NEW p \in Producers, TryLockFails(p) PROVE (RingTypes /\ CallTypes)'
  BY <1>0, <1>3 DEF TryLockFails, CanLock
<1>4. ASSUME NEW p \in Producers, Test(p) PROVE (RingTypes /\ CallTypes)'
  BY <1>0, <1>4 DEF Test, AfterFull, AfterSpace
<1>5. ASSUME NEW p \in Producers, Sleep(p) PROVE (RingTypes /\ CallTypes)'
  BY <1>0, <1>5 DEF Sleep
<1>6. ASSUME NEW p \in Producers, Alloc(p) PROVE (RingTypes /\ CallTypes)'
  <2> DEFINE r == call[p].ring
  <2>1. r \in Rings /\ rSize[r] < RingItems /\ sent[p] < MaxMsgs
    BY <1>0, <1>6 DEF Alloc, Calls
  <2>2. TakeElement(p, r)
    BY <1>6 DEF Alloc
  <2> HIDE DEF r
  <2>3. /\ rTail' \in [Rings -> Elt] /\ rSize' \in [Rings -> 0 .. RingItems]
        /\ data' \in [Rings -> [Elt -> Content \union {NoContent}]]
        /\ msg' \in [Producers -> Msg \union {NoMsg}]
    BY <1>0, <2>1, <2>2, TakeElementTypes
  <2> QED
    BY <1>0, <1>6, <2>3 DEF Alloc
<1>7. ASSUME NEW p \in Producers, AllocMsg(p) PROVE (RingTypes /\ CallTypes)'
  <2>0. call' \in [Producers -> [ring : Rings \union {"none"}, noblock : BOOLEAN]]
    BY <1>0, <1>7 DEF AllocMsg, MayAlloc
  <2>1. CASE msg[p] = NoMsg
    <3>1. PICK r \in Rings : rSize[r] # RingItems /\ TakeElement(p, r)
      BY <1>7, <2>1 DEF AllocMsg, MayAlloc
    <3>2. rSize[r] < RingItems /\ sent[p] < MaxMsgs
      BY <1>0, <1>7, <3>1 DEF AllocMsg, MayAlloc
    <3>3. /\ rTail' \in [Rings -> Elt] /\ rSize' \in [Rings -> 0 .. RingItems]
          /\ data' \in [Rings -> [Elt -> Content \union {NoContent}]]
          /\ msg' \in [Producers -> Msg \union {NoMsg}]
      BY <1>0, <3>1, <3>2, TakeElementTypes
    <3> QED
      BY <1>0, <1>7, <2>0, <3>3 DEF AllocMsg, MayAlloc
  <2>2. CASE msg[p] # NoMsg
    BY <1>0, <1>7, <2>0, <2>2 DEF AllocMsg, MayAlloc
  <2> QED
    BY <2>1, <2>2
<1>8. ASSUME NEW p \in Producers, Write(p) PROVE (RingTypes /\ CallTypes)'
  BY <1>0, <1>8 DEF Write
<1>9. ASSUME NEW p \in Producers, Publish(p) PROVE (RingTypes /\ CallTypes)'
  <2>1. sent[p] < MaxMsgs
    BY <1>0, <1>9 DEF Publish, Calls
  <2> QED
    BY <1>0, <1>9, <2>1 DEF Publish
<1>10. ASSUME NEW p \in Producers, ProdSignal(p) PROVE (RingTypes /\ CallTypes)'
  BY <1>0, <1>10 DEF ProdSignal, BroadcastAndGoto
<1>11. ASSUME NEW p \in Producers, Unlock(p) PROVE (RingTypes /\ CallTypes)'
  BY <1>0, <1>11 DEF Unlock
<1>12. ASSUME NEW p \in Producers, Crash(p) PROVE (RingTypes /\ CallTypes)'
  BY <1>0, <1>12 DEF Crash
<1>13. CASE Sub
  BY <1>0, <1>13 DEF Sub
<1>14. CASE WaitLock
  BY <1>0, <1>14 DEF WaitLock, CanLock
<1>15. CASE WaitTest
  BY <1>0, <1>15 DEF WaitTest
<1>16. CASE ConsRelock
  BY <1>0, <1>16 DEF ConsRelock, CanLock
<1>17. CASE TimeOut
  BY <1>0, <1>17 DEF TimeOut, CanLock
<1>18. CASE Read
  BY <1>0, <1>18 DEF Read
<1>19. CASE BatchSize
  BY <1>0, <1>19 DEF BatchSize
<1>20. CASE Decrement
  BY <1>0, <1>20 DEF Decrement, AfterSub, Taken
<1>21. CASE SignalLock
  BY <1>0, <1>21 DEF SignalLock, CanLock
<1>22. CASE ConsSignal
  BY <1>0, <1>22 DEF ConsSignal, BroadcastAndGoto
<1>23. CASE Process
  <2> DEFINE m == Head(got)
  <2>1. m \in Msg
    BY <1>0, <1>23, HeadTailProperties DEF Process, QueueTypes
  <2>2. m.ring \in Rings /\ m.elt \in Elt
    BY <2>1 DEF Msg
  <2> HIDE DEF m
  <2>3. data[m.ring][m.elt] \in Content \union {NoContent}
    BY <1>0, <2>2
  <2>4. received' = Append(received, data[m.ring][m.elt])
    BY <1>23 DEF Process, m
  <2>5. received' \in Seq(Content \union {NoContent})
    BY <1>0, <2>3, <2>4, AppendProperties
  <2>6. (rHead[m.ring] + 1) % RingItems \in Elt
    BY <1>0, <2>2, Division
  <2>7. rHead' \in [Rings -> Elt]
    BY <1>0, <1>23, <2>2, <2>6 DEF Process, m
  <2> QED
    BY <1>0, <1>23, <2>5, <2>7 DEF Process
<1>24. CASE FreeTest
  BY <1>0, <1>24 DEF FreeTest
<1>25. CASE FreeDecrement
  <2>1. cur.ring \in Rings /\ rSize[cur.ring] \in 1 .. RingItems
    BY <1>0, <1>25, FreedIsCounted DEF FreeDecrement, Consuming
  <2>2. rSize' \in [Rings -> 0 .. RingItems]
    <3>1. rSize' = [rSize EXCEPT ![cur.ring] = @ - 1]
      BY <1>0, <1>25, FreeCounts DEF FreeDecrement, Consuming
    <3> QED
      BY <1>0, <2>1, <3>1
  <2> QED
    BY <1>0, <1>25, <2>2 DEF FreeDecrement
<1>26. CASE ProcessDone
  BY <1>0, <1>26 DEF ProcessDone
<1>27. CASE Sleep(Consumer)
  BY <1>0, <1>27 DEF Sleep
<1>28. ASSUME NEW x \in Procs, WakeUp(x) PROVE (RingTypes /\ CallTypes)'
  BY <1>0, <1>28 DEF WakeUp
<1> QED
  BY <1>1, <1>2, <1>3, <1>4, <1>5, <1>6, <1>7, <1>8, <1>9, <1>10, <1>11,
     <1>12, <1>13, <1>14, <1>15, <1>16, <1>17, <1>18, <1>19, <1>20, <1>21,
     <1>22, <1>23, <1>24, <1>25, <1>26, <1>27, <1>28
     DEF Sound, Works, ProducerStep, ConsumerStep

-----------------------------------------------------------------------------
(* The queue.                                                              *)

\* What waits are messages.
LEMMA WaitingIsMsg ==
  ASSUME QueueTypes, Ordered
  PROVE  \A i \in 1 .. qSize : Waiting[i] \in Msg
<1>1. /\ got \in Seq(Ref) /\ Waiting \in Seq(Ref) /\ got \o Waiting \in Seq(Ref)
      /\ Len(got) \in Nat /\ Len(Waiting) = qSize /\ qSize \in Nat
  BY FlightType, WaitingType, LenProperties
<1> HIDE DEF Waiting, Flight
<1>2. ASSUME NEW i \in 1 .. qSize PROVE Waiting[i] \in Msg
  <2> DEFINE k == Len(got) + i
             X == got \o Waiting
  <2>1. Len(X) = Len(got) + qSize
    BY <1>1, ConcatProperties
  <2>2. X[k] = Waiting[i] /\ k \in 1 .. Len(X)
    <3>1. k \in 1 .. Len(got) + Len(Waiting) /\ ~(k <= Len(got)) /\ k - Len(got) = i
      BY <1>1
    <3> QED
      BY <1>1, <2>1, <3>1, ConcatProperties
  <2> HIDE DEF k, X
  <2>3. CASE cur = NoMsg
    <3>1. Flight = X
      BY <2>3, FlightType DEF X
    <3>2. k \in DOMAIN Flight
      BY <2>2, <3>1, FlightType
    <3> QED
      BY <2>2, <3>1, <3>2 DEF Ordered
  <2>4. CASE cur # NoMsg
    <3>1. Len(X) = Len(Flight) - 1 /\ \A j \in 1 .. Len(Flight) - 1 : X[j] = Flight[j + 1]
      BY <2>4, FlightFirst DEF X
    <3>2. k \in 1 .. Len(Flight) - 1 /\ k + 1 \in DOMAIN Flight
      BY <2>2, <3>1, FlightType
    <3> QED
      BY <2>2, <3>1, <3>2 DEF Ordered
  <2> QED
    BY <2>3, <2>4
<1> QED
  BY <1>2

\* Reading copies the front of the queue and moves head behind it.
LEMMA ReadTakes ==
  ASSUME QueueTypes, Ordered, Consuming, Types, Read
  PROVE  /\ batch' \in Seq(Msg) /\ Len(batch') \in 0 .. qSize
         /\ \A i \in DOMAIN batch' : batch'[i] = Waiting[i]
         /\ qHead' \in Slot
         /\ qHead' = (qTail + QItems - qSize + Len(batch')) % QItems
<1>1. /\ qTail \in 0 .. QItems - 1 /\ qSize \in 1 .. QItems /\ qHead \in 0 .. QItems - 1
      /\ nMsgs \in Nat
  BY DEF QueueTypes, Slot, Read, IsEmpty
<1>2. batch = << >> /\ Len(batch) = 0
  BY DEF Consuming, Read
<1>3. qHead = (qTail + QItems - qSize) % QItems
  <2>1. qTail + QItems - qSize + Len(batch) = qTail + QItems - qSize
    BY <1>1, <1>2, Sizes
  <2> QED
    BY <2>1 DEF Consuming
<1>4. qHead = IF qTail - qSize < 0 THEN qTail + QItems - qSize ELSE qTail - qSize
  <2>1. qTail + QItems - qSize \in 0 .. 2 * QItems - 1
    BY <1>1, Sizes
  <2> QED
    BY <1>1, <1>3, <2>1, Sizes, ModSmall
<1> DEFINE n == IF ~Batch THEN 1 ELSE IF nMsgs < qSize THEN nMsgs ELSE qSize
<1>5. n \in 0 .. qSize
  BY <1>1
<1>6. batch' = [i \in 1 .. n |-> QueueAt(qHead + i - 1)] /\ qHead' = (qHead + n) % QItems
  BY DEF Read
<1> HIDE DEF n
<1>7. ASSUME NEW i \in 1 .. n PROVE QueueAt(qHead + i - 1) = Waiting[i]
  <2>1. i \in 1 .. qSize /\ qHead + i - 1 \in 0 .. 2 * QItems - 1
    BY <1>1, <1>5, Sizes
  <2>2. (qHead + i - 1) % QItems = (qTail + QItems - qSize + i - 1) % QItems
    BY <1>1, <1>4, <2>1, WaitingIndex, Sizes, ModSmall
  <2> QED
    BY <2>1, <2>2 DEF Waiting, QueueAt
<1>8. \A i \in 1 .. n : QueueAt(qHead + i - 1) \in Msg
  <2>1. \A i \in 1 .. n : i \in 1 .. qSize
    BY <1>1, <1>5
  <2>2. \A i \in 1 .. n : Waiting[i] \in Msg
    BY <2>1, WaitingIsMsg
  <2> QED
    BY <1>7, <2>2
<1>9. n \in Nat /\ n <= qSize
  BY <1>1, <1>5
<1>10. batch' \in Seq(Msg) /\ Len(batch') = n /\ DOMAIN batch' = 1 .. n
  BY <1>6, <1>8, <1>9
<1>11. qHead' = (qTail + QItems - qSize + n) % QItems /\ qHead' \in Slot
  <2>1. qHead + n \in 0 .. 2 * QItems - 1 /\ qTail + QItems - qSize + n \in 0 .. 2 * QItems - 1
    BY <1>1, <1>9, Sizes
  <2> QED
    BY <1>1, <1>4, <1>6, <1>9, <2>1, Sizes, ModSmall DEF Slot
<1> QED
  BY <1>5, <1>6, <1>7, <1>10, <1>11

\* Every step keeps the queue in its types.
LEMMA QueueTypesStep == IInv /\ Sound => QueueTypes'
<1> SUFFICES ASSUME IInv, Sound PROVE QueueTypes'
  OBVIOUS
<1> USE DEF QueueTypes, lockVars, queueVars, ringVars, prodVars, consVars
<1>0. /\ Types /\ QueueTypes /\ CallTypes /\ Calls /\ Consuming /\ Ordered
      /\ QItems \in Nat /\ QItems > 0
  BY Sizes DEF IInv
<1>1. ASSUME NEW p \in Producers, Call(p) PROVE QueueTypes'
  BY <1>0, <1>1 DEF Call
<1>2. ASSUME NEW p \in Producers, ProdLock(p) PROVE QueueTypes'
  BY <1>0, <1>2 DEF ProdLock, CanLock
<1>3. ASSUME NEW p \in Producers, TryLockFails(p) PROVE QueueTypes'
  BY <1>0, <1>3 DEF TryLockFails, CanLock
<1>4. ASSUME NEW p \in Producers, Test(p) PROVE QueueTypes'
  BY <1>0, <1>4 DEF Test, AfterFull, AfterSpace
<1>5. ASSUME NEW p \in Producers, Sleep(p) PROVE QueueTypes'
  BY <1>0, <1>5 DEF Sleep
<1>6. ASSUME NEW p \in Producers, Alloc(p) PROVE QueueTypes'
  BY <1>0, <1>6 DEF Alloc, TakeElement, RingUp, AllocKeepsLock
<1>7. ASSUME NEW p \in Producers, AllocMsg(p) PROVE QueueTypes'
  BY <1>0, <1>7 DEF AllocMsg, MayAlloc, TakeElement, RingUp
<1>8. ASSUME NEW p \in Producers, Write(p) PROVE QueueTypes'
  <2>1. msg[p] \in Msg \union {NoMsg} /\ qTail \in Slot
    BY <1>0 DEF CallTypes
  <2>2. slots' \in [Slot -> Msg \union {NoMsg}]
    BY <1>0, <1>8, <2>1 DEF Write
  <2> QED
    BY <1>0, <1>8, <2>2 DEF Write
<1>9. ASSUME NEW p \in Producers, Publish(p) PROVE QueueTypes'
  <2>1. qSize < QItems /\ qSize' = qSize + 1
    BY <1>0, <1>9, PublishCounts
  <2>2. qTail' \in Slot
    BY <1>0, <1>9, <2>1, WaitingPublish DEF Publish
  <2>3. qSize' \in 0 .. QItems
    BY <1>0, <2>1
  <2> QED
    BY <1>0, <1>9, <2>2, <2>3 DEF Publish
<1>10. ASSUME NEW p \in Producers, ProdSignal(p) PROVE QueueTypes'
  BY <1>0, <1>10 DEF ProdSignal, BroadcastAndGoto
<1>11. ASSUME NEW p \in Producers, Unlock(p) PROVE QueueTypes'
  BY <1>0, <1>11 DEF Unlock
<1>12. ASSUME NEW p \in Producers, Crash(p) PROVE QueueTypes'
  BY <1>0, <1>12 DEF Crash
<1>13. CASE Sub
  BY <1>0, <1>13 DEF Sub
<1>14. CASE WaitLock
  BY <1>0, <1>14 DEF WaitLock, CanLock
<1>15. CASE WaitTest
  BY <1>0, <1>15 DEF WaitTest
<1>16. CASE ConsRelock
  BY <1>0, <1>16 DEF ConsRelock, CanLock
<1>17. CASE TimeOut
  BY <1>0, <1>17 DEF TimeOut, CanLock
<1>18. CASE Read
  <2>1. batch' \in Seq(Msg) /\ qHead' \in Slot
    BY <1>0, <1>18, ReadTakes DEF Read
  <2>2. sz' \in Nat
    BY <1>0, <1>18 DEF Read
  <2> QED
    BY <1>0, <1>18, <2>1, <2>2 DEF Read
<1>19. CASE BatchSize
  BY <1>0, <1>19 DEF BatchSize
<1>20. CASE Decrement
  <2>1. got' \in Seq(Msg) /\ batch' \in Seq(Msg)
    BY <1>0, <1>20, ConcatProperties, EmptySeq DEF Decrement
  <2>2. qSize' \in 0 .. QItems
    BY <1>0, <1>20, DecrementCounts
  <2> QED
    BY <1>0, <1>20, <2>1, <2>2 DEF Decrement
<1>21. CASE SignalLock
  BY <1>0, <1>21 DEF SignalLock, CanLock
<1>22. CASE ConsSignal
  BY <1>0, <1>22 DEF ConsSignal, BroadcastAndGoto
<1>23. CASE Process
  <2>1. Head(got) \in Msg /\ Tail(got) \in Seq(Msg)
    BY <1>0, <1>23, HeadTailProperties DEF Process
  <2> QED
    BY <1>0, <1>23, <2>1 DEF Process
<1>24. CASE FreeTest
  BY <1>0, <1>24 DEF FreeTest
<1>25. CASE FreeDecrement
  BY <1>0, <1>25 DEF FreeDecrement
<1>26. CASE ProcessDone
  BY <1>0, <1>26 DEF ProcessDone
<1>27. CASE Sleep(Consumer)
  BY <1>0, <1>27 DEF Sleep
<1>28. ASSUME NEW x \in Procs, WakeUp(x) PROVE QueueTypes'
  BY <1>0, <1>28 DEF WakeUp
<1> QED
  BY <1>1, <1>2, <1>3, <1>4, <1>5, <1>6, <1>7, <1>8, <1>9, <1>10, <1>11,
     <1>12, <1>13, <1>14, <1>15, <1>16, <1>17, <1>18, <1>19, <1>20, <1>21,
     <1>22, <1>23, <1>24, <1>25, <1>26, <1>27, <1>28
     DEF Sound, Works, ProducerStep, ConsumerStep

\* Every step keeps what the producers know.
LEMMA CallsStep == IInv /\ Sound => Calls'
<1> SUFFICES ASSUME IInv, Sound PROVE Calls'
  OBVIOUS
<1> USE DEF Calls, Has, Types, Goto, consPc, ConsGoto, Procs, UseAdd,
            lockVars, queueVars, ringVars, prodVars, consVars
<1>0. /\ Types /\ QueueTypes /\ RingTypes /\ CallTypes /\ Locking /\ Calls /\ Consuming
      /\ Ordered /\ QItems \in Nat /\ RingItems \in Nat /\ RingItems > 0 /\ MaxMsgs \in Nat
      /\ Consumer \notin Producers /\ NoMsg \notin Msg /\ mode' = mode
  BY Names, Sizes DEF IInv, Sound
<1>1. ASSUME NEW p \in Producers, Call(p) PROVE Calls'
  <2>1. PICK r \in Rings, nb \in NoBlocks : call' = [call EXCEPT ![p] = [ring |-> r, noblock |-> nb]]
    BY <1>1 DEF Call
  <2>2. call'[p].ring = r /\ \A q \in Producers \ {p} : call'[q] = call[q]
    BY <1>0, <2>1 DEF CallTypes
  <2>3. /\ ~UseAdd /\ sent[p] < MaxMsgs /\ pc' = [pc EXCEPT ![p] = "lock"]
        /\ pc[p] = "idle" /\ UNCHANGED <<slots, qTail, qSize, rSize, msg, sent>>
    BY <1>1 DEF Call
  <2>4. /\ pc'[p] = "lock" /\ \A q \in Producers \ {p} : pc'[q] = pc[q]
    BY <1>0, <2>3
  <2> HIDE DEF Types
  <2> QED
    BY <1>0, <2>1, <2>2, <2>3, <2>4
<1>2. ASSUME NEW p \in Producers, ProdLock(p) PROVE Calls'
  BY <1>0, <1>2 DEF ProdLock, CanLock
<1>3. ASSUME NEW p \in Producers, TryLockFails(p) PROVE Calls'
  BY <1>0, <1>3 DEF TryLockFails, CanLock
<1>4. ASSUME NEW p \in Producers, Test(p) PROVE Calls'
  <2>1. CASE Blocked(p)
    BY <1>0, <1>4, <2>1 DEF Test, AfterFull
  <2>2. CASE ~Blocked(p)
    BY <1>0, <1>4, <2>2 DEF Test, AfterSpace, Blocked, OrRingIsFull, IsFull, RingTypes, QueueTypes
  <2> QED
    BY <2>1, <2>2
<1>5. ASSUME NEW p \in Producers, Sleep(p) PROVE Calls'
  BY <1>0, <1>5 DEF Sleep
<1>6. ASSUME NEW p \in Producers, Alloc(p) PROVE Calls'
  <2>1. call[p].ring \in Rings /\ sent[p] < MaxMsgs /\ qSize < QItems /\ ~UseAdd
    BY <1>0, <1>6 DEF Alloc
  <2>2. msg'[p] \in Msg /\ \A q \in Producers \ {p} : msg'[q] = msg[q]
    BY <1>0, <1>6, <2>1 DEF Alloc, TakeElement, Msg, RingTypes, CallTypes, Elt
  <2>3. \A q \in Producers \ {p} : pc[q] \notin Inside /\ pc'[q] = pc[q]
    BY <1>0, <1>6 DEF Alloc, Locking, Inside
  <2> QED
    BY <1>0, <1>6, <2>1, <2>2, <2>3 DEF Alloc, Inside
<1>7. ASSUME NEW p \in Producers, AllocMsg(p) PROVE Calls'
  <2>1. /\ UseAdd /\ sent[p] < MaxMsgs /\ pc' = [pc EXCEPT ![p] = "lock"]
        /\ \A q \in Producers \ {p} : sent[q] = 0 /\ ~Has(q)
        /\ UNCHANGED <<qTail, qSize, slots, sent>>
    BY <1>7 DEF AllocMsg, MayAlloc
  <2>2. msg'[p] # NoMsg /\ \A q \in Producers \ {p} : msg'[q] = msg[q]
    <3>1. CASE msg[p] = NoMsg
      <4>1. PICK r \in Rings : TakeElement(p, r)
        BY <1>7, <3>1 DEF AllocMsg, MayAlloc
      <4>2. [ring |-> r, elt |-> rTail[r]] \in Msg
        BY <1>0 DEF Msg, RingTypes, Elt
      <4> QED
        BY <1>0, <4>1, <4>2 DEF TakeElement, CallTypes
    <3>2. CASE msg[p] # NoMsg
      BY <1>7, <3>2 DEF AllocMsg, MayAlloc
    <3> QED
      BY <3>1, <3>2
  <2> QED
    BY <1>0, <2>1, <2>2
<1>8. ASSUME NEW p \in Producers, Write(p) PROVE Calls'
  <2>1. /\ slots'[qTail] = msg[p]
    BY <1>0, <1>8 DEF Write, QueueTypes
  <2>2. \A q \in Producers \ {p} : pc[q] \notin Inside /\ pc'[q] = pc[q]
    BY <1>0, <1>8 DEF Write, Locking, Inside
  <2> QED
    BY <1>0, <1>8, <2>1, <2>2 DEF Write, Inside
<1>9. ASSUME NEW p \in Producers, Publish(p) PROVE Calls'
  <2>1. Has(p) /\ sent[p] < MaxMsgs
    BY <1>0, <1>9 DEF Publish
  <2>2. \A q \in Producers \ {p} : pc[q] \notin Inside /\ pc'[q] = pc[q] /\ msg'[q] = msg[q]
                                 /\ sent'[q] = sent[q]
    BY <1>0, <1>9 DEF Publish, Locking, Inside, CallTypes
  <2>3. msg'[p] = NoMsg /\ pc'[p] \in {"signal", "unlock"} /\ UNCHANGED <<rSize, call, mode>>
    BY <1>0, <1>9 DEF Publish, CallTypes
  <2> QED
    BY <1>0, <1>9, <2>1, <2>2, <2>3 DEF Inside
<1>10. ASSUME NEW p \in Producers, ProdSignal(p) PROVE Calls'
  BY <1>0, <1>10 DEF ProdSignal, BroadcastAndGoto
<1>11. ASSUME NEW p \in Producers, Unlock(p) PROVE Calls'
  BY <1>0, <1>11 DEF Unlock
<1>12. ASSUME NEW p \in Producers, Crash(p) PROVE Calls'
  BY <1>0, <1>12 DEF Crash
<1>13. CASE Sub
  BY <1>0, <1>13 DEF Sub
<1>14. CASE WaitLock
  BY <1>0, <1>14 DEF WaitLock, CanLock
<1>15. CASE WaitTest
  BY <1>0, <1>15 DEF WaitTest
<1>16. CASE ConsRelock
  BY <1>0, <1>16 DEF ConsRelock, CanLock
<1>17. CASE TimeOut
  BY <1>0, <1>17 DEF TimeOut, CanLock
<1>18. CASE Read
  BY <1>0, <1>18 DEF Read
<1>19. CASE BatchSize
  BY <1>0, <1>19 DEF BatchSize
<1>20. CASE Decrement
  <2>1. qSize' <= qSize
    BY <1>0, <1>20, DecrementCounts DEF QueueTypes
  <2>2. qSize \in Int /\ qSize' \in Int
    BY <1>0, <1>20, DecrementCounts DEF QueueTypes
  <2> QED
    BY <1>0, <1>20, <2>1, <2>2 DEF Decrement
<1>21. CASE SignalLock
  BY <1>0, <1>21 DEF SignalLock, CanLock
<1>22. CASE ConsSignal
  BY <1>0, <1>22 DEF ConsSignal, BroadcastAndGoto
<1>23. CASE Process
  BY <1>0, <1>23 DEF Process
<1>24. CASE FreeTest
  BY <1>0, <1>24 DEF FreeTest
<1>25. CASE FreeDecrement
  <2>1. cur.ring \in Rings /\ rSize[cur.ring] \in 1 .. RingItems
    BY <1>0, <1>25, FreedIsCounted DEF FreeDecrement, Consuming
  <2>2. \A r \in Rings : rSize[r] < RingItems => rSize'[r] < RingItems
    <3>1. rSize' = [rSize EXCEPT ![cur.ring] = @ - 1]
      BY <1>0, <1>25, FreeCounts DEF FreeDecrement, Consuming
    <3> QED
      BY <1>0, <2>1, <3>1 DEF RingTypes
  <2> QED
    BY <1>0, <1>25, <2>2 DEF FreeDecrement
<1>26. CASE ProcessDone
  BY <1>0, <1>26 DEF ProcessDone
<1>27. CASE Sleep(Consumer)
  BY <1>0, <1>27 DEF Sleep
<1>28. ASSUME NEW x \in Procs, WakeUp(x) PROVE Calls'
  BY <1>0, <1>28 DEF WakeUp
<1> QED
  BY <1>1, <1>2, <1>3, <1>4, <1>5, <1>6, <1>7, <1>8, <1>9, <1>10, <1>11,
     <1>12, <1>13, <1>14, <1>15, <1>16, <1>17, <1>18, <1>19, <1>20, <1>21,
     <1>22, <1>23, <1>24, <1>25, <1>26, <1>27, <1>28
     DEF Sound, Works, ProducerStep, ConsumerStep

\* Every step keeps the consumer's copy at the front of the queue.
LEMMA ConsumingStep == IInv /\ Sound => Consuming'
<1> SUFFICES ASSUME IInv, Sound PROVE Consuming'
  OBVIOUS
<1> USE DEF Consuming, Types, Goto, consPc, ConsGoto, Procs, Batch, Cond,
            lockVars, queueVars, ringVars, prodVars, consVars
<1>0. /\ Types /\ QueueTypes /\ CallTypes /\ Calls /\ Consuming /\ Ordered
      /\ (UNCHANGED <<slots, qTail, qSize>> => Waiting' = Waiting)
      /\ QItems \in Nat /\ QItems > 0 /\ Consumer \notin Producers
      /\ NoMsg \notin Msg /\ mode' = mode
  BY Names, Sizes DEF IInv, Sound, Waiting, QueueAt
<1>1. ASSUME NEW p \in Producers, Call(p) PROVE Consuming'
  BY <1>0, <1>1 DEF Call
<1>2. ASSUME NEW p \in Producers, ProdLock(p) PROVE Consuming'
  BY <1>0, <1>2 DEF ProdLock, CanLock
<1>3. ASSUME NEW p \in Producers, TryLockFails(p) PROVE Consuming'
  BY <1>0, <1>3 DEF TryLockFails, CanLock
<1>4. ASSUME NEW p \in Producers, Test(p) PROVE Consuming'
  BY <1>0, <1>4 DEF Test, AfterFull, AfterSpace
<1>5. ASSUME NEW p \in Producers, Sleep(p) PROVE Consuming'
  BY <1>0, <1>5 DEF Sleep
<1>6. ASSUME NEW p \in Producers, Alloc(p) PROVE Consuming'
  BY <1>0, <1>6 DEF Alloc, TakeElement, RingUp, AllocKeepsLock
<1>7. ASSUME NEW p \in Producers, AllocMsg(p) PROVE Consuming'
  BY <1>0, <1>7 DEF AllocMsg, MayAlloc, TakeElement, RingUp
<1>8. ASSUME NEW p \in Producers, Write(p) PROVE Consuming'
  <2>1. Waiting' = Waiting
    BY <1>0, <1>8, WaitingWrite DEF Write, Calls
  <2> QED
    BY <1>0, <1>8, <2>1 DEF Write
<1>9. ASSUME NEW p \in Producers, Publish(p) PROVE Consuming'
  <2>0. qSize < QItems /\ qSize' = qSize + 1
    BY <1>0, <1>9, PublishCounts
  <2>1. qSize < QItems /\ qSize \in Nat /\ Len(batch) \in Nat /\ DOMAIN batch = 1 .. Len(batch)
    BY <1>0, <2>0, LenProperties DEF QueueTypes
  <2>2. Waiting' = Append(Waiting, slots[qTail]) /\ Waiting \in Seq(Ref) /\ Len(Waiting) = qSize
    BY <1>0, <1>9, <2>0, WaitingPublish, WaitingType DEF Publish
  <2>3. slots[qTail] \in Ref
    BY <1>0 DEF QueueTypes, Ref
  <2>4. \A i \in 1 .. qSize : Waiting'[i] = Waiting[i]
    <3> HIDE DEF Waiting
    <3> QED
      BY <2>2, <2>3, AppendProperties
  <2>5. /\ qHead' = qHead /\ batch' = batch /\ qTail' = (qTail + 1) % QItems /\ qSize' = qSize + 1
        /\ UNCHANGED <<back, cur, mode>> /\ pc'[Consumer] = pc[Consumer]
    BY <1>0, <1>9, <2>0 DEF Publish, Types
  <2>6. Len(batch) <= qSize' /\ \A i \in DOMAIN batch : batch[i] = Waiting'[i]
    BY <1>0, <2>1, <2>4, <2>5
  <2>7. qHead = (qTail' + QItems - qSize' + Len(batch)) % QItems
    <3>1. qTail \in 0 .. QItems - 1 /\ Len(batch) <= qSize
      BY <1>0 DEF QueueTypes, Slot
    <3>2. qTail' = IF qTail + 1 < QItems THEN qTail + 1 ELSE 0
      BY <1>0, <2>5, <3>1, ModSmall
    <3> DEFINE a == qTail + QItems - qSize + Len(batch)
               b == qTail' + QItems - qSize' + Len(batch)
    <3>3. a \in 0 .. 2 * QItems - 1 /\ b \in 0 .. 2 * QItems - 1
      BY <1>0, <2>1, <2>5, <3>1, <3>2
    <3>4. /\ qTail + 1 < QItems => b = a
          /\ qTail + 1 = QItems => b = a - QItems
      BY <1>0, <2>1, <2>5, <3>1, <3>2
    <3> HIDE DEF a, b
    <3>5. b % QItems = a % QItems
      BY <1>0, <3>1, <3>3, <3>4, ModSmall
    <3> QED
      BY <1>0, <3>5 DEF a, b
  <2> QED
    BY <1>0, <1>9, <2>5, <2>6, <2>7 DEF Publish
<1>10. ASSUME NEW p \in Producers, ProdSignal(p) PROVE Consuming'
  BY <1>0, <1>10 DEF ProdSignal, BroadcastAndGoto
<1>11. ASSUME NEW p \in Producers, Unlock(p) PROVE Consuming'
  BY <1>0, <1>11 DEF Unlock
<1>12. ASSUME NEW p \in Producers, Crash(p) PROVE Consuming'
  BY <1>0, <1>12 DEF Crash
<1>13. CASE Sub
  BY <1>0, <1>13 DEF Sub
<1>14. CASE WaitLock
  BY <1>0, <1>14 DEF WaitLock, CanLock
<1>15. CASE WaitTest
  BY <1>0, <1>15 DEF WaitTest
<1>16. CASE ConsRelock
  BY <1>0, <1>16 DEF ConsRelock, CanLock
<1>17. CASE TimeOut
  BY <1>0, <1>17 DEF TimeOut, CanLock
<1>18. CASE Read
  <2>1. /\ Len(batch') <= qSize /\ \A i \in DOMAIN batch' : batch'[i] = Waiting[i]
        /\ qHead' = (qTail + QItems - qSize + Len(batch')) % QItems
    BY <1>0, <1>18, ReadTakes DEF QueueTypes
  <2>2. Waiting' = Waiting /\ UNCHANGED <<qTail, qSize, back, cur, mode>>
        /\ pc'[Consumer] = "decrement" /\ pc[Consumer] \in {"read", "readBatch"}
    BY <1>0, <1>18 DEF Read, Types
  <2> QED
    BY <1>0, <2>1, <2>2
<1>19. CASE BatchSize
  BY <1>0, <1>19 DEF BatchSize
<1>20. CASE Decrement
  <2>1. Len(batch) \in Nat /\ Len(batch') = 0 /\ batch' = << >> /\ DOMAIN batch' = {}
    BY <1>0, <1>20, LenProperties DEF Decrement, QueueTypes
  <2>2. qSize' = qSize - Len(batch) /\ UNCHANGED <<qHead, qTail>>
    BY <1>0, <1>20, DecrementCounts DEF Decrement
  <2>3. Len(batch') <= qSize'
    BY <1>0, <2>1, <2>2 DEF QueueTypes
  <2>4. qTail + QItems - qSize' + Len(batch') = qTail + QItems - qSize + Len(batch)
    BY <1>0, <2>1, <2>2 DEF QueueTypes, Slot
  <2>5. (back' = "read" => Batch) /\ UNCHANGED <<cur, mode>>
        /\ pc'[Consumer] \in {"signalLock", "read", "process"} /\ pc[Consumer] = "decrement"
    BY <1>0, <1>20 DEF Decrement, AfterSub, Types
  <2> QED
    BY <1>0, <2>1, <2>2, <2>3, <2>4, <2>5
<1>21. CASE SignalLock
  BY <1>0, <1>21 DEF SignalLock, CanLock
<1>22. CASE ConsSignal
  BY <1>0, <1>22 DEF ConsSignal, BroadcastAndGoto
<1>23. CASE Process
  <2>1. Head(got) \in Msg
    BY <1>0, <1>23, HeadTailProperties DEF Process, QueueTypes
  <2> QED
    BY <1>0, <1>23, <2>1 DEF Process
<1>24. CASE FreeTest
  BY <1>0, <1>24 DEF FreeTest
<1>25. CASE FreeDecrement
  BY <1>0, <1>25 DEF FreeDecrement
<1>26. CASE ProcessDone
  BY <1>0, <1>26 DEF ProcessDone
<1>27. CASE Sleep(Consumer)
  BY <1>0, <1>27 DEF Sleep
<1>28. ASSUME NEW x \in Procs, WakeUp(x) PROVE Consuming'
  BY <1>0, <1>28 DEF WakeUp
<1> QED
  BY <1>1, <1>2, <1>3, <1>4, <1>5, <1>6, <1>7, <1>8, <1>9, <1>10, <1>11,
     <1>12, <1>13, <1>14, <1>15, <1>16, <1>17, <1>18, <1>19, <1>20, <1>21,
     <1>22, <1>23, <1>24, <1>25, <1>26, <1>27, <1>28
     DEF Sound, Works, ProducerStep, ConsumerStep

-----------------------------------------------------------------------------
(* What a step does to the messages on their way.                          *)

\* Appending to the second of two sequences.
LEMMA ConcatAppend ==
  ASSUME NEW S, NEW s \in Seq(S), NEW t \in Seq(S), NEW e \in S
  PROVE  s \o Append(t, e) = Append(s \o t, e)
<1>1. <<e>> \in Seq(S) /\ s \o t \in Seq(S)
  BY ConcatProperties
<1>2. Append(t, e) = t \o <<e>> /\ Append(s \o t, e) = (s \o t) \o <<e>>
  BY <1>1, AppendIsConcat
<1> QED
  BY <1>1, <1>2, ConcatAssociative

\* Moving the middle one of three sequences.
LEMMA ConcatThree ==
  ASSUME NEW S, NEW s \in Seq(S), NEW t \in Seq(S), NEW u \in Seq(S), NEW v, v = t \o u
  PROVE  (s \o t) \o u = s \o v
<1>1. (s \o t) \o u = s \o (t \o u)
  BY ConcatAssociative
<1> QED
  BY <1>1

\* A sequence is its head before its tail.
LEMMA HeadThenTail ==
  ASSUME NEW S, NEW s \in Seq(S), s # << >>
  PROVE  s = <<Head(s)>> \o Tail(s)
<1>1. Len(s) \in Nat /\ Len(s) > 0 /\ Head(s) = s[1]
  BY EmptySeq, LenProperties
<1>2. 1 \in 1 .. Len(s) /\ Len(s) \in 1 .. Len(s) /\ 1 + 1 = 2
  BY <1>1
<1>3. SubSeq(s, 1, Len(s)) = <<s[1]>> \o SubSeq(s, 1 + 1, Len(s))
  BY <1>2, SubSeqRecursiveFirst
<1>4. SubSeq(s, 1, Len(s)) = s /\ Tail(s) = SubSeq(s, 2, Len(s))
  BY SubSeqFull, TailIsSubSeq
<1> QED
  BY <1>1, <1>2, <1>3, <1>4

\* cursize raised: the message is the last one on its way.
LEMMA FlightPublish ==
  ASSUME QueueTypes, qSize < QItems, UNCHANGED <<slots, got, cur>>,
         qTail' = (qTail + 1) % QItems, qSize' = qSize + 1
  PROVE  Flight' = Append(Flight, slots[qTail])
<1>1. Waiting' = Append(Waiting, slots[qTail])
  BY WaitingPublish
<1>2. /\ got \in Seq(Ref) /\ Waiting \in Seq(Ref) /\ got \o Waiting \in Seq(Ref)
      /\ slots[qTail] \in Ref
  BY FlightType DEF QueueTypes, Ref
<1> DEFINE c == IF cur = NoMsg THEN << >> ELSE <<cur>>
<1>3. c \in Seq(Ref)
  <2>1. CASE cur = NoMsg
    BY <2>1, EmptySeq
  <2>2. CASE cur # NoMsg
    BY <2>2 DEF QueueTypes, Ref
  <2> QED
    BY <2>1, <2>2
<1>4. Flight = c \o (got \o Waiting) /\ Flight' = c \o (got \o Waiting')
  BY DEF Flight
<1> HIDE DEF c, Waiting
<1>5. got \o Waiting' = Append(got \o Waiting, slots[qTail])
  BY <1>1, <1>2, ConcatAppend
<1>6. c \o Append(got \o Waiting, slots[qTail]) = Append(c \o (got \o Waiting), slots[qTail])
  BY <1>2, <1>3, ConcatAppend
<1> QED
  BY <1>4, <1>5, <1>6

\* cursize lowered: what was copied is still on its way.
LEMMA FlightDecrement ==
  ASSUME QueueTypes, Consuming, UNCHANGED <<slots, qTail, cur>>,
         qSize' = qSize - Len(batch), got' = got \o batch
  PROVE  Flight' = Flight
<1>1. /\ got \in Seq(Ref) /\ Waiting \in Seq(Ref) /\ Len(Waiting) = qSize /\ qSize \in Nat
      /\ Len(batch) \in 0 .. qSize /\ DOMAIN batch = 1 .. Len(batch)
  BY FlightType, WaitingType, LenProperties DEF QueueTypes, Consuming
<1> DEFINE n == Len(batch)
<1>2. Waiting' = SubSeq(Waiting, n + 1, qSize)
  BY <1>1, WaitingDecrement
<1>3. \A i \in 1 .. n : batch[i] = Waiting[i] /\ batch[i] \in Ref
  BY <1>1, ElementOfSeq DEF Consuming
<1>4. batch \in Seq(Ref)
  <2>1. \A i \in 1 .. Len(batch) : batch[i] \in Ref
    BY <1>3
  <2> QED
    BY <2>1 DEF QueueTypes
<1> HIDE DEF Waiting
<1>5. /\ SubSeq(Waiting, 1, n) \in Seq(Ref) /\ Len(SubSeq(Waiting, 1, n)) = n
      /\ \A i \in 1 .. n : SubSeq(Waiting, 1, n)[i] = Waiting[i]
  <2>1. \A i \in 1 .. n : Waiting[i] \in Ref
    BY <1>1, ElementOfSeq
  <2>2. /\ SubSeq(Waiting, 1, n) \in Seq(Ref)
        /\ Len(SubSeq(Waiting, 1, n)) = IF 1 <= n THEN n - 1 + 1 ELSE 0
        /\ \A i \in 1 .. n - 1 + 1 : SubSeq(Waiting, 1, n)[i] = Waiting[1 + i - 1]
    BY <1>1, <2>1, SubSeqProperties
  <2> QED
    BY <1>1, <2>2
<1>6. batch = SubSeq(Waiting, 1, n)
  BY <1>3, <1>4, <1>5, SeqEqual
<1>7. SubSeq(Waiting, 1, n) \o SubSeq(Waiting, n + 1, qSize) = SubSeq(Waiting, 1, qSize)
  <2>1. 1 \in 1 .. Len(Waiting) + 1 /\ n \in 1 - 1 .. Len(Waiting) /\ qSize \in n .. Len(Waiting)
    BY <1>1
  <2> QED
    BY <1>1, <2>1, ConcatAdjacentSubSeq
<1>8. SubSeq(Waiting, 1, qSize) = Waiting
  BY <1>1, SubSeqFull
<1>9. batch \o Waiting' = Waiting
  BY <1>2, <1>6, <1>7, <1>8
<1>10. Waiting' \in Seq(Ref)
  <2>1. n + 1 \in Int /\ qSize \in Int /\ \A i \in n + 1 .. qSize : Waiting[i] \in Ref
    BY <1>1, ElementOfSeq
  <2> QED
    BY <1>2, <2>1, SubSeqProperties
<1>11. (got \o batch) \o Waiting' = got \o Waiting
  <2> DEFINE w == Waiting'
  <2> HIDE DEF w
  <2>1. got \in Seq(Ref) /\ batch \in Seq(Ref) /\ w \in Seq(Ref) /\ Waiting = batch \o w
    BY <1>1, <1>4, <1>9, <1>10 DEF w
  <2>2. (got \o batch) \o w = got \o Waiting
    BY <2>1, ConcatThree
  <2> QED
    BY <2>2 DEF w
<1> QED
  BY <1>11 DEF Flight


\* The consumer goes on to the next message: it is still on its way.
LEMMA FlightProcess ==
  ASSUME QueueTypes, cur = NoMsg, got # << >>, UNCHANGED <<slots, qTail, qSize>>,
         cur' = Head(got), got' = Tail(got)
  PROVE  Flight' = Flight
<1>1. /\ got \in Seq(Ref) /\ Waiting \in Seq(Ref) /\ Flight = got \o Waiting
  BY FlightType
<1>2. Waiting' = Waiting
  BY DEF Waiting, QueueAt
<1>3. Tail(got) \in Seq(Ref) /\ Head(got) \in Ref /\ got = <<Head(got)>> \o Tail(got)
  BY <1>1, HeadTailProperties, HeadThenTail
<1>4. Head(got) # NoMsg
  BY HeadTailProperties, Names DEF QueueTypes
<1>5. Flight' = <<Head(got)>> \o (Tail(got) \o Waiting)
  BY <1>2, <1>4 DEF Flight
<1> DEFINE h == <<Head(got)>>
           t == Tail(got)
<1>6. h \in Seq(Ref) /\ t \in Seq(Ref) /\ got = h \o t /\ Flight' = h \o (t \o Waiting)
  BY <1>3, <1>5
<1> HIDE DEF h, t, Waiting, Flight
<1>7. (h \o t) \o Waiting = h \o (t \o Waiting)
  <2>1. h \in Seq(Ref) /\ t \in Seq(Ref) /\ Waiting \in Seq(Ref)
    BY <1>1, <1>6
  <2> QED
    BY <2>1, ConcatAssociative
<1> QED
  BY <1>1, <1>6, <1>7

\* The five things a step can do to the messages on their way and to the
\* rings: nothing; take an element for a new message; put it in the queue;
\* read one and start to free it; finish freeing it.
Still == UNCHANGED <<Flight, ringVars, msg, sent, cur, received>>
Takes(p, r) ==
  /\ TakeElement(p, r) /\ rSize[r] < RingItems
  /\ \A q \in Producers : ~Live(q)
  /\ UNCHANGED <<Flight, rHead, sent, cur, received>>
Sends(p) ==
  /\ Live(p)
  /\ Flight' = Append(Flight, msg[p])
  /\ msg' = [msg EXCEPT ![p] = NoMsg] /\ sent' = [sent EXCEPT ![p] = @ + 1]
  /\ UNCHANGED <<ringVars, cur, received>>
Starts ==
  /\ cur = NoMsg /\ Len(Flight) > 0 /\ cur' = Flight[1] /\ cur' \in Msg
  /\ received' = Append(received, ContentOf(Flight[1]))
  /\ rHead' = [rHead EXCEPT ![Flight[1].ring] =
                 IF Flight[1].elt = @ THEN (@ + 1) % RingItems ELSE @]
  /\ UNCHANGED <<Flight, rTail, rSize, data, msg, sent>>
Frees ==
  /\ cur # NoMsg /\ cur' = NoMsg /\ Flight[1] = cur
  /\ Flight' \in Seq(Ref) /\ Len(Flight') = Len(Flight) - 1
  /\ \A i \in 1 .. Len(Flight) - 1 : Flight'[i] = Flight[i + 1]
  /\ rSize' = [rSize EXCEPT ![cur.ring] = @ - 1]
  /\ UNCHANGED <<rHead, rTail, data, msg, sent, received>>
Moves ==
  \/ Still
  \/ \E p \in Producers : \E r \in Rings : Takes(p, r)
  \/ \E p \in Producers : Sends(p)
  \/ Starts
  \/ Frees

\* Every step is one of the five.
LEMMA MovesStep == IInv /\ Sound => Moves
<1> SUFFICES ASSUME IInv, Sound PROVE Moves
  OBVIOUS
<1> USE DEF lockVars, queueVars, ringVars, prodVars, consVars, consPc
<1>0. /\ Types /\ QueueTypes /\ RingTypes /\ Locking /\ Calls /\ Consuming /\ Ordered
      /\ RingItems \in Nat
      /\ (UNCHANGED <<slots, qTail, qSize>> => Waiting' = Waiting)
      /\ (UNCHANGED <<cur, got, slots, qTail, qSize>> => Flight' = Flight)
      /\ (UNCHANGED <<cur, got, slots, qTail, qSize, ringVars, msg, sent, received>> => Moves)
  BY Sizes DEF IInv, Waiting, QueueAt, Flight, Moves, Still
<1>1. ASSUME NEW p \in Producers, Call(p) PROVE Moves
  <2>1. UNCHANGED <<cur, got, slots, qTail, qSize, ringVars, msg, sent, received>>
    BY <1>1 DEF Call
  <2> QED
    BY <1>0, <2>1
<1>2. ASSUME NEW p \in Producers, ProdLock(p) PROVE Moves
  <2>1. UNCHANGED <<cur, got, slots, qTail, qSize, ringVars, msg, sent, received>>
    BY <1>2 DEF ProdLock
  <2> QED
    BY <1>0, <2>1
<1>3. ASSUME NEW p \in Producers, TryLockFails(p) PROVE Moves
  <2>1. UNCHANGED <<cur, got, slots, qTail, qSize, ringVars, msg, sent, received>>
    BY <1>3 DEF TryLockFails
  <2> QED
    BY <1>0, <2>1
<1>4. ASSUME NEW p \in Producers, Test(p) PROVE Moves
  <2>1. UNCHANGED <<cur, got, slots, qTail, qSize, ringVars, msg, sent, received>>
    BY <1>4 DEF Test
  <2> QED
    BY <1>0, <2>1
<1>5. ASSUME NEW p \in Producers, Sleep(p) PROVE Moves
  <2>1. UNCHANGED <<cur, got, slots, qTail, qSize, ringVars, msg, sent, received>>
    BY <1>5 DEF Sleep
  <2> QED
    BY <1>0, <2>1
<1>6. ASSUME NEW p \in Producers, Alloc(p) PROVE Moves
  <2> DEFINE r == call[p].ring
  <2>1. r \in Rings /\ rSize[r] < RingItems /\ ~UseAdd
    BY <1>0, <1>6 DEF Alloc, Calls
  <2>2. TakeElement(p, r) /\ UNCHANGED <<rHead, sent, cur, received, got, slots, qTail, qSize>>
    BY <1>6 DEF Alloc
  <2>3. ASSUME NEW q \in Producers PROVE ~Live(q)
    <3>1. Live(q) => pc[q] \in {"write", "publish"}
      BY <1>0, <2>1 DEF Calls, Live
    <3>2. pc[p] = "alloc" /\ lock = p
      BY <1>0, <1>6 DEF Alloc, Locking, Inside
    <3>3. Live(q) => lock = q
      BY <1>0, <3>1 DEF Locking, Inside
    <3> QED
      BY <3>1, <3>2, <3>3
  <2> HIDE DEF r
  <2>4. Takes(p, r)
    BY <1>0, <2>1, <2>2, <2>3 DEF Takes
  <2> QED
    BY <2>1, <2>4 DEF Moves
<1>7. ASSUME NEW p \in Producers, AllocMsg(p) PROVE Moves
  <2>0. UNCHANGED <<rHead, sent, cur, received, got, slots, qTail, qSize>>
    BY <1>7 DEF AllocMsg, MayAlloc
  <2>1. CASE msg[p] = NoMsg
    <3>1. PICK r \in Rings : rSize[r] # RingItems /\ TakeElement(p, r)
      BY <1>7, <2>1 DEF AllocMsg, MayAlloc
    <3>2. rSize[r] < RingItems
      <4>1. rSize[r] \in 0 .. RingItems
        BY <1>0 DEF RingTypes
      <4> QED
        BY <3>1, <4>1, Sizes
    <3>3. \A q \in Producers : ~Live(q)
      BY <1>7, <2>1 DEF AllocMsg, MayAlloc, Live, Has
    <3>4. Takes(p, r)
      BY <1>0, <2>0, <3>1, <3>2, <3>3 DEF Takes
    <3> QED
      BY <3>4 DEF Moves
  <2>2. CASE msg[p] # NoMsg
    <3>1. UNCHANGED <<msg, data, rTail, rSize>>
      BY <1>7, <2>2 DEF AllocMsg, MayAlloc
    <3> QED
      BY <1>0, <2>0, <3>1
  <2> QED
    BY <2>1, <2>2
<1>8. ASSUME NEW p \in Producers, Write(p) PROVE Moves
  <2>1. Waiting' = Waiting
    BY <1>0, <1>8, WaitingWrite DEF Write, Calls
  <2>2. UNCHANGED <<cur, got, ringVars, msg, sent, received>>
    BY <1>8 DEF Write
  <2> QED
    BY <2>1, <2>2 DEF Moves, Still, Flight
<1>9. ASSUME NEW p \in Producers, Publish(p) PROVE Moves
  <2>1. qSize < QItems /\ slots[qTail] = msg[p] /\ Live(p)
    BY <1>0, <1>9 DEF Publish, Calls, Live
  <2>2. Flight' = Append(Flight, msg[p])
    <3>1. qSize' = qSize + 1
      BY <1>0, <1>9, PublishCounts
    <3> QED
      BY <1>0, <1>9, <2>1, <3>1, FlightPublish DEF Publish
  <2>3. Sends(p)
    BY <1>9, <2>1, <2>2 DEF Sends, Publish
  <2> QED
    BY <2>3 DEF Moves
<1>10. ASSUME NEW p \in Producers, ProdSignal(p) PROVE Moves
  <2>1. UNCHANGED <<cur, got, slots, qTail, qSize, ringVars, msg, sent, received>>
    BY <1>10 DEF ProdSignal
  <2> QED
    BY <1>0, <2>1
<1>11. ASSUME NEW p \in Producers, Unlock(p) PROVE Moves
  <2>1. UNCHANGED <<cur, got, slots, qTail, qSize, ringVars, msg, sent, received>>
    BY <1>11 DEF Unlock
  <2> QED
    BY <1>0, <2>1
<1>12. ASSUME NEW p \in Producers, Crash(p) PROVE Moves
  <2>1. UNCHANGED <<cur, got, slots, qTail, qSize, ringVars, msg, sent, received>>
    BY <1>12 DEF Crash
  <2> QED
    BY <1>0, <2>1
<1>13. CASE Sub
  <2>1. UNCHANGED <<cur, got, slots, qTail, qSize, ringVars, msg, sent, received>>
    BY <1>13 DEF Sub
  <2> QED
    BY <1>0, <2>1
<1>14. CASE WaitLock
  <2>1. UNCHANGED <<cur, got, slots, qTail, qSize, ringVars, msg, sent, received>>
    BY <1>14 DEF WaitLock
  <2> QED
    BY <1>0, <2>1
<1>15. CASE WaitTest
  <2>1. UNCHANGED <<cur, got, slots, qTail, qSize, ringVars, msg, sent, received>>
    BY <1>15 DEF WaitTest
  <2> QED
    BY <1>0, <2>1
<1>16. CASE ConsRelock
  <2>1. UNCHANGED <<cur, got, slots, qTail, qSize, ringVars, msg, sent, received>>
    BY <1>16 DEF ConsRelock
  <2> QED
    BY <1>0, <2>1
<1>17. CASE TimeOut
  <2>1. UNCHANGED <<cur, got, slots, qTail, qSize, ringVars, msg, sent, received>>
    BY <1>17 DEF TimeOut
  <2> QED
    BY <1>0, <2>1
<1>18. CASE Read
  <2>1. UNCHANGED <<cur, got, slots, qTail, qSize, ringVars, msg, sent, received>>
    BY <1>18 DEF Read
  <2> QED
    BY <1>0, <2>1
<1>19. CASE BatchSize
  <2>1. UNCHANGED <<cur, got, slots, qTail, qSize, ringVars, msg, sent, received>>
    BY <1>19 DEF BatchSize
  <2> QED
    BY <1>0, <2>1
<1>20. CASE Decrement
  <2>1. Flight' = Flight
    <3>1. qSize' = qSize - Len(batch)
      BY <1>0, <1>20, DecrementCounts
    <3> QED
      BY <1>0, <1>20, <3>1, FlightDecrement DEF Decrement
  <2>2. UNCHANGED <<cur, ringVars, msg, sent, received>>
    BY <1>20 DEF Decrement
  <2> QED
    BY <2>1, <2>2 DEF Moves, Still
<1>21. CASE SignalLock
  <2>1. UNCHANGED <<cur, got, slots, qTail, qSize, ringVars, msg, sent, received>>
    BY <1>21 DEF SignalLock
  <2> QED
    BY <1>0, <2>1
<1>22. CASE ConsSignal
  <2>1. UNCHANGED <<cur, got, slots, qTail, qSize, ringVars, msg, sent, received>>
    BY <1>22 DEF ConsSignal
  <2> QED
    BY <1>0, <2>1
<1>23. CASE Process
  <2>1. cur = NoMsg /\ got # << >>
    BY <1>0, <1>23 DEF Process, Consuming
  <2>2. /\ UNCHANGED <<slots, qTail, qSize, rTail, rSize, data, msg, sent>>
        /\ cur' = Head(got) /\ got' = Tail(got)
    BY <1>23 DEF Process
  <2>3. Flight' = Flight
    BY <1>0, <2>1, <2>2, FlightProcess
  <2>4. Len(Flight) > 0 /\ Flight[1] = Head(got) /\ Head(got) \in Msg
    BY <1>0, <2>1, FlightFirst, HeadTailProperties DEF QueueTypes
  <2>5. /\ received' = Append(received, ContentOf(Head(got)))
        /\ rHead' = [rHead EXCEPT ![Head(got).ring] =
                       IF Head(got).elt = @ THEN (@ + 1) % RingItems ELSE @]
    BY <1>23 DEF Process, ContentOf
  <2>6. Starts
    BY <2>1, <2>2, <2>3, <2>4, <2>5 DEF Starts
  <2> QED
    BY <2>6 DEF Moves
<1>24. CASE FreeTest
  <2>1. UNCHANGED <<cur, got, slots, qTail, qSize, ringVars, msg, sent, received>>
    BY <1>24 DEF FreeTest
  <2> QED
    BY <1>0, <2>1
<1>25. CASE FreeDecrement
  <2>1. cur # NoMsg
    BY <1>0, <1>25 DEF FreeDecrement, Consuming
  <2>2. /\ UNCHANGED <<slots, qTail, qSize, got, rHead, rTail, data, msg, sent, received>>
        /\ cur' = NoMsg /\ rSize' = [rSize EXCEPT ![cur.ring] = @ - 1]
    BY <1>0, <1>25, <2>1, FreeCounts DEF FreeDecrement
  <2>3. /\ Flight[1] = cur /\ Len(got \o Waiting) = Len(Flight) - 1
        /\ \A i \in 1 .. Len(Flight) - 1 : (got \o Waiting)[i] = Flight[i + 1]
    BY <1>0, <2>1, FlightFirst
  <2>4. Flight' = got \o Waiting
    <3>1. Flight' = << >> \o (got \o Waiting)
      BY <1>0, <2>2 DEF Flight
    <3> QED
      BY <1>0, <3>1, FlightType, ConcatEmptySeq
  <2>5. Frees
    BY <1>0, <2>1, <2>2, <2>3, <2>4, FlightType DEF Frees
  <2> QED
    BY <2>5 DEF Moves
<1>26. CASE ProcessDone
  <2>1. UNCHANGED <<cur, got, slots, qTail, qSize, ringVars, msg, sent, received>>
    BY <1>26 DEF ProcessDone
  <2> QED
    BY <1>0, <2>1
<1>27. CASE Sleep(Consumer)
  <2>1. UNCHANGED <<cur, got, slots, qTail, qSize, ringVars, msg, sent, received>>
    BY <1>27 DEF Sleep
  <2> QED
    BY <1>0, <2>1
<1>28. ASSUME NEW x \in Procs, WakeUp(x) PROVE Moves
  <2>1. UNCHANGED <<cur, got, slots, qTail, qSize, ringVars, msg, sent, received>>
    BY <1>28 DEF WakeUp
  <2> QED
    BY <1>0, <2>1
<1> QED
  BY <1>1, <1>2, <1>3, <1>4, <1>5, <1>6, <1>7, <1>8, <1>9, <1>10, <1>11,
     <1>12, <1>13, <1>14, <1>15, <1>16, <1>17, <1>18, <1>19, <1>20, <1>21,
     <1>22, <1>23, <1>24, <1>25, <1>26, <1>27, <1>28
     DEF Sound, Works, ProducerStep, ConsumerStep

\* Nobody comes back from the dead.
LEMMA DeadStaysDead == Types /\ Next => \A p \in Producers : pc[p] = "dead" => pc'[p] = "dead"
<1> SUFFICES ASSUME Types, Next PROVE \A p \in Producers : pc[p] = "dead" => pc'[p] = "dead"
  OBVIOUS
<1> USE DEF Types, Goto, consPc, ConsGoto, Procs, lockVars, queueVars, ringVars, prodVars, consVars
<1>0. Types /\ Consumer \notin Producers
  BY Names
<1>1. ASSUME NEW q \in Producers, Call(q) PROVE \A p \in Producers : pc[p] = "dead" => pc'[p] = "dead"
  BY <1>0, <1>1 DEF Call
<1>2. ASSUME NEW q \in Producers, ProdLock(q) PROVE \A p \in Producers : pc[p] = "dead" => pc'[p] = "dead"
  BY <1>0, <1>2 DEF ProdLock, CanLock
<1>3. ASSUME NEW q \in Producers, TryLockFails(q) PROVE \A p \in Producers : pc[p] = "dead" => pc'[p] = "dead"
  BY <1>0, <1>3 DEF TryLockFails, CanLock
<1>4. ASSUME NEW q \in Producers, Test(q) PROVE \A p \in Producers : pc[p] = "dead" => pc'[p] = "dead"
  BY <1>0, <1>4 DEF Test, AfterFull, AfterSpace
<1>5. ASSUME NEW q \in Producers, Sleep(q) PROVE \A p \in Producers : pc[p] = "dead" => pc'[p] = "dead"
  BY <1>0, <1>5 DEF Sleep
<1>6. ASSUME NEW q \in Producers, Alloc(q) PROVE \A p \in Producers : pc[p] = "dead" => pc'[p] = "dead"
  BY <1>0, <1>6 DEF Alloc, TakeElement, RingUp, AllocKeepsLock
<1>7. ASSUME NEW q \in Producers, AllocMsg(q) PROVE \A p \in Producers : pc[p] = "dead" => pc'[p] = "dead"
  BY <1>0, <1>7 DEF AllocMsg, MayAlloc, TakeElement, RingUp
<1>8. ASSUME NEW q \in Producers, Write(q) PROVE \A p \in Producers : pc[p] = "dead" => pc'[p] = "dead"
  BY <1>0, <1>8 DEF Write
<1>9. ASSUME NEW q \in Producers, Publish(q) PROVE \A p \in Producers : pc[p] = "dead" => pc'[p] = "dead"
  BY <1>0, <1>9 DEF Publish
<1>10. ASSUME NEW q \in Producers, ProdSignal(q) PROVE \A p \in Producers : pc[p] = "dead" => pc'[p] = "dead"
  BY <1>0, <1>10 DEF ProdSignal, BroadcastAndGoto
<1>11. ASSUME NEW q \in Producers, Unlock(q) PROVE \A p \in Producers : pc[p] = "dead" => pc'[p] = "dead"
  BY <1>0, <1>11 DEF Unlock
<1>12. ASSUME NEW q \in Producers, Crash(q) PROVE \A p \in Producers : pc[p] = "dead" => pc'[p] = "dead"
  BY <1>0, <1>12 DEF Crash
<1>13. CASE Sub
  BY <1>0, <1>13 DEF Sub
<1>14. CASE WaitLock
  BY <1>0, <1>14 DEF WaitLock, CanLock
<1>15. CASE WaitTest
  BY <1>0, <1>15 DEF WaitTest
<1>16. CASE ConsRelock
  BY <1>0, <1>16 DEF ConsRelock, CanLock
<1>17. CASE TimeOut
  BY <1>0, <1>17 DEF TimeOut, CanLock
<1>18. CASE Read
  BY <1>0, <1>18 DEF Read
<1>19. CASE BatchSize
  BY <1>0, <1>19 DEF BatchSize
<1>20. CASE Decrement
  BY <1>0, <1>20 DEF Decrement, AfterSub, Taken
<1>21. CASE SignalLock
  BY <1>0, <1>21 DEF SignalLock, CanLock
<1>22. CASE ConsSignal
  BY <1>0, <1>22 DEF ConsSignal, BroadcastAndGoto
<1>23. CASE Process
  BY <1>0, <1>23 DEF Process
<1>24. CASE FreeTest
  BY <1>0, <1>24 DEF FreeTest
<1>25. CASE FreeDecrement
  BY <1>0, <1>25 DEF FreeDecrement
<1>26. CASE ProcessDone
  BY <1>0, <1>26 DEF ProcessDone
<1>27. CASE Sleep(Consumer)
  BY <1>0, <1>27 DEF Sleep
<1>28. ASSUME NEW x \in Procs, WakeUp(x) PROVE \A p \in Producers : pc[p] = "dead" => pc'[p] = "dead"
  BY <1>0, <1>28 DEF WakeUp
<1>29. CASE ReadEmpty
  BY <1>0, <1>29 DEF ReadEmpty
<1>30. ASSUME NEW q \in Producers, CrashInside(q) PROVE \A p \in Producers : pc[p] = "dead" => pc'[p] = "dead"
  BY <1>0, <1>30 DEF CrashInside, Taking, MayAlloc
<1> QED
  BY <1>1, <1>2, <1>3, <1>4, <1>5, <1>6, <1>7, <1>8, <1>9, <1>10, <1>11,
     <1>12, <1>13, <1>14, <1>15, <1>16, <1>17, <1>18, <1>19, <1>20, <1>21,
     <1>22, <1>23, <1>24, <1>25, <1>26, <1>27, <1>28, <1>29, <1>30
     DEF Next, Works, Damages, ProducerStep, ConsumerStep

-----------------------------------------------------------------------------
(* The order of the elements of a ring.                                    *)

\* The age of a message is the distance of its element from tail.
LEMMA AgeType ==
  ASSUME RingTypes, NEW m \in Msg
  PROVE  /\ m.ring \in Rings /\ m.elt \in 0 .. RingItems - 1
         /\ rTail[m.ring] \in 0 .. RingItems - 1 /\ rSize[m.ring] \in 0 .. RingItems
         /\ Age(m) \in 0 .. RingItems - 1
<1>1. m.ring \in Rings /\ m.elt \in 0 .. RingItems - 1
  BY DEF Msg
<1>2. rTail[m.ring] \in 0 .. RingItems - 1 /\ rSize[m.ring] \in 0 .. RingItems
  BY <1>1 DEF RingTypes, Elt
<1> QED
  BY <1>1, <1>2, Sizes DEF Age

\* A message put on its way by a producer is one of a ring.
LEMMA LiveIsMsg ==
  ASSUME CallTypes, NEW p \in Producers, Has(p)
  PROVE  msg[p] \in Msg
  BY DEF CallTypes, Has

\* Taking an element makes the others of its ring one older, and the new one
\* is the youngest; its place is not that of a message on its way.
LEMMA TakeAges ==
  ASSUME RingTypes, CallTypes, NEW p \in Producers, NEW r \in Rings, Takes(p, r)
  PROVE  /\ \A m \in Msg : Age(m) < rSize[m.ring] =>
              /\ m.ring = r => Age(m)' = Age(m) + 1 /\ m.elt # rTail[r]
              /\ m.ring # r => Age(m)' = Age(m)
         /\ msg'[p] = [ring |-> r, elt |-> rTail[r]] /\ Age(msg[p])' = 0
         /\ msg'[p] \in Msg
         /\ rSize'[r] = rSize[r] + 1
         /\ \A q \in Rings : q # r => rSize'[q] = rSize[q] /\ rTail'[q] = rTail[q]
         /\ rTail'[r] = IF rTail[r] + 1 < RingItems THEN rTail[r] + 1 ELSE 0
<1>1. /\ rTail[r] \in 0 .. RingItems - 1 /\ rSize[r] \in 0 .. RingItems
      /\ RingItems \in Nat /\ RingItems > 0 /\ rSize[r] < RingItems
  BY Sizes DEF RingTypes, Elt, Takes
<1>2. rTail'[r] = IF rTail[r] + 1 < RingItems THEN rTail[r] + 1 ELSE 0
  <2>1. rTail'[r] = (rTail[r] + 1) % RingItems
    BY DEF Takes, TakeElement, RingTypes
  <2> QED
    BY <1>1, <2>1, ModSmall
<1>3. /\ rSize'[r] = rSize[r] + 1
      /\ \A q \in Rings : q # r => rSize'[q] = rSize[q] /\ rTail'[q] = rTail[q]
  <2>1. rSize' = [rSize EXCEPT ![r] = @ + 1]
    BY TakeCounts DEF Takes
  <2> QED
    BY <2>1 DEF Takes, TakeElement, RingTypes
<1>4. msg'[p] = [ring |-> r, elt |-> rTail[r]] /\ msg'[p] \in Msg
  BY <1>1 DEF Takes, TakeElement, CallTypes, Msg
<1>5. Age(msg[p])' = 0
  <2>1. msg'[p].ring = r /\ msg'[p].elt = rTail[r]
    BY <1>4
  <2> QED
    BY <1>1, <1>2, <2>1 DEF Age
<1>6. ASSUME NEW m \in Msg, Age(m) < rSize[m.ring]
      PROVE  /\ m.ring = r => Age(m)' = Age(m) + 1 /\ m.elt # rTail[r]
             /\ m.ring # r => Age(m)' = Age(m)
  <2>1. m.ring \in Rings /\ m.elt \in 0 .. RingItems - 1
    BY AgeType
  <2>2. CASE m.ring = r
    BY <1>1, <1>2, <1>6, <2>1, <2>2 DEF Age
  <2>3. CASE m.ring # r
    BY <1>3, <2>1, <2>3 DEF Age
  <2> QED
    BY <2>2, <2>3
<1> QED
  BY <1>2, <1>3, <1>4, <1>5, <1>6

\* What the messages on their way were before a step that adds or removes one.
LEMMA SendFlight ==
  ASSUME QueueTypes, CallTypes, NEW p \in Producers, Sends(p)
  PROVE  /\ DOMAIN Flight' = 1 .. Len(Flight) + 1 /\ Len(Flight) \in Nat
         /\ DOMAIN Flight = 1 .. Len(Flight)
         /\ \A i \in DOMAIN Flight : Flight'[i] = Flight[i]
         /\ Flight'[Len(Flight) + 1] = msg[p]
<1>1. Flight \in Seq(Ref) /\ DOMAIN Flight = 1 .. Len(Flight) /\ Len(Flight) \in Nat
  BY FlightType
<1>2. msg[p] \in Ref
  BY DEF CallTypes, Ref
<1>3. Flight' = Append(Flight, msg[p])
  BY DEF Sends
<1> QED
  BY <1>1, <1>2, <1>3, AppendProperties, LenProperties

\* ... one that removes the first of them.
LEMMA FreeFlight ==
  ASSUME QueueTypes, Frees
  PROVE  /\ DOMAIN Flight = 1 .. Len(Flight) /\ Len(Flight) \in Nat /\ Len(Flight) > 0
         /\ DOMAIN Flight' = 1 .. Len(Flight) - 1
         /\ \A i \in DOMAIN Flight' : i + 1 \in DOMAIN Flight /\ Flight'[i] = Flight[i + 1]
<1>1. DOMAIN Flight = 1 .. Len(Flight) /\ Len(Flight) \in Nat /\ Len(Flight) > 0
  BY FlightType, FlightFirst DEF Frees
<1>2. DOMAIN Flight' = 1 .. Len(Flight')
  BY LenProperties DEF Frees
<1> QED
  BY <1>1, <1>2 DEF Frees


\* Every step keeps the order of the elements of a ring.
LEMMA OrderedStep ==
  ASSUME IInv, Moves, \A p \in Producers : pc[p] = "dead" => pc'[p] = "dead"
  PROVE  Ordered'
<1>0. /\ QueueTypes /\ RingTypes /\ CallTypes /\ Ordered
      /\ RingItems \in Nat /\ NoMsg \notin Msg
  BY Names, Sizes DEF IInv
<1>1. CASE Still \/ Starts
  <2>1. UNCHANGED <<Flight, rTail, rSize, msg>>
    BY <1>1 DEF Still, Starts, ringVars
  <2>2. \A p \in Producers : Live(p)' => Live(p)
    BY <2>1 DEF Live, Has
  <2> QED
    BY <1>0, <2>1, <2>2 DEF Ordered, Age
<1>2. ASSUME NEW p \in Producers, NEW r \in Rings, Takes(p, r) PROVE Ordered'
  <2>0. /\ \A m \in Msg : Age(m) < rSize[m.ring] =>
             /\ m.ring = r => Age(m)' = Age(m) + 1 /\ m.elt # rTail[r]
             /\ m.ring # r => Age(m)' = Age(m)
        /\ msg'[p] = [ring |-> r, elt |-> rTail[r]] /\ Age(msg[p])' = 0
        /\ rSize'[r] = rSize[r] + 1
        /\ \A q \in Rings : q # r => rSize'[q] = rSize[q]
    BY <1>0, <1>2, TakeAges
  <2>1. \A i \in DOMAIN Flight :
          /\ Flight[i] \in Msg /\ Flight[i].ring \in Rings /\ rSize[Flight[i].ring] \in Int
          /\ Age(Flight[i]) \in 0 .. RingItems - 1 /\ Age(Flight[i]) < rSize[Flight[i].ring]
    BY <1>0, AgeType DEF Ordered
  <2>2. Flight' = Flight
    BY <1>2 DEF Takes
  <2>3. \A i \in DOMAIN Flight :
          Age(Flight[i])' = IF Flight[i].ring = r THEN Age(Flight[i]) + 1 ELSE Age(Flight[i])
    <3>1. ASSUME NEW i \in DOMAIN Flight, NEW m \in Msg, m = Flight[i]
          PROVE  Age(Flight[i])' = Age(m)'
      BY <2>2, <3>1 DEF Age
    <3> QED
      BY <2>0, <2>1, <3>1
  <2>4. \A i \in DOMAIN Flight' :
          Flight'[i] \in Msg /\ Age(Flight[i])' < rSize'[Flight'[i].ring]
    BY <1>0, <2>0, <2>1, <2>2, <2>3
  <2>5. \A i, j \in DOMAIN Flight' :
          i < j /\ Flight'[i].ring = Flight'[j].ring => Age(Flight[j])' < Age(Flight[i])'
    BY <1>0, <2>1, <2>2, <2>3 DEF Ordered
  <2>6. \A q \in Producers : q # p => ~Live(q)'
    BY <1>0, <1>2 DEF Takes, TakeElement, Live, Has, CallTypes
  <2>7. msg'[p].ring = r /\ rSize'[r] > 0
    BY <1>0, <2>0 DEF RingTypes
  <2>8. \A i \in DOMAIN Flight' : Flight'[i].ring = r => Age(Flight[i])' > 0
    BY <1>0, <2>1, <2>2, <2>3
  <2> QED
    BY <2>0, <2>4, <2>5, <2>6, <2>7, <2>8 DEF Ordered
<1>3. ASSUME NEW p \in Producers, Sends(p) PROVE Ordered'
  <2> DEFINE n == Len(Flight)
  <2>1. /\ DOMAIN Flight' = 1 .. n + 1 /\ n \in Nat /\ DOMAIN Flight = 1 .. n
        /\ \A i \in DOMAIN Flight : Flight'[i] = Flight[i]
        /\ Flight'[n + 1] = msg[p]
    BY <1>0, <1>3, SendFlight
  <2>2. UNCHANGED <<rTail, rSize>> /\ Live(p) /\ msg[p] \in Msg
    BY <1>0, <1>3, LiveIsMsg DEF Sends, ringVars, Live
  <2>3. \A q \in Producers : ~Live(q)'
    BY <1>0, <1>3, <2>2 DEF Sends, Live, Has, CallTypes, Ordered
  <2>4. \A i \in DOMAIN Flight : Age(Flight[i])' = Age(Flight[i])
    BY <2>1, <2>2 DEF Age
  <2> HIDE DEF n
  <2>6. ASSUME NEW i \in DOMAIN Flight', i = n + 1 PROVE Age(Flight[i])' = Age(msg[p])
    BY <2>1, <2>2, <2>6 DEF Age
  <2>7. \A i \in DOMAIN Flight' : i \in DOMAIN Flight \/ i = n + 1
    BY <2>1
  <2>8. \A i \in DOMAIN Flight' :
          Flight'[i] \in Msg /\ Age(Flight[i])' < rSize'[Flight'[i].ring]
    BY <1>0, <2>1, <2>2, <2>4, <2>6, <2>7 DEF Ordered
  <2>9. \A i, j \in DOMAIN Flight' :
          i < j /\ Flight'[i].ring = Flight'[j].ring => Age(Flight[j])' < Age(Flight[i])'
    BY <1>0, <2>1, <2>2, <2>4, <2>6, <2>7 DEF Ordered
  <2> QED
    BY <2>3, <2>8, <2>9 DEF Ordered
<1>4. CASE Frees
  <2>1. /\ DOMAIN Flight = 1 .. Len(Flight) /\ Len(Flight) \in Nat /\ Len(Flight) > 0
        /\ DOMAIN Flight' = 1 .. Len(Flight) - 1
        /\ \A i \in DOMAIN Flight' : i + 1 \in DOMAIN Flight /\ Flight'[i] = Flight[i + 1]
    BY <1>0, <1>4, FreeFlight
  <2>2. /\ UNCHANGED <<rTail, msg>> /\ Flight[1] = cur /\ 1 \in DOMAIN Flight
        /\ cur \in Msg /\ cur.ring \in Rings
        /\ \A r \in Rings : rSize'[r] = IF r = cur.ring THEN rSize[r] - 1 ELSE rSize[r]
    BY <1>0, <1>4, <2>1, FreedIsCounted DEF Frees, RingTypes
  <2>3. \A i \in DOMAIN Flight :
          /\ Flight[i] \in Msg /\ Flight[i].ring \in Rings /\ rSize[Flight[i].ring] \in Int
          /\ Age(Flight[i]) \in 0 .. RingItems - 1 /\ Age(Flight[i]) < rSize[Flight[i].ring]
    BY <1>0, AgeType DEF Ordered
  <2>4. \A i \in DOMAIN Flight' : Age(Flight[i])' = Age(Flight[i + 1])
    BY <2>1, <2>2 DEF Age
  <2>5. \A i \in DOMAIN Flight' :
          Flight[i + 1].ring = cur.ring => Age(Flight[i + 1]) < Age(cur)
    BY <1>0, <2>1, <2>2 DEF Ordered
  <2>6. \A i \in DOMAIN Flight' :
          Flight'[i] \in Msg /\ Age(Flight[i])' < rSize'[Flight'[i].ring]
    <3>1. ASSUME NEW i \in DOMAIN Flight'
          PROVE  Flight'[i] \in Msg /\ Age(Flight[i])' < rSize'[Flight'[i].ring]
      <4> DEFINE m == Flight[i + 1]
      <4>1. /\ m \in Msg /\ m.ring \in Rings /\ rSize[m.ring] \in Int /\ Flight'[i] = m
            /\ Age(m) \in Int /\ Age(m) < rSize[m.ring] /\ Age(Flight[i])' = Age(m)
            /\ m.ring = cur.ring => Age(m) < Age(cur)
        BY <2>1, <2>3, <2>4, <2>5
      <4>2. Age(cur) \in Int /\ Age(cur) < rSize[cur.ring]
        BY <2>2, <2>3
      <4> HIDE DEF m
      <4> QED
        BY <2>2, <4>1, <4>2
    <3> QED
      BY <3>1
  <2>7. \A i, j \in DOMAIN Flight' :
          i < j /\ Flight'[i].ring = Flight'[j].ring => Age(Flight[j])' < Age(Flight[i])'
    BY <1>0, <2>1, <2>4 DEF Ordered
  <2>8. \A p \in Producers : Live(p)' => Live(p)
    BY <2>2 DEF Live, Has
  <2>9. ASSUME NEW p \in Producers, Live(p)
        PROVE  /\ Age(msg[p])' = 0 /\ rSize'[msg'[p].ring] > 0
               /\ \A i \in DOMAIN Flight' :
                    Flight'[i].ring = msg'[p].ring => Age(Flight[i])' > 0
    <3>1. msg[p] \in Msg /\ msg[p].ring \in Rings /\ rSize[msg[p].ring] \in Int
      BY <1>0, <2>9, LiveIsMsg, AgeType DEF Live
    <3>2. Age(msg[p])' = 0
      BY <1>0, <2>2, <2>9 DEF Ordered, Age
    <3>3. rSize'[msg'[p].ring] > 0
      <4>1. CASE msg[p].ring = cur.ring
        <5>1. Age(cur) > 0 /\ Age(cur) \in Int /\ Age(cur) < rSize[cur.ring]
          BY <1>0, <2>2, <2>3, <2>9, <4>1 DEF Ordered
        <5> QED
          BY <2>2, <3>1, <4>1, <5>1
      <4>2. CASE msg[p].ring # cur.ring
        BY <1>0, <2>2, <2>9, <3>1, <4>2 DEF Ordered
      <4> QED
        BY <4>1, <4>2
    <3>4. \A i \in DOMAIN Flight' :
            Flight'[i].ring = msg'[p].ring => Age(Flight[i])' > 0
      BY <1>0, <2>1, <2>2, <2>4, <2>9 DEF Ordered
    <3> QED
      BY <3>2, <3>3, <3>4
  <2>10. \A p, q \in Producers : Live(p)' /\ Live(q)' => p = q
    BY <1>0, <2>8 DEF Ordered
  <2> QED
    BY <2>6, <2>7, <2>8, <2>9, <2>10 DEF Ordered
<1> QED
  BY <1>1, <1>2, <1>3, <1>4 DEF Moves


\* While nobody has died, the next message to be freed, or being freed, is the
\* oldest of its ring.
LEMMA OldestFirst ==
  ASSUME QueueTypes, RingTypes, CallTypes, Ordered, NoGaps, AllAlive, Len(Flight) > 0
  PROVE  /\ Flight[1] \in Msg /\ Flight[1].ring \in Rings /\ 1 \in DOMAIN Flight
         /\ Age(Flight[1]) = rSize[Flight[1].ring] - 1
         /\ rSize[Flight[1].ring] \in 1 .. RingItems
<1> DEFINE m == Flight[1]
           r == m.ring
<1>1. DOMAIN Flight = 1 .. Len(Flight) /\ Len(Flight) \in Nat /\ 1 \in DOMAIN Flight
  <2>1. DOMAIN Flight = 1 .. Len(Flight) /\ Len(Flight) \in Nat
    BY FlightType
  <2> QED
    BY <2>1
<1>2. /\ m \in Msg /\ r \in Rings /\ Age(m) \in 0 .. RingItems - 1 /\ Age(m) < rSize[r]
      /\ rSize[r] \in 0 .. RingItems
  BY <1>1, AgeType DEF Ordered
<1>3. rSize[r] - 1 \in 0 .. rSize[r] - 1
  BY <1>2, Sizes
<1>4. CASE \E i \in DOMAIN Flight : Flight[i].ring = r /\ Age(Flight[i]) = rSize[r] - 1
  <2>1. PICK i \in DOMAIN Flight : Flight[i].ring = r /\ Age(Flight[i]) = rSize[r] - 1
    BY <1>4
  <2>2. CASE i = 1
    BY <1>1, <1>2, <2>1, <2>2, Sizes
  <2>3. CASE i # 1
    <3>1. 1 < i
      BY <1>1, <2>3
    <3>2. Age(Flight[i]) < Age(m)
      BY <1>1, <2>1, <3>1 DEF Ordered
    <3> QED
      BY <1>2, <2>1, <3>2, Sizes
  <2> QED
    BY <2>2, <2>3
<1>5. CASE \E p \in Producers : Has(p) /\ msg[p].ring = r /\ Age(msg[p]) = rSize[r] - 1
  <2>1. PICK p \in Producers : Has(p) /\ msg[p].ring = r /\ Age(msg[p]) = rSize[r] - 1
    BY <1>5
  <2>2. Live(p)
    BY <2>1 DEF Live, AllAlive
  <2>3. Age(msg[p]) = 0 /\ Age(m) > 0
    BY <1>1, <2>1, <2>2 DEF Ordered
  <2> QED
    BY <1>2, <2>1, <2>3, Sizes
<1> QED
  BY <1>2, <1>3, <1>4, <1>5 DEF NoGaps

\* The element of a message, from its age.
LEMMA EltOfAge ==
  ASSUME RingTypes, NEW m \in Msg
  PROVE  m.elt = BackFrom(m.ring, Age(m) + 1)
  BY AgeType, Sizes DEF Age, BackFrom

\* Every step keeps the rings free of gaps, while nobody dies.
LEMMA NoGapsStep ==
  ASSUME IInv, Moves, Ordered', \A p \in Producers : pc[p] = "dead" => pc'[p] = "dead"
  PROVE  NoGaps'
<1> SUFFICES ASSUME AllAlive', NEW s \in Rings
             PROVE  /\ rHead'[s] = BackFrom(s, rSize[s] - Freeing(s))'
                    /\ \A a \in 0 .. rSize'[s] - 1 :
                         \/ \E i \in DOMAIN Flight' : Flight'[i].ring = s /\ Age(Flight[i])' = a
                         \/ \E p \in Producers : Has(p)' /\ msg'[p].ring = s /\ Age(msg[p])' = a
  BY DEF NoGaps
<1>a. AllAlive /\ \A p \in Producers : Has(p) => Live(p)
  BY DEF AllAlive, Live
<1>0. /\ QueueTypes /\ RingTypes /\ CallTypes /\ Ordered /\ NoGaps
      /\ RingItems \in Nat /\ RingItems > 0 /\ NoMsg \notin Msg
  BY Names, Sizes DEF IInv
<1>b. /\ rHead[s] = BackFrom(s, rSize[s] - Freeing(s))
      /\ \A a \in 0 .. rSize[s] - 1 :
           \/ \E i \in DOMAIN Flight : Flight[i].ring = s /\ Age(Flight[i]) = a
           \/ \E p \in Producers : Has(p) /\ msg[p].ring = s /\ Age(msg[p]) = a
  BY <1>0, <1>a DEF NoGaps
<1>c. /\ rTail[s] \in 0 .. RingItems - 1 /\ rSize[s] \in 0 .. RingItems
      /\ rHead[s] \in 0 .. RingItems - 1
      /\ Freeing(s) \in {0, 1} /\ rSize[s] - Freeing(s) \in 0 .. RingItems
  <2>1. /\ rTail[s] \in 0 .. RingItems - 1 /\ rSize[s] \in 0 .. RingItems
        /\ rHead[s] \in 0 .. RingItems - 1
    BY <1>0 DEF RingTypes, Elt
  <2>2. CASE cur # NoMsg /\ cur.ring = s
    <3>1. rSize[s] \in 1 .. RingItems
      BY <1>0, <2>2, FreedIsCounted
    <3> QED
      BY <1>0, <2>1, <2>2, <3>1 DEF Freeing
  <2>3. CASE ~(cur # NoMsg /\ cur.ring = s)
    BY <1>0, <2>1, <2>3 DEF Freeing
  <2> QED
    BY <2>2, <2>3
<1>1. CASE Still
  BY <1>1, <1>b DEF Still, ringVars, BackFrom, Freeing, Has, Age
<1>2. ASSUME NEW p \in Producers, NEW r \in Rings, Takes(p, r)
      PROVE  /\ rHead'[s] = BackFrom(s, rSize[s] - Freeing(s))'
             /\ \A a \in 0 .. rSize'[s] - 1 :
                  \/ \E i \in DOMAIN Flight' : Flight'[i].ring = s /\ Age(Flight[i])' = a
                  \/ \E q \in Producers : Has(q)' /\ msg'[q].ring = s /\ Age(msg[q])' = a
  <2>0. /\ \A m \in Msg : Age(m) < rSize[m.ring] =>
             /\ m.ring = r => Age(m)' = Age(m) + 1 /\ m.elt # rTail[r]
             /\ m.ring # r => Age(m)' = Age(m)
        /\ msg'[p] = [ring |-> r, elt |-> rTail[r]] /\ Age(msg[p])' = 0
        /\ msg'[p] \in Msg /\ rSize'[r] = rSize[r] + 1
        /\ \A q \in Rings : q # r => rSize'[q] = rSize[q] /\ rTail'[q] = rTail[q]
        /\ rTail'[r] = IF rTail[r] + 1 < RingItems THEN rTail[r] + 1 ELSE 0
    BY <1>0, <1>2, TakeAges
  <2>1. UNCHANGED <<Flight, rHead, cur>> /\ \A q \in Producers : ~Has(q)
    BY <1>2, <1>a DEF Takes
  <2>2. \A i \in DOMAIN Flight :
          Age(Flight[i])' = IF Flight[i].ring = r THEN Age(Flight[i]) + 1 ELSE Age(Flight[i])
    <3>1. ASSUME NEW i \in DOMAIN Flight, NEW m \in Msg, m = Flight[i]
          PROVE  Age(Flight[i])' = Age(m)'
      BY <2>1, <3>1 DEF Age
    <3> QED
      BY <1>0, <2>0, <3>1 DEF Ordered
  <2>3. Freeing(s)' = Freeing(s)
    BY <2>1 DEF Freeing
  <2>4. CASE s # r
    <3>1. rHead'[s] = BackFrom(s, rSize[s] - Freeing(s))'
      BY <1>b, <2>0, <2>1, <2>3, <2>4 DEF BackFrom
    <3>2. ASSUME NEW a \in 0 .. rSize'[s] - 1
          PROVE  \E i \in DOMAIN Flight' : Flight'[i].ring = s /\ Age(Flight[i])' = a
      BY <1>b, <2>0, <2>1, <2>2, <2>4
    <3> QED
      BY <3>1, <3>2
  <2>5. CASE s = r
    <3>0. rSize[r] < RingItems
      BY <1>2 DEF Takes
    <3>1. rHead'[s] = BackFrom(s, rSize[s] - Freeing(s))'
      <4> DEFINE k == rSize[s] - Freeing(s)
      <4>1. k \in 0 .. RingItems - 1 /\ rSize'[s] - Freeing(s)' = k + 1
        BY <1>0, <1>c, <2>0, <2>3, <2>5, <3>0
      <4>2. rHead[s] = IF k <= rTail[s] THEN rTail[s] - k ELSE rTail[s] - k + RingItems
        BY <1>b DEF BackFrom
      <4>3. BackFrom(s, rSize[s] - Freeing(s))' =
              IF k + 1 <= rTail'[s] THEN rTail'[s] - (k + 1) ELSE rTail'[s] - (k + 1) + RingItems
        BY <4>1 DEF BackFrom
      <4> HIDE DEF k
      <4> QED
        BY <1>0, <1>c, <2>0, <2>1, <2>5, <4>1, <4>2, <4>3
    <3>2. ASSUME NEW a \in 0 .. rSize'[s] - 1
          PROVE  \/ \E i \in DOMAIN Flight' : Flight'[i].ring = s /\ Age(Flight[i])' = a
                 \/ \E q \in Producers : Has(q)' /\ msg'[q].ring = s /\ Age(msg[q])' = a
      <4>1. CASE a = 0
        <5>1. Has(p)' /\ msg'[p].ring = s
          BY <1>0, <2>0, <2>5 DEF Has
        <5> QED
          BY <2>0, <4>1, <5>1
      <4>2. CASE a > 0
        <5>1. a - 1 \in 0 .. rSize[s] - 1
          BY <1>c, <2>0, <2>5, <4>2
        <5>2. PICK i \in DOMAIN Flight : Flight[i].ring = s /\ Age(Flight[i]) = a - 1
          BY <1>b, <2>1, <5>1
        <5>3. Age(Flight[i])' = a /\ Flight'[i].ring = s /\ i \in DOMAIN Flight'
          BY <1>c, <2>0, <2>1, <2>2, <2>5, <5>2
        <5> QED
          BY <5>3
      <4> QED
        BY <1>c, <2>0, <2>5, <4>1, <4>2
    <3> QED
      BY <3>1, <3>2
  <2> QED
    BY <2>4, <2>5
<1>3. ASSUME NEW p \in Producers, Sends(p)
      PROVE  /\ rHead'[s] = BackFrom(s, rSize[s] - Freeing(s))'
             /\ \A a \in 0 .. rSize'[s] - 1 :
                  \/ \E i \in DOMAIN Flight' : Flight'[i].ring = s /\ Age(Flight[i])' = a
                  \/ \E q \in Producers : Has(q)' /\ msg'[q].ring = s /\ Age(msg[q])' = a
  <2> DEFINE n == Len(Flight)
  <2>1. /\ DOMAIN Flight' = 1 .. n + 1 /\ n \in Nat /\ DOMAIN Flight = 1 .. n
        /\ \A i \in DOMAIN Flight : Flight'[i] = Flight[i]
        /\ Flight'[n + 1] = msg[p]
    BY <1>0, <1>3, SendFlight
  <2>2. UNCHANGED <<rHead, rTail, rSize, cur>> /\ Live(p)
    BY <1>3 DEF Sends, ringVars
  <2>3. \A q \in Producers : Has(q) => q = p
    BY <1>0, <1>a, <2>2 DEF Ordered
  <2> HIDE DEF n
  <2>4. /\ n + 1 \in DOMAIN Flight'
        /\ \A i \in DOMAIN Flight : i \in DOMAIN Flight'
    BY <2>1
  <2>5. rHead'[s] = BackFrom(s, rSize[s] - Freeing(s))'
    BY <1>b, <2>2 DEF BackFrom, Freeing
  <2>6. \A i \in DOMAIN Flight : Age(Flight[i])' = Age(Flight[i])
    BY <2>1, <2>2 DEF Age
  <2>7. ASSUME NEW i, i = n + 1 PROVE Age(Flight[i])' = Age(msg[p])
    BY <2>1, <2>2, <2>7 DEF Age
  <2>8. ASSUME NEW a \in 0 .. rSize'[s] - 1
        PROVE  \E i \in DOMAIN Flight' : Flight'[i].ring = s /\ Age(Flight[i])' = a
    <3>1. CASE \E i \in DOMAIN Flight : Flight[i].ring = s /\ Age(Flight[i]) = a
      BY <2>1, <2>4, <2>6, <3>1
    <3>2. CASE Has(p) /\ msg[p].ring = s /\ Age(msg[p]) = a
      BY <2>1, <2>4, <2>7, <3>2
    <3> QED
      BY <1>b, <2>2, <2>3, <3>1, <3>2
  <2> QED
    BY <2>5, <2>8
<1>4. CASE Starts
  <2> DEFINE m == Flight[1]
  <2>1. /\ m \in Msg /\ m.ring \in Rings /\ 1 \in DOMAIN Flight
        /\ Age(m) = rSize[m.ring] - 1 /\ rSize[m.ring] \in 1 .. RingItems
    BY <1>0, <1>4, <1>a, OldestFirst DEF Starts
  <2>2. /\ cur = NoMsg /\ cur' = m /\ UNCHANGED <<Flight, rTail, rSize, msg>>
        /\ rHead' = [rHead EXCEPT ![m.ring] = IF m.elt = @ THEN (@ + 1) % RingItems ELSE @]
    BY <1>4 DEF Starts
  <2>3. \A a \in 0 .. rSize'[s] - 1 :
          \/ \E i \in DOMAIN Flight' : Flight'[i].ring = s /\ Age(Flight[i])' = a
          \/ \E p \in Producers : Has(p)' /\ msg'[p].ring = s /\ Age(msg[p])' = a
    BY <1>b, <2>2 DEF Age, Has
  <2>4. m.elt = BackFrom(m.ring, Age(m) + 1)
    BY <1>0, <2>1, EltOfAge
  <2> HIDE DEF m
  <2>5. Freeing(s) = 0 /\ Freeing(s)' = IF s = m.ring THEN 1 ELSE 0
    BY <1>0, <2>1, <2>2 DEF Freeing
  <2>6. rHead'[s] = BackFrom(s, rSize[s] - Freeing(s))'
    <3>1. CASE s # m.ring
      <4>1. rHead'[s] = rHead[s] /\ rSize'[s] - Freeing(s)' = rSize[s] - Freeing(s)
        BY <1>0, <2>1, <2>2, <2>5, <3>1 DEF RingTypes
      <4> QED
        BY <1>b, <2>2, <4>1 DEF BackFrom
    <3>2. CASE s = m.ring
      <4> DEFINE k == rSize[s]
      <4>1. k \in 1 .. RingItems /\ Age(m) + 1 = k /\ k - Freeing(s) = k
            /\ rSize'[s] - Freeing(s)' = k - 1
        BY <1>0, <2>1, <2>2, <2>5, <3>2
      <4>2. /\ rHead[s] = IF k <= rTail[s] THEN rTail[s] - k ELSE rTail[s] - k + RingItems
            /\ m.elt = rHead[s]
        BY <1>b, <2>4, <3>2, <4>1 DEF BackFrom
      <4>3. rHead'[s] = (rHead[s] + 1) % RingItems
        BY <1>0, <2>1, <2>2, <3>2, <4>2 DEF RingTypes
      <4>4. BackFrom(s, rSize[s] - Freeing(s))' =
              IF k - 1 <= rTail[s] THEN rTail[s] - (k - 1) ELSE rTail[s] - (k - 1) + RingItems
        BY <2>2, <4>1 DEF BackFrom
      <4> HIDE DEF k
      <4>5. (rHead[s] + 1) % RingItems = IF rHead[s] + 1 < RingItems THEN rHead[s] + 1 ELSE 0
        <5>1. rHead[s] + 1 \in 0 .. 2 * RingItems - 1 /\ rHead[s] + 1 <= RingItems
          BY <1>c, Sizes
        <5> QED
          BY <5>1, Sizes, ModSmall
      <4> QED
        BY <1>0, <1>c, <4>1, <4>2, <4>3, <4>4, <4>5
    <3> QED
      BY <3>1, <3>2
  <2> QED
    BY <2>3, <2>6
<1>5. CASE Frees
  <2>1. /\ DOMAIN Flight = 1 .. Len(Flight) /\ Len(Flight) \in Nat /\ Len(Flight) > 0
        /\ DOMAIN Flight' = 1 .. Len(Flight) - 1
        /\ \A i \in DOMAIN Flight' : i + 1 \in DOMAIN Flight /\ Flight'[i] = Flight[i + 1]
    BY <1>0, <1>5, FreeFlight
  <2>2. /\ UNCHANGED <<rHead, rTail, msg>> /\ Flight[1] = cur /\ cur # NoMsg /\ cur' = NoMsg
        /\ cur.ring \in Rings /\ Age(cur) = rSize[cur.ring] - 1
        /\ rSize[cur.ring] \in 1 .. RingItems
        /\ \A r \in Rings : rSize'[r] = IF r = cur.ring THEN rSize[r] - 1 ELSE rSize[r]
    BY <1>0, <1>5, <1>a, <2>1, OldestFirst DEF Frees, RingTypes
  <2>3. rSize'[s] - Freeing(s)' = rSize[s] - Freeing(s)
    BY <1>0, <1>c, <2>2 DEF Freeing
  <2>4. rHead'[s] = BackFrom(s, rSize[s] - Freeing(s))'
    BY <1>b, <2>2, <2>3 DEF BackFrom
  <2>5. ASSUME NEW a \in 0 .. rSize'[s] - 1
        PROVE  \/ \E i \in DOMAIN Flight' : Flight'[i].ring = s /\ Age(Flight[i])' = a
               \/ \E p \in Producers : Has(p)' /\ msg'[p].ring = s /\ Age(msg[p])' = a
    <3>1. a \in 0 .. rSize[s] - 1 /\ (s = cur.ring => a # Age(cur))
      BY <1>0, <1>c, <2>2
    <3>2. CASE \E i \in DOMAIN Flight : Flight[i].ring = s /\ Age(Flight[i]) = a
      <4>1. PICK i \in DOMAIN Flight : Flight[i].ring = s /\ Age(Flight[i]) = a
        BY <3>2
      <4>2. i # 1
        BY <2>2, <3>1, <4>1
      <4> DEFINE j == i - 1
      <4>3. j \in DOMAIN Flight' /\ j + 1 = i
        BY <2>1, <4>2
      <4> HIDE DEF j
      <4>4. Flight'[j] = Flight[i]
        BY <2>1, <4>3
      <4>5. Age(Flight[j])' = Age(Flight[i])
        BY <2>2, <4>4 DEF Age
      <4> QED
        BY <4>1, <4>3, <4>4, <4>5
    <3>3. CASE \E p \in Producers : Has(p) /\ msg[p].ring = s /\ Age(msg[p]) = a
      BY <2>2, <3>3 DEF Has, Age
    <3> QED
      BY <1>b, <3>1, <3>2, <3>3
  <2> QED
    BY <2>4, <2>5
<1> QED
  BY <1>1, <1>2, <1>3, <1>4, <1>5 DEF Moves


-----------------------------------------------------------------------------
(* What the elements hold.                                                 *)

\* The content c is one that its producer has put into the queue.
WasSent(c) == \E p \in Producers : \E n \in 1 .. sent[p] : c = <<p, n>>

\* Contents, with WasSent.
LEMMA ContentsDef ==
  Contents <=>
    /\ \A i \in DOMAIN Flight : WasSent(ContentOf(Flight[i]))
    /\ \A i \in DOMAIN received : WasSent(received[i])
    /\ \A p \in Producers : Live(p) => ContentOf(msg[p]) = <<p, sent[p] + 1>>
  BY DEF Contents, WasSent

\* Every step keeps the contents of what is on its way, and what was received
\* was sent.
LEMMA ContentsStep ==
  ASSUME IInv, Moves, \A p \in Producers : pc[p] = "dead" => pc'[p] = "dead"
  PROVE  Contents'
<1>0. QueueTypes /\ RingTypes /\ CallTypes /\ Ordered /\ NoMsg \notin Msg
  BY Names DEF IInv
<1>a. /\ \A i \in DOMAIN Flight : WasSent(ContentOf(Flight[i]))
      /\ \A i \in DOMAIN received : WasSent(received[i])
      /\ \A p \in Producers : Live(p) => ContentOf(msg[p]) = <<p, sent[p] + 1>>
  BY ContentsDef DEF IInv
<1> SUFFICES /\ \A i \in DOMAIN Flight' : WasSent(ContentOf(Flight[i]))'
             /\ \A i \in DOMAIN received' : WasSent(received[i])'
             /\ \A p \in Producers : Live(p)' => ContentOf(msg[p])' = <<p, sent'[p] + 1>>
  BY DEF Contents, WasSent
<1>1. CASE Still
  <2>1. UNCHANGED <<Flight, data, msg, sent, received>>
    BY <1>1 DEF Still, ringVars
  <2>2. \A p \in Producers : Live(p)' => Live(p)
    BY <2>1 DEF Live, Has
  <2> QED
    BY <1>a, <2>1, <2>2 DEF WasSent, ContentOf
<1>2. ASSUME NEW p \in Producers, NEW r \in Rings, Takes(p, r)
      PROVE  /\ \A i \in DOMAIN Flight' : WasSent(ContentOf(Flight[i]))'
             /\ \A i \in DOMAIN received' : WasSent(received[i])'
             /\ \A q \in Producers : Live(q)' => ContentOf(msg[q])' = <<q, sent'[q] + 1>>
  <2>0. /\ \A m \in Msg : Age(m) < rSize[m.ring] =>
             /\ m.ring = r => Age(m)' = Age(m) + 1 /\ m.elt # rTail[r]
             /\ m.ring # r => Age(m)' = Age(m)
        /\ msg'[p] = [ring |-> r, elt |-> rTail[r]]
    BY <1>0, <1>2, TakeAges
  <2>1. /\ UNCHANGED <<Flight, sent, received>> /\ \A q \in Producers : ~Live(q)
        /\ data' = [data EXCEPT ![r][rTail[r]] = <<p, sent[p] + 1>>]
        /\ \A q \in Producers \ {p} : msg'[q] = msg[q]
    BY <1>0, <1>2 DEF Takes, TakeElement, CallTypes
  <2>2. /\ rTail[r] \in Elt /\ data'[r][rTail[r]] = <<p, sent[p] + 1>>
        /\ \A q \in Rings : \A e \in Elt : ~(q = r /\ e = rTail[r]) => data'[q][e] = data[q][e]
    BY <1>0, <2>1 DEF RingTypes
  <2>3. \A i \in DOMAIN Flight : ContentOf(Flight[i])' = ContentOf(Flight[i])
    <3>1. ASSUME NEW i \in DOMAIN Flight, NEW m \in Msg, m = Flight[i]
          PROVE  ContentOf(Flight[i])' = ContentOf(Flight[i])
      <4>1. m.ring \in Rings /\ m.elt \in Elt /\ (m.ring = r => m.elt # rTail[r])
        BY <1>0, <2>0, <3>1 DEF Ordered, Msg, Elt
      <4> QED
        BY <2>1, <2>2, <3>1, <4>1 DEF ContentOf
    <3> QED
      BY <1>0, <3>1 DEF Ordered
  <2>4. \A q \in Producers : q # p => ~Live(q)'
    BY <2>1 DEF Live, Has
  <2>5. ContentOf(msg[p])' = <<p, sent'[p] + 1>>
    BY <2>0, <2>1, <2>2 DEF ContentOf
  <2> QED
    BY <1>a, <2>1, <2>3, <2>4, <2>5 DEF WasSent
<1>3. ASSUME NEW p \in Producers, Sends(p)
      PROVE  /\ \A i \in DOMAIN Flight' : WasSent(ContentOf(Flight[i]))'
             /\ \A i \in DOMAIN received' : WasSent(received[i])'
             /\ \A q \in Producers : Live(q)' => ContentOf(msg[q])' = <<q, sent'[q] + 1>>
  <2> DEFINE n == Len(Flight)
  <2>1. /\ DOMAIN Flight' = 1 .. n + 1 /\ n \in Nat /\ DOMAIN Flight = 1 .. n
        /\ \A i \in DOMAIN Flight : Flight'[i] = Flight[i]
        /\ Flight'[n + 1] = msg[p]
    BY <1>0, <1>3, SendFlight
  <2>2. /\ UNCHANGED <<data, received>> /\ Live(p)
        /\ sent' = [sent EXCEPT ![p] = @ + 1] /\ msg' = [msg EXCEPT ![p] = NoMsg]
    BY <1>3 DEF Sends, ringVars
  <2>3. \A q \in Producers : sent[q] \in Nat
    BY <1>0, Sizes DEF CallTypes
  <2>4. /\ sent'[p] = sent[p] + 1
        /\ \A q \in Producers : 1 .. sent[q] \subseteq 1 .. sent'[q]
    BY <1>0, <2>2, <2>3 DEF CallTypes
  <2>5. ASSUME NEW c, WasSent(c) PROVE \E q \in Producers : \E k \in 1 .. sent'[q] : c = <<q, k>>
    BY <2>4, <2>5 DEF WasSent
  <2>6. sent[p] + 1 \in 1 .. sent'[p]
    BY <2>3, <2>4
  <2>7. \A q \in Producers : ~Live(q)'
    BY <1>0, <2>2 DEF Live, Has, CallTypes, Ordered
  <2> HIDE DEF n
  <2>8. ASSUME NEW i \in DOMAIN Flight' PROVE WasSent(ContentOf(Flight[i]))'
    <3>1. CASE i \in DOMAIN Flight
      <4>1. ContentOf(Flight[i])' = ContentOf(Flight[i])
        BY <2>1, <2>2, <3>1 DEF ContentOf
      <4> QED
        BY <1>a, <2>5, <3>1, <4>1 DEF WasSent
    <3>2. CASE i = n + 1
      <4>1. ContentOf(Flight[i])' = <<p, sent[p] + 1>>
        BY <1>a, <2>1, <2>2, <3>2 DEF ContentOf
      <4> QED
        BY <2>6, <4>1 DEF WasSent
    <3> QED
      BY <2>1, <3>1, <3>2
  <2>9. \A i \in DOMAIN received' : WasSent(received[i])'
    BY <1>a, <2>2, <2>5 DEF WasSent
  <2> QED
    BY <2>7, <2>8, <2>9
<1>4. CASE Starts
  <2>1. UNCHANGED <<Flight, data, msg, sent>> /\ 1 \in DOMAIN Flight
    BY <1>0, <1>4, FlightType DEF Starts
  <2>2. \A p \in Producers : Live(p)' => Live(p)
    BY <2>1 DEF Live, Has
  <2> DEFINE c == ContentOf(Flight[1])
             n == Len(received)
  <2>3. received' = Append(received, c) /\ WasSent(c)
    BY <1>a, <1>4, <2>1 DEF Starts
  <2>4. c \in Content \union {NoContent}
    <3>1. Flight[1].ring \in Rings /\ Flight[1].elt \in Elt
      BY <1>0, <2>1 DEF Ordered, Msg, Elt
    <3> QED
      BY <1>0, <3>1 DEF ContentOf, RingTypes
  <2> HIDE DEF c
  <2>5. /\ DOMAIN received' = 1 .. n + 1 /\ n \in Nat /\ DOMAIN received = 1 .. n
        /\ \A i \in 1 .. n : received'[i] = received[i]
        /\ received'[n + 1] = c
    BY <1>0, <2>3, <2>4, AppendProperties, LenProperties DEF CallTypes
  <2>6. \A i \in DOMAIN received' : WasSent(received[i])'
    <3>1. ASSUME NEW i \in DOMAIN received', NEW d, d = received'[i] PROVE WasSent(d)
      BY <1>a, <2>3, <2>5, <3>1
    <3> QED
      BY <2>1, <3>1 DEF WasSent
  <2> QED
    BY <1>a, <2>1, <2>2, <2>6 DEF WasSent, ContentOf
<1>5. CASE Frees
  <2>1. /\ \A i \in DOMAIN Flight' : i + 1 \in DOMAIN Flight /\ Flight'[i] = Flight[i + 1]
    BY <1>0, <1>5, FreeFlight
  <2>2. UNCHANGED <<data, msg, sent, received>>
    BY <1>5 DEF Frees
  <2>3. \A p \in Producers : Live(p)' => Live(p)
    BY <2>2 DEF Live, Has
  <2>4. ASSUME NEW i \in DOMAIN Flight' PROVE WasSent(ContentOf(Flight[i]))'
    <3>1. i + 1 \in DOMAIN Flight /\ ContentOf(Flight[i])' = ContentOf(Flight[i + 1])
      BY <2>1, <2>2 DEF ContentOf
    <3> QED
      BY <1>a, <2>2, <3>1 DEF WasSent
  <2> QED
    BY <1>a, <2>2, <2>3, <2>4 DEF WasSent, ContentOf
<1> QED
  BY <1>1, <1>2, <1>3, <1>4, <1>5 DEF Moves

-----------------------------------------------------------------------------
(* The consumer and its signal.                                            *)

\* Every step keeps the consumer from sleeping on a message.
LEMMA WakingStep == IInv /\ Sound => Waking'
<1> SUFFICES ASSUME IInv, Sound PROVE Waking'
  OBVIOUS
<1> USE DEF Waking, SubExpectsMsg, SleepsOnEmpty, AllAlive, IsEmpty, Batch, Cond,
            Types, Goto, consPc, ConsGoto, Procs, Acquire, Reacquire, Release, TimedReturn, lockVars, queueVars, ringVars, prodVars, consVars
<1>0. /\ Types /\ Locking /\ Waking /\ Consumer \notin Producers /\ mode' = mode
      /\ qSize \in Nat /\ Dead \notin Procs /\ Free \notin Procs
      /\ (back = "read" => Batch)
      /\ (Cond = "nowait" => consPc \notin {"lock", "test", "sleep", "asleep", "relock"})
      /\ Conds \subseteq {"nowait", "wait", "timedwait"}
  BY Names, QueueAssumption DEF IInv, Sound, QueueTypes, Consuming
<1>1. ASSUME NEW p \in Producers, Call(p) PROVE Waking'
  BY <1>0, <1>1 DEF Call
<1>2. ASSUME NEW p \in Producers, ProdLock(p) PROVE Waking'
  BY <1>0, <1>2 DEF ProdLock, CanLock
<1>3. ASSUME NEW p \in Producers, TryLockFails(p) PROVE Waking'
  BY <1>0, <1>3 DEF TryLockFails, CanLock
<1>4. ASSUME NEW p \in Producers, Test(p) PROVE Waking'
  BY <1>0, <1>4 DEF Test, AfterFull, AfterSpace
<1>5. ASSUME NEW p \in Producers, Sleep(p) PROVE Waking'
  BY <1>0, <1>5 DEF Sleep
<1>6. ASSUME NEW p \in Producers, Alloc(p) PROVE Waking'
  BY <1>0, <1>6 DEF Alloc, TakeElement, RingUp, AllocKeepsLock
<1>7. ASSUME NEW p \in Producers, AllocMsg(p) PROVE Waking'
  BY <1>0, <1>7 DEF AllocMsg, MayAlloc, TakeElement, RingUp
<1>8. ASSUME NEW p \in Producers, Write(p) PROVE Waking'
  BY <1>0, <1>8 DEF Write
<1>9. ASSUME NEW p \in Producers, Publish(p) PROVE Waking'
  <2>1. qSize' = qSize + 1
    BY <1>9, PublishCounts DEF IInv
  <2> QED
    BY <1>0, <1>9, <2>1 DEF Publish, WasEmpty, Locking, Inside
<1>10. ASSUME NEW p \in Producers, ProdSignal(p) PROVE Waking'
  BY <1>0, <1>10 DEF ProdSignal, BroadcastAndGoto, Locking, Inside
<1>11. ASSUME NEW p \in Producers, Unlock(p) PROVE Waking'
  BY <1>0, <1>11 DEF Unlock
<1>12. ASSUME NEW p \in Producers, Crash(p) PROVE Waking'
  BY <1>0, <1>12 DEF Crash
<1>13. CASE Sub
  BY <1>0, <1>13 DEF Sub
<1>14. CASE WaitLock
  BY <1>0, <1>14 DEF WaitLock, CanLock, Locking
<1>15. CASE WaitTest
  BY <1>0, <1>15 DEF WaitTest, MustSleep
<1>16. CASE ConsRelock
  BY <1>0, <1>16 DEF ConsRelock, CanLock, TestsAgain
<1>17. CASE TimeOut
  BY <1>0, <1>17 DEF TimeOut, CanLock
<1>18. CASE Read
  BY <1>0, <1>18 DEF Read
<1>19. CASE BatchSize
  BY <1>0, <1>19 DEF BatchSize
<1>20. CASE Decrement
  BY <1>0, <1>20 DEF Decrement, AfterSub, Taken
<1>21. CASE SignalLock
  BY <1>0, <1>21 DEF SignalLock, CanLock, Locking
<1>22. CASE ConsSignal
  BY <1>0, <1>22 DEF ConsSignal, BroadcastAndGoto
<1>23. CASE Process
  BY <1>0, <1>23 DEF Process
<1>24. CASE FreeTest
  BY <1>0, <1>24 DEF FreeTest
<1>25. CASE FreeDecrement
  BY <1>0, <1>25 DEF FreeDecrement
<1>26. CASE ProcessDone
  BY <1>0, <1>26 DEF ProcessDone
<1>27. CASE Sleep(Consumer)
  BY <1>0, <1>27 DEF Sleep
<1>28. ASSUME NEW x \in Procs, WakeUp(x) PROVE Waking'
  BY <1>0, <1>28 DEF WakeUp
<1> QED
  BY <1>1, <1>2, <1>3, <1>4, <1>5, <1>6, <1>7, <1>8, <1>9, <1>10, <1>11,
     <1>12, <1>13, <1>14, <1>15, <1>16, <1>17, <1>18, <1>19, <1>20, <1>21,
     <1>22, <1>23, <1>24, <1>25, <1>26, <1>27, <1>28
     DEF Sound, Works, ProducerStep, ConsumerStep

-----------------------------------------------------------------------------
(* The invariant.                                                          *)

\* The queue starts empty, and nothing is on its way.
LEMMA InitInv == Init => IInv
<1> SUFFICES ASSUME Init PROVE IInv
  OBVIOUS
<1>1. Types
  BY Names DEF Init, Types, Procs, ProdStates, ConsStates, consPc
<1>2. QueueTypes
  <2>1. << >> \in Seq(Msg)
    OBVIOUS
  <2> QED
    BY <2>1, Sizes DEF Init, QueueTypes, Slot
<1>3. RingTypes /\ CallTypes
  <2>1. received \in Seq(Content \union {NoContent})
    BY DEF Init
  <2> QED
    BY <2>1, Sizes DEF Init, RingTypes, CallTypes, Elt
<1>4. Locking /\ Waking
  BY Names DEF Init, Locking, Waking, Procs, Inside, AllAlive, consPc, SubExpectsMsg,
               SleepsOnEmpty
<1>5. Calls
  BY Sizes, Names DEF Init, Calls, Procs, Has
<1>6. Len(Flight) = 0 /\ DOMAIN Flight = {}
  <2>1. Waiting \in Seq(Ref) /\ Len(Waiting) = 0 /\ Flight = got \o Waiting
    BY <1>2, WaitingType, FlightType DEF Init
  <2>2. got = << >>
    BY DEF Init
  <2> HIDE DEF Flight, Waiting
  <2>3. Flight = Waiting
    BY <2>1, <2>2, ConcatEmptySeq
  <2> QED
    BY <1>2, <2>1, <2>3, FlightType
<1>7. Consuming
  <2>1. qTail + QItems - qSize + Len(batch) = QItems /\ Len(batch) = 0 /\ DOMAIN batch = {}
    BY Sizes DEF Init
  <2>2. QItems % QItems = 0
    <3>1. QItems \in 0 .. 2 * QItems - 1
      BY Sizes
    <3> QED
      BY <3>1, Sizes, ModSmall
  <2> QED
    BY <2>1, <2>2, Names, Sizes DEF Init, Consuming, consPc, Procs
<1>8. Ordered /\ Contents
  <2>1. \A p \in Producers : ~Live(p)
    BY DEF Init, Live, Has
  <2>2. DOMAIN received = {}
    BY DEF Init
  <2> QED
    BY <1>6, <2>1, <2>2 DEF Ordered, Contents
<1>9. NoGaps
  BY Sizes DEF Init, NoGaps, BackFrom, Freeing
<1> QED
  BY <1>1, <1>2, <1>3, <1>4, <1>5, <1>7, <1>8, <1>9 DEF IInv

\* A step that changes nothing keeps the invariant.
LEMMA StutterInv == IInv /\ UNCHANGED vars => IInv'
<1> SUFFICES ASSUME IInv, UNCHANGED vars PROVE IInv'
  OBVIOUS
<1> USE DEF vars, lockVars, queueVars, ringVars, prodVars, consVars
<1>1. Types' /\ QueueTypes' /\ RingTypes' /\ CallTypes'
  BY DEF IInv, Types, QueueTypes, RingTypes, CallTypes, consPc
<1>2. Locking' /\ Waking'
  BY DEF IInv, Locking, Waking, AllAlive, consPc, SubExpectsMsg, SleepsOnEmpty, IsEmpty,
         Batch, Cond
<1>3. Calls'
  BY DEF IInv, Calls, Has, UseAdd
<1>4. UNCHANGED <<Waiting, Flight>>
  BY DEF Waiting, QueueAt, Flight
<1>5. Consuming'
  BY <1>4 DEF IInv, Consuming, consPc, Batch, Cond
<1>6. Moves /\ \A p \in Producers : pc[p] = "dead" => pc'[p] = "dead"
  BY <1>4 DEF Moves, Still
<1>7. Ordered'
  BY <1>6, OrderedStep
<1>8. NoGaps' /\ Contents'
  BY <1>6, <1>7, NoGapsStep, ContentsStep
<1> QED
  BY <1>1, <1>2, <1>3, <1>5, <1>7, <1>8 DEF IInv

\* Steps that do not damage the queue keep its invariant.
LEMMA SoundInv == IInv /\ Goes /\ Works => IInv'
<1>1. ASSUME IInv, Goes, Works PROVE IInv'
  <2>0. Sound /\ Types /\ Next
    BY <1>1 DEF Sound, Goes, Next, IInv
  <2>1. Types' /\ Locking' /\ (RingTypes /\ CallTypes)' /\ QueueTypes' /\ Calls' /\ Consuming'
    BY <1>1, <2>0, TypesStep, LockingStep, RingTypesStep, QueueTypesStep, CallsStep, ConsumingStep
  <2>2. Moves /\ \A p \in Producers : pc[p] = "dead" => pc'[p] = "dead"
    BY <1>1, <2>0, MovesStep, DeadStaysDead
  <2>3. Ordered'
    BY <1>1, <2>2, OrderedStep
  <2>4. NoGaps' /\ Contents'
    BY <1>1, <2>2, <2>3, NoGapsStep, ContentsStep
  <2>5. Waking'
    BY <1>1, <2>0, WakingStep
  <2> QED
    BY <2>1, <2>3, <2>4, <2>5 DEF IInv
<1> QED
  BY <1>1

\* Steps other than the two that damage the queue leave it as damaged as it was.
LEMMA WorksSpare == Works => damaged' = damaged
<1> USE DEF lockVars, queueVars, ringVars, prodVars, consVars
<1>1. ASSUME NEW p \in Producers, ProducerStep(p) PROVE damaged' = damaged
  BY <1>1 DEF ProducerStep, ProdLock, TryLockFails, Test, Sleep, Alloc, Write, Publish,
              ProdSignal, Unlock
<1>2. ASSUME NEW p \in Producers, Call(p) \/ AllocMsg(p) \/ Crash(p) PROVE damaged' = damaged
  BY <1>2 DEF Call, AllocMsg, Crash
<1>3. CASE ConsumerStep
  BY <1>3 DEF ConsumerStep, Sub, WaitLock, WaitTest, Sleep, ConsRelock, TimeOut, Read, BatchSize,
              Decrement, SignalLock, ConsSignal, Process, FreeTest, FreeDecrement, ProcessDone
<1>4. ASSUME NEW x \in Procs, WakeUp(x) PROVE damaged' = damaged
  BY <1>4 DEF WakeUp
<1> QED
  BY <1>1, <1>2, <1>3, <1>4 DEF Works

\* Nobody dequeues from an empty queue, or dies halfway, unless a producer dies
\* or the consumer uses the timed wait.
LEMMA DamageSpared ==
  ASSUME Types, IInv, Damages PROVE damaged' = TRUE /\ (AllAlive' => Cond = "timedwait")
<1>1. CASE ReadEmpty
  <2>1. damaged' = TRUE /\ consPc = "read" /\ ~Batch /\ IsEmpty
    BY <1>1 DEF ReadEmpty
  <2>2. \A p \in Producers : pc'[p] = pc[p]
    BY <1>1, Names DEF ReadEmpty, ConsGoto, Goto, Types, Procs
  <2>3. AllAlive' => AllAlive
    BY <2>2 DEF AllAlive
  <2>4. AllAlive => Cond = "timedwait"
    BY <2>1 DEF IInv, Waking, SubExpectsMsg
  <2> QED
    BY <2>1, <2>3, <2>4
<1>2. ASSUME NEW p \in Producers, CrashInside(p)
      PROVE  damaged' = TRUE /\ ~AllAlive'
  BY <1>2 DEF CrashInside, Goto, Types, Procs, AllAlive
<1> QED
  BY <1>1, <1>2 DEF Damages

\* The invariant is inductive.
LEMMA StepInv == Inv /\ [Next]_vars => Inv'
<1>1. ASSUME Inv, Next PROVE Inv'
  <2>0. Types' /\ (Works \/ Damages) /\ Goes /\ (AllAlive' => AllAlive) /\ Cond' = Cond
    BY <1>1, TypesStep, DeadStaysDead DEF Inv, Next, Goes, AllAlive, Cond
  <2>1. CASE Works
    <3>1. damaged' = damaged
      BY <2>1, WorksSpare
    <3>2. ~damaged' => IInv'
      BY <1>1, <2>0, <2>1, <3>1, SoundInv DEF Inv
    <3> QED
      BY <1>1, <2>0, <3>1, <3>2 DEF Inv, Spared
  <2>2. CASE Damages
    <3>1. damaged' = TRUE
      BY <2>2 DEF Damages, ReadEmpty, CrashInside
    <3>2. AllAlive' => Cond = "timedwait"
      <4>1. CASE damaged
        BY <1>1, <2>0, <4>1 DEF Inv, Spared
      <4>2. CASE ~damaged
        BY <1>1, <2>2, <4>2, DamageSpared DEF Inv
      <4> QED
        BY <1>1, <4>1, <4>2 DEF Inv
    <3> QED
      BY <2>0, <3>1, <3>2 DEF Inv, Spared
  <2> QED
    BY <2>0, <2>1, <2>2
<1>2. ASSUME Inv, UNCHANGED vars PROVE Inv'
  <2>1. Types' /\ damaged' = damaged /\ (Spared => Spared')
    BY <1>2 DEF Inv, vars, lockVars, consVars, Types, consPc, Spared, AllAlive, Cond
  <2>2. ~damaged => IInv'
    BY <1>2, StutterInv DEF Inv
  <2> QED
    BY <1>2, <2>1, <2>2 DEF Inv
<1> QED
  BY <1>1, <1>2

\* The invariant holds for every number of producers and rings, every size of
\* the queue and of the rings, every mix of the entry points of
\* message_queue.c, spurious wake-ups and producers that die anywhere: the
\* queue is in order until it is damaged, and it takes a dead producer or the
\* timed wait to damage it.
THEOREM Invariance == Spec => []Inv
<1>1. Init => Inv
  BY InitInv DEF Init, Inv, IInv, Spared
<1> QED
  BY <1>1, StepInv, PTL DEF Spec

\* Until svm_msg_q_sub_raw has been called on an empty queue, or a producer has
\* died between the halves of an update, both kinds of cursize stay within the
\* sizes of their arrays and every index in its array.
THEOREM TypeCorrect == Spec => []TypeOK
<1>1. Inv => TypeOK
  BY Sizes, Names DEF Inv, IInv, Types, QueueTypes, RingTypes, TypeOK, Slot, Elt
<1> QED
  BY <1>1, Invariance, PTL

-----------------------------------------------------------------------------
(* The assertions of the code.                                             *)

\* The message a live producer holds passes svm_msq_q_msg_is_valid.
LEMMA HeldIsValid == IInv => AddAssert
<1> SUFFICES ASSUME IInv, NEW p \in Producers, msg[p] # NoMsg, pc[p] # "dead"
             PROVE  MsgIsValid(msg[p])
  BY DEF AddAssert
<1>0. RingTypes /\ CallTypes /\ Ordered /\ RingItems \in Nat /\ RingItems > 0
  BY Sizes DEF IInv
<1> DEFINE m == msg[p]
           t == rTail[m.ring]
           h == rHead[m.ring]
           e == m.elt
<1>1. m \in Msg /\ Age(m) = 0 /\ rSize[m.ring] > 0
  BY <1>0, LiveIsMsg DEF Live, Has, Ordered
<1>2. /\ t \in 0 .. RingItems - 1 /\ h \in 0 .. RingItems - 1 /\ e \in 0 .. RingItems - 1
      /\ m.ring \in Rings /\ rSize[m.ring] \in 0 .. RingItems
  BY <1>0, <1>1, AgeType DEF RingTypes, Elt
<1>3. e = IF t = 0 THEN RingItems - 1 ELSE t - 1
  BY <1>0, <1>1, <1>2 DEF Age
<1> HIDE DEF t, h, e
<1>4. (RingItems + e - h) % RingItems =
        IF RingItems + e - h < RingItems THEN RingItems + e - h ELSE e - h
  <2>1. RingItems + e - h \in 0 .. 2 * RingItems - 1
    BY <1>0, <1>2
  <2> QED
    BY <1>0, <1>2, <2>1, ModSmall
<1>5. (RingItems + t - h) % RingItems =
        IF RingItems + t - h < RingItems THEN RingItems + t - h ELSE t - h
  <2>1. RingItems + t - h \in 0 .. 2 * RingItems - 1
    BY <1>0, <1>2
  <2> QED
    BY <1>0, <1>2, <2>1, ModSmall
<1>6. (RingItems + e - h) % RingItems <
        (IF t = h THEN IF rSize[m.ring] = 0 THEN 0 ELSE RingItems
                  ELSE (RingItems + t - h) % RingItems)
  BY <1>0, <1>1, <1>2, <1>3, <1>4, <1>5
<1> QED
  BY <1>6 DEF MsgIsValid, t, h, e

\* The assertions of svm_msg_q_free_msg, svm_msg_q_sub_raw and svm_msg_q_add
\* hold.  In svm_msg_q_wait, and without waiting, nothing is dequeued from an
\* empty queue as long as no producer has died; a consumer that tests the size
\* itself never does so.  Until something has been: messages are freed in the
\* order of their ring while no producer has died, and the message a producer is
\* about to add is inside the used part of its ring.
THEOREM AssertsAreKept == Spec => []AssertsHold
<1>1. ASSUME IInv PROVE FreeInOrder
  <2> SUFFICES ASSUME AllAlive, consPc = "process", got # << >>
               PROVE  Head(got).elt = rHead[Head(got).ring]
    BY DEF FreeInOrder, FreeExpectsOrder
  <2>0. QueueTypes /\ RingTypes /\ CallTypes /\ Ordered /\ NoGaps /\ Consuming
    BY <1>1 DEF IInv
  <2>1. cur = NoMsg
    BY <2>0 DEF Consuming
  <2>2. Len(Flight) > 0 /\ Flight[1] = Head(got)
    BY <2>0, <2>1, FlightFirst
  <2> DEFINE m == Head(got)
  <2>3. m \in Msg /\ m.ring \in Rings /\ Age(m) = rSize[m.ring] - 1 /\ rSize[m.ring] \in Nat
    BY <2>0, <2>2, OldestFirst
  <2> HIDE DEF m
  <2>4. Age(m) + 1 = rSize[m.ring] /\ rSize[m.ring] - Freeing(m.ring) = rSize[m.ring]
    BY <2>1, <2>3 DEF Freeing
  <2>5. m.elt = BackFrom(m.ring, rSize[m.ring])
    BY <2>0, <2>3, <2>4, EltOfAge
  <2>6. rHead[m.ring] = BackFrom(m.ring, rSize[m.ring])
    BY <2>0, <2>3, <2>4 DEF NoGaps
  <2> QED
    BY <2>5, <2>6 DEF m
<1>2. Inv => SubAssert
  <2>1. IInv => (Batch \/ Cond = "nowait" => SubExpectsMsg)
    BY DEF IInv, Waking, SubExpectsMsg
  <2>2. IInv => (AllAlive /\ Cond # "timedwait" => SubExpectsMsg)
    BY DEF IInv, Waking
  <2> QED
    BY <2>1, <2>2 DEF Inv, Spared, SubAssert
<1>3. Inv => FreeInOrder /\ AddAssert
  BY <1>1, HeldIsValid DEF Inv, FreeInOrder, AddAssert
<1>4. Inv => AssertsHold
  BY <1>2, <1>3 DEF AssertsHold
<1> QED
  BY <1>4, Invariance, PTL

\* A consumer in svm_msg_q_wait is never left asleep on a message: while no
\* producer died, it sleeps on an empty queue or its signal is on the way.
THEOREM ConsumerIsWoken == Spec => []ConsumerNotForgotten
<1>1. Inv => ConsumerNotForgotten
  BY DEF Inv, Spared, IInv, Waking, ConsumerNotForgotten
<1> QED
  BY <1>1, Invariance, PTL


-----------------------------------------------------------------------------
(* The queue is a bounded FIFO channel.                                    *)

\* What the consumer has taken out and what waits is on its way.
LEMMA InFlight ==
  ASSUME QueueTypes
  PROVE  /\ \A i \in 1 .. qSize : \E j \in DOMAIN Flight : Flight[j] = Waiting[i]
         /\ \A i \in DOMAIN got : \E j \in DOMAIN Flight : Flight[j] = got[i]
<1>1. /\ got \in Seq(Ref) /\ Waiting \in Seq(Ref) /\ got \o Waiting \in Seq(Ref)
      /\ Len(got) \in Nat /\ Len(Waiting) = qSize /\ qSize \in Nat
      /\ DOMAIN got = 1 .. Len(got)
  BY FlightType, WaitingType, LenProperties
<1> DEFINE x == got \o Waiting
<1> HIDE DEF Waiting, Flight
<1>2. /\ Len(x) = Len(got) + qSize
      /\ \A i \in 1 .. Len(got) + qSize :
           x[i] = IF i <= Len(got) THEN got[i] ELSE Waiting[i - Len(got)]
  BY <1>1, ConcatProperties
<1>3. \A k \in 1 .. Len(x) : \E j \in DOMAIN Flight : Flight[j] = x[k]
  <2>1. CASE cur = NoMsg
    <3>1. Flight = x /\ DOMAIN Flight = 1 .. Len(Flight)
      BY <2>1, FlightType
    <3> QED
      BY <3>1
  <2>2. CASE cur # NoMsg
    <3> HIDE DEF x
    <3>1. Len(x) = Len(Flight) - 1 /\ \A k \in 1 .. Len(Flight) - 1 : x[k] = Flight[k + 1]
      BY <2>2, FlightFirst DEF x
    <3>2. DOMAIN Flight = 1 .. Len(Flight) /\ Len(Flight) \in Nat
      BY FlightType
    <3>3. \A k \in 1 .. Len(x) : k + 1 \in DOMAIN Flight /\ x[k] = Flight[k + 1]
      BY <3>1, <3>2
    <3> QED
      BY <3>3
  <2> QED
    BY <2>1, <2>2
<1> HIDE DEF x
<1>4. ASSUME NEW i \in 1 .. qSize PROVE \E j \in DOMAIN Flight : Flight[j] = Waiting[i]
  <2>1. /\ Len(got) + i \in 1 .. Len(x) /\ Len(got) + i \in 1 .. Len(got) + qSize
        /\ ~(Len(got) + i <= Len(got)) /\ (Len(got) + i) - Len(got) = i
    BY <1>1, <1>2
  <2>2. x[Len(got) + i] = Waiting[i]
    BY <1>2, <2>1
  <2> QED
    BY <1>3, <2>1, <2>2
<1>5. ASSUME NEW i \in DOMAIN got PROVE \E j \in DOMAIN Flight : Flight[j] = got[i]
  <2>1. i \in 1 .. Len(x) /\ i \in 1 .. Len(got) + qSize /\ i <= Len(got)
    BY <1>1, <1>2
  <2>2. x[i] = got[i]
    BY <1>2, <2>1
  <2> QED
    BY <1>3, <2>1, <2>2
<1> QED
  BY <1>4, <1>5

\* The abstract channel: what waits, what the consumer holds and what it has
\* read, each of it sent.
Channel ==
  /\ Queued \in Seq(Content) /\ Len(Queued) = qSize /\ qSize \in 0 .. QItems
  /\ Held \in Seq(Content) /\ Len(Held) = Len(got) /\ Len(got) \in Nat
  /\ DOMAIN got = 1 .. Len(got) /\ received \in Seq(Content)
  /\ \A i \in 1 .. qSize : Queued[i] = ContentOf(Waiting[i]) /\ WasSent(Queued[i])
  /\ \A i \in 1 .. Len(got) : Held[i] = ContentOf(got[i]) /\ WasSent(Held[i])
  /\ \A i \in DOMAIN received : WasSent(received[i])

\* The abstract channel is well formed in every state of the invariant.
LEMMA ChannelType == IInv => Channel
<1> SUFFICES ASSUME IInv PROVE Channel
  OBVIOUS
<1>0. QueueTypes /\ CallTypes /\ Contents
  BY DEF IInv
<1>1. /\ Len(got) \in Nat /\ DOMAIN got = 1 .. Len(got) /\ qSize \in 0 .. QItems /\ qSize \in Nat
  BY <1>0, LenProperties, Sizes DEF QueueTypes
<1>2. /\ \A i \in DOMAIN Flight : WasSent(ContentOf(Flight[i]))
      /\ \A i \in DOMAIN received : WasSent(received[i])
  BY <1>0, ContentsDef
<1>3. \A c : WasSent(c) => c \in Content
  <2>1. ASSUME NEW p \in Producers, NEW n \in 1 .. sent[p] PROVE <<p, n>> \in Content
    <3>1. n \in 1 .. MaxMsgs
      BY <1>0, Sizes DEF CallTypes
    <3> QED
      BY <3>1 DEF Content
  <2> QED
    BY <2>1 DEF WasSent
<1>4. \A i \in 1 .. qSize : WasSent(ContentOf(Waiting[i]))
  BY <1>0, <1>2, InFlight
<1>5. \A i \in 1 .. Len(got) : WasSent(ContentOf(got[i]))
  BY <1>0, <1>1, <1>2, InFlight
<1>6. Queued = [i \in 1 .. qSize |-> ContentOf(Waiting[i])]
  BY DEF Queued, Waiting
<1>7. Held = [i \in 1 .. Len(got) |-> ContentOf(got[i])]
  BY <1>1 DEF Held
<1>8. Queued \in Seq(Content) /\ Len(Queued) = qSize
  BY <1>1, <1>3, <1>4, <1>6
<1>9. Held \in Seq(Content) /\ Len(Held) = Len(got)
  BY <1>1, <1>3, <1>5, <1>7
<1>10. received \in Seq(Content)
  <2>1. Len(received) \in Nat /\ DOMAIN received = 1 .. Len(received)
        /\ received = [i \in 1 .. Len(received) |-> received[i]]
    BY <1>0, LenProperties DEF CallTypes
  <2>2. \A i \in 1 .. Len(received) : received[i] \in Content
    BY <1>2, <1>3, <2>1
  <2> QED
    BY <2>1, <2>2
<1> QED
  BY <1>1, <1>2, <1>4, <1>5, <1>6, <1>7, <1>8, <1>9, <1>10 DEF Channel

\* No step changes what an element on its way holds.
LEMMA ContentKept ==
  ASSUME IInv, Moves
  PROVE  \A m \in Msg : (\E j \in DOMAIN Flight : Flight[j] = m) =>
                        data'[m.ring][m.elt] = data[m.ring][m.elt]
<1>0. QueueTypes /\ RingTypes /\ CallTypes /\ Ordered
  BY DEF IInv
<1>1. ASSUME NEW p \in Producers, NEW r \in Rings, Takes(p, r),
             NEW m \in Msg, NEW j \in DOMAIN Flight, Flight[j] = m
      PROVE  data'[m.ring][m.elt] = data[m.ring][m.elt]
  <2>1. m.ring \in Rings /\ m.elt \in Elt /\ (m.ring = r => m.elt # rTail[r])
    <3>1. Age(m) < rSize[m.ring]
      BY <1>0, <1>1 DEF Ordered
    <3> QED
      BY <1>0, <1>1, <3>1, TakeAges DEF Msg, Elt
  <2>2. data' = [data EXCEPT ![r][rTail[r]] = <<p, sent[p] + 1>>] /\ rTail[r] \in Elt
    BY <1>0, <1>1 DEF Takes, TakeElement, RingTypes
  <2> QED
    BY <1>0, <2>1, <2>2 DEF RingTypes
<1>2. ASSUME Still \/ Starts \/ Frees \/ \E p \in Producers : Sends(p) PROVE data' = data
  BY <1>2 DEF Still, Starts, Frees, Sends, ringVars
<1> QED
  BY <1>1, <1>2 DEF Moves


\* ... in particular what waits and what the consumer has taken out.
LEMMA HeldContentKept ==
  ASSUME IInv, Moves, Channel
  PROVE  /\ \A i \in 1 .. qSize : data'[Waiting[i].ring][Waiting[i].elt] = Queued[i]
         /\ \A i \in 1 .. Len(got) : data'[got[i].ring][got[i].elt] = Held[i]
<1>0. QueueTypes /\ Ordered
  BY DEF IInv
<1>1. \A m \in Msg : (\E j \in DOMAIN Flight : Flight[j] = m) =>
                     data'[m.ring][m.elt] = ContentOf(m)
  BY ContentKept DEF ContentOf
<1>2. \A i \in 1 .. qSize :
        Waiting[i] \in Msg /\ \E j \in DOMAIN Flight : Flight[j] = Waiting[i]
  BY <1>0, InFlight, WaitingIsMsg
<1>3. \A i \in 1 .. Len(got) :
        got[i] \in Msg /\ \E j \in DOMAIN Flight : Flight[j] = got[i]
  BY <1>0, InFlight DEF Channel, Ordered
<1>4. \A i \in 1 .. qSize : data'[Waiting[i].ring][Waiting[i].elt] = ContentOf(Waiting[i])
  BY <1>1, <1>2
<1>5. \A i \in 1 .. Len(got) : data'[got[i].ring][got[i].elt] = ContentOf(got[i])
  BY <1>1, <1>3
<1> QED
  BY <1>4, <1>5 DEF Channel

\* A step that moves no message leaves the channel as it is.
LEMMA QueuedKept ==
  ASSUME IInv, Moves, Channel, Channel', UNCHANGED <<Waiting, qSize>>
  PROVE  Queued' = Queued
<1>1. Queued \in Seq(Content) /\ Len(Queued) = qSize
  BY DEF Channel
<1>2. Queued' \in Seq(Content) /\ Len(Queued') = qSize
  BY DEF Channel
<1>3. \A i \in 1 .. qSize : Queued'[i] = data'[Waiting[i].ring][Waiting[i].elt]
  BY DEF Channel, ContentOf
<1>4. \A i \in 1 .. qSize : Queued'[i] = Queued[i]
  BY <1>3, HeldContentKept
<1> QED
  BY <1>1, <1>2, <1>4, SeqEqual

\* ... nor what the consumer holds.
LEMMA HeldKept ==
  ASSUME IInv, Moves, Channel, Channel', UNCHANGED got
  PROVE  Held' = Held
<1>1. Held \in Seq(Content) /\ Len(Held) = Len(got)
  BY DEF Channel
<1>2. Held' \in Seq(Content) /\ Len(Held') = Len(got)
  BY DEF Channel
<1>3. \A i \in 1 .. Len(got) : Held'[i] = data'[got[i].ring][got[i].elt]
  BY DEF Channel, ContentOf
<1>4. \A i \in 1 .. Len(got) : Held'[i] = Held[i]
  BY <1>3, HeldContentKept
<1> QED
  BY <1>1, <1>2, <1>4, SeqEqual

\* svm_msg_q_add sends the message that its producer has written.
LEMMA PublishSends ==
  ASSUME IInv, Moves, Channel, Channel', NEW p \in Producers, Publish(p)
  PROVE  Fifo!Send(<<p, sent[p] + 1>>) /\ <<p, sent[p] + 1>> \in Content
<1> DEFINE c == <<p, sent[p] + 1>>
<1>0. QueueTypes /\ CallTypes /\ Calls /\ Contents
  BY DEF IInv
<1>1. qSize < QItems /\ slots[qTail] = msg[p] /\ Live(p) /\ sent[p] < MaxMsgs
  BY <1>0 DEF Calls, Publish, Live
<1>2. /\ UNCHANGED <<slots, got, received, data>> /\ qSize' = qSize + 1
      /\ qTail' = (qTail + 1) % QItems
  BY <1>0, PublishCounts DEF Publish, consVars, ringVars
<1>3. c \in Content
  <2>1. sent[p] + 1 \in 1 .. MaxMsgs
    BY <1>0, <1>1, Sizes DEF CallTypes
  <2> QED
    BY <2>1 DEF Content
<1>4. /\ Waiting' = Append(Waiting, msg[p]) /\ Waiting \in Seq(Ref) /\ Len(Waiting) = qSize
      /\ msg[p] \in Ref /\ qSize \in Nat
  BY <1>0, <1>1, <1>2, WaitingPublish, WaitingType DEF CallTypes, Ref
<1>5. /\ \A i \in 1 .. qSize : Waiting'[i] = Waiting[i]
      /\ Waiting'[qSize + 1] = msg[p]
  <2> HIDE DEF Waiting
  <2> QED
    BY <1>4, AppendProperties
<1>6. ContentOf(msg[p]) = c
  BY <1>0, <1>1 DEF Contents
<1>7. \A i \in 1 .. qSize + 1 : Queued'[i] = data[Waiting'[i].ring][Waiting'[i].elt]
  BY <1>2 DEF Channel, ContentOf
<1> HIDE DEF c
<1>8. /\ Append(Queued, c) \in Seq(Content) /\ Len(Append(Queued, c)) = qSize + 1
      /\ \A i \in 1 .. qSize : Append(Queued, c)[i] = Queued[i]
      /\ Append(Queued, c)[qSize + 1] = c
  BY <1>3, AppendProperties DEF Channel
<1>9. \A i \in 1 .. qSize + 1 : Queued'[i] = Append(Queued, c)[i]
  <2>1. \A i \in 1 .. qSize : Queued'[i] = Queued[i]
    <3>1. \A i \in 1 .. qSize : i \in 1 .. qSize + 1
      BY <1>4
    <3>2. \A i \in 1 .. qSize : Queued'[i] = data[Waiting[i].ring][Waiting[i].elt]
      BY <1>5, <1>7, <3>1
    <3> QED
      BY <3>2 DEF Channel, ContentOf
  <2>2. Queued'[qSize + 1] = c
    <3>1. qSize + 1 \in 1 .. qSize + 1
      BY <1>4
    <3> QED
      BY <1>5, <1>6, <1>7, <3>1 DEF ContentOf
  <2>3. \A i \in 1 .. qSize + 1 : i \in 1 .. qSize \/ i = qSize + 1
    BY <1>4
  <2> QED
    BY <1>8, <2>1, <2>2, <2>3
<1>10. Queued' = Append(Queued, c)
  <2>1. Queued' \in Seq(Content) /\ Len(Queued') = qSize + 1
    BY <1>2 DEF Channel
  <2> QED
    BY <1>8, <1>9, <2>1, SeqEqual
<1>11. UNCHANGED (received \o Held)
  BY <1>2, HeldKept
<1>12. ~WasSent(c)
  <2>1. \A n \in 1 .. sent[p] : n # sent[p] + 1
    BY <1>0, Sizes DEF CallTypes
  <2> QED
    BY <2>1 DEF WasSent, c
<1>13. c \notin Fifo!Used
  <2>1. DOMAIN Queued = 1 .. qSize /\ \A i \in DOMAIN Queued : Queued[i] # c
    BY <1>12, LenProperties DEF Channel
  <2> DEFINE x == received \o Held
  <2>2. /\ x \in Seq(Content) /\ Len(x) = Len(received) + Len(Held)
        /\ \A i \in 1 .. Len(received) + Len(Held) :
             x[i] = IF i <= Len(received) THEN received[i] ELSE Held[i - Len(received)]
    <3>1. received \in Seq(Content) /\ Held \in Seq(Content)
      BY DEF Channel
    <3> QED
      BY <3>1, ConcatProperties
  <2>3. Len(received) \in Nat /\ DOMAIN received = 1 .. Len(received)
        /\ Len(Held) = Len(got) /\ Len(got) \in Nat /\ DOMAIN x = 1 .. Len(x)
    BY <2>2, LenProperties DEF Channel
  <2> HIDE DEF x
  <2>4. ASSUME NEW i \in DOMAIN x PROVE x[i] # c
    <3>1. CASE i <= Len(received)
      <4>1. i \in DOMAIN received /\ x[i] = received[i]
        BY <2>2, <2>3, <3>1
      <4> QED
        BY <1>12, <4>1 DEF Channel
    <3>2. CASE ~(i <= Len(received))
      <4>1. i - Len(received) \in 1 .. Len(got) /\ x[i] = Held[i - Len(received)]
        BY <2>2, <2>3, <3>2
      <4> QED
        BY <1>12, <4>1 DEF Channel
    <3> QED
      BY <3>1, <3>2
  <2> QED
    BY <2>1, <2>4 DEF Fifo!Used, x
<1>14. Len(Queued) < QItems
  BY <1>1 DEF Channel
<1> QED
  BY <1>3, <1>10, <1>11, <1>13, <1>14 DEF Fifo!Send, c


\* svm_msg_q_sub_raw and its batch form receive what they have copied.
LEMMA DecrementReceives ==
  ASSUME IInv, Moves, Channel, Channel', Decrement
  PROVE  Fifo!Receive(Len(batch)) /\ Len(batch) \in 0 .. QItems
<1> DEFINE n == Len(batch)
<1>0. QueueTypes /\ Consuming
  BY DEF IInv
<1>1. /\ UNCHANGED <<slots, qTail, received>> /\ qSize' = qSize - n /\ got' = got \o batch
  BY <1>0, DecrementCounts DEF Decrement
<1>2. /\ n \in 0 .. qSize /\ qSize \in 0 .. QItems /\ DOMAIN batch = 1 .. n
      /\ \A i \in 1 .. n : batch[i] = Waiting[i]
      /\ batch \in Seq(Msg) /\ got \in Seq(Msg) /\ Len(got) \in Nat
  BY <1>0, LenProperties DEF QueueTypes, Consuming
<1> HIDE DEF n
<1>3. \A i \in 1 .. qSize - n : Waiting'[i] = Waiting[n + i]
  <2>1. Waiting' = SubSeq(Waiting, n + 1, qSize)
    BY <1>0, <1>1, <1>2, WaitingDecrement
  <2>2. Waiting \in Seq(Ref) /\ Len(Waiting) = qSize
    BY <1>0, WaitingType
  <2> HIDE DEF Waiting
  <2>3. \A i \in n + 1 .. qSize : Waiting[i] \in Ref
    BY <1>2, <2>2, ElementOfSeq
  <2>4. \A i \in 1 .. qSize - (n + 1) + 1 : SubSeq(Waiting, n + 1, qSize)[i] = Waiting[(n + 1) + i - 1]
    BY <1>2, <2>3, SubSeqProperties
  <2>5. qSize - (n + 1) + 1 = qSize - n /\ \A i \in 1 .. qSize - n : (n + 1) + i - 1 = n + i
    BY <1>2
  <2> QED
    BY <2>1, <2>4, <2>5
<1>4. /\ Queued \in Seq(Content) /\ Len(Queued) = qSize
      /\ Queued' \in Seq(Content) /\ Len(Queued') = qSize - n
      /\ \A i \in 1 .. qSize - n : Queued'[i] = data'[Waiting'[i].ring][Waiting'[i].elt]
  BY <1>1 DEF Channel, ContentOf
<1>5. \A i \in 1 .. qSize - n : Queued'[i] = Queued[n + i]
  <2>1. \A i \in 1 .. qSize - n : n + i \in 1 .. qSize
    BY <1>2
  <2>2. \A i \in 1 .. qSize - n : data'[Waiting[n + i].ring][Waiting[n + i].elt] = Queued[n + i]
    BY <2>1, HeldContentKept
  <2> QED
    BY <1>3, <1>4, <2>2
<1>6. /\ SubSeq(Queued, n + 1, qSize) \in Seq(Content)
      /\ Len(SubSeq(Queued, n + 1, qSize)) = qSize - n
      /\ \A i \in 1 .. qSize - n : SubSeq(Queued, n + 1, qSize)[i] = Queued[n + i]
  <2>1. \A i \in n + 1 .. qSize : Queued[i] \in Content
    BY <1>2, <1>4, ElementOfSeq
  <2>2. /\ SubSeq(Queued, n + 1, qSize) \in Seq(Content)
        /\ Len(SubSeq(Queued, n + 1, qSize)) = IF n + 1 <= qSize THEN qSize - (n + 1) + 1 ELSE 0
        /\ \A i \in 1 .. qSize - (n + 1) + 1 :
             SubSeq(Queued, n + 1, qSize)[i] = Queued[(n + 1) + i - 1]
    BY <1>2, <2>1, SubSeqProperties
  <2>3. qSize - (n + 1) + 1 = qSize - n /\ \A i \in 1 .. qSize - n : (n + 1) + i - 1 = n + i
    BY <1>2
  <2> QED
    BY <1>2, <2>2, <2>3
<1>7. Queued' = SubSeq(Queued, n + 1, qSize)
  BY <1>4, <1>5, <1>6, SeqEqual
<1> DEFINE f == SubSeq(Queued, 1, n)
<1>8. f \in Seq(Content) /\ Len(f) = n /\ \A i \in 1 .. n : f[i] = Queued[i]
  <2>1. \A i \in 1 .. n : Queued[i] \in Content
    BY <1>2, <1>4, ElementOfSeq
  <2>2. /\ SubSeq(Queued, 1, n) \in Seq(Content)
        /\ Len(SubSeq(Queued, 1, n)) = IF 1 <= n THEN n - 1 + 1 ELSE 0
        /\ \A i \in 1 .. n - 1 + 1 : SubSeq(Queued, 1, n)[i] = Queued[1 + i - 1]
    BY <1>2, <2>1, SubSeqProperties
  <2> QED
    BY <1>2, <2>2
<1> HIDE DEF f
<1>9. Held' = Held \o f
  <2>1. /\ Held \in Seq(Content) /\ Len(Held) = Len(got)
        /\ Held' \in Seq(Content) /\ Len(Held') = Len(got')
        /\ \A i \in 1 .. Len(got') : Held'[i] = data'[got'[i].ring][got'[i].elt]
    BY DEF Channel, ContentOf
  <2>2. /\ Len(got') = Len(got) + n
        /\ \A i \in 1 .. Len(got) + n : got'[i] = IF i <= Len(got) THEN got[i] ELSE batch[i - Len(got)]
    BY <1>1, <1>2, ConcatProperties DEF n
  <2>3. /\ Held \o f \in Seq(Content) /\ Len(Held \o f) = Len(got) + n
        /\ \A i \in 1 .. Len(got) + n :
             (Held \o f)[i] = IF i <= Len(got) THEN Held[i] ELSE f[i - Len(got)]
    <3>1. Held \in Seq(Content) /\ f \in Seq(Content) /\ Len(Held) = Len(got) /\ Len(f) = n
      BY <1>8, <2>1
    <3>2. /\ Held \o f \in Seq(Content) /\ Len(Held \o f) = Len(Held) + Len(f)
          /\ \A i \in 1 .. Len(Held) + Len(f) :
               (Held \o f)[i] = IF i <= Len(Held) THEN Held[i] ELSE f[i - Len(Held)]
      BY <3>1, ConcatProperties
    <3> QED
      BY <3>1, <3>2
  <2>4. ASSUME NEW i \in 1 .. Len(got) + n PROVE Held'[i] = (Held \o f)[i]
    <3>1. CASE i <= Len(got)
      <4>1. i \in 1 .. Len(got)
        BY <1>2, <3>1
      <4>2. got'[i] = got[i] /\ (Held \o f)[i] = Held[i]
        BY <2>2, <2>3, <3>1
      <4> QED
        BY <2>1, <2>2, <4>1, <4>2, HeldContentKept
    <3>2. CASE ~(i <= Len(got))
      <4> DEFINE k == i - Len(got)
      <4>1. k \in 1 .. n /\ k \in 1 .. qSize
        BY <1>2, <3>2
      <4>2. got'[i] = batch[k] /\ (Held \o f)[i] = f[k]
        BY <2>2, <2>3, <3>2
      <4> HIDE DEF k
      <4>3. got'[i] = Waiting[k] /\ (Held \o f)[i] = Queued[k]
        BY <1>2, <1>8, <4>1, <4>2
      <4> QED
        BY <2>1, <2>2, <4>1, <4>3, HeldContentKept
    <3> QED
      BY <3>1, <3>2
  <2> QED
    BY <2>1, <2>2, <2>3, <2>4, SeqEqual
<1>10. received \o (Held \o f) = (received \o Held) \o f
  <2>1. received \in Seq(Content) /\ Held \in Seq(Content) /\ f \in Seq(Content)
    BY <1>8 DEF Channel
  <2> QED
    BY <2>1, ConcatAssociative
<1>11. /\ (received \o Held)' = (received \o Held) \o SubSeq(Queued, 1, n)
       /\ Queued' = SubSeq(Queued, n + 1, Len(Queued)) /\ n <= Len(Queued)
  <2>1. (received \o Held)' = received \o (Held \o f)
    BY <1>1, <1>9
  <2>2. n <= Len(Queued)
    BY <1>2, <1>4
  <2> QED
    BY <1>4, <1>7, <1>10, <2>1, <2>2 DEF f
<1> QED
  BY <1>2, <1>11, Sizes DEF Fifo!Receive, n

\* Reading a message that was received changes nothing.
LEMMA ProcessStutters ==
  ASSUME IInv, Moves, Channel, Channel', Process
  PROVE  UNCHANGED <<Queued, received \o Held>>
<1>0. QueueTypes
  BY DEF IInv
<1>1. /\ UNCHANGED <<slots, qTail, qSize, data>> /\ got # << >> /\ got' = Tail(got)
      /\ received' = Append(received, ContentOf(Head(got)))
  BY DEF Process, queueVars, ContentOf
<1>2. Queued' = Queued
  <2>1. UNCHANGED <<Waiting, qSize>>
    BY <1>1 DEF Waiting, QueueAt
  <2> QED
    BY <2>1, QueuedKept
<1>3. /\ Len(got) \in Nat /\ Len(got) > 0 /\ Head(got) = got[1] /\ Len(got') = Len(got) - 1
      /\ \A i \in 1 .. Len(got) - 1 : got'[i] = got[i + 1]
  BY <1>0, <1>1, EmptySeq, LenProperties, HeadTailProperties DEF QueueTypes
<1>4. /\ Held \in Seq(Content) /\ Len(Held) = Len(got) /\ received \in Seq(Content)
      /\ Held' \in Seq(Content) /\ Len(Held') = Len(got) - 1
      /\ \A i \in 1 .. Len(got) - 1 : Held'[i] = ContentOf(got[i + 1])
      /\ \A i \in 1 .. Len(got) : Held[i] = ContentOf(got[i])
  <2>1. /\ Held \in Seq(Content) /\ Len(Held) = Len(got) /\ received \in Seq(Content)
        /\ Held' \in Seq(Content) /\ Len(Held') = Len(got')
        /\ \A i \in 1 .. Len(got) : Held[i] = ContentOf(got[i])
        /\ \A i \in 1 .. Len(got') : Held'[i] = ContentOf(got[i])'
    BY DEF Channel
  <2>2. \A i \in 1 .. Len(got) - 1 : ContentOf(got[i])' = ContentOf(got[i + 1])
    BY <1>1, <1>3 DEF ContentOf
  <2> QED
    BY <1>3, <2>1, <2>2
<1>5. Held # << >> /\ Head(Held) = ContentOf(Head(got))
  BY <1>3, <1>4, EmptySeq
<1>6. /\ Tail(Held) \in Seq(Content) /\ Len(Tail(Held)) = Len(got) - 1
      /\ \A i \in 1 .. Len(got) - 1 : Tail(Held)[i] = Held[i + 1]
      /\ Head(Held) \in Content
  BY <1>4, <1>5, HeadTailProperties
<1>7. \A i \in 1 .. Len(got) - 1 : Held'[i] = Tail(Held)[i]
  <2>1. \A i \in 1 .. Len(got) - 1 : i + 1 \in 1 .. Len(got)
    BY <1>3
  <2> QED
    BY <1>4, <1>6, <2>1
<1>8. Held' = Tail(Held)
  BY <1>4, <1>6, <1>7, SeqEqual
<1> DEFINE h == <<Head(Held)>>
           t == Tail(Held)
<1>9. h \in Seq(Content) /\ t \in Seq(Content) /\ Held = h \o t
  BY <1>4, <1>5, <1>6, HeadThenTail
<1>10. received' = received \o h
  BY <1>1, <1>4, <1>5, <1>6, AppendIsConcat
<1> HIDE DEF h, t
<1>11. (received \o h) \o t = received \o (h \o t)
  BY <1>4, <1>9, ConcatAssociative
<1>12. (received \o Held)' = received \o Held
  BY <1>8, <1>9, <1>10, <1>11 DEF t
<1> QED
  BY <1>2, <1>12


\* The three steps that do something to the channel or to what was received.
OnQueue ==
  \/ Process \/ Decrement \/ \E p \in Producers : Publish(p)
  \/ UNCHANGED <<Waiting, qSize, got, received>>

\* The other steps leave the channel alone.
LEMMA OnQueueStep == IInv /\ Sound => OnQueue
<1> SUFFICES ASSUME IInv, Sound PROVE OnQueue
  OBVIOUS
<1> USE DEF lockVars, queueVars, ringVars, prodVars, consVars
<1>0. /\ QueueTypes /\ Calls
      /\ (UNCHANGED <<slots, qTail, qSize>> => Waiting' = Waiting)
  BY DEF IInv, Waiting, QueueAt
<1>1. ASSUME NEW p \in Producers, Call(p) PROVE OnQueue
  <2>1. UNCHANGED <<slots, qTail, qSize, got, received>>
    BY <1>1 DEF Call
  <2> QED
    BY <1>0, <2>1 DEF OnQueue
<1>2. ASSUME NEW p \in Producers, ProdLock(p) PROVE OnQueue
  <2>1. UNCHANGED <<slots, qTail, qSize, got, received>>
    BY <1>2 DEF ProdLock
  <2> QED
    BY <1>0, <2>1 DEF OnQueue
<1>3. ASSUME NEW p \in Producers, TryLockFails(p) PROVE OnQueue
  <2>1. UNCHANGED <<slots, qTail, qSize, got, received>>
    BY <1>3 DEF TryLockFails
  <2> QED
    BY <1>0, <2>1 DEF OnQueue
<1>4. ASSUME NEW p \in Producers, Test(p) PROVE OnQueue
  <2>1. UNCHANGED <<slots, qTail, qSize, got, received>>
    BY <1>4 DEF Test
  <2> QED
    BY <1>0, <2>1 DEF OnQueue
<1>5. ASSUME NEW p \in Producers, Sleep(p) PROVE OnQueue
  <2>1. UNCHANGED <<slots, qTail, qSize, got, received>>
    BY <1>5 DEF Sleep
  <2> QED
    BY <1>0, <2>1 DEF OnQueue
<1>6. ASSUME NEW p \in Producers, Alloc(p) PROVE OnQueue
  <2>1. UNCHANGED <<slots, qTail, qSize, got, received>>
    BY <1>6 DEF Alloc
  <2> QED
    BY <1>0, <2>1 DEF OnQueue
<1>7. ASSUME NEW p \in Producers, AllocMsg(p) PROVE OnQueue
  <2>1. UNCHANGED <<slots, qTail, qSize, got, received>>
    BY <1>7 DEF AllocMsg, MayAlloc
  <2> QED
    BY <1>0, <2>1 DEF OnQueue
<1>8. ASSUME NEW p \in Producers, Write(p) PROVE OnQueue
  <2>1. Waiting' = Waiting /\ UNCHANGED <<qSize, got, received>>
    BY <1>0, <1>8, WaitingWrite DEF Write, Calls
  <2> QED
    BY <2>1 DEF OnQueue
<1>9. ASSUME NEW p \in Producers, Publish(p) PROVE OnQueue
  BY <1>9 DEF OnQueue
<1>10. ASSUME NEW p \in Producers, ProdSignal(p) PROVE OnQueue
  <2>1. UNCHANGED <<slots, qTail, qSize, got, received>>
    BY <1>10 DEF ProdSignal
  <2> QED
    BY <1>0, <2>1 DEF OnQueue
<1>11. ASSUME NEW p \in Producers, Unlock(p) PROVE OnQueue
  <2>1. UNCHANGED <<slots, qTail, qSize, got, received>>
    BY <1>11 DEF Unlock
  <2> QED
    BY <1>0, <2>1 DEF OnQueue
<1>12. ASSUME NEW p \in Producers, Crash(p) PROVE OnQueue
  <2>1. UNCHANGED <<slots, qTail, qSize, got, received>>
    BY <1>12 DEF Crash
  <2> QED
    BY <1>0, <2>1 DEF OnQueue
<1>13. CASE Sub
  <2>1. UNCHANGED <<slots, qTail, qSize, got, received>>
    BY <1>13 DEF Sub
  <2> QED
    BY <1>0, <2>1 DEF OnQueue
<1>14. CASE WaitLock
  <2>1. UNCHANGED <<slots, qTail, qSize, got, received>>
    BY <1>14 DEF WaitLock
  <2> QED
    BY <1>0, <2>1 DEF OnQueue
<1>15. CASE WaitTest
  <2>1. UNCHANGED <<slots, qTail, qSize, got, received>>
    BY <1>15 DEF WaitTest
  <2> QED
    BY <1>0, <2>1 DEF OnQueue
<1>16. CASE ConsRelock
  <2>1. UNCHANGED <<slots, qTail, qSize, got, received>>
    BY <1>16 DEF ConsRelock
  <2> QED
    BY <1>0, <2>1 DEF OnQueue
<1>17. CASE TimeOut
  <2>1. UNCHANGED <<slots, qTail, qSize, got, received>>
    BY <1>17 DEF TimeOut
  <2> QED
    BY <1>0, <2>1 DEF OnQueue
<1>18. CASE Read
  <2>1. UNCHANGED <<slots, qTail, qSize, got, received>>
    BY <1>18 DEF Read
  <2> QED
    BY <1>0, <2>1 DEF OnQueue
<1>19. CASE BatchSize
  <2>1. UNCHANGED <<slots, qTail, qSize, got, received>>
    BY <1>19 DEF BatchSize
  <2> QED
    BY <1>0, <2>1 DEF OnQueue
<1>20. CASE Decrement
  BY <1>20 DEF OnQueue
<1>21. CASE SignalLock
  <2>1. UNCHANGED <<slots, qTail, qSize, got, received>>
    BY <1>21 DEF SignalLock
  <2> QED
    BY <1>0, <2>1 DEF OnQueue
<1>22. CASE ConsSignal
  <2>1. UNCHANGED <<slots, qTail, qSize, got, received>>
    BY <1>22 DEF ConsSignal
  <2> QED
    BY <1>0, <2>1 DEF OnQueue
<1>23. CASE Process
  BY <1>23 DEF OnQueue
<1>24. CASE FreeTest
  <2>1. UNCHANGED <<slots, qTail, qSize, got, received>>
    BY <1>24 DEF FreeTest
  <2> QED
    BY <1>0, <2>1 DEF OnQueue
<1>25. CASE FreeDecrement
  <2>1. UNCHANGED <<slots, qTail, qSize, got, received>>
    BY <1>25 DEF FreeDecrement
  <2> QED
    BY <1>0, <2>1 DEF OnQueue
<1>26. CASE ProcessDone
  <2>1. UNCHANGED <<slots, qTail, qSize, got, received>>
    BY <1>26 DEF ProcessDone
  <2> QED
    BY <1>0, <2>1 DEF OnQueue
<1>27. CASE Sleep(Consumer)
  <2>1. UNCHANGED <<slots, qTail, qSize, got, received>>
    BY <1>27 DEF Sleep
  <2> QED
    BY <1>0, <2>1 DEF OnQueue
<1>28. ASSUME NEW x \in Procs, WakeUp(x) PROVE OnQueue
  <2>1. UNCHANGED <<slots, qTail, qSize, got, received>>
    BY <1>28 DEF WakeUp
  <2> QED
    BY <1>0, <2>1 DEF OnQueue
<1> QED
  BY <1>1, <1>2, <1>3, <1>4, <1>5, <1>6, <1>7, <1>8, <1>9, <1>10, <1>11,
     <1>12, <1>13, <1>14, <1>15, <1>16, <1>17, <1>18, <1>19, <1>20, <1>21,
     <1>22, <1>23, <1>24, <1>25, <1>26, <1>27, <1>28
     DEF Sound, Works, ProducerStep, ConsumerStep

\* A step of the channel, or none.
ChannelStep == Fifo!Next \/ UNCHANGED <<Queued, received \o Held>>

\* Every step that does not damage the queue is a step of a bounded FIFO
\* channel, or none.
LEMMA StepRefines ==
  IInv /\ Channel /\ Channel' /\ Sound => ChannelStep
<1> USE DEF ChannelStep
<1>1. ASSUME IInv, Channel, Channel', Sound
      PROVE  ChannelStep
  <2>0. Moves /\ OnQueue
    BY <1>1, MovesStep, OnQueueStep
  <2>1. ASSUME NEW p \in Producers, Publish(p) PROVE Fifo!Next
    BY <1>1, <2>0, <2>1, PublishSends DEF Fifo!Next
  <2>2. CASE Decrement
    <3>1. Fifo!Receive(Len(batch)) /\ Len(batch) \in 0 .. QItems
      BY <1>1, <2>0, <2>2, DecrementReceives
    <3>2. CASE Len(batch) \in 1 .. QItems
      BY <3>1, <3>2 DEF Fifo!Next
    <3>3. CASE Len(batch) = 0
      <4>1. UNCHANGED <<qSize, slots, qTail, received>> /\ got' = got
        <5>1. batch = << >> /\ got \in Seq(Msg) /\ qSize \in Int
          BY <1>1, <3>3, EmptySeq DEF IInv, QueueTypes
        <5> QED
          BY <1>1, <2>2, <3>3, <5>1, ConcatEmptySeq, DecrementCounts DEF Decrement, IInv
      <4>2. UNCHANGED <<Waiting, qSize>>
        BY <4>1 DEF Waiting, QueueAt
      <4>3. Queued' = Queued /\ Held' = Held
        BY <1>1, <2>0, <4>1, <4>2, QueuedKept, HeldKept
      <4> QED
        BY <4>1, <4>3
    <3> QED
      BY <3>1, <3>2, <3>3, Sizes
  <2>3. CASE Process
    BY <1>1, <2>0, <2>3, ProcessStutters
  <2>4. CASE UNCHANGED <<Waiting, qSize, got, received>>
    <3>1. Queued' = Queued /\ Held' = Held
      BY <1>1, <2>0, <2>4, QueuedKept, HeldKept
    <3> QED
      BY <2>4, <3>1
  <2> QED
    BY <2>0, <2>1, <2>2, <2>3, <2>4 DEF OnQueue
<1> QED
  BY <1>1

\* Until it is damaged the message queue implements a FIFO channel of capacity
\* maxsize: whatever the entry points, the interleaving and the deaths of
\* producers, every message that cursize announces reaches the consumer once, in
\* order and with the content its producer wrote.
THEOREM IsBoundedFifo == Spec => IsFifo
<1>1. Init => Fifo!Init
  <2> SUFFICES ASSUME Init PROVE Queued = << >> /\ received \o Held = << >>
    BY DEF Fifo!Init
  <2>1. Channel
    BY InitInv, ChannelType
  <2>2. qSize = 0 /\ got = << >> /\ received = << >>
    BY DEF Init
  <2>3. Queued \in Seq(Content) /\ Len(Queued) = 0 /\ Held \in Seq(Content) /\ Len(Held) = 0
    BY <2>1, <2>2, EmptySeq DEF Channel
  <2>4. Queued = << >> /\ Held = << >>
    BY <2>3, EmptySeq
  <2> QED
    BY <2>2, <2>4, ConcatEmptySeq
<1>2. ASSUME Inv, Inv', Next PROVE ~damaged' => ChannelStep
  <2> SUFFICES ASSUME ~damaged' PROVE ChannelStep
    OBVIOUS
  <2>1. ~Damages
    BY DEF Damages, ReadEmpty, CrashInside
  <2>2. Works /\ Sound
    BY <1>2, <2>1 DEF Next, Goes, Sound
  <2>3. IInv /\ IInv'
    BY <1>2, <2>2, WorksSpare DEF Inv
  <2>4. Channel /\ Channel'
    <3>1. IInv' => Channel'
      BY ChannelType, PTL
    <3> QED
      BY <2>3, <3>1, ChannelType
  <2> QED
    BY <2>2, <2>3, <2>4, StepRefines
<1>3. Inv /\ Inv' /\ [Next]_vars =>
        [~damaged' => Fifo!Next \/ UNCHANGED <<Queued, received \o Held>>]_vars
  BY <1>2 DEF ChannelStep
<1> QED
  BY <1>1, <1>3, Invariance, PTL DEF Spec, IsFifo

=============================================================================
