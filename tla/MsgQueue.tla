------------------------------ MODULE MsgQueue ------------------------------
(***************************************************************************)
(* The shared-memory message queue between VPP and its applications        *)
(* (src/src/svm/message_queue.c, message_queue.h), in the mode that uses   *)
(* the process-shared robust mutex and condition variable (evtfd == -1).   *)
(*                                                                         *)
(* Producers hold the mutex from the allocation of an element of a data    *)
(* ring until the reference to it is in the queue.  The one consumer takes *)
(* no lock to dequeue: both sides meet in the two kinds of cursize, which  *)
(* are atomic, and in the one condition variable both sides sleep on.      *)
(*                                                                         *)
(* Each access to a cursize, and each mutex operation, is a step.  What    *)
(* only the mutex holder, or only the consumer, touches is folded into the *)
(* neighbouring step.                                                      *)
(***************************************************************************)
EXTENDS Integers, Sequences, FiniteSets

CONSTANTS
  Producers,   \* the processes and threads that send
  Consumer,    \* the one that receives
  Rings,       \* the data rings
  QItems,      \* sq->maxsize
  RingItems,   \* ring->nitems
  MaxMsgs,     \* bound on the messages of one producer
  NoBlocks,    \* values of the noblock/nowait argument producers use
  Conds,       \* ways the consumer may wait: "nowait", "wait", "timedwait"
  Batches,     \* may contain TRUE (vcl_mq_dequeue_batch), FALSE (svm_msg_q_sub)
  Adds,        \* may contain TRUE (svm_msg_q_alloc_msg and svm_msg_q_add),
               \* FALSE (svm_msg_q_lock_and_alloc_msg_w_ring)
  MayCrash,    \* TRUE: a producer may die
  Spurious,    \* TRUE: pthread_cond_wait may return without a signal
  W,           \* the sizes are unsigned modulo W (2^32 in the code)
  Free, Dead,  \* mutex states: nobody holds it; its holder died;
  Lost         \* it can never be locked again (ENOTRECOVERABLE)

ASSUME QueueAssumption ==
  /\ QItems \in Nat \ {0}
  /\ RingItems \in Nat \ {0}
  /\ MaxMsgs \in Nat
  /\ NoBlocks \subseteq BOOLEAN
  /\ Conds \subseteq {"nowait", "wait", "timedwait"}
  /\ Batches \subseteq BOOLEAN /\ Adds \subseteq BOOLEAN
  /\ MayCrash \in BOOLEAN /\ Spurious \in BOOLEAN
  /\ W \in Nat /\ QItems < W /\ RingItems < W
ASSUME NamesAssumption ==
  /\ Consumer \notin Producers
  /\ Free # Dead /\ Free # Lost /\ Dead # Lost
  /\ {Free, Dead, Lost} \cap (Producers \cup {Consumer}) = {}
  /\ "none" \notin Rings

VARIABLES
  mode,      \* the functions the two sides call: [cond, batch, add]
  lock,      \* sq->mutex: Free, Dead, Lost, or the holder
  sick,      \* it was got from a dead holder and not made consistent
  pc,        \* where every process is
  slots,     \* sq->data
  qHead,     \* sq->head
  qTail,     \* sq->tail
  qSize,     \* sq->cursize
  rHead,     \* sr->head of each ring
  rTail,     \* sr->tail
  rSize,     \* sr->cursize
  data,      \* sr->data
  call,      \* arguments of a producer's call: [ring, noblock]
  msg,       \* the message a producer has allocated: [ring, elt]
  sent,      \* messages a producer has put into the queue
  batch,     \* messages the consumer copied, cursize not yet lowered
  nMsgs,     \* queue size vcl_mq_dequeue_batch read
  sz,        \* queue size svm_msg_q_sub_raw_batch read after it
  got,       \* messages the consumer has, in order
  cur,       \* message being freed, or NoMsg
  signal,    \* need_signal of svm_msg_q_free_msg
  back,      \* where the consumer goes on after svm_msg_q_send_signal
  received,  \* contents the consumer has read from the rings, in order
  damaged    \* history: svm_msg_q_sub_raw was called on an empty queue, or a
             \* producer died between the two halves of an update

lockVars == <<lock, sick>>
queueVars == <<slots, qHead, qTail, qSize>>
ringVars == <<rHead, rTail, rSize, data>>
prodVars == <<call, msg, sent>>
consVars == <<batch, nMsgs, sz, got, cur, signal, back, received,
              damaged>>
vars == <<mode, lockVars, pc, queueVars, ringVars, prodVars, consVars>>

Procs == Producers \cup {Consumer}

\* A message is a reference to an element of a ring; what it refers to is the
\* n-th message of a producer.
Msg == [ring : Rings, elt : 0 .. RingItems - 1]
NoMsg == [ring |-> "none", elt |-> 0]
Content == Producers \X (1 .. MaxMsgs)
NoContent == <<"none", 0>>

\* Both sides stay with the functions they use.
Cond == mode.cond
Batch == mode.batch
UseAdd == mode.add

\* The bound on a damaged queue: calls on their way go on, none begins, on either
\* side (what the consumer receives would grow for ever).
Begins == ~ damaged

Goto(x, s) == pc' = [pc EXCEPT ![x] = s]

\* pthread_cond_broadcast by x, which goes on at s.
BroadcastAndGoto(x, s) ==
  pc' = [y \in Procs |-> IF y = x THEN s
                         ELSE IF pc[y] = "asleep" THEN "relock" ELSE pc[y]]

\* svm_msg_q_is_empty, svm_msg_q_is_full, svm_msg_q_or_ring_is_full.
\* (Definitions marked (mutant) are slips that the properties must notice.)
IsEmpty == qSize = 0
IsFull == qSize = QItems
OrRingIsFull(r) == IsFull \/ rSize[r] >= RingItems

\* svm_msg_q_init, svm_msg_q_attach
Init ==
  /\ mode \in [cond : Conds, batch : Batches, add : Adds]
  /\ lock = Free /\ sick = FALSE /\ damaged = FALSE
  /\ pc = [x \in Procs |-> "idle"]
  /\ slots = [i \in 0 .. QItems - 1 |-> NoMsg]
  /\ qHead = 0 /\ qTail = 0 /\ qSize = 0
  /\ rHead = [r \in Rings |-> 0]
  /\ rTail = [r \in Rings |-> 0]
  /\ rSize = [r \in Rings |-> 0]
  /\ data = [r \in Rings |-> [i \in 0 .. RingItems - 1 |-> NoContent]]
  /\ call = [p \in Producers |-> [ring |-> "none", noblock |-> FALSE]]
  /\ msg = [p \in Producers |-> NoMsg]
  /\ sent = [p \in Producers |-> 0]
  /\ batch = << >> /\ got = << >> /\ nMsgs = 0 /\ sz = 0
  /\ cur = NoMsg
  /\ signal = FALSE
  /\ back = "idle"
  /\ received = << >>

-----------------------------------------------------------------------------
(***************************************************************************)
(* The mutex and the condition variable (pthreads).                        *)
(***************************************************************************)

\* A lock attempt succeeds, also on the mutex of a dead holder (EOWNERDEAD;
\* svm_msg_q_lock and svm_msg_q_try_lock then make it consistent).
CanLock == lock \in {Free, Dead}
Acquire(x) == lock' = x /\ sick' = FALSE

\* pthread_cond_wait gets the mutex back.  Its EOWNERDEAD is ignored, so that
\* the mutex is not made consistent and the next unlock loses it for good.
Reacquire(x) == lock' = x /\ sick' = (lock = Dead)
Release == lock' = (IF sick THEN Lost ELSE Free) /\ sick' = FALSE

\* pthread_cond_wait lets the mutex go and sleeps, in one step.
Sleep(x) ==
  /\ pc[x] = "sleep"
  /\ Release
  /\ Goto(x, "asleep")
  /\ UNCHANGED <<queueVars, ringVars, prodVars, consVars>>

\* A wait that returns although nobody signalled (POSIX allows it).
WakeUp(x) ==
  /\ Spurious
  /\ pc[x] = "asleep"
  /\ Goto(x, "relock")
  /\ UNCHANGED <<lockVars, queueVars, ringVars, prodVars, consVars>>

-----------------------------------------------------------------------------
(***************************************************************************)
(* Producers.                                                              *)
(***************************************************************************)

\* svm_msg_q_lock_and_alloc_msg_w_ring is called.
Call(p) ==
  /\ ~ UseAdd
  /\ pc[p] = "idle" /\ sent[p] < MaxMsgs /\ Begins
  /\ \E r \in Rings, nb \in NoBlocks :
       call' = [call EXCEPT ![p] = [ring |-> r, noblock |-> nb]]
  /\ Goto(p, "lock")
  /\ UNCHANGED <<lockVars, queueVars, ringVars, msg, sent, consVars>>

ProdLock(p) ==
  /\ pc[p] \in {"lock", "relock"}
  /\ CanLock
  /\ IF pc[p] = "lock" THEN Acquire(p) ELSE Reacquire(p)
  /\ Goto(p, "test")
  /\ UNCHANGED <<queueVars, ringVars, prodVars, consVars>>

\* svm_msg_q_try_lock fails: the call returns -1.
TryLockFails(p) ==
  /\ pc[p] = "lock" /\ call[p].noblock
  /\ ~ CanLock
  /\ Goto(p, "idle")
  /\ UNCHANGED <<lockVars, queueVars, ringVars, prodVars, consVars>>

\* What blocks the call: svm_msg_q_add only looks at the queue.
Blocked(p) == IF UseAdd THEN IsFull ELSE OrRingIsFull(call[p].ring)

\* Full: return -2 (svm_msg_q_add does so with the mutex held), or wait.
AfterFull(p) ==
  IF call[p].noblock THEN (IF UseAdd THEN "idle" ELSE "unlock") ELSE "sleep"
AfterSpace == IF UseAdd THEN "write" ELSE "alloc"

Test(p) ==
  /\ pc[p] = "test"
  /\ Goto(p, IF Blocked(p) THEN AfterFull(p) ELSE AfterSpace)
  /\ UNCHANGED <<lockVars, queueVars, ringVars, prodVars, consVars>>

\* The increment of the ring's cursize, and the mutex after an allocation.
RingUp(r) == rSize' = [rSize EXCEPT ![r] = (@ + 1) % W]
AllocUnlocks == Release  \* (mutant)
AllocKeepsLock == UNCHANGED lockVars

\* svm_msg_q_alloc_msg_w_ring, and the caller fills the element in.
TakeElement(p, r) ==
  /\ msg' = [msg EXCEPT ![p] = [ring |-> r, elt |-> rTail[r]]]
  /\ data' = [data EXCEPT ![r][rTail[r]] = <<p, sent[p] + 1>>]
  /\ rTail' = [rTail EXCEPT ![r] = (@ + 1) % RingItems]
  /\ RingUp(r)

Alloc(p) ==
  /\ pc[p] = "alloc"
  /\ TakeElement(p, call[p].ring)
  /\ AllocKeepsLock
  /\ Goto(p, "write")
  /\ UNCHANGED <<queueVars, rHead, call, sent, consVars>>

\* svm_msg_q_alloc_msg finds a ring with room (no lock), then svm_msg_q_add is
\* called; a message that svm_msg_q_add refused is tried again.  Only one
\* producer may use this: nothing protects the ring's tail.
MayAlloc(p) ==
  /\ UseAdd
  /\ \A q \in Producers \ {p} : sent[q] = 0 /\ msg[q] = NoMsg
  /\ pc[p] = "idle" /\ sent[p] < MaxMsgs /\ Begins

AllocMsg(p) ==
  /\ MayAlloc(p)
  /\ \E nb \in NoBlocks :
       call' = [call EXCEPT ![p] = [ring |-> "none", noblock |-> nb]]
  /\ IF msg[p] = NoMsg
       THEN \E r \in Rings : rSize[r] # RingItems /\ TakeElement(p, r)
       ELSE UNCHANGED <<msg, data, rTail, rSize>>
  /\ Goto(p, "lock")
  /\ UNCHANGED <<lockVars, queueVars, rHead, sent, consVars>>

\* svm_msg_q_add_raw: the reference goes into the slot at tail ...
Write(p) ==
  /\ pc[p] = "write"
  /\ slots' = [slots EXCEPT ![qTail] = msg[p]]
  /\ Goto(p, "publish")
  /\ UNCHANGED <<lockVars, qHead, qTail, qSize, ringVars, prodVars, consVars>>

\* ... then cursize is raised; only a queue that was empty is signalled.
NowEmpty == qSize + 1 = 0  \* (mutant)
WasEmpty == qSize = 0

Publish(p) ==
  /\ pc[p] = "publish"
  /\ qTail' = (qTail + 1) % QItems
  /\ qSize' = (qSize + 1) % W
  /\ sent' = [sent EXCEPT ![p] = @ + 1]
  /\ msg' = [msg EXCEPT ![p] = NoMsg]
  /\ Goto(p, IF WasEmpty THEN "signal" ELSE "unlock")
  /\ UNCHANGED <<lockVars, slots, qHead, ringVars, call, consVars>>

\* svm_msg_q_send_signal of a producer, which holds the mutex.
ProdSignal(p) ==
  /\ pc[p] = "signal"
  /\ BroadcastAndGoto(p, "unlock")
  /\ UNCHANGED <<lockVars, queueVars, ringVars, prodVars, consVars>>

Unlock(p) ==
  /\ pc[p] = "unlock"
  /\ Release
  /\ Goto(p, "idle")
  /\ UNCHANGED <<queueVars, ringVars, prodVars, consVars>>

\* A producer's process dies.
Crash(p) ==
  /\ MayCrash
  /\ pc[p] # "dead"
  /\ lock' = IF lock = p THEN Dead ELSE lock
  /\ sick' = IF lock = p THEN FALSE ELSE sick
  /\ Goto(p, "dead")
  /\ UNCHANGED <<queueVars, ringVars, prodVars, consVars>>

\* It dies after it has moved a tail and before it raises the cursize that goes
\* with it: of the queue, or of the ring it takes an element of.
Taking(p, r) ==
  \/ pc[p] = "alloc" /\ r = call[p].ring
  \/ MayAlloc(p) /\ msg[p] = NoMsg /\ rSize[r] # RingItems

CrashInside(p) ==
  /\ MayCrash
  /\ \/ /\ pc[p] = "publish"
        /\ qTail' = (qTail + 1) % QItems
        /\ UNCHANGED rTail
     \/ /\ \E r \in Rings :
             Taking(p, r) /\ rTail' = [rTail EXCEPT ![r] = (@ + 1) % RingItems]
        /\ UNCHANGED qTail
  /\ damaged' = TRUE
  /\ lock' = IF lock = p THEN Dead ELSE lock
  /\ sick' = IF lock = p THEN FALSE ELSE sick
  /\ Goto(p, "dead")
  /\ UNCHANGED <<slots, qHead, qSize, rHead, rSize, data, prodVars, batch, nMsgs,
                 sz, got, cur, signal, back, received>>

-----------------------------------------------------------------------------
(***************************************************************************)
(* The consumer: svm_msg_q_sub, or svm_msg_q_wait and                      *)
(* vcl_mq_dequeue_batch, then svm_msg_q_free_msg for each message.         *)
(***************************************************************************)
consPc == pc[Consumer]
ConsGoto(s) == Goto(Consumer, s)

\* The test for an empty queue, before any lock is taken.
Sub ==
  /\ consPc = "idle" /\ Begins
  /\ IsEmpty => Cond # "nowait"
  /\ ConsGoto(IF IsEmpty THEN "lock" ELSE "read")
  /\ UNCHANGED <<lockVars, queueVars, ringVars, prodVars, consVars>>

\* svm_msg_q_wait, svm_msg_q_timedwait: after EOWNERDEAD they make the mutex
\* consistent and return, with the mutex held.
WaitLock ==
  /\ consPc = "lock"
  /\ CanLock
  /\ Acquire(Consumer)
  /\ ConsGoto(IF lock = Dead THEN "read" ELSE "test")
  /\ UNCHANGED <<queueVars, ringVars, prodVars, consVars>>

\* The condition for sleeping: svm_msg_q_timedwait also sleeps on a full queue.
MustSleep == IsEmpty \/ (Cond = "timedwait" /\ IsFull)

WaitTest ==
  /\ consPc = "test"
  /\ ConsGoto(IF MustSleep THEN "sleep" ELSE "read")
  /\ IF MustSleep THEN UNCHANGED lockVars ELSE Release
  /\ UNCHANGED <<queueVars, ringVars, prodVars, consVars>>

\* pthread_cond_wait returns and svm_msg_q_wait tests again;
\* pthread_cond_timedwait returns and svm_msg_q_timedwait unlocks, a mutex that
\* is not consistent too.  What it returns, 0 or EOWNERDEAD, is handed on.
TestsAgain == Cond = "wait"
TimedReturn == lock' = (IF lock = Dead THEN Lost ELSE Free) /\ sick' = FALSE

ConsRelock ==
  /\ consPc = "relock"
  /\ CanLock
  /\ IF TestsAgain THEN Reacquire(Consumer) ELSE TimedReturn
  /\ ConsGoto(IF TestsAgain THEN "test" ELSE IF lock = Dead THEN "idle" ELSE "read")
  /\ UNCHANGED <<queueVars, ringVars, prodVars, consVars>>

\* pthread_cond_timedwait returns ETIMEDOUT (or EOWNERDEAD), and so does
\* svm_msg_q_sub.
TimeOut ==
  /\ consPc = "asleep" /\ Cond = "timedwait"
  /\ CanLock
  /\ TimedReturn
  /\ ConsGoto("idle")
  /\ UNCHANGED <<queueVars, ringVars, prodVars, consVars>>

\* svm_msg_q_sub_raw(_batch) copies the reference(s) at head and moves head.
QueueAt(i) == slots[i % QItems]

Read ==
  /\ consPc = IF Batch THEN "readBatch" ELSE "read"
  /\ ~ IsEmpty
  /\ LET n == IF ~ Batch THEN 1 ELSE IF nMsgs < qSize THEN nMsgs ELSE qSize
     IN  /\ batch' = [i \in 1 .. n |-> QueueAt(qHead + i - 1)]
         /\ qHead' = (qHead + n) % QItems
  /\ sz' = qSize
  /\ ConsGoto("decrement")
  /\ UNCHANGED <<lockVars, slots, qTail, qSize, ringVars, prodVars, nMsgs, got, cur,
                 signal, back, received, damaged>>

\* svm_msg_q_sub_raw on an empty queue, which only an assertion excludes: it
\* copies what an earlier message, or nobody, left in the slot at head.
ReadEmpty ==
  /\ consPc = "read" /\ ~ Batch
  /\ IsEmpty
  /\ \E m \in IF QueueAt(qHead) = NoMsg THEN Msg ELSE {QueueAt(qHead)} :
       batch' = <<m>>
  /\ qHead' = (qHead + 1) % QItems
  /\ sz' = qSize
  /\ damaged' = TRUE
  /\ ConsGoto("decrement")
  /\ UNCHANGED <<lockVars, slots, qTail, qSize, ringVars, prodVars, nMsgs, got,
                 cur, signal, back, received>>

\* vcl_mq_dequeue_batch takes batches until it finds the queue empty.
BatchSize ==
  /\ consPc = "read" /\ Batch
  /\ nMsgs' = qSize
  /\ ConsGoto(IF IsEmpty THEN "process" ELSE "readBatch")
  /\ UNCHANGED <<lockVars, queueVars, ringVars, prodVars, batch, sz, got, cur,
                 signal, back, received, damaged>>

\* cursize is lowered.  svm_msg_q_sub_raw looks at the value the atomic
\* operation returned, svm_msg_q_sub_raw_batch at the size it read before.
FullNow == qSize - Len(batch) = QItems  \* (mutant)
WasFull == IF Batch THEN sz = QItems ELSE IsFull
AfterSub == IF Batch THEN "read" ELSE "process"

TakenOne == 1  \* (mutant)
Taken == Len(batch)

Decrement ==
  /\ consPc = "decrement"
  /\ qSize' = (qSize - Taken) % W
  /\ got' = got \o batch
  /\ batch' = << >>
  /\ back' = AfterSub
  /\ ConsGoto(IF WasFull THEN "signalLock" ELSE AfterSub)
  /\ UNCHANGED <<lockVars, slots, qHead, qTail, ringVars, prodVars, nMsgs, sz, cur,
                 signal, received, damaged>>

\* svm_msg_q_send_signal of the consumer: after EOWNERDEAD it returns without
\* signalling and with the mutex held.
SignalLock ==
  /\ consPc = "signalLock"
  /\ CanLock
  /\ Acquire(Consumer)
  /\ ConsGoto(IF lock = Dead THEN back ELSE "signal")
  /\ UNCHANGED <<queueVars, ringVars, prodVars, consVars>>

ConsSignal ==
  /\ consPc = "signal"
  /\ BroadcastAndGoto(Consumer, back)
  /\ Release
  /\ UNCHANGED <<queueVars, ringVars, prodVars, consVars>>

\* The consumer reads the message and starts to free it: the ring's head moves
\* if the message is the oldest of its ring.
Process ==
  /\ consPc = "process"
  /\ got # << >>
  /\ LET m == Head(got)
     IN  /\ received' = Append(received, data[m.ring][m.elt])
         /\ rHead' = [rHead EXCEPT ![m.ring] =
                        IF m.elt = @ THEN (@ + 1) % RingItems ELSE @]
         /\ cur' = m
  /\ got' = Tail(got)
  /\ ConsGoto("freeTest")
  /\ UNCHANGED <<lockVars, queueVars, rTail, rSize, data, prodVars, batch,
                 nMsgs, sz, signal, back, damaged>>

\* svm_msg_q_free_msg reads cursize to see whether somebody may be waiting ...
FreeTest ==
  /\ consPc = "freeTest"
  /\ signal' = (rSize[cur.ring] = RingItems)
  /\ ConsGoto("freeDecrement")
  /\ UNCHANGED <<lockVars, queueVars, ringVars, prodVars, batch, nMsgs, sz, got,
                 cur, back, received, damaged>>

\* ... and then lowers it.
FreeDecrement ==
  /\ consPc = "freeDecrement"
  /\ rSize' = [rSize EXCEPT ![cur.ring] = (@ - 1) % W]
  /\ cur' = NoMsg
  /\ signal' = FALSE
  /\ back' = "process"
  /\ ConsGoto(IF signal THEN "signalLock" ELSE "process")
  /\ UNCHANGED <<lockVars, queueVars, rHead, rTail, data, prodVars, batch,
                 nMsgs, sz, got, received, damaged>>

ProcessDone ==
  /\ consPc = "process"
  /\ got = << >>
  /\ ConsGoto("idle")
  /\ UNCHANGED <<lockVars, queueVars, ringVars, prodVars, consVars>>

-----------------------------------------------------------------------------
ProducerStep(p) ==
  \/ ProdLock(p) \/ TryLockFails(p) \/ Test(p) \/ Sleep(p) \/ Alloc(p)
  \/ Write(p) \/ Publish(p) \/ ProdSignal(p) \/ Unlock(p)

ConsumerStep ==
  \/ Sub \/ WaitLock \/ WaitTest \/ Sleep(Consumer) \/ ConsRelock \/ TimeOut
  \/ Read \/ BatchSize \/ Decrement \/ SignalLock \/ ConsSignal
  \/ Process \/ FreeTest \/ FreeDecrement \/ ProcessDone

\* The steps that keep the queue in order, and those that damage it.
Works ==
  \/ \E p \in Producers :
       ProducerStep(p) \/ Call(p) \/ AllocMsg(p) \/ Crash(p)
  \/ ConsumerStep
  \/ \E x \in Procs : WakeUp(x)

Damages == ReadEmpty \/ \E p \in Producers : CrashInside(p)

\* A lost mutex ends the model: svm_msg_q_lock's error is ignored as well, and
\* from then on nothing keeps producers apart.
Goes == lock # Lost /\ UNCHANGED mode

Next == Goes /\ (Works \/ Damages)

Spec == Init /\ [][Next]_vars

\* A process inside the code goes on; nobody has to send.  Weak fairness is
\* enough for the mutex because the producers' messages are bounded.
FairSpec ==
  /\ Spec
  /\ \A p \in Producers : WF_vars(Goes /\ ProducerStep(p))
  /\ WF_vars(Goes /\ (ConsumerStep \/ ReadEmpty))

-----------------------------------------------------------------------------
(***************************************************************************)
(* Properties.                                                             *)
(***************************************************************************)
ProdStates == {"idle", "lock", "test", "sleep", "asleep", "relock", "alloc",
               "write", "publish", "signal", "unlock", "dead"}
ConsStates == {"idle", "lock", "test", "sleep", "asleep", "relock", "read",
               "readBatch", "decrement", "signalLock", "signal", "process",
               "freeTest", "freeDecrement"}

\* Every variable keeps its type; until the queue is damaged, indices stay in
\* their arrays and neither cursize passes its bounds or wraps.
TypeOK ==
  /\ lock \in Procs \cup {Free, Dead, Lost}
  /\ \A p \in Producers : pc[p] \in ProdStates
  /\ consPc \in ConsStates
  /\ ~ damaged =>
    /\ \A i \in 0 .. QItems - 1 : slots[i] \in Msg \cup {NoMsg}
    /\ qHead \in 0 .. QItems - 1 /\ qTail \in 0 .. QItems - 1
    /\ qSize \in 0 .. QItems
    /\ rHead \in [Rings -> 0 .. RingItems - 1]
    /\ rTail \in [Rings -> 0 .. RingItems - 1]
    /\ rSize \in [Rings -> 0 .. RingItems]

\* The queue is a bounded FIFO channel: the messages between tail - cursize and
\* tail, read through the rings, are the channel; what the consumer holds and
\* has read was received.  An element that is reused too early, a slot that is
\* overwritten or a size that drifts breaks this.  Every step that leaves the
\* queue undamaged is one of the channel's, or none.
ContentOf(m) == data[m.ring][m.elt]
Queued ==
  [i \in 1 .. qSize |-> ContentOf(QueueAt(qTail + QItems - qSize + i - 1))]
Held == [i \in DOMAIN got |-> ContentOf(got[i])]
Fifo == INSTANCE BoundedFifo WITH
          Msgs <- Content, Capacity <- QItems,
          chan <- Queued, received <- received \o Held
IsFifo ==
  /\ Fifo!Init
  /\ [][~ damaged' =>
        Fifo!Next \/ UNCHANGED <<Queued, received \o Held>>]_vars

\* svm_msq_q_msg_is_valid
MsgIsValid(m) ==
  LET dist1 == (RingItems + m.elt - rHead[m.ring]) % RingItems
      dist2 == IF rTail[m.ring] = rHead[m.ring]
                 THEN IF rSize[m.ring] = 0 THEN 0 ELSE RingItems
                 ELSE (RingItems + rTail[m.ring] - rHead[m.ring]) % RingItems
  IN  dist1 < dist2

\* The assertion of svm_msg_q_add and svm_msg_q_add_and_unlock: the message is
\* inside the used part of its ring, whatever the consumer frees meanwhile.
AddAssert ==
  ~ damaged => \A p \in Producers : msg[p] # NoMsg /\ pc[p] # "dead" => MsgIsValid(msg[p])

\* "for now, expect messages to be processed in order" (message_queue.c:309):
\* the message about to be freed is the oldest of its ring.
FreeExpectsOrder ==
  consPc = "process" /\ got # << >> => Head(got).elt = rHead[Head(got).ring]

\* The assertion of svm_msg_q_sub_raw: it is never called on an empty queue.
SubExpectsMsg == consPc = "read" /\ ~ Batch => ~ IsEmpty

\* No lost wake-up for the consumer: it sleeps only while the queue is empty,
\* or the producer that changed that is about to signal.
SleepsOnEmpty ==
  consPc = "asleep" /\ ~ IsEmpty => \E p \in Producers : pc[p] = "signal"

\* What holds of the three.
AllAlive == \A p \in Producers : pc[p] # "dead"

\* Messages are freed in the order of their ring while all producers live,
\* whatever the entry points and the interleaving of two rings, until something
\* has been dequeued that was not there.
FreeInOrder == AllAlive /\ ~ damaged => FreeExpectsOrder

\* Nothing is dequeued from an empty queue by a consumer that tests the size
\* itself (a batch, or no wait); nor, spurious wake-ups included, in
\* svm_msg_q_wait as long as no producer has died: then nothing is ever damaged.
SubAssert ==
  /\ ~ damaged /\ (Batch \/ Cond = "nowait") => SubExpectsMsg
  /\ AllAlive /\ Cond # "timedwait" => SubExpectsMsg /\ ~ damaged

\* The assertions of svm_msg_q_free_msg, svm_msg_q_sub_raw and svm_msg_q_add
\* hold, with two rings, every combination of entry points and spurious
\* wake-ups: elements are freed in ring order, nothing is dequeued from an
\* empty queue, and a message is valid until it is enqueued.  The timed wait
\* and a dead producer do lead to a dequeue from an empty queue, which is why
\* SubAssert excludes them and why the other two end there.
AssertsHold == FreeInOrder /\ SubAssert /\ AddAssert

\* A consumer in svm_msg_q_wait never sleeps on a message it was not told of.
ConsumerNotForgotten == AllAlive /\ Cond # "timedwait" => SleepsOnEmpty

\* No lost wake-up for a producer: it sleeps only while the queue or its ring
\* is full, or the consumer that changed that is about to signal.
ProducerNotForgotten ==
  \A p \in Producers :
    pc[p] = "asleep" /\ ~ Blocked(p) => consPc \in {"signalLock", "signal"}

\* A blocking svm_msg_q_lock_and_alloc_msg_w_ring comes back with a message
\* (message_queue.h:176, "flag that indicates if request should block"): the
\* producer is not left asleep when the consumer has made room.
ProducerServed ==
  \A p \in Producers : (pc[p] \in {"lock", "asleep"}) ~> (pc[p] = "idle")

\* A message in the queue reaches the consumer.
ConsumerServed ==
  \A c \in Content :
    (\E i \in 1 .. qSize : Queued[i] = c) ~>
    (\E i \in DOMAIN received : received[i] = c)

\* The consumer side takes no lock that outlives the call ("no locks are
\* grabbed", message_queue.h:223).
ConsumerKeepsNoLock == consPc \in {"idle", "process"} => lock # Consumer

\* svm_msg_q_add gives the mutex back: with "nowait" it is a "flag to indicate
\* if request is blocking or not" (message_queue.h:201), and only its sibling is
\* for callers "with mutex held" (message_queue.h:207).
AddKeepsNoLock == \A p \in Producers : pc[p] = "idle" => lock # p
=============================================================================
