----------------------------- MODULE SessionIo -----------------------------
(***************************************************************************)
(* How the two fifos of one session are announced: the session layer on a  *)
(* vpp worker and the VPP communications library (VCL) in an application   *)
(* share an rx and a tx fifo, the has_event flag of each, the dequeue      *)
(* notification flags of the tx fifo, and a message queue each way.  Data  *)
(* is a number of bytes (SvmFifo checks that the bytes are the right       *)
(* ones), a message is its event type "rx" or "tx".  Every test and every  *)
(* write of a shared flag is a step of its own.                            *)
(*                                                                         *)
(* The application uses the session in one of three ways: blocking calls   *)
(* ("block"), or an event loop over vppcom_epoll_wait, edge triggered      *)
(* ("et") or level triggered ("lt").  The loop reads when it was told it   *)
(* can, writes when it was told it can and it wants to, and waits again;   *)
(* edge triggered it goes on believing what it was told until a call says  *)
(* EWOULDBLOCK (or, for a read, returns less than was asked for).          *)
(***************************************************************************)
EXTENDS Integers, Sequences, FiniteSets, SequencesExt

CONSTANTS Modes,      \* ways of using the session: "block", "et", "lt"
          Peeks,      \* {TRUE}: tcp, sent data stays in the fifo till acked
          Size,       \* size of each fifo, in bytes
          AppQ,       \* elements of the application's message queue
          VppQ,       \* elements of the vpp worker's message queue
          Timeouts,   \* timeouts of epoll_wait: "zero", "timed", "inf"
          MaxMods,    \* bound on EPOLL_CTL_MOD calls
          MaxPostponed, \* bound on the list of postponed messages
          MaxElts     \* bound: elements at which none is made by a reschedule

ASSUME SessionIoAssumption ==
  /\ Modes \subseteq {"block", "et", "lt"} /\ Modes # {}
  /\ Peeks \subseteq BOOLEAN /\ Peeks # {}
  /\ {Size, AppQ, VppQ, MaxPostponed, MaxElts} \subseteq Nat \ {0}
  /\ Timeouts \subseteq {"zero", "timed", "inf"} /\ Timeouts # {}
  /\ MaxMods \in Nat

VARIABLES mode, peek,
          rx, rxEvent,          \* rx fifo: bytes in it, has_event
          tx, txEvent,          \* tx fifo: bytes in it, has_event
          want, hasNtf,         \* tx fifo: want_deq_ntf, has_deq_ntf
          off,                  \* bytes at the tx head sent and not acked
          appQ, vppQ,           \* messages to the application, count to vpp
          elts,                 \* TX elements on the worker's event lists
          desched,              \* TRANSPORT_CONNECTION_F_DESCHED
          accepting,            \* SESSION_STATE_ACCEPTING
          postponed, congested, \* app_wrk postponed_mq_msgs, mq_congested
          vpc, vn, voff, vwant, \* vpp worker: control and locals
          unhandled,            \* wrk->unhandled_evts_vector
          hasRx,                \* VCL_SESSION_F_HAS_RX_EVT
          lt,                   \* the session is on the level-triggered list
          outOn,                \* EPOLLOUT in s->vep.ev.events
          todo, rep,            \* events being handled, events reported
          canRead, canWrite,    \* what the application was told
          timeout, apc, an, awant, \* application: control and locals
          mods                  \* EPOLL_CTL_MOD calls made

fifos == <<rx, rxEvent, tx, txEvent, want, hasNtf>>
worker == <<off, elts, desched, accepting, postponed, congested,
            vpc, vn, voff, vwant>>
app == <<unhandled, hasRx, lt, outOn, todo, rep, canRead, canWrite,
         timeout, apc, an, awant, mods>>
setup == <<mode, peek>>
vars == <<setup, fifos, appQ, vppQ, worker, app>>

Ntf == {"any", "full"}   \* SVM_FIFO_WANT_DEQ_NOTIF, ..._IF_FULL
Evt == {"rx", "tx"}      \* SESSION_IO_EVT_RX, SESSION_IO_EVT_TX
Least(a, b) == IF a < b THEN a ELSE b

\* vec_add1 (wrk->unhandled_evts_vector, e).  A second event of a type finds
\* nothing to do when the first is handled, so one of each is kept.
AddUnhandled(e) == IF Contains(unhandled, e) THEN unhandled
                                              ELSE Append(unhandled, e)

\* Ring elements of the application's queue in use: those in the queue and
\* those of the batch being handled, which svm_msg_q_free_msg frees in turn.
RingInUse == Len(appQ) + IF apc \in {"mq", "mqUnset", "mqAgain"} THEN Len(todo) ELSE 0
RingFull == RingInUse >= AppQ

Init ==
  /\ mode \in Modes /\ peek \in Peeks
  /\ rx = 0 /\ rxEvent = FALSE /\ tx = 0 /\ txEvent = FALSE
  /\ want = {} /\ hasNtf = FALSE /\ off = 0
  /\ appQ = <<>> /\ vppQ = 0 /\ elts = 0 /\ desched = FALSE
  /\ accepting \in BOOLEAN
  /\ postponed = <<>> /\ congested = FALSE
  /\ vpc = "idle" /\ vn = 0 /\ voff = 0 /\ vwant = {}
  /\ unhandled = <<>> /\ hasRx = FALSE /\ lt = FALSE /\ outOn = FALSE
  /\ todo = <<>> /\ rep = {} /\ canRead = FALSE /\ canWrite = FALSE
  /\ timeout = "zero" /\ an = 0 /\ awant = {} /\ mods = 0
  /\ apc = IF mode = "block" THEN "ep" ELSE "add"

-----------------------------------------------------------------------------
(* The vpp worker.  A bound: it starts nothing that may postpone a message *)
(* while the list of postponed messages is at MaxPostponed.                *)

VGoto(l) ==
  /\ vpc' = l
  /\ IF l = "idle" THEN vn' = 0 /\ voff' = 0 /\ vwant' = {}
                   ELSE UNCHANGED <<vn, voff, vwant>>
Idle == vpc = "idle" /\ Len(postponed) < MaxPostponed

\* session_enqueue_stream_connection and the flush of the enqueue events:
\* nothing is sent before the application has confirmed the accept.
RxEnqueue ==
  /\ Idle
  /\ \E n \in 1..(Size - rx) : rx' = rx + n
  /\ VGoto(IF accepting THEN "idle" ELSE "rxTest")
  /\ UNCHANGED <<rxEvent, tx, txEvent, want, hasNtf, off, elts, desched,
                 accepting, postponed, congested, appQ, vppQ, app, setup>>

\* session_mq_accepted_reply_handler
AcceptReply ==
  /\ Idle /\ accepting
  /\ accepting' = FALSE
  /\ VGoto(IF rx > 0 THEN "rxTest" ELSE "idle")
  /\ UNCHANGED <<fifos, off, elts, desched, postponed, congested, appQ, vppQ,
                 app, setup>>

\* app_wrk_add_mq_postponed_msg: the queue is full, its lock is contended by
\* another worker, or messages are already postponed.
Postpone(e) ==
  /\ postponed' = Append(postponed, e)
  /\ congested' = TRUE
  /\ UNCHANGED appQ

\* app_send_io_evt_rx: an event is pending already, or there is no element
\* for the message (the flag is not set then), or the flag is set and the
\* message added.
RxTest ==
  /\ vpc = "rxTest"
  /\ \/ /\ rxEvent
        /\ VGoto("idle")
        /\ UNCHANGED <<postponed, congested, appQ>>
     \/ /\ ~rxEvent
        /\ Postpone("rx")
        /\ VGoto("idle")
     \/ /\ ~rxEvent /\ ~congested /\ ~RingFull
        /\ VGoto("rxSet")
        /\ UNCHANGED <<postponed, congested, appQ>>
  /\ UNCHANGED <<fifos, off, elts, desched, accepting, vppQ, app, setup>>

RxSet ==
  /\ vpc = "rxSet"
  /\ rxEvent' = TRUE
  /\ VGoto("rxAdd")
  /\ UNCHANGED <<rx, tx, txEvent, want, hasNtf, off, elts, desched, accepting,
                 postponed, congested, appQ, vppQ, app, setup>>

RxAdd ==
  /\ vpc = "rxAdd"
  /\ appQ' = Append(appQ, "rx")
  /\ VGoto("idle")
  /\ UNCHANGED <<fifos, off, elts, desched, accepting, postponed, congested,
                 vppQ, app, setup>>

\* app_wrk_handle_mq_postponed_msgs: k messages find an element; the rest
\* waits for the next run of the handler.
HandlePostponed(k) ==
  /\ vpc = "idle" /\ postponed # <<>>
  /\ k <= Least(Len(postponed), AppQ - RingInUse)
  /\ appQ' = appQ \o SubSeq(postponed, 1, k)
  /\ postponed' = SubSeq(postponed, k + 1, Len(postponed))
  /\ congested' = (postponed' # <<>>)
  /\ UNCHANGED <<fifos, off, elts, desched, accepting, vpc, vn, voff, vwant,
                 vppQ, app, setup>>

\* session_wrk_handle_mq
MqPoll ==
  /\ vpc = "idle" /\ vppQ > 0
  /\ elts' = elts + vppQ
  /\ vppQ' = 0
  /\ UNCHANGED <<fifos, off, desched, accepting, postponed, congested, vpc,
                 vn, voff, vwant, appQ, app, setup>>

\* session_tx_fifo_read_and_snd_i is given an element.  Before the accept is
\* confirmed a tcp session's element only goes back to the old list.
TxTake == Idle /\ elts > 0 /\ ~(peek /\ accepting)

\* ... the transport has no room to send: tcp asks for the session to leave
\* the scheduler until it reschedules it, a pacer keeps the element.
TxNoSpace ==
  /\ TxTake
  /\ \/ peek /\ desched' = TRUE /\ elts' = elts - 1
     \/ desched' = FALSE /\ UNCHANGED elts
  /\ UNCHANGED <<fifos, off, accepting, postponed, congested, vpc, vn, voff,
                 vwant, appQ, vppQ, app, setup>>

\* session_tx_fill_buffer: tcp leaves the bytes it sends in the fifo and
\* advances the offset, any other transport dequeues them.
FillBuffer(n) == IF peek THEN off' = off + n /\ UNCHANGED tx
                         ELSE tx' = tx - n /\ UNCHANGED off

\* ... or it sends n of the bytes not sent yet.  If those are all,
\* session_tx_maybe_reschedule compares with the offset of after the send.
Unsent == tx - off
TxSend ==
  /\ TxTake
  /\ desched' = FALSE
  /\ \E n \in (IF Unsent = 0 THEN {0} ELSE 1..Unsent) :
       /\ FillBuffer(n)
       /\ IF n < Unsent
          THEN UNCHANGED elts /\ vpc' = IF peek THEN "idle" ELSE "ntf"
          ELSE elts' = elts - 1 /\ vpc' = "txUnset"
       /\ IF vpc' = "idle" THEN UNCHANGED <<vn, voff>>
                           ELSE vn' = n /\ voff' = off'
  /\ UNCHANGED <<rx, rxEvent, txEvent, want, hasNtf, accepting, postponed,
                 congested, vwant, appQ, vppQ, app, setup>>

\* session_tx_maybe_reschedule: clear the flag, look again, and keep the
\* element if the application has not sent one in the meantime.
AfterTx == IF peek \/ vn = 0 THEN "idle" ELSE "ntf"

TxUnset ==
  /\ vpc = "txUnset"
  /\ txEvent' = FALSE
  /\ VGoto("txTest")
  /\ UNCHANGED <<rx, rxEvent, tx, want, hasNtf, off, elts, desched, accepting,
                 postponed, congested, appQ, vppQ, app, setup>>

\* (mutant) no second look after the flag was cleared.
TxTestNoSecondLook ==
  /\ vpc = "txTest"
  /\ VGoto(AfterTx) /\ desched' = TRUE
  /\ UNCHANGED <<fifos, off, elts, accepting, postponed, congested, appQ,
                 vppQ, app, setup>>

TxTest ==
  /\ vpc = "txTest"
  /\ IF tx > voff THEN VGoto("txSwap") /\ UNCHANGED desched
                  ELSE VGoto(AfterTx) /\ desched' = TRUE
  /\ UNCHANGED <<fifos, off, elts, accepting, postponed, congested, appQ,
                 vppQ, app, setup>>

\* (mutant) the result of svm_fifo_set_event taken the wrong way.
TxSwapInverted ==
  /\ vpc \in {"txSwap", "rsSwap"}
  /\ txEvent' = TRUE
  /\ elts' = IF txEvent THEN elts + 1 ELSE elts
  /\ VGoto(IF vpc = "txSwap" THEN AfterTx ELSE "idle")
  /\ UNCHANGED <<rx, rxEvent, tx, want, hasNtf, off, desched, accepting,
                 postponed, congested, appQ, vppQ, app, setup>>

TxSwap ==
  /\ vpc \in {"txSwap", "rsSwap"}
  /\ txEvent' = TRUE
  /\ elts' = IF txEvent THEN elts ELSE elts + 1
  /\ VGoto(IF vpc = "txSwap" THEN AfterTx ELSE "idle")
  /\ UNCHANGED <<rx, rxEvent, tx, want, hasNtf, off, desched, accepting,
                 postponed, congested, appQ, vppQ, app, setup>>

\* tcp_handle_postponed_dequeues, session_tx_fifo_dequeue_drop: acked bytes
\* leave the fifo.
Ack ==
  /\ Idle /\ peek
  /\ \E k \in 1..off : tx' = tx - k /\ off' = off - k /\ vn' = k
  /\ vpc' = "ntf"
  /\ UNCHANGED <<rx, rxEvent, txEvent, want, hasNtf, voff, vwant, elts,
                 desched, accepting, postponed, congested, appQ, vppQ, app,
                 setup>>

\* (mutant) only a dequeue from more than full counts.
NeedsDeqNtfOffByOne(n) ==
  \/ "any" \in want
  \/ "full" \in want /\ ~hasNtf /\ tx < Size /\ tx + n > Size

\* svm_fifo_needs_deq_ntf (the dequeue threshold is left at zero)
NeedsDeqNtf(n) ==
  \/ "any" \in want
  \/ "full" \in want /\ ~hasNtf /\ tx < Size /\ tx + n >= Size

NtfTest ==
  /\ vpc = "ntf"
  /\ VGoto(IF NeedsDeqNtf(vn) THEN "clear" ELSE
           IF peek THEN "resched" ELSE "idle")
  /\ UNCHANGED <<fifos, off, elts, desched, accepting, postponed, congested,
                 appQ, vppQ, app, setup>>

\* session_dequeue_notify, svm_fifo_clear_deq_ntf: want_deq_ntf is loaded
\* and stored back without the flag, not atomically.
NtfClear ==
  /\ vpc = "clear"
  /\ hasNtf' = (want = {"full"})
  /\ vwant' = want
  /\ vpc' = "store"
  /\ UNCHANGED <<rx, rxEvent, tx, txEvent, want, vn, voff, off, elts, desched,
                 accepting, postponed, congested, appQ, vppQ, app, setup>>

NtfStore ==
  /\ vpc = "store"
  /\ want' = vwant \ {"any"}
  /\ vwant' = {}
  /\ vpc' = "send"
  /\ UNCHANGED <<rx, rxEvent, tx, txEvent, hasNtf, vn, voff, off, elts,
                 desched, accepting, postponed, congested, appQ, vppQ, app,
                 setup>>

\* app_send_io_evt_tx
NtfSend ==
  /\ vpc = "send"
  /\ \/ Postpone("tx")
     \/ /\ ~congested /\ ~RingFull
        /\ appQ' = Append(appQ, "tx")
        /\ UNCHANGED <<postponed, congested>>
  /\ VGoto(IF peek THEN "resched" ELSE "idle")
  /\ UNCHANGED <<fifos, off, elts, desched, accepting, vppQ, app, setup>>

\* transport_connection_reschedule, called by tcp for a descheduled
\* connection that can send again: after acked bytes were dropped, or on a
\* window update.  With data in the fifo, acked or not, a new element is made
\* whatever the flag says.
Reschedule ==
  /\ vpc \in {"idle", "resched"} /\ peek /\ desched
  /\ elts + vppQ < MaxElts
  /\ desched' = FALSE
  /\ IF tx > 0 THEN elts' = elts + 1 /\ UNCHANGED txEvent /\ VGoto("idle")
               ELSE txEvent' = FALSE /\ UNCHANGED elts /\ VGoto("rsTest")
  /\ UNCHANGED <<rx, rxEvent, tx, want, hasNtf, off, accepting, postponed,
                 congested, appQ, vppQ, app, setup>>

RescheduleTest ==
  /\ vpc = "rsTest"
  /\ VGoto(IF tx > 0 THEN "rsSwap" ELSE "idle")
  /\ UNCHANGED <<fifos, off, elts, desched, accepting, postponed, congested,
                 appQ, vppQ, app, setup>>

\* ... not descheduled, or no room yet
NoReschedule ==
  /\ vpc = "resched"
  /\ VGoto("idle")
  /\ UNCHANGED <<fifos, off, elts, desched, accepting, postponed, congested,
                 appQ, vppQ, app, setup>>

-----------------------------------------------------------------------------
(* The application and VCL.                                                *)

AGoto(l) == apc' = l
appRest == <<unhandled, hasRx, lt, outOn, todo, rep, canRead, canWrite,
             timeout, an, awant, mods>>
Told == IF mode = "et" THEN <<canRead, canWrite>> ELSE <<FALSE, FALSE>>

\* vppcom_epoll_ctl, EPOLL_CTL_ADD with EPOLLIN and EPOLLOUT.  No flag was
\* wanted before, so vpp does not store into want_deq_ntf at the same time.
EpollAdd ==
  /\ apc = "add"
  /\ want' = want \union {"full"}
  /\ outOn' = TRUE
  /\ unhandled' = <<"tx">> \o IF rx > 0 THEN <<"rx">> ELSE <<>>
  /\ AGoto("ep")
  /\ UNCHANGED <<rx, rxEvent, tx, txEvent, hasNtf, hasRx, lt, todo, rep,
                 canRead, canWrite, timeout, an, awant, mods, appQ, vppQ,
                 worker, setup>>

\* EPOLL_CTL_MOD switches EPOLLOUT on or off; want_deq_ntf is loaded ...
EpollMod ==
  /\ apc = "ep" /\ mode # "block" /\ mods < MaxMods
  /\ outOn' = ~outOn
  /\ unhandled' = IF outOn' /\ tx < Size THEN AddUnhandled("tx") ELSE unhandled
  /\ awant' = want
  /\ mods' = mods + 1
  /\ AGoto("modStore")
  /\ UNCHANGED <<fifos, hasRx, lt, todo, rep, canRead, canWrite, timeout, an,
                 appQ, vppQ, worker, setup>>

\* ... and stored back
EpollModStore ==
  /\ apc = "modStore"
  /\ want' = IF outOn THEN awant \union {"full"} ELSE awant \ {"full"}
  /\ awant' = {}
  /\ AGoto("ep")
  /\ UNCHANGED <<rx, rxEvent, tx, txEvent, hasNtf, unhandled, hasRx, lt, outOn,
                 todo, rep, canRead, canWrite, timeout, an, mods, appQ, vppQ,
                 worker, setup>>

\* vppcom_session_read_internal: nothing to read when the call is made
ReadEmpty ==
  /\ apc = "rd" /\ rx = 0
  /\ mode = "block" \/ canRead
  /\ hasRx' = FALSE
  /\ AGoto("wouldBlock")
  /\ UNCHANGED <<fifos, unhandled, lt, outOn, todo, rep, canRead, canWrite,
                 timeout, an, awant, mods, appQ, vppQ, worker, setup>>

\* ... the flag is cleared, and the call returns EWOULDBLOCK or waits
ReadWouldBlock ==
  /\ apc = "wouldBlock"
  /\ rxEvent' = FALSE
  /\ canRead' = FALSE
  /\ AGoto(IF mode = "block" THEN "rdWait" ELSE "wr")
  /\ UNCHANGED <<rx, tx, txEvent, want, hasNtf, unhandled, hasRx, lt, outOn,
                 todo, rep, canWrite, timeout, an, awant, mods, appQ, vppQ,
                 worker, setup>>

\* svm_msg_q_wait and vcl_worker_flush_mq_events: every message of the queue
\* moves to the unhandled events, which an application that only blocks never
\* looks at (they are left out here), and the call tests its fifo again.
WaitFlush ==
  /\ apc \in {"rdWait", "wrWait"} /\ appQ # <<>>
  /\ appQ' = <<>>
  /\ \/ apc = "rdWait" /\ rx = 0 /\ AGoto("wouldBlock")
     \/ apc = "rdWait" /\ rx > 0 /\ AGoto("rd")
     \/ apc = "wrWait" /\ tx = Size /\ AGoto("wrLoad")
     \/ apc = "wrWait" /\ tx < Size /\ AGoto("wr")
  /\ UNCHANGED <<fifos, appRest, vppQ, worker, setup>>

\* app_recv_stream_raw, for a call that asks for n bytes, and again while
\* bytes arrive and the buffer is not full
Dequeue(n) ==
  /\ rx > 0 /\ rx' = rx - Least(n, rx)
  /\ an' = n - Least(n, rx)
  /\ hasRx' = FALSE
  /\ AGoto("rdTest")
  /\ UNCHANGED <<rxEvent, tx, txEvent, want, hasNtf, unhandled, lt, outOn, todo,
                 rep, canRead, canWrite, timeout, awant, mods, appQ, vppQ,
                 worker, setup>>
ReadSome == \/ /\ apc = "rd"
               /\ mode = "block" \/ canRead
               /\ \E n \in 1..Size : Dequeue(n)
            \/ apc = "rdTest" /\ an > 0 /\ Dequeue(an)

\* The call returns.  Told of a short read, an edge-triggered application
\* may stop reading; level triggered it reads once per report.
ReadReturns ==
  /\ canRead' \in (IF mode # "et" THEN {FALSE}
                   ELSE IF an > 0 THEN BOOLEAN ELSE {TRUE})
  /\ an' = 0
  /\ AGoto(IF mode = "block" THEN "ep" ELSE "wr")

ReadDone ==
  /\ \/ apc = "rdTest" /\ rx > 0 /\ an = 0
     \/ apc = "rdRetest" /\ rx = 0
  /\ ReadReturns
  /\ UNCHANGED <<fifos, unhandled, hasRx, lt, outOn, todo, rep, canWrite,
                 timeout, awant, mods, appQ, vppQ, worker, setup>>

\* The read emptied the fifo: clear the flag and look again.
ReadEmptied ==
  /\ apc = "rdTest" /\ rx = 0
  /\ AGoto("rdUnset")
  /\ UNCHANGED <<fifos, appRest, appQ, vppQ, worker, setup>>

ReadUnset ==
  /\ apc = "rdUnset"
  /\ rxEvent' = FALSE
  /\ AGoto("rdRetest")
  /\ UNCHANGED <<rx, tx, txEvent, want, hasNtf, appRest, appQ, vppQ, worker,
                 setup>>

ReadRetest ==
  /\ apc = "rdRetest" /\ rx > 0
  /\ AGoto("rdSwap")
  /\ UNCHANGED <<fifos, appRest, appQ, vppQ, worker, setup>>

\* (mutant) the flag is set again and no event is made.
ReadSwapNoEvent ==
  /\ apc = "rdSwap"
  /\ rxEvent' = TRUE
  /\ ReadReturns
  /\ UNCHANGED <<rx, tx, txEvent, want, hasNtf, unhandled, hasRx, lt, outOn,
                 todo, rep, canWrite, timeout, awant, mods, appQ, vppQ, worker,
                 setup>>

\* Data came in between: if vpp has not sent an event for it, make one.
ReadSwap ==
  /\ apc = "rdSwap"
  /\ rxEvent' = TRUE
  /\ unhandled' = IF ~rxEvent /\ mode # "block" THEN AddUnhandled("rx")
                                                ELSE unhandled
  /\ ReadReturns
  /\ UNCHANGED <<rx, tx, txEvent, want, hasNtf, hasRx, lt, outOn, todo, rep,
                 canWrite, timeout, awant, mods, appQ, vppQ, worker, setup>>

\* No read in this turn
NoRead ==
  /\ apc = "rd" /\ mode # "block" /\ ~canRead
  /\ AGoto("wr")
  /\ UNCHANGED <<fifos, appRest, appQ, vppQ, worker, setup>>

\* vppcom_session_write_inline: room for some of the n bytes
Write ==
  /\ apc = "wr" /\ tx < Size
  /\ mode = "block" \/ canWrite
  /\ \E n \in 1..Size : tx' = tx + Least(n, Size - tx)
  /\ AGoto("wrSwap")
  /\ UNCHANGED <<rx, rxEvent, txEvent, want, hasNtf, appRest, appQ, vppQ,
                 worker, setup>>

\* svm_fifo_set_event
WriteSwap ==
  /\ apc = "wrSwap"
  /\ txEvent' = TRUE
  /\ AGoto(IF txEvent THEN "ep" ELSE "wrSend")
  /\ UNCHANGED <<rx, rxEvent, tx, want, hasNtf, appRest, appQ, vppQ, worker,
                 setup>>

\* app_send_io_evt_to_vpp waits for room in the queue.
WriteSend ==
  /\ apc = "wrSend" /\ vppQ < VppQ
  /\ vppQ' = vppQ + 1
  /\ AGoto("ep")
  /\ UNCHANGED <<fifos, appRest, appQ, worker, setup>>

\* No room: EWOULDBLOCK, or ask for a notification and wait for a message;
\* want_deq_ntf is loaded ...
WriteFull ==
  /\ apc = "wr" /\ tx = Size
  /\ mode = "block" \/ canWrite
  /\ canWrite' = FALSE
  /\ AGoto(IF mode = "block" THEN "wrLoad" ELSE "ep")
  /\ UNCHANGED <<fifos, unhandled, hasRx, lt, outOn, todo, rep, canRead,
                 timeout, an, awant, mods, appQ, vppQ, worker, setup>>

WriteLoad ==
  /\ apc = "wrLoad"
  /\ awant' = want
  /\ AGoto("wrStore")
  /\ UNCHANGED <<fifos, unhandled, hasRx, lt, outOn, todo, rep, canRead,
                 canWrite, timeout, an, mods, appQ, vppQ, worker, setup>>

\* ... and stored back
WriteStore ==
  /\ apc = "wrStore"
  /\ want' = awant \union {"any"}
  /\ awant' = {}
  /\ AGoto("wrWait")
  /\ UNCHANGED <<rx, rxEvent, tx, txEvent, hasNtf, unhandled, hasRx, lt, outOn,
                 todo, rep, canRead, canWrite, timeout, an, mods, appQ, vppQ,
                 worker, setup>>

\* No write in this turn
NoWrite ==
  /\ apc = "wr" /\ mode # "block"
  /\ AGoto("ep")
  /\ UNCHANGED <<fifos, appRest, appQ, vppQ, worker, setup>>

\* A blocking application makes its next call.
NextCall ==
  /\ apc = "ep" /\ mode = "block"
  /\ AGoto("rd") \/ AGoto("wr")
  /\ UNCHANGED <<fifos, appRest, appQ, vppQ, worker, setup>>

-----------------------------------------------------------------------------
(* vppcom_epoll_wait: the unhandled events, then the level-triggered list, *)
(* then the message queue.                                                 *)

\* An application that has something left to read does not sleep.
EpollWait ==
  /\ apc = "ep" /\ mode # "block"
  /\ timeout' \in IF mode = "et" /\ canRead THEN {"zero"} ELSE Timeouts
  /\ todo' = unhandled
  /\ unhandled' = <<>>
  /\ rep' = {}
  /\ canRead' = Told[1] /\ canWrite' = Told[2]
  /\ AGoto("unh")
  /\ UNCHANGED <<fifos, hasRx, lt, outOn, an, awant, mods, appQ, vppQ,
                 worker, setup>>

\* vcl_epoll_wait_handle_mq_event.  An rx event of an empty fifo clears the
\* flag and tests again (vcl_fifo_rx_evt_valid_or_break).
Handling == todo # <<>> /\ apc \in {"unh", "mq", "unhAgain", "mqAgain"}
First == CASE apc \in {"unh", "unhUnset", "unhAgain"} -> "unh"
           [] apc \in {"mq", "mqUnset", "mqAgain"} -> "mq"
           [] OTHER -> apc

HandleRxEmpty ==
  /\ apc \in {"unh", "mq"} /\ todo # <<>> /\ Head(todo) = "rx" /\ rx = 0
  /\ AGoto(IF apc = "unh" THEN "unhUnset" ELSE "mqUnset")
  /\ UNCHANGED <<fifos, appRest, appQ, vppQ, worker, setup>>

\* (mutant) no second test after the flag was cleared.
HandleRxUnsetNoSecondTest ==
  /\ apc \in {"unhUnset", "mqUnset"}
  /\ rxEvent' = FALSE
  /\ todo' = Tail(todo)
  /\ AGoto(First)
  /\ UNCHANGED <<rx, tx, txEvent, want, hasNtf, unhandled, hasRx, lt, outOn,
                 rep, canRead, canWrite, timeout, an, awant, mods, appQ, vppQ,
                 worker, setup>>

HandleRxUnset ==
  /\ apc \in {"unhUnset", "mqUnset"}
  /\ rxEvent' = FALSE
  /\ AGoto(IF apc = "unhUnset" THEN "unhAgain" ELSE "mqAgain")
  /\ UNCHANGED <<rx, tx, txEvent, want, hasNtf, appRest, appQ, vppQ, worker,
                 setup>>

HandleRxStillEmpty ==
  /\ apc \in {"unhAgain", "mqAgain"} /\ rx = 0
  /\ todo' = Tail(todo)
  /\ AGoto(First)
  /\ UNCHANGED <<fifos, unhandled, hasRx, lt, outOn, rep, canRead, canWrite,
                 timeout, an, awant, mods, appQ, vppQ, worker, setup>>

\* ... one report until the application reads, none if the session is
\* polled on the level-triggered list anyway
Reports == ~hasRx /\ ~lt
HandleRx ==
  /\ Handling /\ Head(todo) = "rx" /\ rx > 0
  /\ IF Reports
     THEN rep' = rep \union {"rx"} /\ hasRx' = TRUE /\ lt' = (mode = "lt")
     ELSE UNCHANGED <<rep, hasRx, lt>>
  /\ todo' = Tail(todo)
  /\ AGoto(First)
  /\ UNCHANGED <<fifos, unhandled, outOn, canRead, canWrite, timeout, an,
                 awant, mods, appQ, vppQ, worker, setup>>

\* (mutant) has_deq_ntf is not reset.
HandleTxKeepsNtf ==
  /\ Handling /\ Head(todo) = "tx"
  /\ IF outOn
     THEN rep' = rep \union {"tx"} /\ lt' = (lt \/ mode = "lt")
     ELSE UNCHANGED <<rep, lt>>
  /\ todo' = Tail(todo)
  /\ UNCHANGED <<fifos, apc, unhandled, hasRx, outOn, canRead, canWrite,
                 timeout, an, awant, mods, appQ, vppQ, worker, setup>>

HandleTx ==
  /\ Handling /\ Head(todo) = "tx"
  /\ IF outOn
     THEN rep' = rep \union {"tx"} /\ hasNtf' = FALSE /\ lt' = (lt \/ mode = "lt")
     ELSE UNCHANGED <<rep, hasNtf, lt>>
  /\ todo' = Tail(todo)
  /\ UNCHANGED <<rx, rxEvent, tx, txEvent, want, apc, unhandled, hasRx, outOn,
                 canRead, canWrite, timeout, an, awant, mods, appQ, vppQ,
                 worker, setup>>

UnhandledDone ==
  /\ apc = "unh" /\ todo = <<>>
  /\ AGoto(IF lt THEN "ltIn" ELSE "mqWait")
  /\ UNCHANGED <<fifos, appRest, appQ, vppQ, worker, setup>>

\* vcl_epoll_wait_handle_lt: a session with nothing to report leaves the
\* list.  (A read event reported in this call has data to be read, so the
\* test for it is the one reported.)
LtIn ==
  /\ apc = "ltIn"
  /\ rep' = IF rx > 0 THEN rep \union {"rx"} ELSE rep
  /\ AGoto("ltOut")
  /\ UNCHANGED <<fifos, unhandled, hasRx, lt, outOn, todo, canRead, canWrite,
                 timeout, an, awant, mods, appQ, vppQ, worker, setup>>

LtOut ==
  /\ apc = "ltOut"
  /\ LET out == outOn /\ tx < Size
     IN  /\ rep' = IF out THEN rep \union {"tx"} ELSE rep
         /\ lt' = (out \/ "rx" \in rep)
  /\ AGoto("mqWait")
  /\ UNCHANGED <<fifos, unhandled, hasRx, outOn, todo, canRead, canWrite,
                 timeout, an, awant, mods, appQ, vppQ, worker, setup>>

\* vcl_epoll_wait_handle_mq takes what the queue holds ...
MqDequeue ==
  /\ apc = "mqWait" /\ appQ # <<>>
  /\ todo' = appQ
  /\ appQ' = <<>>
  /\ AGoto("mq")
  /\ UNCHANGED <<fifos, unhandled, hasRx, lt, outOn, rep, canRead, canWrite,
                 timeout, an, awant, mods, vppQ, worker, setup>>

EpollReturns ==
  /\ canRead' = (canRead \/ "rx" \in rep)
  /\ canWrite' = (canWrite \/ "tx" \in rep)
  /\ rep' = {} /\ timeout' = "zero"
  /\ AGoto("rd")

\* ... or returns without waiting, or after the timeout; events found before
\* do not keep it from waiting.
EpollTimeout ==
  /\ apc = "mqWait" /\ appQ = <<>> /\ timeout # "inf"
  /\ EpollReturns
  /\ UNCHANGED <<fifos, unhandled, hasRx, lt, outOn, todo, an, awant, mods,
                 appQ, vppQ, worker, setup>>

\* vppcom_epoll_wait_condvar: return with events, else wait again
EpollLoop ==
  /\ apc = "mq" /\ todo = <<>>
  /\ \/ /\ rep # {} \/ timeout # "inf"
        /\ EpollReturns
     \/ /\ rep = {} /\ timeout # "zero"
        /\ AGoto("mqWait")
        /\ UNCHANGED <<canRead, canWrite, rep, timeout>>
  /\ UNCHANGED <<fifos, unhandled, hasRx, lt, outOn, todo, an, awant, mods,
                 appQ, vppQ, worker, setup>>

-----------------------------------------------------------------------------
\* What the worker does from one event to the next
VppStep ==
  \/ RxTest \/ RxSet \/ RxAdd \/ TxUnset \/ TxTest \/ TxSwap
  \/ NtfTest \/ NtfClear \/ NtfStore \/ NtfSend
  \/ RescheduleTest \/ NoReschedule

AppStep ==
  \/ EpollAdd \/ EpollMod \/ EpollModStore
  \/ ReadEmpty \/ ReadWouldBlock \/ WaitFlush \/ ReadSome \/ ReadDone
  \/ ReadEmptied \/ ReadUnset \/ ReadRetest \/ ReadSwap \/ NoRead
  \/ Write \/ WriteSwap \/ WriteSend \/ WriteFull \/ WriteLoad \/ WriteStore
  \/ NoWrite \/ NextCall
  \/ EpollWait \/ HandleRxEmpty \/ HandleRxUnset \/ HandleRxStillEmpty
  \/ HandleRx \/ HandleTx \/ UnhandledDone
  \/ LtIn \/ LtOut \/ MqDequeue \/ EpollTimeout \/ EpollLoop

Next ==
  \/ RxEnqueue \/ AcceptReply \/ MqPoll \/ TxNoSpace \/ TxSend \/ Ack
  \/ Reschedule \/ (\E k \in 0..MaxPostponed : HandlePostponed(k))
  \/ VppStep \/ AppStep

Spec == Init /\ [][Next]_vars

\* The worker finishes what it is doing and its session node keeps running;
\* a transport asked again and again has room to send in the end, its peer
\* acknowledges what it was sent, and it reschedules what it descheduled.
\* The application keeps running.  The peer need not send anything.
Fairness ==
  /\ WF_vars(VppStep)
  /\ WF_vars(AppStep)
  /\ SF_vars(AcceptReply)
  /\ SF_vars(MqPoll)
  /\ SF_vars(\E k \in 1..MaxPostponed : HandlePostponed(k))
  /\ SF_vars(TxSend)
  /\ SF_vars(Ack)
  /\ SF_vars(Reschedule)
FairSpec == Spec /\ Fairness

-----------------------------------------------------------------------------
\* Types and bounds of the state; in particular the application's queue never
\* holds more messages than its ring has elements.
TypeOK ==
  /\ mode \in Modes /\ peek \in Peeks
  /\ rx \in 0..Size /\ tx \in 0..Size /\ off \in 0..tx
  /\ {rxEvent, txEvent, hasNtf, desched, accepting, congested, hasRx, lt,
      outOn, canRead, canWrite} \subseteq BOOLEAN
  /\ want \subseteq Ntf /\ vwant \subseteq Ntf /\ awant \subseteq Ntf
  /\ appQ \in Seq(Evt) /\ RingInUse <= AppQ /\ vppQ \in 0..VppQ
  /\ elts \in Nat /\ Len(postponed) <= MaxPostponed
  /\ vn \in 0..Size /\ voff \in 0..Size /\ an \in 0..Size
  /\ unhandled \in Seq(Evt) /\ todo \in Seq(Evt) /\ rep \subseteq Evt
  /\ mods \in 0..MaxMods

\* Nothing is under way from vpp to the application.
Quiet == appQ = <<>> /\ postponed = <<>> /\ vpc = "idle" /\ ~accepting

\* Nothing is under way, and the application's epoll_wait has found nothing.
Asleep == Quiet /\ apc = "mqWait" /\ rep = {} /\ ~lt

\* An event loop is never left asleep on received data: between vpp's test of
\* has_event, its late setting of it, the reads that clear it, the events
\* dropped because one was reported and those postponed, one is always left
\* that makes epoll_wait report the data.
NoLostRx == Asleep /\ ~canRead => rx = 0

\* An event loop that was refused a write is not left asleep once the tx fifo
\* has room: the one notification per "became not full" that has_deq_ntf
\* allows is neither lost nor used up by a stale event.
NoLostWrite == Asleep /\ ~canWrite /\ outOn /\ mods = 0 => tx = Size

\* Written data is never stranded: if the worker has no element for the
\* session and no message on its way, the application is about to send one,
\* or the transport is tcp, which took the session off the scheduler and will
\* put it back.  For any other transport nobody would.
NoLostTx ==
  vpc = "idle" /\ vppQ = 0 /\ elts = 0 /\ Unsent > 0
    => apc \in {"wrSwap", "wrSend"} \/ (peek /\ desched /\ txEvent)

\* Under fairness: an event loop keeps reading while there is data ...
RxServed == mode # "block" => []<>(rx = 0) \/ []<><<ReadSome>>_vars

\* ... the worker keeps sending while there is data to send ...
TxServed == []<>(Unsent = 0) \/ []<><<TxSend>>_vars

\* ... and one that was refused a write is told when it can write again.
WriterServed ==
  mode # "block" => ((~canWrite /\ outOn) ~> (canWrite \/ mods > 0))

-----------------------------------------------------------------------------
(* What the code says and does not do.                                     *)

\* session_enqueue_notify_inline: "Notify session peer that new data has been
\* enqueued."  A blocking reader asleep with nothing under way has nothing to
\* read.
ReaderNotForgotten == Quiet /\ apc = "rdWait" => rx = 0

\* SVM_FIFO_WANT_DEQ_NOTIF: "Notify on dequeue".  A blocking writer asleep
\* with nothing under way has a fifo vpp still has to dequeue from.
WriterNotForgotten == Quiet /\ apc = "wrWait" => tx > 0

\* SVM_FIFO_WANT_DEQ_NOTIF_IF_FULL: "Notify on transition from full", also
\* after the interest was switched off and on.
NoLostWriteMod == Asleep /\ ~canWrite /\ outOn => tx = Size

\* An epoll_wait that has found events returns them and does not sleep.
ReportsAtOnce == apc = "mqWait" /\ appQ = <<>> /\ timeout = "inf" => rep = {}
=============================================================================
