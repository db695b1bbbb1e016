----------------------------- MODULE FrameQueue -----------------------------
(***************************************************************************)
(* Handing buffers from one thread to another: the multi-producer rings of *)
(* vlib_frame_queue_t (src/src/vlib/buffer_funcs.c, threads.c) and the     *)
(* part of the main loop that polls them (src/src/vlib/main.c).            *)
(*                                                                         *)
(* Every thread owns one ring of NElts slots.  Any thread may claim the    *)
(* slot after tail with a compare-and-swap, fill it, publish it with       *)
(* valid = 1 and set check_frame_queues of the owner.  The owner empties   *)
(* slots in order from head.  A thread does one thing at a time: it polls  *)
(* its ring at the head of its loop and hands off while it dispatches.     *)
(*                                                                         *)
(* A buffer is <<thread, n>>, the n-th buffer that thread hands off.  An   *)
(* element's buffer_index/aux_data arrays, offset and n_vectors are        *)
(* abstracted to the sequence of the entries not yet taken out.            *)
(***************************************************************************)
EXTENDS Integers, Sequences, FiniteSets, FiniteSetsExt

CONSTANTS
  Threads,           \* the threads, each with a ring
  NElts,             \* fq->nelts, a power of two
  FrameSize,         \* VLIB_FRAME_SIZE
  CheckCount,        \* idle polls after a hit: 100 in main.c
  MaxVector,         \* bound on n_packets of one call
  MaxBuffers,        \* bound on the buffers each thread hands off, by thread
  DropOnCongestion,  \* values of drop_on_congestion the callers use
  WithAux            \* TRUE: the callers use the with_aux variant

ASSUME RingAssumption == NElts \in Nat /\ NElts > 1
ASSUME SizesAssumption ==
  /\ FrameSize \in Nat \ {0}
  /\ CheckCount \in Nat \ {0}
  /\ MaxVector \in Nat /\ MaxBuffers \in [Threads -> Nat]
  /\ DropOnCongestion \subseteq BOOLEAN /\ WithAux \in BOOLEAN

VARIABLES
  head,       \* fq->head of each thread's ring
  tail,       \* fq->tail
  elts,       \* fq->elts: [valid, items] per slot
  check,      \* vm->check_frame_queues
  counter,    \* frame_queue_check_counter
  pc,         \* where each thread is
  sent,       \* how many buffers the thread has handed to the enqueue function
  vector,     \* packets of the call not yet in a chunk
  aux,        \* the aux array of the call
  drop,       \* drop_on_congestion of the call
  chunk,      \* packets of the current chunk still to place, by position
  seenTail,   \* tail as loaded by vlib_get_frame_queue_elt
  dropList,   \* drop_list of vlib_buffer_enqueue_to_thread_inline
  freed,      \* what vlib_buffer_free was called on
  nFree,      \* n_free of the dequeue function, 0 when there is no frame
  taken,      \* vectors of the dequeue function
  processed,  \* elements emptied by this call of the dequeue function
  delivered   \* entries put into frames for the node, in order

ringVars == <<head, tail, elts>>
pollVars == <<check, counter>>
callVars == <<sent, vector, aux, drop>>
handoffVars == <<callVars, chunk, seenTail, dropList, freed>>
dequeueVars == <<nFree, taken, processed, delivered>>
vars == <<ringVars, pollVars, pc, handoffVars, dequeueVars>>

Slots == 0 .. NElts - 1
Slot(n) == n % NElts

Buffers == UNION {{t} \X (1 .. MaxBuffers[t]) : t \in Threads}

\* The aux word that belongs to a buffer.
Aux(b) == <<"aux", b>>

\* A packet of a call, and an entry of a ring element or a frame.
Packet == [buf : Buffers, dst : Threads]
NoAux == <<"none">>
Garbage == <<"garbage">>
Item(b, a) == [buf |-> b, aux |-> a]

EmptyElt == [valid |-> FALSE, items |-> << >>]

Goto(t, s) == pc' = [pc EXCEPT ![t] = s]

Min2(a, b) == IF a < b THEN a ELSE b

\* The positions of chunk c for thread d (clib_mask_compare_u16), and the
\* packets at some positions, in order (clib_compress_u32).
For(c, d) == {i \in DOMAIN c : c[i].dst = d}
Nth(pos, k) == CHOOSE i \in pos : Cardinality({j \in pos : j < i}) = k - 1
Compress(c, pos) == [k \in 1 .. Cardinality(pos) |-> c[Nth(pos, k)]]

(***************************************************************************)
(* vlib_frame_queue_main_init chooses the dequeue function by the node it  *)
(* finds at fqm->node_index, before it stores the caller's node there: the *)
(* new element of the vector is zeroed, so it looks at node 0, null-node,  *)
(* which has no aux data.                                                  *)
(***************************************************************************)
NodeHasAux(index) == index # 0 /\ WithAux
DequeueWithAux == NodeHasAux(0)

Init ==
  /\ head = [t \in Threads |-> 0]
  /\ tail = [t \in Threads |-> 0]
  /\ elts = [t \in Threads |-> [s \in Slots |-> EmptyElt]]
  /\ check = [t \in Threads |-> FALSE]
  /\ counter = [t \in Threads |-> 0]
  /\ pc = [t \in Threads |-> "top"]
  /\ sent = [t \in Threads |-> 0]
  /\ vector = [t \in Threads |-> << >>]
  /\ aux = [t \in Threads |-> << >>]
  /\ drop = [t \in Threads |-> FALSE]
  /\ chunk = [t \in Threads |-> << >>]
  /\ seenTail = [t \in Threads |-> 0]
  /\ dropList = [t \in Threads |-> << >>]
  /\ freed = {}
  /\ nFree = [t \in Threads |-> 0]
  /\ taken = [t \in Threads |-> 0]
  /\ processed = [t \in Threads |-> 0]
  /\ delivered = [t \in Threads |-> << >>]

-----------------------------------------------------------------------------
(***************************************************************************)
(* Polling: vlib_main_or_worker_loop and vlib_frame_queue_dequeue_inline.  *)
(***************************************************************************)

\* The test at the head of the loop.
PollTest(t) ==
  /\ pc[t] = "top"
  /\ Goto(t, IF check[t] \/ counter[t] > 0 THEN "clear" ELSE "dispatch")
  /\ UNCHANGED <<ringVars, pollVars, handoffVars, dequeueVars>>

\* frame_queue_check_counter when a request was seen.
ReloadMissing(t) == counter[t]  \* (mutant)
Reload(t) == CheckCount

\* check_frame_queues is read again: if it is set, reload the counter and clear
\* the request, before looking at the ring.
ClearCheck(t) ==
  /\ pc[t] = "clear"
  /\ counter' = [counter EXCEPT ![t] = IF check[t] THEN Reload(t) ELSE @]
  /\ check' = [check EXCEPT ![t] = FALSE]
  /\ Goto(t, "dequeue")
  /\ UNCHANGED <<ringVars, handoffVars, dequeueVars>>

\* The element at the head of t's ring, and whether it may be taken.
HeadSlot(t) == Slot(head[t] + 1)
HeadElt(t) == elts[t][HeadSlot(t)]
Ready(t) == head[t] # tail[t] /\ HeadElt(t).valid

\* What stays in an element of which n entries were copied, and what comes next.
\* (Definitions marked (mutant) are slips that the properties must notice.)
LeftOverKeepsOffset(items, n) == SubSeq(items, 1, Len(items) - n)  \* (mutant)
LeftOver(items, n) == SubSeq(items, n + 1, Len(items))
AfterCopyAlways(items, n) == "reset"  \* (mutant)
AfterCopy(items, n) == IF n < Len(items) THEN "dequeue" ELSE "reset"

\* vector_threshold: 2 * VLIB_FRAME_SIZE (vlib_frame_queue_alloc).
VectorThreshold == 2 * FrameSize

\* One turn of the dequeue loop: copy what fits into the current frame, then
\* either leave the rest in the element or go on to reset it.
Dequeue(t) ==
  /\ pc[t] = "dequeue"
  /\ taken[t] < VectorThreshold
  /\ Ready(t)
  /\ LET room == IF nFree[t] = 0 THEN FrameSize ELSE nFree[t]
         items == HeadElt(t).items
         n == Min2(room, Len(items))
         copied == [i \in 1 .. n |->
                      Item(items[i].buf, IF DequeueWithAux THEN items[i].aux
                                         ELSE IF WithAux THEN Garbage
                                         ELSE NoAux)]
     IN  /\ delivered' = [delivered EXCEPT ![t] = @ \o copied]
         /\ nFree' = [nFree EXCEPT ![t] = room - n]
         /\ taken' = [taken EXCEPT ![t] = @ + n]
         /\ elts' = [elts EXCEPT ![t][HeadSlot(t)].items = LeftOver(items, n)]
         /\ Goto(t, AfterCopy(items, n))
  /\ UNCHANGED <<head, tail, pollVars, handoffVars, processed>>

\* clib_memset (elt, 0, ...): the element is reset ...
ResetElt(t) ==
  /\ pc[t] = "reset"
  /\ elts' = [elts EXCEPT ![t][HeadSlot(t)] = EmptyElt]
  /\ Goto(t, "bump")
  /\ UNCHANGED <<head, tail, pollVars, handoffVars, dequeueVars>>

\* ... and only then given back.
BumpHead(t) ==
  /\ pc[t] = "bump"
  /\ head' = [head EXCEPT ![t] = @ + 1]
  /\ processed' = [processed EXCEPT ![t] = @ + 1]
  /\ Goto(t, "dequeue")
  /\ UNCHANGED <<tail, elts, pollVars, handoffVars, nFree, taken, delivered>>

\* Nothing (more) to take, or enough taken: the last frame goes out and the
\* poll counter is set.
EndDequeue(t) ==
  /\ pc[t] = "dequeue"
  /\ ~ Ready(t) \/ taken[t] >= VectorThreshold
  /\ counter' = [counter EXCEPT ![t] =
                   IF processed[t] > 0 THEN CheckCount ELSE @ - 1]
  /\ nFree' = [nFree EXCEPT ![t] = 0]
  /\ taken' = [taken EXCEPT ![t] = 0]
  /\ processed' = [processed EXCEPT ![t] = 0]
  /\ Goto(t, "dispatch")
  /\ UNCHANGED <<ringVars, check, handoffVars, delivered>>

-----------------------------------------------------------------------------
(***************************************************************************)
(* Handing off: vlib_buffer_enqueue_to_thread(_with_aux).                  *)
(***************************************************************************)

\* A node calls the enqueue function with n packets for threads of its choice.
Enqueue(t) ==
  /\ pc[t] = "dispatch"
  /\ \E n \in 1 .. MaxVector :
       /\ sent[t] + n <= MaxBuffers[t]
       /\ \E dsts \in [1 .. n -> Threads] :
            vector' = [vector EXCEPT ![t] =
                         [i \in 1 .. n |-> [buf |-> <<t, sent[t] + i>>,
                                            dst |-> dsts[i]]]]
       /\ aux' = [aux EXCEPT ![t] =
                    [i \in 1 .. n |-> Aux(<<t, sent[t] + i>>)]]
       /\ sent' = [sent EXCEPT ![t] = @ + n]
  /\ \E d \in DropOnCongestion : drop' = [drop EXCEPT ![t] = d]
  /\ Goto(t, "chunk")
  /\ UNCHANGED <<ringVars, pollVars, dequeueVars, chunk, seenTail, dropList,
                 freed>>

\* The end of a pass of the loop.
EndDispatch(t) ==
  /\ pc[t] = "dispatch"
  /\ Goto(t, "top")
  /\ UNCHANGED <<ringVars, pollVars, handoffVars, dequeueVars>>

\* buffer_indices and thread_indices after a chunk of n packets.
AfterChunk(v, n) == SubSeq(v, n + 1, Len(v))

\* The loop over chunks of VLIB_FRAME_SIZE.  buffer_indices and thread_indices
\* advance with it; the aux array does not.
NextChunk(t) ==
  /\ pc[t] = "chunk"
  /\ vector[t] # << >>
  /\ LET n == Min2(FrameSize, Len(vector[t]))
     IN  /\ chunk' = [chunk EXCEPT ![t] =
                        [i \in 1 .. n |->
                           [buf |-> vector[t][i].buf, dst |-> vector[t][i].dst,
                            aux |-> IF WithAux THEN aux[t][i] ELSE NoAux]]]
         /\ vector' = [vector EXCEPT ![t] = AfterChunk(@, n)]
  /\ Goto(t, "load")
  /\ UNCHANGED <<ringVars, pollVars, dequeueVars, sent, aux, drop, seenTail,
                 dropList, freed>>

\* Back in the node; other nodes may hand off in the same pass of the loop.
EndHandoff(t) ==
  /\ pc[t] = "chunk"
  /\ vector[t] = << >>
  /\ Goto(t, "dispatch")
  /\ UNCHANGED <<ringVars, pollVars, handoffVars, dequeueVars>>

\* The thread of the first packet not yet placed (count_trailing_zeros of
\* ~used_elts).
Dst(t) == chunk[t][Min(DOMAIN chunk[t])].dst

\* vlib_get_frame_queue_elt: load tail, ...
LoadTail(t) ==
  /\ pc[t] = "load"
  /\ seenTail' = [seenTail EXCEPT ![t] = tail[Dst(t)]]
  /\ Goto(t, "full")
  /\ UNCHANGED <<ringVars, pollVars, dequeueVars, callVars, chunk,
                 dropList, freed>>

\* ... compare with head: no slot, give up or spin (through the barrier check);
RingFull(t) == seenTail[t] + 1 >= head[Dst(t)] + NElts

FullTest(t) ==
  /\ pc[t] = "full"
  /\ Goto(t, IF ~ RingFull(t) THEN "claim"
             ELSE IF drop[t] THEN "drop" ELSE "spin")
  /\ UNCHANGED <<ringVars, pollVars, handoffVars, dequeueVars>>

SlotFreed(t) ==
  /\ pc[t] = "spin"
  /\ ~ RingFull(t)
  /\ Goto(t, "claim")
  /\ UNCHANGED <<ringVars, pollVars, handoffVars, dequeueVars>>

\* ... compare and swap tail, or start again.
TailStored(t) == TRUE  \* (mutant)
TailAsSeen(t) == tail[Dst(t)] = seenTail[t]
RetrySwap == "claim"  \* (mutant)
Retry == "load"

Claim(t) ==
  /\ pc[t] = "claim"
  /\ IF TailAsSeen(t)
       THEN tail' = [tail EXCEPT ![Dst(t)] = @ + 1] /\ Goto(t, "fill")
       ELSE UNCHANGED tail /\ Goto(t, Retry)
  /\ UNCHANGED <<head, elts, pollVars, handoffVars, dequeueVars>>

\* The slot t has claimed.
Claimed(t) == Slot(seenTail[t] + 1)

\* clib_compress_u32 of the buffers (and of the aux words) into the element.
Fill(t) ==
  /\ pc[t] = "fill"
  /\ LET group == Compress(chunk[t], For(chunk[t], Dst(t)))
     IN  elts' = [elts EXCEPT ![Dst(t)][Claimed(t)].items =
                    [i \in 1 .. Len(group) |->
                       Item(group[i].buf, group[i].aux)]]
  /\ Goto(t, "publish")
  /\ UNCHANGED <<head, tail, pollVars, handoffVars, dequeueVars>>

\* The release store to valid ...
Publish(t) ==
  /\ pc[t] = "publish"
  /\ elts' = [elts EXCEPT ![Dst(t)][Claimed(t)].valid = TRUE]
  /\ Goto(t, "kick")
  /\ UNCHANGED <<head, tail, pollVars, handoffVars, dequeueVars>>

\* What comes after the packets of one thread have been placed.
Rest(t) == DOMAIN chunk[t] \ For(chunk[t], Dst(t))
AfterGroup(t) ==
  /\ chunk' = [chunk EXCEPT ![t] = [i \in Rest(t) |-> @[i]]]
  /\ Goto(t, IF Rest(t) = {} THEN "free" ELSE "load")

\* ... comes before the store to check_frame_queues.
AskToPollMissing(t) == check' = check  \* (mutant)
AskToPoll(t) == check' = [check EXCEPT ![Dst(t)] = TRUE]

Kick(t) ==
  /\ pc[t] = "kick"
  /\ AskToPoll(t)
  /\ AfterGroup(t)
  /\ UNCHANGED <<ringVars, counter, dequeueVars, callVars, seenTail,
                 dropList, freed>>

\* No slot: the group is appended to drop_list.  With aux data the second
\* compress writes the aux words to the same place.
DropGroup(t) ==
  /\ pc[t] = "drop"
  /\ LET group == Compress(chunk[t], For(chunk[t], Dst(t)))
         word(p) == IF WithAux THEN p.aux ELSE p.buf
     IN  dropList' = [dropList EXCEPT ![t] =
                        @ \o [i \in 1 .. Len(group) |-> word(group[i])]]
  /\ AfterGroup(t)
  /\ UNCHANGED <<ringVars, pollVars, dequeueVars, callVars, seenTail,
                 freed>>

\* vlib_buffer_free (vm, drop_list, n_drop).
FreeDrops(t) ==
  /\ pc[t] = "free"
  /\ freed' = freed \cup {dropList[t][i] : i \in DOMAIN dropList[t]}
  /\ dropList' = [dropList EXCEPT ![t] = << >>]
  /\ Goto(t, "chunk")
  /\ UNCHANGED <<ringVars, pollVars, dequeueVars, callVars, chunk,
                 seenTail>>

-----------------------------------------------------------------------------
Step(t) ==
  \/ PollTest(t) \/ ClearCheck(t) \/ Dequeue(t) \/ ResetElt(t) \/ BumpHead(t)
  \/ EndDequeue(t) \/ EndDispatch(t)
  \/ NextChunk(t) \/ EndHandoff(t) \/ LoadTail(t) \/ FullTest(t)
  \/ SlotFreed(t) \/ Claim(t) \/ Fill(t) \/ Publish(t) \/ Kick(t)
  \/ DropGroup(t) \/ FreeDrops(t)

Next == \E t \in Threads : Step(t) \/ Enqueue(t)

Spec == Init /\ [][Next]_vars

\* Every thread has its core: none stops for ever in the middle of its loop.
FairSpec == Spec /\ \A t \in Threads : WF_vars(Step(t))

-----------------------------------------------------------------------------
(***************************************************************************)
(* Properties.                                                             *)
(***************************************************************************)
PollStates == {"top", "clear", "dequeue", "reset", "bump", "dispatch"}
HandoffStates == {"chunk", "load", "full", "spin", "claim", "fill", "publish",
                  "kick", "drop", "free"}

\* Counters are naturals (head never overtakes what it counts, the poll counter
\* never wraps below zero) and threads are at known places.
TypeOK ==
  /\ head \in [Threads -> Nat] /\ tail \in [Threads -> Nat]
  /\ check \in [Threads -> BOOLEAN] /\ counter \in [Threads -> Nat]
  /\ pc \in [Threads -> PollStates \cup HandoffStates]
  /\ sent \in [Threads -> Nat] /\ seenTail \in [Threads -> Nat]
  /\ \A t \in Threads : \A s \in Slots : elts[t][s].valid \in BOOLEAN
  /\ \A t \in Threads : nFree[t] \in 0 .. FrameSize
                         /\ taken[t] \in 0 .. VectorThreshold

\* A thread owns the slot it has claimed until it publishes it.
Owns(t, d, s) ==
  pc[t] \in {"fill", "publish"} /\ Dst(t) = d /\ Claimed(t) = s

\* A claimed slot belongs to its producer alone: no other producer has the same
\* slot, it is not valid, and the consumer is not about to reset it.
ClaimExclusive ==
  \A t \in Threads :
    pc[t] \in {"fill", "publish"} =>
      /\ \A u \in Threads \ {t} : ~ Owns(u, Dst(t), Claimed(t))
      /\ ~ elts[Dst(t)][Claimed(t)].valid
      /\ ~ (pc[Dst(t)] = "reset" /\ HeadSlot(Dst(t)) = Claimed(t))

\* The ring never holds more than NElts - 1 frames, whatever the producers'
\* checks and swaps interleave to.
RingBound == \A t \in Threads : tail[t] - head[t] \in 0 .. NElts - 1

\* The two together: the compare-and-swap on tail and the test against head,
\* which happen at different times, give a slot to one thread at a time.
RingSafe == ClaimExclusive /\ RingBound

\* The places where buffer b is, by kind.  A group stays in chunk until it is
\* placed.
InVector(b) ==
  {<<"vector", t>> : t \in {u \in Threads :
     \E j \in DOMAIN vector[u] : vector[u][j].buf = b}}
Placed(t, j) == pc[t] \in {"publish", "kick"} /\ chunk[t][j].dst = Dst(t)
InChunk(b) ==
  UNION {{<<"chunk", t, i>> : i \in {j \in DOMAIN chunk[t] :
            chunk[t][j].buf = b /\ ~ Placed(t, j)}} : t \in Threads}
InElt(b) ==
  UNION {UNION {{<<"ring", t, s, i>> : i \in {j \in DOMAIN elts[t][s].items :
            elts[t][s].items[j].buf = b}} : s \in Slots} : t \in Threads}
InFrame(b) ==
  UNION {{<<"delivered", t, i>> : i \in {j \in DOMAIN delivered[t] :
            delivered[t][j].buf = b}} : t \in Threads}
InDrop(b) ==
  UNION {{<<"drop", t, i>> : i \in {j \in DOMAIN dropList[t] :
            dropList[t][j] = b}} : t \in Threads}
InFreed(b) == IF b \in freed THEN {<<"freed">>} ELSE {}
Places(b) == InVector(b) \cup InChunk(b) \cup InElt(b) \cup InFrame(b)
             \cup InDrop(b) \cup InFreed(b)

\* "All packets in the inbound frame will be consumed one way or the other"
\* (docs/developer/corearchitecture/vlib.rst:681): a buffer given to the
\* enqueue function is always in exactly one place: still to be placed, in one
\* ring element, delivered to the node once, or dropped and freed.
Conserved ==
  \A t \in Threads : \A n \in 1 .. sent[t] : Cardinality(Places(<<t, n>>)) = 1

\* The buffers one thread hands to another arrive in the order they were sent,
\* although elements are split over frames and claimed by racing producers.
OrderKept ==
  \A t \in Threads : \A i, j \in DOMAIN delivered[t] :
    i < j /\ delivered[t][i].buf[1] = delivered[t][j].buf[1] =>
      delivered[t][i].buf[2] < delivered[t][j].buf[2]

\* A buffer that was put into a ring element is delivered: the poll request is
\* never lost, even when it is set while the owner is clearing it, and the poll
\* counter never runs out while a published element waits.
InRing(b) ==
  \E t \in Threads : \E s \in Slots :
    /\ elts[t][s].valid
    /\ \E i \in DOMAIN elts[t][s].items : elts[t][s].items[i].buf = b
IsDelivered(b) ==
  \E t \in Threads : \E i \in DOMAIN delivered[t] : delivered[t][i].buf = b
HandoffDelivers == \A b \in Buffers : InRing(b) ~> IsDelivered(b)

\* A thread that starts to hand off comes back to its loop ("It's perfectly OK
\* to enqueue packets to the current thread",
\* docs/developer/corearchitecture/vlib.rst:688).
HandoffEnds == \A t \in Threads : (pc[t] \in HandoffStates) ~> (pc[t] = "top")

\* vlib_buffer_free is only called on buffer indices
\* (src/src/vlib/buffer_funcs.h:914, "buffer index array").
FreedAreBuffers == freed \subseteq Buffers

\* A frame's aux data is that of its buffers (vlib_frame_aux_args,
\* src/src/vlib/node_funcs.h:297).
AuxDelivered ==
  WithAux => \A t \in Threads : \A i \in DOMAIN delivered[t] :
               delivered[t][i].aux = Aux(delivered[t][i].buf)

\* "Frame_queue_size means what it says: the number of frames which may be
\* queued" (docs/developer/corearchitecture/vlib.rst:601): a producer is only
\* told that a ring is full when it has held NElts frames.
SizeMeansSize ==
  \A t \in Threads : pc[t] = "drop" => seenTail[t] >= head[Dst(t)] + NElts
=============================================================================
