-------------------------- MODULE FrameQueueProofs --------------------------
(***************************************************************************)
(* Proofs about FrameQueue, for any set of threads, any size of rings and  *)
(* frames, and any number of buffers.                                      *)
(***************************************************************************)
EXTENDS FrameQueue, NatLemmas, FiniteSetTheorems, SequenceTheorems, TLAPS

\* What a call carries, what a chunk holds and what an element holds.
AuxWord == {Aux(b) : b \in Buffers} \union {NoAux}
ChunkEntry == [buf : Buffers, dst : Threads, aux : AuxWord]
Entry == [buf : Buffers, aux : AuxWord]
Elt == [valid : BOOLEAN, items : Seq(Entry)]

\* Where a thread works on a group of its chunk.
Placing == {"load", "full", "spin", "claim", "fill", "publish", "kick", "drop"}

\* TypeOK, and the types of what is handed over.
RingTypes ==
  /\ head \in [Threads -> Nat] /\ tail \in [Threads -> Nat]
  /\ elts \in [Threads -> [Slots -> Elt]]
LocalTypes ==
  /\ check \in [Threads -> BOOLEAN] /\ counter \in [Threads -> Nat]
  /\ pc \in [Threads -> PollStates \union HandoffStates]
  /\ sent \in [Threads -> Nat] /\ seenTail \in [Threads -> Nat]
  /\ nFree \in [Threads -> 0 .. FrameSize] /\ taken \in [Threads -> Nat]
  /\ processed \in [Threads -> Nat]
Chunk == UNION {[I -> ChunkEntry] : I \in SUBSET (1 .. FrameSize)}
CallTypes ==
  /\ vector \in [Threads -> Seq(Packet)] /\ aux \in [Threads -> Seq(AuxWord)]
  /\ \A t \in Threads : Len(vector[t]) <= Len(aux[t])
  /\ chunk \in [Threads -> Chunk]
  /\ \A t \in Threads : pc[t] \in Placing => DOMAIN chunk[t] # {}
Types == RingTypes /\ LocalTypes /\ CallTypes

\* The poll counter is positive while the ring is looked at, and the frame
\* being filled and what was taken make up whole frames.
Polling ==
  \A t \in Threads :
    /\ pc[t] = "clear" => check[t] \/ counter[t] > 0
    /\ pc[t] \in {"dequeue", "reset", "bump"} => counter[t] > 0
    /\ taken[t] + nFree[t] \in {0, FrameSize, 2 * FrameSize}

\* The positions of a ring: those after tail are free, the one the owner
\* takes out was published, and a claim lies between head and tail.
Holding(t) == pc[t] \in {"fill", "publish"}
Positions ==
  \A d \in Threads :
    /\ head[d] <= tail[d] /\ tail[d] <= head[d] + NElts - 1
    /\ \A n \in tail[d] + 1 .. head[d] + NElts : ~elts[d][Slot(n)].valid
    /\ pc[d] \in {"reset", "bump"} => head[d] < tail[d]
    /\ pc[d] = "bump" => ~elts[d][HeadSlot(d)].valid
ClaimOf(t) ==
  /\ pc[t] \in {"full", "spin", "claim"} => seenTail[t] <= tail[Dst(t)]
  /\ pc[t] = "claim" => ~RingFull(t)
  /\ Holding(t) =>
       /\ head[Dst(t)] <= seenTail[t] /\ seenTail[t] < tail[Dst(t)]
       /\ ~elts[Dst(t)][Claimed(t)].valid
       /\ pc[Dst(t)] \in {"reset", "bump"} => seenTail[t] # head[Dst(t)]
       /\ \A u \in Threads \ {t} :
            Holding(u) /\ Dst(u) = Dst(t) => seenTail[u] # seenTail[t]
Claims == \A t \in Threads : ClaimOf(t)

IInv == Types /\ Polling /\ Positions /\ Claims

-----------------------------------------------------------------------------
(* Slots.                                                                  *)

\* The constants are positive.
LEMMA Sizes ==
  /\ NElts \in Nat /\ NElts > 1 /\ NElts > 0
  /\ FrameSize \in Nat /\ FrameSize > 0
  /\ CheckCount \in Nat /\ CheckCount > 0
  BY RingAssumption, SizesAssumption

\* A position has a slot of the ring.
LEMMA SlotType ==
  ASSUME NEW n \in Nat
  PROVE  Slot(n) \in Slots
  BY Sizes, Division DEF Slot, Slots

\* Two positions of a ring at the same time have different slots.
LEMMA SlotDistinct ==
  ASSUME NEW a \in Nat, NEW b \in Nat, a # b, a < b + NElts, b < a + NElts
  PROVE  Slot(a) # Slot(b)
<1>1. CASE a < b
  BY <1>1, Sizes, ModDistinct DEF Slot
<1>2. CASE b < a
  BY <1>2, Sizes, ModDistinct DEF Slot
<1> QED
  BY <1>1, <1>2

\* Positions that are a ring apart share a slot.
LEMMA SlotWrap ==
  ASSUME NEW n \in Nat
  PROVE  Slot(n + NElts) = Slot(n)
  BY Sizes, ModWrap DEF Slot

-----------------------------------------------------------------------------
(* Chunks.                                                                 *)

\* A chunk with packets left has a first one.
LEMMA ChunkFirst ==
  ASSUME NEW c \in Chunk, DOMAIN c # {}
  PROVE  Min(DOMAIN c) \in DOMAIN c /\ c[Min(DOMAIN c)] \in ChunkEntry
<1>1. PICK I \in SUBSET (1 .. FrameSize) : c \in [I -> ChunkEntry]
  BY DEF Chunk
<1>2. DOMAIN c = I /\ 1 .. FrameSize \subseteq Nat
  BY <1>1, Sizes
<1>3. Min(DOMAIN c) \in DOMAIN c
  BY <1>2, MinIn
<1> QED
  BY <1>1, <1>3

\* A call that has packets left sends to one of the threads.
LEMMA DstType ==
  ASSUME Types, NEW t \in Threads, pc[t] \in Placing
  PROVE  Dst(t) \in Threads
  BY ChunkFirst DEF Types, CallTypes, Dst, ChunkEntry

\* Who a thread sends to depends on its own chunk only.
LEMMA DstSame ==
  ASSUME NEW t, chunk'[t] = chunk[t]
  PROVE  Dst(t)' = Dst(t)
  BY DEF Dst

\* Positions can be counted.
LEMMA Countable ==
  ASSUME NEW I \in SUBSET (1 .. FrameSize)
  PROVE  IsFiniteSet(I) /\ Cardinality(I) \in Nat
<1>1. IsFiniteSet(1 .. FrameSize)
  BY Sizes, FS_Interval
<1>2. IsFiniteSet(I)
  BY <1>1, FS_Subset
<1> QED
  BY <1>2, FS_CardinalityType

\* The k-th of some positions exists; clib_compress_u32 writes as many entries
\* as bits are set in the mask.
LEMMA NthExists ==
  ASSUME NEW pos \in SUBSET (1 .. FrameSize), NEW k \in 1 .. Cardinality(pos)
  PROVE  Nth(pos, k) \in pos /\ Cardinality({j \in pos : j < Nth(pos, k)}) = k - 1
<1> DEFINE Below(i) == {j \in pos : j < i}
           B == {n \in 1 .. Cardinality(pos) : ~\E i \in pos : Cardinality(Below(i)) = n - 1}
<1>1. pos \subseteq Nat /\ IsFiniteSet(pos) /\ Cardinality(pos) \in Nat
  BY Countable, Sizes
<1>2. ASSUME B # {} PROVE FALSE
  <2>1. B \subseteq Nat
    BY <1>1
  <2>2. PICK n \in B : \A m \in B : n <= m
    <3> HIDE DEF B
    <3> QED
      BY <1>2, <2>1, MinIn
  <2>3. n \in 1 .. Cardinality(pos) /\ ~\E i \in pos : Cardinality(Below(i)) = n - 1
    OBVIOUS
  <2>4. pos # {}
    <3> SUFFICES ASSUME pos = {} PROVE FALSE
      OBVIOUS
    <3>1. Cardinality(pos) = 0
      BY FS_EmptySet
    <3> QED
      BY <2>3, <3>1
  <2>5. CASE n = 1
    <3>1. Min(pos) \in pos /\ \A y \in pos : Min(pos) <= y
      BY <1>1, <2>4, MinIn
    <3>2. PICK m \in pos : \A y \in pos : m <= y
      BY <3>1
    <3>3. Below(m) = {}
      <4> SUFFICES ASSUME NEW j \in pos, j < m PROVE FALSE
        OBVIOUS
      <4>1. m <= j /\ j \in Nat /\ m \in Nat
        BY <1>1, <3>2
      <4> QED
        BY <4>1
    <3>4. Cardinality(Below(m)) = 1 - 1
      <4>1. Cardinality({}) = 0
        BY FS_EmptySet
      <4> QED
        BY <3>3, <4>1
    <3> HIDE DEF Below
    <3> QED
      BY <2>3, <2>5, <3>4
  <2>6. CASE n # 1
    <3>1. n - 1 \in 1 .. Cardinality(pos) /\ n - 1 \notin B
      BY <1>1, <2>2, <2>3, <2>6
    <3>2. PICK i \in pos : Cardinality(Below(i)) = n - 2
      BY <3>1
    <3> DEFINE U == Below(i) \union {i}
               V == pos \ U
    <3>3. IsFiniteSet(Below(i)) /\ i \notin Below(i)
      BY <1>1, FS_Subset
    <3>4. IsFiniteSet(U) /\ Cardinality(U) = n - 1
      <4>1. n - 2 + 1 = n - 1
        BY <3>1
      <4> HIDE DEF Below
      <4> QED
        BY <3>2, <3>3, <4>1, FS_AddElement
    <3>5. V # {}
      <4> SUFFICES ASSUME pos \subseteq U PROVE FALSE
        OBVIOUS
      <4>1. pos = U
        OBVIOUS
      <4> HIDE DEF U
      <4> QED
        BY <1>1, <2>3, <3>4, <4>1
    <3>6. Min(V) \in V /\ \A y \in V : Min(V) <= y
      <4>1. V \subseteq Nat
        BY <1>1
      <4> HIDE DEF V
      <4> QED
        BY <3>5, <4>1, MinIn
    <3>7. PICK v \in V : \A y \in V : v <= y
      BY <3>6
    <3>8. v \in pos /\ ~(v < i) /\ v # i /\ v \in Nat /\ i \in Nat
      BY <1>1, <3>7
    <3>9. Below(v) \subseteq U
      <4> SUFFICES ASSUME NEW j \in pos, j < v, j \notin U PROVE FALSE
        OBVIOUS
      <4>1. v <= j /\ j \in Nat
        BY <1>1, <3>7
      <4> QED
        BY <3>8, <4>1
    <3>10. U \subseteq Below(v)
      <4>1. i < v
        BY <3>8
      <4>2. \A j \in pos : j < i => j < v
        BY <1>1, <3>8, <4>1
      <4> QED
        BY <4>1, <4>2
    <3>11. Below(v) = U
      BY <3>9, <3>10
    <3> HIDE DEF Below, U
    <3> QED
      BY <2>3, <3>4, <3>8, <3>11
  <2> QED
    BY <2>5, <2>6
<1>3. \E i \in pos : Cardinality(Below(i)) = k - 1
  BY <1>2
<1> QED
  BY <1>3 DEF Nth

\* clib_compress_u32 copies as many entries as the mask has bits.
LEMMA CompressType ==
  ASSUME NEW c \in Chunk, NEW pos \in SUBSET DOMAIN c
  PROVE  /\ Compress(c, pos) \in Seq(ChunkEntry)
         /\ Len(Compress(c, pos)) = Cardinality(pos) /\ Cardinality(pos) \in Nat
<1>1. PICK I \in SUBSET (1 .. FrameSize) : c \in [I -> ChunkEntry]
  BY DEF Chunk
<1>2. pos \in SUBSET (1 .. FrameSize) /\ pos \subseteq DOMAIN c
  BY <1>1
<1>3. Cardinality(pos) \in Nat
  BY <1>2, Countable
<1>4. \A k \in 1 .. Cardinality(pos) : c[Nth(pos, k)] \in ChunkEntry
  BY <1>1, <1>2, NthExists
<1> QED
  BY <1>3, <1>4 DEF Compress

-----------------------------------------------------------------------------
(* Types and polling.                                                      *)

\* Elements change one at a time.
LEMMA EltsType ==
  ASSUME RingTypes, NEW d \in Threads, NEW n \in Nat, NEW e \in Elt,
         elts' = [elts EXCEPT ![d] = [@ EXCEPT ![Slot(n)] = e]]
  PROVE  elts' \in [Threads -> [Slots -> Elt]]
  BY SlotType DEF RingTypes

\* Every step keeps the rings in their types.
LEMMA RingTypesStep == IInv /\ Next => RingTypes'
<1> SUFFICES ASSUME IInv, NEW t \in Threads, Step(t) \/ Enqueue(t) PROVE RingTypes'
  BY DEF Next
<1>1. RingTypes /\ Types
  BY DEF IInv, Types
<1>2. ASSUME ringVars' = ringVars PROVE RingTypes'
  BY <1>1, <1>2 DEF RingTypes, ringVars
<1>3. CASE PollTest(t) \/ ClearCheck(t) \/ EndDequeue(t) \/ EndDispatch(t) \/ Enqueue(t)
  BY <1>2, <1>3 DEF PollTest, ClearCheck, EndDequeue, EndDispatch, Enqueue
<1>4. CASE NextChunk(t) \/ EndHandoff(t) \/ LoadTail(t) \/ FullTest(t) \/ SlotFreed(t)
  BY <1>2, <1>4 DEF NextChunk, EndHandoff, LoadTail, FullTest, SlotFreed
<1>5. CASE Kick(t) \/ DropGroup(t) \/ FreeDrops(t)
  BY <1>2, <1>5 DEF Kick, DropGroup, FreeDrops
<1>6. CASE Dequeue(t)
  <2> DEFINE items == HeadElt(t).items
             room == IF nFree[t] = 0 THEN FrameSize ELSE nFree[t]
             n == Min2(room, Len(items))
             e == [HeadElt(t) EXCEPT !.items = LeftOver(items, n)]
  <2>1. head[t] + 1 \in Nat /\ HeadElt(t) \in Elt
    BY <1>1, SlotType DEF RingTypes, HeadElt, HeadSlot
  <2>2. elts' = [elts EXCEPT ![t] = [@ EXCEPT ![Slot(head[t] + 1)] = e]]
        /\ UNCHANGED <<head, tail>>
    BY <1>1, <1>6, <2>1, SlotType DEF Dequeue, HeadElt, HeadSlot, RingTypes, Elt
  <2>3. items \in Seq(Entry) /\ room \in Nat /\ Len(items) \in Nat
    BY <1>1, <2>1, Sizes, LenProperties DEF Elt, Types, LocalTypes
  <2>4. n \in Nat
    BY <2>3 DEF Min2
  <2>5. LeftOver(items, n) \in Seq(Entry)
    <3> HIDE DEF items, n
    <3>1. \A i \in n + 1 .. Len(items) : items[i] \in Entry
      BY <2>3, <2>4, ElementOfSeq
    <3> QED
      BY <2>3, <2>4, <3>1, SubSeqProperties DEF LeftOver
  <2>6. e \in Elt
    BY <2>1, <2>5 DEF Elt
  <2> HIDE DEF e
  <2> QED
    BY <1>1, <2>1, <2>2, <2>6, EltsType DEF RingTypes
<1>7. CASE ResetElt(t)
  <2>1. EmptyElt \in Elt
    BY EmptySeq DEF EmptyElt, Elt
  <2>2. head[t] + 1 \in Nat
        /\ elts' = [elts EXCEPT ![t] = [@ EXCEPT ![Slot(head[t] + 1)] = EmptyElt]]
        /\ UNCHANGED <<head, tail>>
    BY <1>1, <1>7 DEF ResetElt, HeadSlot, RingTypes
  <2> QED
    BY <1>1, <2>1, <2>2, EltsType DEF RingTypes
<1>8. CASE BumpHead(t)
  BY <1>1, <1>8 DEF BumpHead, RingTypes
<1>9. CASE Claim(t)
  <2>1. Dst(t) \in Threads
    BY <1>1, <1>9, DstType DEF Claim, Placing
  <2> QED
    BY <1>1, <1>9, <2>1 DEF Claim, RingTypes
<1>10. ASSUME pc[t] \in {"fill", "publish"}
       PROVE  /\ Dst(t) \in Threads /\ seenTail[t] + 1 \in Nat
              /\ elts[Dst(t)][Claimed(t)] \in Elt /\ Claimed(t) \in Slots
  <2>1. Dst(t) \in Threads /\ seenTail[t] + 1 \in Nat
    BY <1>1, <1>10, DstType DEF Placing, Types, LocalTypes
  <2> QED
    BY <1>1, <2>1, SlotType DEF RingTypes, Claimed
<1>11. CASE Fill(t)
  <2> DEFINE group == Compress(chunk[t], For(chunk[t], Dst(t)))
             items == [i \in 1 .. Len(group) |-> Item(group[i].buf, group[i].aux)]
             e == [elts[Dst(t)][Claimed(t)] EXCEPT !.items = items]
  <2>1. pc[t] = "fill"
    BY <1>11 DEF Fill
  <2>2. group \in Seq(ChunkEntry) /\ Len(group) \in Nat
    BY <1>1, CompressType DEF For, Types, CallTypes
  <2>3. items \in Seq(Entry)
    <3> HIDE DEF group
    <3>1. \A i \in 1 .. Len(group) : group[i] \in ChunkEntry
      BY <2>2, ElementOfSeq
    <3>2. \A i \in 1 .. Len(group) : Item(group[i].buf, group[i].aux) \in Entry
      BY <3>1 DEF Item, Entry, ChunkEntry
    <3> QED
      BY <2>2, <3>2
  <2>4. e \in Elt
    BY <1>10, <2>1, <2>3 DEF Elt
  <2>5. elts' = [elts EXCEPT ![Dst(t)] = [@ EXCEPT ![Slot(seenTail[t] + 1)] = e]]
        /\ UNCHANGED <<head, tail>>
    <3> HIDE DEF items
    <3>1. elts' = [elts EXCEPT ![Dst(t)][Claimed(t)].items = items]
          /\ UNCHANGED <<head, tail>>
      BY <1>11 DEF Fill, items
    <3> QED
      BY <1>1, <1>10, <2>1, <3>1 DEF Claimed, RingTypes, Elt
  <2> HIDE DEF e
  <2> QED
    BY <1>1, <1>10, <2>1, <2>4, <2>5, EltsType DEF RingTypes
<1>12. CASE Publish(t)
  <2> DEFINE e == [elts[Dst(t)][Claimed(t)] EXCEPT !.valid = TRUE]
  <2>1. pc[t] = "publish"
    BY <1>12 DEF Publish
  <2>2. e \in Elt
    BY <1>10, <2>1 DEF Elt
  <2>3. elts' = [elts EXCEPT ![Dst(t)] = [@ EXCEPT ![Slot(seenTail[t] + 1)] = e]]
        /\ UNCHANGED <<head, tail>>
    BY <1>1, <1>10, <1>12, <2>1 DEF Publish, Claimed, RingTypes, Elt
  <2> HIDE DEF e
  <2> QED
    BY <1>1, <1>10, <2>1, <2>2, <2>3, EltsType DEF RingTypes
<1> QED
  BY <1>3, <1>4, <1>5, <1>6, <1>7, <1>8, <1>9, <1>11, <1>12 DEF Step

\* One turn of the dequeue loop never overfills a frame, and stops at the
\* second full one.
LEMMA DequeueCounts ==
  ASSUME IInv, NEW t \in Threads, Dequeue(t)
  PROVE  /\ nFree' \in [Threads -> 0 .. FrameSize] /\ taken' \in [Threads -> Nat]
         /\ \A u \in Threads : taken'[u] + nFree'[u] \in {0, FrameSize, 2 * FrameSize}
<1> DEFINE items == HeadElt(t).items
           room == IF nFree[t] = 0 THEN FrameSize ELSE nFree[t]
           n == Min2(room, Len(items))
<1>1. Types /\ Polling
  BY DEF IInv
<1>2. HeadElt(t) \in Elt
  BY <1>1, SlotType DEF Types, RingTypes, HeadElt, HeadSlot
<1>3. Len(items) \in Nat
  BY <1>2, LenProperties DEF Elt
<1>4. nFree[t] \in 0 .. FrameSize /\ taken[t] \in Nat /\ taken[t] < 2 * FrameSize
      /\ taken[t] + nFree[t] \in {0, FrameSize, 2 * FrameSize}
  BY <1>1 DEF Types, LocalTypes, Polling, Dequeue, VectorThreshold
<1>5. room \in 1 .. FrameSize
  BY <1>4, Sizes
<1>6. n \in 0 .. room
  <2> HIDE DEF items, room
  <2> QED
    BY <1>3, <1>5, Sizes DEF Min2
<1>7. nFree' = [nFree EXCEPT ![t] = room - n] /\ taken' = [taken EXCEPT ![t] = taken[t] + n]
  BY DEF Dequeue
<1>8. room - n \in 0 .. FrameSize /\ taken[t] + n \in Nat
      /\ (taken[t] + n) + (room - n) \in {0, FrameSize, 2 * FrameSize}
  <2> HIDE DEF n
  <2> QED
    BY <1>4, <1>5, <1>6, Sizes
<1> HIDE DEF n, room
<1>9. ASSUME NEW u \in Threads
      PROVE  taken'[u] + nFree'[u] \in {0, FrameSize, 2 * FrameSize}
  BY <1>1, <1>7, <1>8 DEF Types, LocalTypes, Polling
<1> QED
  BY <1>1, <1>7, <1>8, <1>9 DEF Types, LocalTypes

\* Every step keeps the polling and the dequeue state in their types.
LEMMA LocalStep == IInv /\ Next => LocalTypes' /\ Polling'
<1> SUFFICES ASSUME IInv, NEW t \in Threads, Step(t) \/ Enqueue(t)
             PROVE  LocalTypes' /\ Polling'
  BY DEF Next
<1> USE Sizes DEF IInv, Types, LocalTypes, Polling, PollStates, HandoffStates, Goto
<1>1. CASE PollTest(t)
  BY <1>1 DEF PollTest, pollVars, handoffVars, callVars, dequeueVars
<1>2. CASE ClearCheck(t)
  BY <1>2 DEF ClearCheck, Reload, handoffVars, callVars, dequeueVars
<1>3. CASE Dequeue(t)
  <2>1. /\ pc' = [pc EXCEPT ![t] = "dequeue"] \/ pc' = [pc EXCEPT ![t] = "reset"]
        /\ pc[t] = "dequeue"
        /\ UNCHANGED <<check, counter, sent, seenTail, processed>>
    BY <1>3 DEF Dequeue, AfterCopy, pollVars, handoffVars, callVars
  <2> QED
    BY <1>3, <2>1, DequeueCounts
<1>4. CASE ResetElt(t)
  BY <1>4 DEF ResetElt, pollVars, handoffVars, callVars, dequeueVars
<1>5. CASE BumpHead(t)
  BY <1>5 DEF BumpHead, pollVars, handoffVars, callVars
<1>6. CASE EndDequeue(t)
  <2>1. /\ pc' = [pc EXCEPT ![t] = "dispatch"] /\ pc[t] = "dequeue"
        /\ counter' = [counter EXCEPT ![t] =
                         IF processed[t] > 0 THEN CheckCount ELSE counter[t] - 1]
        /\ nFree' = [nFree EXCEPT ![t] = 0] /\ taken' = [taken EXCEPT ![t] = 0]
        /\ processed' = [processed EXCEPT ![t] = 0]
        /\ UNCHANGED <<check, sent, seenTail>>
    BY <1>6 DEF EndDequeue, handoffVars, callVars
  <2>2. counter[t] > 0
    BY <2>1
  <2>3. counter' \in [Threads -> Nat]
    BY <2>1, <2>2
  <2> QED
    BY <2>1, <2>3
<1>7. CASE Enqueue(t)
  <2>1. PICK n \in 1 .. MaxVector : sent' = [sent EXCEPT ![t] = @ + n]
    BY <1>7 DEF Enqueue
  <2>2. sent' \in [Threads -> Nat]
    BY <2>1, SizesAssumption
  <2> QED
    BY <1>7, <2>2 DEF Enqueue, pollVars, dequeueVars
<1>8. CASE EndDispatch(t) \/ EndHandoff(t) \/ NextChunk(t)
  BY <1>8 DEF EndDispatch, EndHandoff, NextChunk, pollVars, handoffVars, callVars,
     dequeueVars
<1>9. CASE LoadTail(t)
  <2>1. Dst(t) \in Threads
    BY <1>9, DstType DEF LoadTail, Placing
  <2>2. seenTail' \in [Threads -> Nat]
    BY <1>9, <2>1 DEF LoadTail, RingTypes
  <2> QED
    BY <1>9, <2>2 DEF LoadTail, pollVars, callVars, dequeueVars
<1>10. CASE FullTest(t) \/ SlotFreed(t)
  BY <1>10 DEF FullTest, SlotFreed, pollVars, handoffVars, callVars, dequeueVars
<1>11. CASE Claim(t) \/ Fill(t) \/ Publish(t)
  BY <1>11 DEF Claim, Retry, Fill, Publish, pollVars, handoffVars, callVars, dequeueVars
<1>12. CASE Kick(t)
  BY <1>12 DEF Kick, AskToPoll, AfterGroup, callVars, dequeueVars
<1>13. CASE DropGroup(t) \/ FreeDrops(t)
  BY <1>13 DEF DropGroup, FreeDrops, AfterGroup, pollVars, callVars, dequeueVars
<1> QED
  BY <1>1, <1>2, <1>3, <1>4, <1>5, <1>6, <1>7, <1>8, <1>9, <1>10, <1>11, <1>12, <1>13
     DEF Step

\* A buffer the caller hands over is one of its own.
LEMMA SentBuffer ==
  ASSUME NEW t \in Threads, NEW k \in Nat \ {0}, k <= MaxBuffers[t]
  PROVE  <<t, k>> \in Buffers /\ Aux(<<t, k>>) \in AuxWord
<1>1. k \in 1 .. MaxBuffers[t]
  BY SizesAssumption
<1>2. <<t, k>> \in {t} \X (1 .. MaxBuffers[t])
  BY <1>1
<1>3. <<t, k>> \in Buffers
  BY <1>2 DEF Buffers
<1> QED
  BY <1>3 DEF AuxWord

\* Every step keeps the arguments of the calls in their types.
LEMMA CallTypesStep == IInv /\ Next => CallTypes'
<1> SUFFICES ASSUME IInv, NEW t \in Threads, Step(t) \/ Enqueue(t) PROVE CallTypes'
  BY DEF Next
<1>1. CallTypes /\ LocalTypes /\ pc \in [Threads -> PollStates \union HandoffStates]
  BY DEF IInv, Types, LocalTypes
<1>2. ASSUME UNCHANGED <<vector, aux, chunk>>, NEW st, Goto(t, st),
             st \in Placing => pc[t] \in Placing
      PROVE  CallTypes'
  <2>1. pc' = [pc EXCEPT ![t] = st]
    BY <1>2 DEF Goto
  <2>2. \A u \in Threads : pc'[u] \in Placing => pc[u] \in Placing
    BY <1>1, <1>2, <2>1
  <2> QED
    BY <1>1, <1>2, <2>2 DEF CallTypes
<1>3. CASE PollTest(t) \/ ClearCheck(t) \/ ResetElt(t) \/ BumpHead(t) \/ EndDequeue(t)
           \/ EndDispatch(t)
  BY <1>2, <1>3 DEF PollTest, ClearCheck, ResetElt, BumpHead, EndDequeue, EndDispatch,
     handoffVars, callVars, Placing
<1>4. CASE Dequeue(t)
  BY <1>2, <1>4 DEF Dequeue, AfterCopy, handoffVars, callVars, Placing
<1>5. CASE LoadTail(t) \/ FullTest(t) \/ SlotFreed(t) \/ Fill(t) \/ Publish(t)
  BY <1>2, <1>5 DEF LoadTail, FullTest, SlotFreed, Fill, Publish,
     handoffVars, callVars, Placing
<1>6. CASE Claim(t)
  BY <1>2, <1>6 DEF Claim, Retry, handoffVars, callVars, Placing
<1>7. CASE EndHandoff(t) \/ FreeDrops(t)
  BY <1>2, <1>7 DEF EndHandoff, FreeDrops, handoffVars, callVars, Placing
<1>8. CASE Enqueue(t)
  <2>0. PICK n \in 1 .. MaxVector :
          /\ sent[t] + n <= MaxBuffers[t]
          /\ \E dsts \in [1 .. n -> Threads] :
               vector' = [vector EXCEPT ![t] =
                            [i \in 1 .. n |-> [buf |-> <<t, sent[t] + i>>, dst |-> dsts[i]]]]
          /\ aux' = [aux EXCEPT ![t] = [i \in 1 .. n |-> Aux(<<t, sent[t] + i>>)]]
    BY <1>8 DEF Enqueue
  <2>1. PICK dsts \in [1 .. n -> Threads] :
          vector' = [vector EXCEPT ![t] =
                       [i \in 1 .. n |-> [buf |-> <<t, sent[t] + i>>, dst |-> dsts[i]]]]
    BY <2>0
  <2> DEFINE v == [i \in 1 .. n |-> [buf |-> <<t, sent[t] + i>>, dst |-> dsts[i]]]
             a == [i \in 1 .. n |-> Aux(<<t, sent[t] + i>>)]
  <2>2. n \in Nat /\ sent[t] \in Nat /\ MaxBuffers[t] \in Nat
    BY <1>1, SizesAssumption DEF LocalTypes
  <2>3. \A i \in 1 .. n : <<t, sent[t] + i>> \in Buffers
                          /\ Aux(<<t, sent[t] + i>>) \in AuxWord
    <3> TAKE i \in 1 .. n
    <3>1. sent[t] + i \in Nat \ {0} /\ sent[t] + i <= MaxBuffers[t]
      BY <2>0, <2>2
    <3> QED
      BY <3>1, SentBuffer
  <2>4. v \in Seq(Packet) /\ Len(v) = n
    <3>1. \A i \in 1 .. n : [buf |-> <<t, sent[t] + i>>, dst |-> dsts[i]] \in Packet
      BY <2>1, <2>3 DEF Packet
    <3> QED
      BY <2>2, <3>1
  <2>5. a \in Seq(AuxWord) /\ Len(a) = n
    BY <2>2, <2>3
  <2> HIDE DEF v, a
  <2>6. vector' = [vector EXCEPT ![t] = v] /\ aux' = [aux EXCEPT ![t] = a]
    BY <2>0, <2>1 DEF v, a
  <2>7. chunk' = chunk /\ pc' = [pc EXCEPT ![t] = "chunk"]
    BY <1>8 DEF Enqueue, Goto
  <2>8. \A u \in Threads : Len(vector'[u]) <= Len(aux'[u])
    BY <1>1, <2>2, <2>4, <2>5, <2>6 DEF CallTypes
  <2>9. \A u \in Threads : pc'[u] \in Placing => DOMAIN chunk'[u] # {}
    BY <1>1, <2>7 DEF CallTypes, Placing
  <2> QED
    BY <1>1, <2>4, <2>5, <2>6, <2>7, <2>8, <2>9 DEF CallTypes
<1>9. CASE NextChunk(t)
  <2> DEFINE n == Min2(FrameSize, Len(vector[t]))
             c == [i \in 1 .. n |->
                     [buf |-> vector[t][i].buf, dst |-> vector[t][i].dst,
                      aux |-> IF WithAux THEN aux[t][i] ELSE NoAux]]
             v == AfterChunk(vector[t], n)
  <2>1. vector[t] \in Seq(Packet) /\ aux[t] \in Seq(AuxWord) /\ vector[t] # << >>
        /\ Len(vector[t]) <= Len(aux[t])
    BY <1>1, <1>9 DEF CallTypes, NextChunk
  <2>2. Len(vector[t]) \in Nat \ {0} /\ Len(aux[t]) \in Nat
    BY <2>1, EmptySeq, LenProperties
  <2>3. n \in 1 .. FrameSize /\ n <= Len(vector[t]) /\ n <= Len(aux[t])
    BY <2>1, <2>2, Sizes DEF Min2
  <2> HIDE DEF n
  <2>4. c \in [1 .. n -> ChunkEntry] /\ 1 .. n \in SUBSET (1 .. FrameSize)
        /\ DOMAIN c # {}
    <3>1. \A i \in 1 .. n : vector[t][i] \in Packet /\ aux[t][i] \in AuxWord
      BY <2>1, <2>2, <2>3, ElementOfSeq
    <3>2. NoAux \in AuxWord
      BY DEF AuxWord
    <3>3. \A i \in 1 .. n :
            [buf |-> vector[t][i].buf, dst |-> vector[t][i].dst,
             aux |-> IF WithAux THEN aux[t][i] ELSE NoAux] \in ChunkEntry
      BY <3>1, <3>2 DEF Packet, ChunkEntry
    <3>4. 1 \in 1 .. n /\ 1 .. n \in SUBSET (1 .. FrameSize)
      BY <2>3, Sizes
    <3>5. DOMAIN c = 1 .. n
      OBVIOUS
    <3> QED
      BY <3>3, <3>4, <3>5
  <2>5. c \in Chunk /\ DOMAIN c # {}
    <3> HIDE DEF c
    <3> QED
      BY <2>4 DEF Chunk
  <2>6. v \in Seq(Packet) /\ Len(v) = Len(vector[t]) - n
    <3>1. \A i \in n + 1 .. Len(vector[t]) : vector[t][i] \in Packet
      BY <2>1, <2>2, <2>3, ElementOfSeq
    <3> QED
      BY <2>2, <2>3, <3>1, SubSeqProperties DEF AfterChunk
  <2>7. /\ chunk' = [chunk EXCEPT ![t] = c] /\ vector' = [vector EXCEPT ![t] = v]
        /\ aux' = aux /\ pc' = [pc EXCEPT ![t] = "load"]
    BY <1>9 DEF NextChunk, n, Goto
  <2> HIDE DEF c, v
  <2>8. \A u \in Threads : Len(vector'[u]) <= Len(aux'[u])
    BY <1>1, <2>1, <2>2, <2>3, <2>6, <2>7 DEF CallTypes
  <2>9. \A u \in Threads : pc'[u] \in Placing => DOMAIN chunk'[u] # {}
    BY <1>1, <2>5, <2>7 DEF CallTypes
  <2> QED
    BY <1>1, <2>5, <2>6, <2>7, <2>8, <2>9 DEF CallTypes
<1>10. CASE Kick(t) \/ DropGroup(t)
  <2> DEFINE c == [i \in Rest(t) |-> chunk[t][i]]
             st == IF Rest(t) = {} THEN "free" ELSE "load"
  <2>1. chunk' = [chunk EXCEPT ![t] = c] /\ pc' = [pc EXCEPT ![t] = st]
        /\ UNCHANGED <<vector, aux>>
    <3>1. AfterGroup(t) /\ UNCHANGED <<vector, aux>>
      BY <1>10 DEF Kick, DropGroup, callVars
    <3> QED
      BY <3>1 DEF AfterGroup, Goto
  <2>2. PICK I \in SUBSET (1 .. FrameSize) : chunk[t] \in [I -> ChunkEntry]
    BY <1>1 DEF CallTypes, Chunk
  <2>3. Rest(t) \in SUBSET (1 .. FrameSize) /\ c \in [Rest(t) -> ChunkEntry]
    BY <2>2 DEF Rest
  <2>4. c \in Chunk /\ DOMAIN c = Rest(t)
    BY <2>3 DEF Chunk
  <2> HIDE DEF c
  <2>5. \A u \in Threads : pc'[u] \in Placing => DOMAIN chunk'[u] # {}
    BY <1>1, <2>1, <2>4 DEF CallTypes, Placing
  <2> QED
    BY <1>1, <2>1, <2>4, <2>5 DEF CallTypes
<1> QED
  BY <1>3, <1>4, <1>5, <1>6, <1>7, <1>8, <1>9, <1>10 DEF Step

-----------------------------------------------------------------------------
(* Rings.                                                                  *)

\* Where a thread relies on a ring: its own, or the one it sends to.
OnRing == {"reset", "bump", "full", "spin", "claim", "fill", "publish"}

\* The types the ring steps need.
LEMMA RingFacts ==
  ASSUME Types, NEW t \in Threads
  PROVE  /\ head[t] \in Nat /\ tail[t] \in Nat /\ seenTail[t] \in Nat
         /\ elts[t] \in [Slots -> Elt]
         /\ pc[t] \in {"full", "spin", "claim", "fill", "publish"} => Dst(t) \in Threads
  BY DstType DEF Types, RingTypes, LocalTypes, Placing

\* A step that leaves the rings alone and goes where no ring matters.
LEMMA NeutralStep ==
  ASSUME IInv, NEW t \in Threads, ringVars' = ringVars, seenTail' = seenTail,
         \A u \in Threads \ {t} : chunk'[u] = chunk[u] /\ pc'[u] = pc[u],
         pc'[t] \notin OnRing
  PROVE  Positions' /\ Claims'
<1>1. \A u \in Threads : pc'[u] \in OnRing => u # t /\ pc'[u] = pc[u] /\ Dst(u)' = Dst(u)
  BY DstSame
<1>2. UNCHANGED <<head, tail, elts, seenTail>>
  BY DEF ringVars
<1>3. Positions'
  BY <1>1, <1>2 DEF IInv, Positions, OnRing, HeadSlot
<1>4. Claims'
  <2> SUFFICES ASSUME NEW u \in Threads PROVE ClaimOf(u)'
    BY DEF Claims
  <2>1. CASE pc'[u] \in {"full", "spin", "claim"}
    BY <1>1, <1>2, <2>1 DEF IInv, Claims, ClaimOf, OnRing, RingFull, Holding
  <2>2. CASE Holding(u)'
    <3>1. Holding(u) /\ Dst(u)' = Dst(u) /\ Claimed(u)' = Claimed(u) /\ Dst(u) \in Threads
      BY <1>1, <1>2, <2>2, RingFacts DEF Holding, OnRing, Claimed, IInv
    <3>2. \A w \in Threads : Holding(w)' => Holding(w) /\ Dst(w)' = Dst(w)
      BY <1>1 DEF Holding, OnRing
    <3>3. pc'[Dst(u)] \in {"reset", "bump"} => pc[Dst(u)] \in {"reset", "bump"}
      BY <1>1, <3>1 DEF OnRing
    <3> QED
      BY <1>2, <2>2, <3>1, <3>2, <3>3 DEF IInv, Claims, ClaimOf, Holding
  <2> QED
    BY <2>1, <2>2 DEF ClaimOf, Holding
<1> QED
  BY <1>3, <1>4

\* vlib_get_frame_queue_elt up to the compare-and-swap.
LEMMA LookStep ==
  ASSUME IInv, NEW t \in Threads, LoadTail(t) \/ FullTest(t) \/ SlotFreed(t)
  PROVE  Positions' /\ Claims'
<1>1. /\ UNCHANGED <<head, tail, elts, chunk>> /\ pc[t] \in {"load", "full", "spin"}
      /\ \A u \in Threads \ {t} : pc'[u] = pc[u] /\ seenTail'[u] = seenTail[u]
      /\ pc'[t] \in {"full", "spin", "claim", "drop"}
  BY DEF LoadTail, FullTest, SlotFreed, Goto, ringVars, handoffVars, IInv, Types, LocalTypes
<1>2. \A u : Dst(u)' = Dst(u)
  BY <1>1, DstSame
<1>3. Positions'
  BY <1>1 DEF IInv, Positions, HeadSlot
<1>4. Dst(t) \in Threads /\ tail[Dst(t)] \in Nat /\ head[Dst(t)] \in Nat /\ seenTail[t] \in Nat
  BY <1>1, DstType, RingFacts DEF IInv, Placing
<1>5. ClaimOf(t)'
  <2>1. CASE LoadTail(t)
    <3>1. seenTail'[t] = tail[Dst(t)] /\ pc'[t] = "full"
      BY <2>1 DEF LoadTail, Goto, IInv, Types, LocalTypes
    <3> QED
      BY <1>1, <1>2, <1>4, <3>1 DEF ClaimOf, Holding
  <2>2. CASE FullTest(t) \/ SlotFreed(t)
    <3>1. seenTail' = seenTail /\ (pc'[t] = "claim" => ~RingFull(t))
          /\ pc[t] \in {"full", "spin"}
      BY <2>2 DEF FullTest, SlotFreed, Goto, handoffVars, IInv, Types, LocalTypes
    <3>2. seenTail[t] <= tail[Dst(t)]
      BY <3>1 DEF IInv, Claims, ClaimOf
    <3> QED
      BY <1>1, <1>2, <3>1, <3>2 DEF ClaimOf, Holding, RingFull
  <2> QED
    BY <2>1, <2>2
<1>6. ASSUME NEW u \in Threads \ {t} PROVE ClaimOf(u)'
  <2>1. ClaimOf(u)
    BY DEF IInv, Claims
  <2>2. \A w \in Threads : Holding(w)' => Holding(w) /\ seenTail'[w] = seenTail[w]
    BY <1>1 DEF Holding
  <2>3. Holding(u) => Dst(u) \in Threads
    BY RingFacts DEF IInv, Holding
  <2>4. Holding(u)' = Holding(u) /\ pc'[u] = pc[u] /\ seenTail'[u] = seenTail[u]
    BY <1>1 DEF Holding
  <2>5. Holding(u) /\ pc'[Dst(u)] \in {"reset", "bump"} => pc[Dst(u)] \in {"reset", "bump"}
    BY <1>1, <2>3
  <2> QED
    BY <1>1, <1>2, <2>1, <2>2, <2>3, <2>4, <2>5 DEF ClaimOf, RingFull, Claimed
<1> QED
  BY <1>3, <1>5, <1>6 DEF Claims

\* The compare-and-swap: what the test against head saw still holds, since
\* head only grows, and nobody else got the position.
LEMMA ClaimStep ==
  ASSUME IInv, NEW t \in Threads, Claim(t)
  PROVE  Positions' /\ Claims'
<1> DEFINE d == Dst(t)
<1>1. /\ UNCHANGED <<head, elts, chunk, seenTail>> /\ pc[t] = "claim"
      /\ \A u \in Threads \ {t} : pc'[u] = pc[u]
  BY DEF Claim, Goto, handoffVars, IInv, Types, LocalTypes
<1>2. \A u : Dst(u)' = Dst(u)
  BY <1>1, DstSame
<1>3. d \in Threads /\ tail[d] \in Nat /\ head[d] \in Nat /\ seenTail[t] \in Nat
  BY <1>1, RingFacts DEF IInv
<1>4. CASE ~TailAsSeen(t)
  <2>1. ringVars' = ringVars /\ pc'[t] = "load"
    BY <1>1, <1>4 DEF Claim, Retry, Goto, ringVars, IInv, Types, LocalTypes
  <2> QED
    BY <1>1, <2>1, NeutralStep DEF OnRing
<1>5. CASE TailAsSeen(t)
  <2>1. tail' = [tail EXCEPT ![d] = tail[d] + 1] /\ pc'[t] = "fill" /\ tail[d] = seenTail[t]
    BY <1>5 DEF Claim, Goto, TailAsSeen, IInv, Types, LocalTypes
  <2>2. seenTail[t] + 1 < head[d] + NElts
    BY <1>1, <1>3, Sizes DEF IInv, Claims, ClaimOf, RingFull
  <2>3. /\ tail'[d] = tail[d] + 1
        /\ \A e \in Threads : e # d => tail'[e] = tail[e]
    BY <1>3, <2>1 DEF IInv, Types, RingTypes
  <2> HIDE DEF d
  <2>4. Positions'
    <3> SUFFICES ASSUME NEW e \in Threads
        PROVE  /\ head[e] <= tail'[e] /\ tail'[e] <= head[e] + NElts - 1
               /\ \A n \in tail'[e] + 1 .. head[e] + NElts : ~elts[e][Slot(n)].valid
               /\ pc'[e] \in {"reset", "bump"} => head[e] < tail'[e]
               /\ pc'[e] = "bump" => ~elts[e][HeadSlot(e)].valid
      BY <1>1 DEF Positions, HeadSlot
    <3>1. head[e] \in Nat /\ tail[e] \in Nat
      BY RingFacts DEF IInv
    <3>2. /\ head[e] <= tail[e] /\ tail[e] <= head[e] + NElts - 1
          /\ \A n \in tail[e] + 1 .. head[e] + NElts : ~elts[e][Slot(n)].valid
          /\ pc[e] \in {"reset", "bump"} => head[e] < tail[e]
          /\ pc[e] = "bump" => ~elts[e][HeadSlot(e)].valid
      BY DEF IInv, Positions
    <3>3. pc'[e] \in {"reset", "bump"} => pc'[e] = pc[e]
      BY <1>1, <2>1
    <3>4. CASE e = d
      BY <1>3, <2>1, <2>2, <2>3, <3>1, <3>2, <3>3, <3>4, Sizes
    <3>5. CASE e # d
      BY <2>3, <3>2, <3>3, <3>5
    <3> QED
      BY <3>4, <3>5
  <2>5. \A w \in Threads \ {t} : Holding(w)' => Holding(w) /\ Dst(w) \in Threads
    BY <1>1, RingFacts DEF Holding, IInv
  <2>6. ClaimOf(t)'
    <3>1. /\ head[d] <= tail[d] /\ (pc[d] \in {"reset", "bump"} => head[d] < tail[d])
          /\ \A n \in tail[d] + 1 .. head[d] + NElts : ~elts[d][Slot(n)].valid
      BY <1>3 DEF IInv, Positions
    <3>2. tail[d] + 1 \in tail[d] + 1 .. head[d] + NElts
      BY <1>3, <2>1, <2>2, Sizes
    <3>3. ~elts[d][Slot(seenTail[t] + 1)].valid
      BY <2>1, <3>1, <3>2
    <3>4. \A w \in Threads \ {t} : Holding(w) /\ Dst(w) = d => seenTail[w] # seenTail[t]
      <4> TAKE w \in Threads \ {t}
      <4>1. Holding(w) /\ Dst(w) = d => seenTail[w] < tail[d]
        BY DEF IInv, Claims, ClaimOf
      <4>2. seenTail[w] \in Nat
        BY RingFacts DEF IInv
      <4> QED
        BY <1>3, <2>1, <4>1, <4>2
    <3>5. pc'[d] \in {"reset", "bump"} => pc[d] \in {"reset", "bump"}
      BY <1>1, <1>3, <2>1
    <3>6. Dst(t) = d
      BY DEF d
    <3> QED
      BY <1>1, <1>2, <1>3, <2>1, <2>3, <2>5, <3>1, <3>3, <3>4, <3>5, <3>6
         DEF ClaimOf, Claimed, Holding
  <2>7. ASSUME NEW u \in Threads \ {t} PROVE ClaimOf(u)'
    <3>1. ClaimOf(u) /\ seenTail[u] \in Nat
      BY RingFacts DEF IInv, Claims
    <3>2. Holding(u)' = Holding(u) /\ pc'[u] = pc[u]
      BY <1>1 DEF Holding
    <3>3. pc[u] \in {"full", "spin", "claim", "fill", "publish"} =>
            Dst(u) \in Threads /\ tail[Dst(u)] \in Nat /\ tail[Dst(u)] <= tail'[Dst(u)]
      BY <1>3, <2>3, RingFacts DEF IInv
    <3>4. Holding(u) /\ Dst(t) = Dst(u) => seenTail[t] # seenTail[u]
      BY <1>3, <2>1, <3>1 DEF ClaimOf, d
    <3>5. Holding(u) /\ pc'[Dst(u)] \in {"reset", "bump"} => pc[Dst(u)] \in {"reset", "bump"}
      BY <1>1, <2>1, <3>3 DEF Holding
    <3>6. pc[u] \in {"full", "spin", "claim"} => seenTail[u] <= tail'[Dst(u)]
      BY <3>1, <3>3, <2>3 DEF ClaimOf, IInv, Types, RingTypes
    <3>7. Holding(u) => seenTail[u] < tail'[Dst(u)]
      BY <3>1, <3>3, <2>3 DEF ClaimOf, Holding, IInv, Types, RingTypes
    <3> QED
      BY <1>1, <1>2, <2>5, <3>1, <3>2, <3>4, <3>5, <3>6, <3>7
         DEF ClaimOf, RingFull, Claimed
  <2> QED
    BY <2>4, <2>6, <2>7 DEF Claims
<1> QED
  BY <1>4, <1>5

\* Writing the entries of an element leaves its valid flag.
LEMMA ItemsStep ==
  ASSUME IInv, NEW d \in Threads, NEW s \in Slots, NEW x,
         elts' = [elts EXCEPT ![d][s].items = x]
  PROVE  \A e \in Threads : \A r \in Slots : elts'[e][r].valid = elts[e][r].valid
  BY DEF IInv, Types, RingTypes, Elt

\* A step that changes neither counters nor valid flags, after which thread t
\* is as before, or has just found its head element valid.
LEMMA FlagsStep ==
  ASSUME IInv, NEW t \in Threads, UNCHANGED <<head, tail, chunk, seenTail>>,
         \A e \in Threads : \A r \in Slots : elts'[e][r].valid = elts[e][r].valid,
         \A u \in Threads \ {t} : pc'[u] = pc[u],
         \/ pc[t] = "fill" /\ pc'[t] = "publish"
         \/ pc[t] = "dequeue" /\ pc'[t] \in {"dequeue", "reset"} /\ Ready(t)
  PROVE  Positions' /\ Claims'
<1>1. \A u : Dst(u)' = Dst(u)
  BY DstSame
<1>2. ASSUME NEW e \in Threads, NEW n \in Nat
      PROVE  elts'[e][Slot(n)].valid = elts[e][Slot(n)].valid
  BY SlotType
<1>3. Positions'
  <2> SUFFICES ASSUME NEW e \in Threads
      PROVE  /\ head[e] <= tail[e] /\ tail[e] <= head[e] + NElts - 1
             /\ \A n \in tail[e] + 1 .. head[e] + NElts : ~elts'[e][Slot(n)].valid
             /\ pc'[e] \in {"reset", "bump"} => head[e] < tail[e]
             /\ pc'[e] = "bump" => ~elts'[e][Slot(head[e] + 1)].valid
    BY DEF Positions, HeadSlot
  <2>1. head[e] \in Nat /\ tail[e] \in Nat
    BY RingFacts DEF IInv
  <2>2. /\ head[e] <= tail[e] /\ tail[e] <= head[e] + NElts - 1
        /\ \A n \in tail[e] + 1 .. head[e] + NElts : ~elts[e][Slot(n)].valid
        /\ pc[e] \in {"reset", "bump"} => head[e] < tail[e]
        /\ pc[e] = "bump" => ~elts[e][Slot(head[e] + 1)].valid
    BY DEF IInv, Positions, HeadSlot
  <2>3. \A n \in tail[e] + 1 .. head[e] + NElts : n \in Nat
    BY <2>1, Sizes
  <2>4. pc'[e] \in {"reset", "bump"} => head[e] < tail[e]
    BY <2>1, <2>2 DEF Ready
  <2>5. pc'[e] = "bump" => pc[e] = "bump"
    OBVIOUS
  <2>6. head[e] + 1 \in Nat
    BY <2>1
  <2> QED
    BY <1>2, <2>2, <2>3, <2>4, <2>5, <2>6
<1>4. ASSUME NEW u \in Threads PROVE ClaimOf(u)'
  <2>1. ClaimOf(u) /\ seenTail[u] \in Nat /\ seenTail[u] + 1 \in Nat
    BY RingFacts DEF IInv, Claims
  <2>2. \A w \in Threads : Holding(w)' => Holding(w)
    BY DEF Holding
  <2>3. pc'[u] \in {"full", "spin", "claim"} => pc[u] = pc'[u]
    OBVIOUS
  <2>4. Holding(u) => Dst(u) \in Threads
    BY RingFacts DEF IInv, Holding
  <2>5. Holding(u) => elts'[Dst(u)][Claimed(u)].valid = elts[Dst(u)][Claimed(u)].valid
    BY <1>2, <2>1, <2>4 DEF Claimed
  <2>6. ASSUME Holding(u), pc'[Dst(u)] \in {"reset", "bump"} PROVE seenTail[u] # head[Dst(u)]
    <3>1. CASE pc[Dst(u)] \in {"reset", "bump"}
      BY <2>1, <2>6, <3>1 DEF ClaimOf
    <3>2. CASE pc[Dst(u)] \notin {"reset", "bump"}
      <4>1. Dst(u) = t /\ Ready(t)
        BY <2>4, <2>6, <3>2
      <4>2. elts[Dst(u)][Slot(head[Dst(u)] + 1)].valid
        BY <4>1 DEF Ready, HeadElt, HeadSlot
      <4>3. ~elts[Dst(u)][Slot(seenTail[u] + 1)].valid
        BY <2>1, <2>6 DEF ClaimOf, Claimed
      <4> QED
        BY <4>2, <4>3
    <3> QED
      BY <3>1, <3>2
  <2> QED
    BY <1>1, <2>1, <2>2, <2>3, <2>5, <2>6 DEF ClaimOf, RingFull, Claimed
<1> QED
  BY <1>3, <1>4 DEF Claims

\* Filling or emptying an element moves no position and no claim.
LEMMA CopyStep ==
  ASSUME IInv, NEW t \in Threads, Fill(t) \/ Dequeue(t)
  PROVE  Positions' /\ Claims'
<1>1. CASE Fill(t)
  <2> DEFINE group == Compress(chunk[t], For(chunk[t], Dst(t)))
             x == [i \in 1 .. Len(group) |-> Item(group[i].buf, group[i].aux)]
  <2>1. /\ pc[t] = "fill" /\ UNCHANGED <<head, tail, chunk, seenTail>>
        /\ \A u \in Threads \ {t} : pc'[u] = pc[u]
        /\ pc'[t] = "publish"
    BY <1>1 DEF Fill, Goto, handoffVars, IInv, Types, LocalTypes
  <2>2. elts' = [elts EXCEPT ![Dst(t)][Claimed(t)].items = x]
    BY <1>1 DEF Fill
  <2>3. Dst(t) \in Threads /\ Claimed(t) \in Slots
    BY <2>1, RingFacts, SlotType DEF IInv, Claimed
  <2> HIDE DEF x
  <2>4. \A e \in Threads : \A r \in Slots : elts'[e][r].valid = elts[e][r].valid
    BY <2>2, <2>3, ItemsStep
  <2> QED
    BY <2>1, <2>4, FlagsStep
<1>2. CASE Dequeue(t)
  <2> DEFINE items == HeadElt(t).items
             n == Min2(IF nFree[t] = 0 THEN FrameSize ELSE nFree[t], Len(items))
  <2>1. /\ pc[t] = "dequeue" /\ UNCHANGED <<head, tail, chunk, seenTail>>
        /\ \A u \in Threads \ {t} : pc'[u] = pc[u]
        /\ pc'[t] \in {"dequeue", "reset"} /\ Ready(t)
    BY <1>2 DEF Dequeue, AfterCopy, Goto, handoffVars, IInv, Types, LocalTypes
  <2>2. elts' = [elts EXCEPT ![t][HeadSlot(t)].items = LeftOver(items, n)]
    BY <1>2 DEF Dequeue
  <2>3. HeadSlot(t) \in Slots
    BY RingFacts, SlotType DEF IInv, HeadSlot
  <2>4. \A e \in Threads : \A r \in Slots : elts'[e][r].valid = elts[e][r].valid
    BY <2>2, <2>3, ItemsStep
  <2> QED
    BY <2>1, <2>4, FlagsStep
<1> QED
  BY <1>1, <1>2

\* A producer publishes a position no one else relies on.
LEMMA PublishStep ==
  ASSUME IInv, NEW t \in Threads, Publish(t)
  PROVE  Positions' /\ Claims'
<1> DEFINE d == Dst(t)
           a == seenTail[t] + 1
<1>1. /\ pc[t] = "publish" /\ UNCHANGED <<head, tail, chunk, seenTail>>
      /\ \A u \in Threads \ {t} : pc'[u] = pc[u]
      /\ pc'[t] = "kick"
  BY DEF Publish, Goto, handoffVars, IInv, Types, LocalTypes
<1>2. \A u : Dst(u)' = Dst(u)
  BY <1>1, DstSame
<1>3. d \in Threads /\ tail[d] \in Nat /\ head[d] \in Nat /\ seenTail[t] \in Nat
  BY <1>1, RingFacts DEF IInv
<1>4. ClaimOf(t) /\ Holding(t)
  BY <1>1 DEF IInv, Claims, Holding
<1>5. head[d] + 1 <= a /\ a <= tail[d] /\ tail[d] <= head[d] + NElts - 1 /\ a \in Nat
  BY <1>3, <1>4 DEF ClaimOf, IInv, Positions
<1>6. ASSUME NEW e \in Threads, NEW r \in Slots, e # d \/ r # Slot(a)
      PROVE  elts'[e][r].valid = elts[e][r].valid
  <2>1. elts' = [elts EXCEPT ![d][Slot(a)].valid = TRUE]
    BY DEF Publish, Claimed
  <2>2. Slot(a) \in Slots
    BY <1>5, SlotType
  <2> HIDE DEF d, a
  <2> QED
    BY <1>3, <1>6, <2>1, <2>2 DEF IInv, Types, RingTypes, Elt
<1> HIDE DEF d, a
<1>7. ASSUME NEW n \in Nat, n # a, n <= head[d] + NElts, n >= head[d] + 1
      PROVE  elts'[d][Slot(n)].valid = elts[d][Slot(n)].valid
  <2>1. Slot(n) # Slot(a)
    BY <1>3, <1>5, <1>7, Sizes, SlotDistinct
  <2> QED
    BY <1>3, <1>6, <2>1, SlotType
<1>8. Positions'
  <2> SUFFICES ASSUME NEW e \in Threads
      PROVE  /\ head[e] <= tail[e] /\ tail[e] <= head[e] + NElts - 1
             /\ \A n \in tail[e] + 1 .. head[e] + NElts : ~elts'[e][Slot(n)].valid
             /\ pc'[e] \in {"reset", "bump"} => head[e] < tail[e]
             /\ pc'[e] = "bump" => ~elts'[e][Slot(head[e] + 1)].valid
    BY <1>1 DEF Positions, HeadSlot
  <2>1. head[e] \in Nat /\ tail[e] \in Nat
    BY RingFacts DEF IInv
  <2>2. /\ head[e] <= tail[e] /\ tail[e] <= head[e] + NElts - 1
        /\ \A n \in tail[e] + 1 .. head[e] + NElts : ~elts[e][Slot(n)].valid
        /\ pc[e] \in {"reset", "bump"} => head[e] < tail[e]
        /\ pc[e] = "bump" => ~elts[e][Slot(head[e] + 1)].valid
    BY DEF IInv, Positions, HeadSlot
  <2>3. pc'[e] \in {"reset", "bump"} => pc[e] = pc'[e]
    BY <1>1
  <2>4. CASE e # d
    <3>1. \A n \in Nat : elts'[e][Slot(n)].valid = elts[e][Slot(n)].valid
      BY <1>6, <2>4, SlotType
    <3>2. \A n \in tail[e] + 1 .. head[e] + NElts : n \in Nat
      BY <2>1, Sizes
    <3>3. head[e] + 1 \in Nat
      BY <2>1
    <3> QED
      BY <2>2, <2>3, <3>1, <3>2, <3>3
  <2>5. CASE e = d
    <3>1. ASSUME NEW n \in tail[e] + 1 .. head[e] + NElts PROVE ~elts'[e][Slot(n)].valid
      <4>1. n \in Nat /\ n # a /\ n <= head[d] + NElts /\ n >= head[d] + 1
        BY <1>3, <1>5, <2>5, <3>1, Sizes
      <4> QED
        BY <1>7, <2>2, <2>5, <4>1
    <3>2. ASSUME pc[e] = "bump" PROVE ~elts'[e][Slot(head[e] + 1)].valid
      <4>1. seenTail[t] # head[d]
        BY <1>4, <2>5, <3>2 DEF ClaimOf, d
      <4>2. head[d] + 1 # a /\ head[d] + 1 \in Nat /\ head[d] + 1 <= head[d] + NElts
        BY <1>3, <4>1, Sizes DEF a
      <4>3. elts'[d][Slot(head[d] + 1)].valid = elts[d][Slot(head[d] + 1)].valid
        BY <1>3, <1>7, <4>2
      <4> QED
        BY <2>2, <2>5, <3>2, <4>3
    <3> QED
      BY <2>2, <2>3, <3>1, <3>2
  <2> QED
    BY <2>4, <2>5
<1>9. ASSUME NEW u \in Threads PROVE ClaimOf(u)'
  <2>1. ClaimOf(u) /\ seenTail[u] \in Nat /\ seenTail[u] + 1 \in Nat
    BY RingFacts DEF IInv, Claims
  <2>2. \A w \in Threads : Holding(w)' => Holding(w) /\ w # t
    BY <1>1 DEF Holding
  <2>3. pc'[u] \in {"full", "spin", "claim"} => pc[u] = pc'[u]
    BY <1>1
  <2>4. Holding(u) => Dst(u) \in Threads
    BY RingFacts DEF IInv, Holding
  <2>5. Holding(u) /\ pc'[Dst(u)] \in {"reset", "bump"} => pc[Dst(u)] \in {"reset", "bump"}
    BY <1>1, <2>4
  <2>6. ASSUME Holding(u), u # t
        PROVE  ~elts'[Dst(u)][Claimed(u)].valid
    <3>1. CASE Dst(u) # d
      BY <1>6, <2>1, <2>4, <2>6, <3>1, SlotType DEF ClaimOf, Claimed
    <3>2. CASE Dst(u) = d
      <4>1. seenTail[u] # seenTail[t]
        BY <1>4, <2>6, <3>2 DEF ClaimOf, d
      <4>2. head[d] <= seenTail[u] /\ seenTail[u] < tail[d]
        BY <2>1, <2>6, <3>2 DEF ClaimOf
      <4>3. seenTail[u] + 1 # a /\ seenTail[u] + 1 <= head[d] + NElts
            /\ seenTail[u] + 1 >= head[d] + 1
        BY <1>3, <1>5, <2>1, <4>1, <4>2, Sizes DEF a
      <4>4. elts'[d][Slot(seenTail[u] + 1)].valid = elts[d][Slot(seenTail[u] + 1)].valid
        BY <1>7, <2>1, <4>3
      <4> QED
        BY <2>1, <2>6, <3>2, <4>4 DEF ClaimOf, Claimed
    <3> QED
      BY <3>1, <3>2
  <2> QED
    BY <1>1, <1>2, <2>1, <2>2, <2>3, <2>5, <2>6 DEF ClaimOf, RingFull, Claimed
<1> QED
  BY <1>8, <1>9 DEF Claims

\* The owner resets the element at its head, which nobody has claimed, ...
LEMMA ResetStep ==
  ASSUME IInv, NEW t \in Threads, ResetElt(t)
  PROVE  Positions' /\ Claims'
<1>1. /\ pc[t] = "reset" /\ UNCHANGED <<head, tail, chunk, seenTail>>
      /\ \A u \in Threads \ {t} : pc'[u] = pc[u]
      /\ pc'[t] = "bump"
  BY DEF ResetElt, Goto, handoffVars, IInv, Types, LocalTypes
<1>2. \A u : Dst(u)' = Dst(u)
  BY <1>1, DstSame
<1>3. Slot(head[t] + 1) \in Slots
  BY RingFacts, SlotType DEF IInv
<1>4. /\ ~elts'[t][Slot(head[t] + 1)].valid
      /\ \A e \in Threads : \A r \in Slots : elts'[e][r].valid => elts[e][r].valid
  BY <1>3 DEF ResetElt, HeadSlot, EmptyElt, IInv, Types, RingTypes
<1>5. \A e \in Threads : \A n \in Nat : elts'[e][Slot(n)].valid => elts[e][Slot(n)].valid
  BY <1>4, SlotType
<1>6. Positions'
  <2> SUFFICES ASSUME NEW e \in Threads
      PROVE  /\ head[e] <= tail[e] /\ tail[e] <= head[e] + NElts - 1
             /\ \A n \in tail[e] + 1 .. head[e] + NElts : ~elts'[e][Slot(n)].valid
             /\ pc'[e] \in {"reset", "bump"} => head[e] < tail[e]
             /\ pc'[e] = "bump" => ~elts'[e][Slot(head[e] + 1)].valid
    BY <1>1 DEF Positions, HeadSlot
  <2>1. head[e] \in Nat /\ tail[e] \in Nat
    BY RingFacts DEF IInv
  <2>2. /\ head[e] <= tail[e] /\ tail[e] <= head[e] + NElts - 1
        /\ \A n \in tail[e] + 1 .. head[e] + NElts : ~elts[e][Slot(n)].valid
        /\ pc[e] \in {"reset", "bump"} => head[e] < tail[e]
        /\ pc[e] = "bump" => ~elts[e][Slot(head[e] + 1)].valid
    BY DEF IInv, Positions, HeadSlot
  <2>3. \A n \in tail[e] + 1 .. head[e] + NElts : n \in Nat
    BY <2>1, Sizes
  <2>4. head[e] + 1 \in Nat
    BY <2>1
  <2>5. pc'[e] \in {"reset", "bump"} => head[e] < tail[e]
    BY <1>1, <2>2
  <2>6. pc'[e] = "bump" => ~elts'[e][Slot(head[e] + 1)].valid
    BY <1>1, <1>4, <1>5, <2>2, <2>4
  <2> QED
    BY <1>5, <2>2, <2>3, <2>5, <2>6
<1>7. ASSUME NEW u \in Threads PROVE ClaimOf(u)'
  <2>1. ClaimOf(u) /\ seenTail[u] \in Nat /\ seenTail[u] + 1 \in Nat
    BY RingFacts DEF IInv, Claims
  <2>2. \A w \in Threads : Holding(w)' => Holding(w)
    BY <1>1 DEF Holding
  <2>3. pc'[u] \in {"full", "spin", "claim"} => pc[u] = pc'[u]
    BY <1>1
  <2>4. Holding(u) => Dst(u) \in Threads
    BY RingFacts DEF IInv, Holding
  <2>5. Holding(u) /\ pc'[Dst(u)] \in {"reset", "bump"} => pc[Dst(u)] \in {"reset", "bump"}
    BY <1>1, <2>4
  <2>6. Holding(u) => ~elts'[Dst(u)][Claimed(u)].valid
    BY <1>5, <2>1, <2>4 DEF ClaimOf, Claimed
  <2> QED
    BY <1>1, <1>2, <2>1, <2>2, <2>3, <2>5, <2>6 DEF ClaimOf, RingFull, Claimed
<1> QED
  BY <1>6, <1>7 DEF Claims

\* ... and then gives it back.
LEMMA BumpStep ==
  ASSUME IInv, NEW t \in Threads, BumpHead(t)
  PROVE  Positions' /\ Claims'
<1>1. /\ pc[t] = "bump" /\ UNCHANGED <<tail, elts, chunk, seenTail>>
      /\ \A u \in Threads \ {t} : pc'[u] = pc[u]
      /\ pc'[t] = "dequeue"
  BY DEF BumpHead, Goto, handoffVars, IInv, Types, LocalTypes
<1>2. \A u : Dst(u)' = Dst(u)
  BY <1>1, DstSame
<1>3. /\ head'[t] = head[t] + 1
      /\ \A e \in Threads : e # t => head'[e] = head[e]
      /\ \A e \in Threads : head[e] \in Nat /\ head'[e] \in Nat /\ head[e] <= head'[e]
  BY DEF BumpHead, IInv, Types, RingTypes
<1>4. head[t] < tail[t] /\ ~elts[t][Slot(head[t] + 1)].valid
  BY <1>1 DEF IInv, Positions, HeadSlot
<1>5. Positions'
  <2> SUFFICES ASSUME NEW e \in Threads
      PROVE  /\ head'[e] <= tail[e] /\ tail[e] <= head'[e] + NElts - 1
             /\ \A n \in tail[e] + 1 .. head'[e] + NElts : ~elts[e][Slot(n)].valid
             /\ pc'[e] \in {"reset", "bump"} => head'[e] < tail[e]
             /\ pc'[e] = "bump" => ~elts[e][Slot(head'[e] + 1)].valid
    BY <1>1 DEF Positions, HeadSlot
  <2>1. head[e] \in Nat /\ tail[e] \in Nat
    BY RingFacts DEF IInv
  <2>2. /\ head[e] <= tail[e] /\ tail[e] <= head[e] + NElts - 1
        /\ \A n \in tail[e] + 1 .. head[e] + NElts : ~elts[e][Slot(n)].valid
        /\ pc[e] \in {"reset", "bump"} => head[e] < tail[e]
        /\ pc[e] = "bump" => ~elts[e][Slot(head[e] + 1)].valid
    BY DEF IInv, Positions, HeadSlot
  <2>3. CASE e # t
    BY <1>1, <1>3, <2>2, <2>3
  <2>4. CASE e = t
    <3>1. ASSUME NEW n \in tail[e] + 1 .. head'[e] + NElts PROVE ~elts[e][Slot(n)].valid
      <4>1. CASE n = (head[t] + 1) + NElts
        <5>1. Slot((head[t] + 1) + NElts) = Slot(head[t] + 1)
          BY <2>1, <2>4, SlotWrap
        <5> QED
          BY <1>4, <2>4, <4>1, <5>1
      <4>2. CASE n # (head[t] + 1) + NElts
        <5>1. n \in tail[e] + 1 .. head[e] + NElts
          BY <1>3, <2>1, <2>4, <3>1, <4>2, Sizes
        <5> QED
          BY <2>2, <5>1
      <4> QED
        BY <4>1, <4>2
    <3> QED
      BY <1>1, <1>3, <1>4, <2>1, <2>2, <2>4, <3>1, Sizes
  <2> QED
    BY <2>3, <2>4
<1>6. ASSUME NEW u \in Threads PROVE ClaimOf(u)'
  <2>1. ClaimOf(u) /\ seenTail[u] \in Nat
    BY RingFacts DEF IInv, Claims
  <2>2. \A w \in Threads : Holding(w)' => Holding(w)
    BY <1>1 DEF Holding
  <2>3. pc'[u] \in {"full", "spin", "claim"} => pc[u] = pc'[u] /\ Dst(u) \in Threads
    BY <1>1, RingFacts DEF IInv
  <2>4. Holding(u) => Dst(u) \in Threads
    BY RingFacts DEF IInv, Holding
  <2>5. pc'[u] = "claim" => seenTail[u] + 1 < head'[Dst(u)] + NElts
    <3>1. pc'[u] = "claim" => ~(seenTail[u] + 1 >= head[Dst(u)] + NElts)
      BY <2>1, <2>3 DEF ClaimOf, RingFull
    <3> QED
      BY <1>3, <2>1, <2>3, <3>1, Sizes
  <2>6. Holding(u) => head'[Dst(u)] <= seenTail[u]
    <3>1. CASE Dst(u) = t
      <4>1. Holding(u) => head[t] <= seenTail[u] /\ seenTail[u] # head[t]
        BY <1>1, <2>1, <3>1 DEF ClaimOf
      <4> QED
        BY <1>3, <2>1, <3>1, <4>1
    <3>2. CASE Dst(u) # t
      BY <1>3, <2>1, <2>4, <3>2 DEF ClaimOf
    <3> QED
      BY <3>1, <3>2
  <2>7. Holding(u) /\ pc'[Dst(u)] \in {"reset", "bump"} => seenTail[u] # head'[Dst(u)]
    BY <1>1, <1>3, <2>1, <2>4 DEF ClaimOf
  <2>8. pc'[u] = "claim" => ~(seenTail[u] + 1 >= head'[Dst(u)] + NElts)
    BY <1>3, <2>1, <2>3, <2>5, Sizes
  <2> QED
    BY <1>1, <1>2, <2>1, <2>2, <2>3, <2>6, <2>7, <2>8 DEF ClaimOf, RingFull, Claimed
<1> QED
  BY <1>5, <1>6 DEF Claims
\* The steps that touch no ring.
LEMMA OtherStep ==
  ASSUME IInv, NEW t \in Threads,
         \/ PollTest(t) \/ ClearCheck(t) \/ EndDequeue(t) \/ EndDispatch(t) \/ Enqueue(t)
         \/ NextChunk(t) \/ EndHandoff(t) \/ Kick(t) \/ DropGroup(t) \/ FreeDrops(t)
  PROVE  Positions' /\ Claims'
<1>1. pc \in [Threads -> PollStates \union HandoffStates] /\ chunk \in [Threads -> Chunk]
  BY DEF IInv, Types, LocalTypes, CallTypes
<1>2. ASSUME NEW st, Goto(t, st), st \notin OnRing
      PROVE  pc'[t] \notin OnRing /\ \A u \in Threads \ {t} : pc'[u] = pc[u]
  BY <1>1, <1>2 DEF Goto
<1>3. CASE PollTest(t) \/ ClearCheck(t) \/ EndDequeue(t) \/ EndDispatch(t) \/ EndHandoff(t)
  <2>1. ringVars' = ringVars /\ seenTail' = seenTail /\ chunk' = chunk
    BY <1>3 DEF PollTest, ClearCheck, EndDequeue, EndDispatch, EndHandoff, handoffVars
  <2>2. \E st : Goto(t, st) /\ st \notin OnRing
    BY <1>3 DEF PollTest, ClearCheck, EndDequeue, EndDispatch, EndHandoff, OnRing
  <2> QED
    BY <1>2, <2>1, <2>2, NeutralStep
<1>4. CASE Enqueue(t) \/ FreeDrops(t)
  <2>1. ringVars' = ringVars /\ seenTail' = seenTail /\ chunk' = chunk
    BY <1>4 DEF Enqueue, FreeDrops
  <2>2. Goto(t, "chunk") /\ "chunk" \notin OnRing
    BY <1>4 DEF Enqueue, FreeDrops, OnRing
  <2> QED
    BY <1>2, <2>1, <2>2, NeutralStep
<1>5. CASE NextChunk(t)
  <2>1. ringVars' = ringVars /\ seenTail' = seenTail
        /\ \A u \in Threads \ {t} : chunk'[u] = chunk[u]
    BY <1>1, <1>5 DEF NextChunk
  <2>2. Goto(t, "load") /\ "load" \notin OnRing
    BY <1>5 DEF NextChunk, OnRing
  <2> QED
    BY <1>2, <2>1, <2>2, NeutralStep
<1>6. CASE Kick(t) \/ DropGroup(t)
  <2>1. ringVars' = ringVars /\ seenTail' = seenTail /\ AfterGroup(t)
    BY <1>6 DEF Kick, DropGroup
  <2>2. \A u \in Threads \ {t} : chunk'[u] = chunk[u]
    BY <1>1, <2>1 DEF AfterGroup
  <2>3. \E st : Goto(t, st) /\ st \notin OnRing
    BY <2>1 DEF AfterGroup, OnRing
  <2> QED
    BY <1>2, <2>1, <2>2, <2>3, NeutralStep
<1> QED
  BY <1>3, <1>4, <1>5, <1>6

-----------------------------------------------------------------------------
\* The types hold at the start, ...
LEMMA InitHolds == Init => IInv
<1> SUFFICES ASSUME Init PROVE IInv
  OBVIOUS
<1>1. RingTypes
  BY EmptySeq DEF Init, RingTypes, EmptyElt, Elt
<1>2. LocalTypes /\ Polling
  BY Sizes DEF Init, LocalTypes, Polling, PollStates, HandoffStates
<1>3. CallTypes
  <2>1. << >> \in Chunk
    <3>1. << >> \in [{} -> ChunkEntry]
      OBVIOUS
    <3> QED
      BY <3>1 DEF Chunk
  <2>2. << >> \in Seq(Packet) /\ << >> \in Seq(AuxWord) /\ Len(<< >>) = 0
    BY EmptySeq
  <2> QED
    BY <2>1, <2>2 DEF Init, CallTypes, Placing
<1>4. Positions
  <2> SUFFICES ASSUME NEW d \in Threads
      PROVE  /\ 0 <= NElts - 1
             /\ \A n \in 1 .. NElts : ~elts[d][Slot(n)].valid
    <3>1. NElts \in Nat /\ 0 + 1 = 1 /\ 0 + NElts = NElts
      BY Sizes
    <3> QED
      BY <3>1 DEF Init, Positions
  <2>1. \A n \in 1 .. NElts : Slot(n) \in Slots
    BY Sizes, SlotType
  <2> QED
    BY <2>1, Sizes DEF Init, EmptyElt
<1>5. Claims
  BY DEF Init, Claims, ClaimOf, Holding
<1> QED
  BY <1>1, <1>2, <1>3, <1>4, <1>5 DEF IInv, Types

\* ... and every step of every thread keeps them, and the claims.
LEMMA StepHolds == IInv /\ Next => IInv'
<1> SUFFICES ASSUME IInv, Next PROVE IInv'
  OBVIOUS
<1>1. Types' /\ Polling'
  BY RingTypesStep, LocalStep, CallTypesStep DEF Types
<1>2. PICK t \in Threads : Step(t) \/ Enqueue(t)
  BY DEF Next
<1>3. Positions' /\ Claims'
  BY <1>2, OtherStep, LookStep, ClaimStep, CopyStep, PublishStep, ResetStep, BumpStep
     DEF Step
<1> QED
  BY <1>1, <1>3 DEF IInv

\* The inductive invariant of the hand-off rings: types, poll counters, free
\* positions and claims, whatever the threads interleave to.
THEOREM Invariance == Spec => []IInv
<1>1. IInv /\ UNCHANGED vars => IInv'
  <2> SUFFICES ASSUME IInv, UNCHANGED vars PROVE IInv'
    OBVIOUS
  <2>1. /\ UNCHANGED <<head, tail, elts, check, counter, pc, sent, vector, aux>>
        /\ UNCHANGED <<chunk, seenTail, nFree, taken, processed>>
    BY DEF vars, ringVars, pollVars, handoffVars, callVars, dequeueVars
  <2>2. Types' /\ Polling'
    BY <2>1 DEF IInv, Types, RingTypes, LocalTypes, CallTypes, Polling
  <2>3. \A u : Dst(u)' = Dst(u)
    BY <2>1, DstSame
  <2>4. Positions'
    BY <2>1 DEF IInv, Positions, HeadSlot
  <2>5. Claims'
    BY <2>1, <2>3 DEF IInv, Claims, ClaimOf, Holding, RingFull, Claimed
  <2> QED
    BY <2>2, <2>4, <2>5 DEF IInv
<1> QED
  BY <1>1, InitHolds, StepHolds, PTL DEF Spec

\* Counters stay naturals: head never overtakes tail, the poll counter is only
\* decremented while it is positive, a frame is never overfilled and a call of
\* the dequeue function stops at vector_threshold.
THEOREM TypeCorrect == Spec => []TypeOK
<1>1. IInv => TypeOK
  <2> SUFFICES ASSUME IInv PROVE TypeOK
    OBVIOUS
  <2>1. RingTypes /\ LocalTypes /\ Polling
    BY DEF IInv, Types
  <2>2. \A t \in Threads : nFree[t] \in 0 .. FrameSize /\ taken[t] \in 0 .. VectorThreshold
    BY <2>1, Sizes DEF LocalTypes, Polling, VectorThreshold
  <2>3. \A t \in Threads : \A s \in Slots : elts[t][s].valid \in BOOLEAN
    BY <2>1 DEF RingTypes, Elt
  <2> QED
    BY <2>1, <2>2, <2>3 DEF RingTypes, LocalTypes, TypeOK
<1> QED
  BY <1>1, Invariance, PTL

\* A claimed slot belongs to one producer, who alone may fill and publish it,
\* and a ring never holds more than NElts - 1 frames: the compare-and-swap on
\* tail and the earlier test against head are enough, for any number of
\* producers and any size of the ring.
THEOREM RingIsSafe == Spec => []RingSafe
<1>1. IInv => RingSafe
  <2> SUFFICES ASSUME IInv PROVE RingSafe
    OBVIOUS
  <2>1. RingBound
    <3> SUFFICES ASSUME NEW d \in Threads PROVE tail[d] - head[d] \in 0 .. NElts - 1
      BY DEF RingBound
    <3>1. head[d] \in Nat /\ tail[d] \in Nat
      BY RingFacts DEF IInv
    <3> QED
      BY <3>1, Sizes DEF IInv, Positions
  <2>2. ASSUME NEW t \in Threads, Holding(t)
        PROVE  /\ \A u \in Threads \ {t} : ~Owns(u, Dst(t), Claimed(t))
               /\ ~elts[Dst(t)][Claimed(t)].valid
               /\ ~(pc[Dst(t)] = "reset" /\ HeadSlot(Dst(t)) = Claimed(t))
    <3> DEFINE d == Dst(t)
    <3>1. ClaimOf(t) /\ Types
      BY DEF IInv, Claims
    <3>2. d \in Threads /\ seenTail[t] \in Nat
      BY <2>2, <3>1, RingFacts DEF Holding
    <3>3. head[d] \in Nat /\ tail[d] \in Nat /\ tail[d] <= head[d] + NElts - 1
      BY <3>1, <3>2, RingFacts DEF IInv, Positions
    <3>4. head[d] <= seenTail[t] /\ seenTail[t] < tail[d]
      BY <2>2, <3>1 DEF ClaimOf
    <3>5. ASSUME NEW u \in Threads \ {t}, Owns(u, d, Claimed(t)) PROVE FALSE
      <4>1. Holding(u) /\ Dst(u) = d /\ Claimed(u) = Claimed(t)
        BY <3>5 DEF Owns, Holding
      <4>2. ClaimOf(u) /\ seenTail[u] \in Nat
        BY <3>1, RingFacts DEF IInv, Claims
      <4>3. head[d] <= seenTail[u] /\ seenTail[u] < tail[d]
        BY <4>1, <4>2 DEF ClaimOf
      <4>4. seenTail[u] # seenTail[t]
        BY <2>2, <3>1, <4>1 DEF ClaimOf
      <4> HIDE DEF d
      <4>5. /\ seenTail[u] + 1 \in Nat /\ seenTail[t] + 1 \in Nat
            /\ seenTail[u] + 1 # seenTail[t] + 1
            /\ seenTail[u] + 1 < (seenTail[t] + 1) + NElts
            /\ seenTail[t] + 1 < (seenTail[u] + 1) + NElts
        BY <3>2, <3>3, <3>4, <4>2, <4>3, <4>4, Sizes
      <4> QED
        BY <4>1, <4>5, SlotDistinct DEF Claimed
    <3>6. ASSUME pc[d] = "reset", HeadSlot(d) = Claimed(t) PROVE FALSE
      <4>1. seenTail[t] # head[d]
        BY <2>2, <3>1, <3>6 DEF ClaimOf
      <4> HIDE DEF d
      <4>2. /\ head[d] + 1 \in Nat /\ seenTail[t] + 1 \in Nat
            /\ head[d] + 1 # seenTail[t] + 1
            /\ head[d] + 1 < (seenTail[t] + 1) + NElts
            /\ seenTail[t] + 1 < (head[d] + 1) + NElts
        BY <3>2, <3>3, <3>4, <4>1, Sizes
      <4> QED
        BY <3>6, <4>2, SlotDistinct DEF Claimed, HeadSlot
    <3> QED
      BY <2>2, <3>1, <3>5, <3>6 DEF ClaimOf
  <2> QED
    BY <2>1, <2>2 DEF RingSafe, ClaimExclusive, Holding
<1> QED
  BY <1>1, Invariance, PTL

-----------------------------------------------------------------------------
(* Order: the entries of a ring, from the delivered ones to those that are *)
(* still to be placed, are sorted for each sender.                         *)

\* The positions that are taken, and the entries at a position.
Live(d) == head[d] + 1 .. tail[d]
Items(d, p) == elts[d][Slot(p)].items

\* Whoever claims a position finds it empty: it was reset before head passed it.
Emptied ==
  \A d \in Threads :
    /\ \A p \in tail[d] + 1 .. head[d] + NElts : Items(d, p) = << >>
    /\ pc[d] \in {"reset", "bump"} => Items(d, head[d] + 1) = << >>
    /\ pc[d] = "fill" => Items(Dst(d), seenTail[d] + 1) = << >>

\* The buffers of t up to Begun(t) are in a chunk or beyond; the rest, in order,
\* is its vector.  A chunk is sorted, and empty outside the loop over groups.
Begun(t) == sent[t] - Len(vector[t])
Sending ==
  \A t \in Threads :
    /\ Len(vector[t]) <= sent[t] /\ sent[t] <= MaxBuffers[t]
    /\ pc[t] \in PollStates => vector[t] = << >>
    /\ \A j \in 1 .. Len(vector[t]) : vector[t][j].buf = <<t, Begun(t) + j>>
    /\ pc[t] \notin Placing => DOMAIN chunk[t] = {}
    /\ \A i \in DOMAIN chunk[t] :
         chunk[t][i].buf[1] = t /\ chunk[t][i].buf[2] <= Begun(t)
    /\ \A i, j \in DOMAIN chunk[t] : i < j => chunk[t][i].buf[2] < chunk[t][j].buf[2]
Handed == [buf : Buffers, aux : AuxWord \union {Garbage}]
Delivering == delivered \in [Threads -> Seq(Handed)]

\* The buffers that have got as far as d's ring, and the positions of t's chunk
\* that are still to be placed there.
At(d) == {delivered[d][i].buf : i \in DOMAIN delivered[d]}
         \union UNION {{Items(d, p)[i].buf : i \in DOMAIN Items(d, p)} : p \in Live(d)}
Pending(t, d) ==
  {i \in For(chunk[t], d) : ~(pc[t] \in {"publish", "kick"} /\ d = Dst(t))}

\* Of one sender, a comes before b.
Before(a, b) == a[1] = b[1] => a[2] < b[2]

Sorted ==
  \A d \in Threads :
    /\ \A i, j \in DOMAIN delivered[d] :
         i < j => Before(delivered[d][i].buf, delivered[d][j].buf)
    /\ \A i \in DOMAIN delivered[d] : \A p \in Live(d) : \A j \in DOMAIN Items(d, p) :
         Before(delivered[d][i].buf, Items(d, p)[j].buf)
    /\ \A p, q \in Live(d) : \A i \in DOMAIN Items(d, p) : \A j \in DOMAIN Items(d, q) :
         p < q \/ (p = q /\ i < j) => Before(Items(d, p)[i].buf, Items(d, q)[j].buf)
Coming ==
  \A d \in Threads :
    /\ \A b \in At(d) : b[2] <= Begun(b[1])
    /\ \A t \in Threads : \A i \in Pending(t, d) : \A b \in At(d) :
         Before(b, chunk[t][i].buf)

\* A thread that has claimed a position has nothing behind it.
LastClaim ==
  \A t \in Threads :
    pc[t] = "fill" =>
      \A p \in Live(Dst(t)) : \A i \in DOMAIN Items(Dst(t), p) :
        p > seenTail[t] + 1 => Items(Dst(t), p)[i].buf[1] # t

OInv == Emptied /\ Sending /\ Delivering /\ Sorted /\ Coming /\ LastClaim

-----------------------------------------------------------------------------
\* The empty sequence has no entries.
LEMMA NoEntries == DOMAIN << >> = {}
  OBVIOUS

\* The types that the order of entries needs.
LEMMA EntryFacts ==
  ASSUME IInv, NEW d \in Threads
  PROVE  /\ head[d] \in Nat /\ tail[d] \in Nat /\ Live(d) \subseteq Nat
         /\ head[d] <= tail[d] /\ tail[d] <= head[d] + NElts - 1
         /\ \A p \in Nat : Items(d, p) \in Seq(Entry)
<1>1. head[d] \in Nat /\ tail[d] \in Nat /\ elts[d] \in [Slots -> Elt]
  BY RingFacts DEF IInv
<1>2. \A p \in Nat : Items(d, p) \in Seq(Entry)
  BY <1>1, SlotType DEF Items, Elt
<1> QED
  BY <1>1, <1>2 DEF Live, IInv, Positions

\* A buffer has a sender and a number.
LEMMA BufferParts ==
  ASSUME NEW b \in Buffers
  PROVE  b[1] \in Threads /\ b[2] \in Nat /\ b[2] >= 1 /\ b = <<b[1], b[2]>>
<1>1. PICK t \in Threads : b \in {t} \X (1 .. MaxBuffers[t])
  BY DEF Buffers
<1> QED
  BY <1>1, SizesAssumption

\* What has got to a ring are buffers.
LEMMA AtType ==
  ASSUME IInv, Delivering, NEW d \in Threads
  PROVE  At(d) \subseteq Buffers
<1>1. \A i \in DOMAIN delivered[d] : delivered[d][i].buf \in Buffers
  <2>1. delivered[d] \in Seq(Handed)
    BY DEF Delivering
  <2>2. \A i \in DOMAIN delivered[d] : delivered[d][i] \in Handed
    BY <2>1
  <2> QED
    BY <2>2 DEF Handed
<1>2. ASSUME NEW p \in Live(d), NEW i \in DOMAIN Items(d, p)
      PROVE  Items(d, p)[i].buf \in Buffers
  <2>1. Items(d, p) \in Seq(Entry)
    BY EntryFacts
  <2>2. Items(d, p)[i] \in Entry
    BY <2>1
  <2> QED
    BY <2>2 DEF Entry
<1> QED
  BY <1>1, <1>2 DEF At

\* How many buffers a thread has begun to hand off.
LEMMA BegunType ==
  ASSUME IInv, Sending, NEW t \in Threads
  PROVE  Begun(t) \in Nat /\ Len(vector[t]) \in Nat /\ sent[t] \in Nat
<1>1. vector[t] \in Seq(Packet) /\ sent[t] \in Nat
  BY DEF IInv, Types, CallTypes, LocalTypes
<1>2. Len(vector[t]) \in Nat
  BY <1>1, LenProperties
<1> QED
  BY <1>1, <1>2 DEF Sending, Begun

\* What a step may do to the entries without disturbing their order: remove
\* entries, take positions that are empty, give up pending packets, or begin
\* with new ones.
Keeps ==
  /\ delivered' = delivered
  /\ \A d \in Threads : \A p \in Live(d)' :
       Items(d, p)' = << >> \/ (p \in Live(d) /\ Items(d, p)' = Items(d, p))
  /\ \A t, d \in Threads : \A i \in Pending(t, d)' :
       \/ i \in Pending(t, d) /\ chunk'[t][i] = chunk[t][i]
       \/ chunk'[t][i].buf[1] = t /\ chunk'[t][i].buf[2] > Begun(t)
  /\ \A t \in Threads : Begun(t) <= Begun(t)'
  /\ \A t \in Threads :
       pc'[t] = "fill" =>
         \/ pc[t] = "fill" /\ Dst(t)' = Dst(t) /\ seenTail'[t] = seenTail[t]
         \/ tail'[Dst(t)'] = seenTail'[t] + 1

\* Such a step keeps the order.
LEMMA KeepStep ==
  ASSUME IInv, OInv, IInv', Sending', Keeps
  PROVE  Sorted' /\ Coming' /\ LastClaim'
<1>0. Sending /\ Delivering /\ Sorted /\ Coming /\ LastClaim
  BY DEF OInv
<1>1. ASSUME NEW d \in Threads, NEW p \in Live(d)', NEW i \in DOMAIN Items(d, p)'
      PROVE  p \in Live(d) /\ Items(d, p)' = Items(d, p) /\ i \in DOMAIN Items(d, p)
  BY <1>1, NoEntries DEF Keeps
<1>2. Sorted'
  <2> SUFFICES ASSUME NEW d \in Threads
      PROVE  /\ \A i, j \in DOMAIN delivered'[d] :
                  i < j => Before(delivered'[d][i].buf, delivered'[d][j].buf)
             /\ \A i \in DOMAIN delivered'[d] : \A p \in Live(d)' :
                  \A j \in DOMAIN Items(d, p)' :
                  Before(delivered'[d][i].buf, Items(d, p)'[j].buf)
             /\ \A p, q \in Live(d)' : \A i \in DOMAIN Items(d, p)' :
                  \A j \in DOMAIN Items(d, q)' :
                  p < q \/ (p = q /\ i < j) => Before(Items(d, p)'[i].buf, Items(d, q)'[j].buf)
    BY DEF Sorted
  <2>1. delivered' = delivered
    BY DEF Keeps
  <2>2. \A i, j \in DOMAIN delivered'[d] :
           i < j => Before(delivered'[d][i].buf, delivered'[d][j].buf)
    BY <1>0, <2>1 DEF Sorted
  <2>3. \A i \in DOMAIN delivered'[d] : \A p \in Live(d)' : \A j \in DOMAIN Items(d, p)' :
           Before(delivered'[d][i].buf, Items(d, p)'[j].buf)
    BY <1>0, <1>1, <2>1 DEF Sorted
  <2>4. \A p, q \in Live(d)' : \A i \in DOMAIN Items(d, p)' : \A j \in DOMAIN Items(d, q)' :
           p < q \/ (p = q /\ i < j) => Before(Items(d, p)'[i].buf, Items(d, q)'[j].buf)
    BY <1>0, <1>1 DEF Sorted
  <2> QED
    BY <2>2, <2>3, <2>4
<1>3. ASSUME NEW d \in Threads, NEW b \in At(d)' PROVE b \in At(d)
  <2>1. CASE \E i \in DOMAIN delivered'[d] : b = delivered'[d][i].buf
    BY <2>1 DEF Keeps, At
  <2>2. CASE \E p \in Live(d)' : \E i \in DOMAIN Items(d, p)' : b = Items(d, p)'[i].buf
    BY <1>1, <2>2 DEF At
  <2> QED
    BY <2>1, <2>2 DEF At
<1>4. Coming'
  <2> SUFFICES ASSUME NEW d \in Threads, NEW b \in At(d)'
      PROVE  /\ b[2] <= Begun(b[1])'
             /\ \A t \in Threads : \A i \in Pending(t, d)' : Before(b, chunk'[t][i].buf)
    BY DEF Coming, Before
  <2>1. b \in At(d) /\ b[1] \in Threads /\ b[2] \in Nat
    BY <1>0, <1>3, AtType, BufferParts
  <2>2. b[2] <= Begun(b[1])
    BY <1>0, <2>1 DEF Coming
  <2>3. Begun(b[1]) \in Nat /\ Begun(b[1])' \in Nat /\ Begun(b[1]) <= Begun(b[1])'
    <3>1. Begun(b[1]) \in Nat
      BY <1>0, <2>1, BegunType
    <3>2. \A t \in Threads : Begun(t)' \in Nat
      <4> TAKE t \in Threads
      <4>1. vector'[t] \in Seq(Packet) /\ sent'[t] \in Nat
        BY DEF IInv, Types, CallTypes, LocalTypes
      <4>2. Len(vector'[t]) \in Nat
        BY <4>1, LenProperties
      <4> QED
        BY <4>1, <4>2 DEF Sending, Begun
    <3> QED
      BY <2>1, <3>1, <3>2 DEF Keeps
  <2>4. b[2] <= Begun(b[1])'
    BY <2>1, <2>2, <2>3
  <2>5. ASSUME NEW t \in Threads, NEW i \in Pending(t, d)' PROVE Before(b, chunk'[t][i].buf)
    <3>1. CASE i \in Pending(t, d) /\ chunk'[t][i] = chunk[t][i]
      BY <1>0, <2>1, <3>1 DEF Coming
    <3>2. CASE chunk'[t][i].buf[1] = t /\ chunk'[t][i].buf[2] > Begun(t)
      <4> SUFFICES ASSUME b[1] = chunk'[t][i].buf[1] PROVE b[2] < chunk'[t][i].buf[2]
        BY DEF Before
      <4>1. b[1] = t
        BY <3>2
      <4>2. chunk'[t][i].buf[2] \in Nat
        <5>1. chunk'[t] \in Chunk
          BY DEF IInv, Types, CallTypes
        <5>2. i \in DOMAIN chunk'[t]
          BY DEF Pending, For
        <5>3. chunk'[t][i] \in ChunkEntry
          BY <5>1, <5>2 DEF Chunk
        <5> QED
          BY <5>3, BufferParts DEF ChunkEntry
      <4> QED
        BY <2>1, <2>2, <2>3, <3>2, <4>1, <4>2
    <3> QED
      BY <3>1, <3>2 DEF Keeps
  <2> QED
    BY <2>4, <2>5
<1>5. LastClaim'
  <2> SUFFICES ASSUME NEW t \in Threads, pc'[t] = "fill", NEW p \in Live(Dst(t))',
                      NEW i \in DOMAIN Items(Dst(t), p)', p > seenTail'[t] + 1
      PROVE  Items(Dst(t), p)'[i].buf[1] # t
    BY DEF LastClaim
  <2>1. CASE pc[t] = "fill" /\ Dst(t)' = Dst(t) /\ seenTail'[t] = seenTail[t]
    <3>1. Dst(t) \in Threads
      BY <2>1, RingFacts DEF IInv
    <3>2. p \in Live(Dst(t)) /\ Items(Dst(t), p)' = Items(Dst(t), p)
          /\ i \in DOMAIN Items(Dst(t), p)
      BY <1>1, <2>1, <3>1
    <3> QED
      BY <1>0, <2>1, <3>2 DEF LastClaim
  <2>2. CASE tail'[Dst(t)'] = seenTail'[t] + 1
    <3>1. Dst(t)' \in Threads
      BY ChunkFirst DEF IInv, Types, CallTypes, Dst, ChunkEntry, Placing
    <3>2. tail'[Dst(t)'] \in Nat /\ head'[Dst(t)'] \in Nat
      BY <3>1 DEF IInv, Types, RingTypes
    <3> QED
      BY <2>2, <3>2 DEF Live
  <2> QED
    BY <2>1, <2>2 DEF Keeps
<1> QED
  BY <1>2, <1>4, <1>5

\* clib_compress_u32 keeps the order of what it copies.
LEMMA NthGrows ==
  ASSUME NEW pos \in SUBSET (1 .. FrameSize), NEW k \in 1 .. Cardinality(pos),
         NEW l \in 1 .. Cardinality(pos), k < l
  PROVE  Nth(pos, k) < Nth(pos, l)
<1> DEFINE Below(i) == {j \in pos : j < i}
           x == Nth(pos, k)
           y == Nth(pos, l)
<1>1. /\ x \in pos /\ Cardinality(Below(x)) = k - 1
      /\ y \in pos /\ Cardinality(Below(y)) = l - 1
  BY NthExists
<1> HIDE DEF x, y
<1>2. pos \subseteq Nat /\ IsFiniteSet(pos) /\ Cardinality(pos) \in Nat
  BY Countable, Sizes
<1>3. x \in Nat /\ y \in Nat
  BY <1>1, <1>2
<1>4. ASSUME y <= x PROVE FALSE
  <2>1. Below(y) \subseteq Below(x)
    <3> SUFFICES ASSUME NEW j \in pos, j < y PROVE j < x
      OBVIOUS
    <3>1. j \in Nat
      BY <1>2
    <3> QED
      BY <1>3, <1>4, <3>1
  <2>2. IsFiniteSet(Below(x))
    BY <1>2, FS_Subset
  <2>3. Cardinality(Below(y)) <= Cardinality(Below(x))
    BY <2>1, <2>2, FS_Subset
  <2>4. l - 1 <= k - 1
    <3> HIDE DEF Below
    <3> QED
      BY <1>1, <2>3
  <2> QED
    BY <1>2, <2>4
<1> QED
  BY <1>3, <1>4 DEF x, y

\* A chunk's packets, and who they are from.
LEMMA ChunkFacts ==
  ASSUME IInv, Sending, NEW t \in Threads, NEW i \in DOMAIN chunk[t]
  PROVE  /\ chunk[t][i] \in ChunkEntry /\ chunk[t][i].buf \in Buffers
         /\ chunk[t][i].buf[1] = t /\ chunk[t][i].buf[2] \in Nat
         /\ chunk[t][i].buf[2] <= Begun(t) /\ DOMAIN chunk[t] \in SUBSET (1 .. FrameSize)
<1>1. chunk[t] \in Chunk
  BY DEF IInv, Types, CallTypes
<1>2. chunk[t][i] \in ChunkEntry /\ DOMAIN chunk[t] \in SUBSET (1 .. FrameSize)
  BY <1>1 DEF Chunk
<1>3. chunk[t][i].buf \in Buffers
  BY <1>2 DEF ChunkEntry
<1> QED
  BY <1>2, <1>3, BufferParts DEF Sending

\* What Fill writes: the group's packets, in the order of the chunk.
LEMMA FillWrites ==
  ASSUME IInv, Sending, NEW t \in Threads, Fill(t)
  PROVE  LET d == Dst(t)
             a == seenTail[t] + 1
             pos == For(chunk[t], d)
             new == Items(d, a)'
         IN  /\ d \in Threads /\ a \in Live(d) /\ pc[t] = "fill"
             /\ pos \in SUBSET DOMAIN chunk[t] /\ pos \in SUBSET (1 .. FrameSize)
             /\ DOMAIN new = 1 .. Cardinality(pos) /\ Cardinality(pos) \in Nat
             /\ \A k \in DOMAIN new :
                  Nth(pos, k) \in pos /\ new[k].buf = chunk[t][Nth(pos, k)].buf
             /\ \A e \in Threads : \A p \in Nat :
                  e # d \/ (head[d] < p /\ p <= head[d] + NElts /\ p # a)
                    => Items(e, p)' = Items(e, p)
<1> DEFINE d == Dst(t)
           a == seenTail[t] + 1
           pos == For(chunk[t], d)
           group == Compress(chunk[t], pos)
           x == [i \in 1 .. Len(group) |-> Item(group[i].buf, group[i].aux)]
<1>1. pc[t] = "fill" /\ elts' = [elts EXCEPT ![d][Slot(a)].items = x]
      /\ UNCHANGED <<head, tail, chunk, seenTail>>
  BY DEF Fill, Claimed, handoffVars
<1>2. d \in Threads /\ seenTail[t] \in Nat /\ a \in Nat
  BY <1>1, RingFacts DEF IInv
<1>3. head[d] \in Nat /\ tail[d] \in Nat /\ head[d] <= seenTail[t] /\ seenTail[t] < tail[d]
      /\ tail[d] <= head[d] + NElts - 1
  BY <1>1, <1>2, EntryFacts DEF IInv, Claims, ClaimOf, Holding
<1>4. a \in Live(d)
  BY <1>2, <1>3 DEF Live
<1>5. chunk[t] \in Chunk /\ pos \in SUBSET DOMAIN chunk[t]
  BY DEF IInv, Types, CallTypes, For
<1>6. pos \in SUBSET (1 .. FrameSize)
  BY <1>5 DEF Chunk
<1>7. Len(group) = Cardinality(pos) /\ Cardinality(pos) \in Nat
  BY <1>5, CompressType
<1>8. \A k \in 1 .. Cardinality(pos) :
        Nth(pos, k) \in pos /\ group[k] = chunk[t][Nth(pos, k)]
  <2> HIDE DEF pos
  <2> QED
    BY <1>6, NthExists DEF Compress
<1>9. Slot(a) \in Slots
  BY <1>2, SlotType
<1>10. elts \in [Threads -> [Slots -> Elt]]
  BY DEF IInv, Types, RingTypes
<1> HIDE DEF d, a, x, group, pos
<1>11. Items(d, a)' = x
  <2>1. elts'[d][Slot(a)].items = x
    BY <1>1, <1>2, <1>9, <1>10 DEF Elt
  <2>2. d' = d /\ a' = a
    BY <1>1, DstSame DEF d, a
  <2> QED
    BY <2>1, <2>2 DEF Items
<1>12. \A k \in 1 .. Cardinality(pos) : x[k].buf = chunk[t][Nth(pos, k)].buf
  BY <1>7, <1>8 DEF x, Item
<1>13. DOMAIN x = 1 .. Cardinality(pos)
  BY <1>7 DEF x
<1>14. ASSUME NEW e \in Threads, NEW p \in Nat,
              e # d \/ (head[d] < p /\ p <= head[d] + NElts /\ p # a)
       PROVE  Items(e, p)' = Items(e, p)
  <2>1. Slot(p) \in Slots
    BY SlotType
  <2>2. e # d \/ Slot(p) # Slot(a)
    <3>1. CASE e # d
      BY <3>1
    <3>2. CASE head[d] < p /\ p <= head[d] + NElts /\ p # a
      <4>1. p < a + NElts /\ a < p + NElts
        BY <1>2, <1>3, <3>2, Sizes DEF a
      <4> QED
        BY <1>2, <3>2, <4>1, SlotDistinct
    <3> QED
      BY <1>14, <3>1, <3>2
  <2>3. elts'[e][Slot(p)] = elts[e][Slot(p)]
    BY <1>1, <1>2, <1>9, <1>10, <2>1, <2>2
  <2> QED
    BY <2>3 DEF Items
<1>15. Items(Dst(t), seenTail[t] + 1)' = x
  <2>1. d' = d /\ a' = a
    BY <1>1, DstSame DEF d, a
  <2> QED
    BY <1>11, <2>1 DEF d, a
<1> QED
  BY <1>1, <1>2, <1>4, <1>5, <1>6, <1>7, <1>8, <1>12, <1>13, <1>14, <1>15 DEF d, a, pos

\* The new element comes after everything of its sender, and in order.
LEMMA FillOrder ==
  ASSUME IInv, OInv, NEW t \in Threads, Fill(t)
  PROVE  Sorted' /\ Coming' /\ LastClaim'
<1> DEFINE d == Dst(t)
           a == seenTail[t] + 1
           pos == For(chunk[t], d)
           new == Items(d, a)'
<1>0. Sending /\ Delivering /\ Sorted /\ Coming /\ LastClaim
  BY DEF OInv
<1>1. /\ d \in Threads /\ a \in Live(d) /\ pc[t] = "fill"
      /\ pos \in SUBSET DOMAIN chunk[t] /\ pos \in SUBSET (1 .. FrameSize)
      /\ DOMAIN new = 1 .. Cardinality(pos) /\ Cardinality(pos) \in Nat
      /\ \A k \in DOMAIN new :
           Nth(pos, k) \in pos /\ new[k].buf = chunk[t][Nth(pos, k)].buf
      /\ \A e \in Threads : \A p \in Nat :
           e # d \/ (head[d] < p /\ p <= head[d] + NElts /\ p # a)
             => Items(e, p)' = Items(e, p)
  BY <1>0, FillWrites
<1>2. /\ UNCHANGED <<head, tail, chunk, seenTail, delivered, sent, vector>>
      /\ pc'[t] = "publish" /\ \A u \in Threads \ {t} : pc'[u] = pc[u]
  BY DEF Fill, Goto, handoffVars, callVars, dequeueVars, IInv, Types, LocalTypes
<1>3. \A u : Dst(u)' = Dst(u) /\ Begun(u)' = Begun(u) /\ Live(u)' = Live(u)
  BY <1>2, DstSame DEF Begun, Live
<1>4. a' = a /\ d' = d
  BY <1>2, <1>3
<1> HIDE DEF d, a, pos, new
<1>5. ASSUME NEW e \in Threads, NEW p \in Live(e), e # d \/ p # a
      PROVE  Items(e, p)' = Items(e, p)
  <2>0. head[e] \in Nat /\ tail[e] \in Nat /\ tail[e] <= head[e] + NElts - 1
    BY EntryFacts
  <2>1. p \in Nat /\ head[e] < p /\ p <= head[e] + NElts
    BY <2>0, Sizes DEF Live
  <2> QED
    BY <1>1, <1>5, <2>1
<1>6. \A k \in DOMAIN new :
        /\ new[k].buf \in Buffers /\ new[k].buf[1] = t /\ new[k].buf[2] <= Begun(t)
        /\ \A b \in At(d) : Before(b, new[k].buf)
  <2> TAKE k \in DOMAIN new
  <2>1. Nth(pos, k) \in pos /\ new[k].buf = chunk[t][Nth(pos, k)].buf
        /\ Nth(pos, k) \in DOMAIN chunk[t]
    BY <1>1
  <2>2. pos = Pending(t, d)
    BY <1>1 DEF Pending, pos
  <2>3. \A b \in At(d) : Before(b, chunk[t][Nth(pos, k)].buf)
    BY <1>0, <1>1, <2>1, <2>2 DEF Coming
  <2> QED
    BY <1>0, <2>1, <2>3, ChunkFacts
<1>7. \A k, l \in DOMAIN new : k < l => Before(new[k].buf, new[l].buf)
  <2> SUFFICES ASSUME NEW k \in DOMAIN new, NEW l \in DOMAIN new, k < l
      PROVE  new[k].buf[2] < new[l].buf[2]
    BY DEF Before
  <2>1. Nth(pos, k) < Nth(pos, l)
    BY <1>1, NthGrows
  <2>2. Nth(pos, k) \in DOMAIN chunk[t] /\ Nth(pos, l) \in DOMAIN chunk[t]
    BY <1>1
  <2>3. chunk[t][Nth(pos, k)].buf[2] < chunk[t][Nth(pos, l)].buf[2]
    BY <1>0, <2>1, <2>2 DEF Sending
  <2> QED
    BY <1>1, <2>3
<1>8. \A p \in Live(d) : \A i \in DOMAIN Items(d, p) :
        p > a => Items(d, p)[i].buf[1] # t
  BY <1>0, <1>1 DEF LastClaim, d, a
<1>9. Sorted'
  <2> SUFFICES ASSUME NEW e \in Threads
      PROVE  /\ \A i, j \in DOMAIN delivered[e] :
                  i < j => Before(delivered[e][i].buf, delivered[e][j].buf)
             /\ \A i \in DOMAIN delivered[e] : \A p \in Live(e) : \A j \in DOMAIN Items(e, p)' :
                  Before(delivered[e][i].buf, Items(e, p)'[j].buf)
             /\ \A p, q \in Live(e) : \A i \in DOMAIN Items(e, p)' : \A j \in DOMAIN Items(e, q)' :
                  p < q \/ (p = q /\ i < j) => Before(Items(e, p)'[i].buf, Items(e, q)'[j].buf)
    BY <1>2, <1>3 DEF Sorted
  <2>1. \A i, j \in DOMAIN delivered[e] :
          i < j => Before(delivered[e][i].buf, delivered[e][j].buf)
    BY <1>0 DEF Sorted
  <2>2. ASSUME NEW i \in DOMAIN delivered[e], NEW p \in Live(e), NEW j \in DOMAIN Items(e, p)'
        PROVE  Before(delivered[e][i].buf, Items(e, p)'[j].buf)
    <3>1. CASE e # d \/ p # a
      BY <1>0, <1>5, <3>1 DEF Sorted
    <3>2. CASE e = d /\ p = a
      <4>1. Items(e, p)' = new
        BY <1>4, <3>2 DEF new
      <4>2. delivered[d][i].buf \in At(d)
        BY <3>2 DEF At
      <4> QED
        BY <1>6, <3>2, <4>1, <4>2
    <3> QED
      BY <3>1, <3>2
  <2>3. ASSUME NEW p \in Live(e), NEW q \in Live(e), NEW i \in DOMAIN Items(e, p)',
               NEW j \in DOMAIN Items(e, q)', p < q \/ (p = q /\ i < j)
        PROVE  Before(Items(e, p)'[i].buf, Items(e, q)'[j].buf)
    <3>0. p \in Nat /\ q \in Nat
      BY EntryFacts
    <3>1. CASE e # d \/ (p # a /\ q # a)
      <4>1. Items(e, p)' = Items(e, p) /\ Items(e, q)' = Items(e, q)
        BY <1>5, <3>1
      <4> QED
        BY <1>0, <2>3, <4>1 DEF Sorted
    <3>2. CASE e = d /\ p = a /\ q = a
      <4>1. Items(e, p)' = new /\ Items(e, q)' = new
        BY <1>4, <3>2 DEF new
      <4> QED
        BY <1>7, <2>3, <3>0, <3>2, <4>1
    <3>3. CASE e = d /\ p # a /\ q = a
      <4>1. Items(e, p)' = Items(e, p) /\ Items(e, q)' = new
        BY <1>4, <1>5, <3>3 DEF new
      <4>2. Items(d, p)[i].buf \in At(d)
        BY <3>3, <4>1 DEF At
      <4> QED
        BY <1>6, <3>3, <4>1, <4>2
    <3>4. CASE e = d /\ p = a /\ q # a
      <4>1. Items(e, p)' = new /\ Items(e, q)' = Items(e, q)
        BY <1>4, <1>5, <3>4 DEF new
      <4>2. q > a
        BY <2>3, <3>0, <3>4
      <4>3. Items(d, q)[j].buf[1] # t
        BY <1>8, <3>4, <4>1, <4>2
      <4> QED
        BY <1>6, <3>4, <4>1, <4>3 DEF Before
    <3> QED
      BY <3>1, <3>2, <3>3, <3>4
  <2> QED
    BY <2>1, <2>2, <2>3
<1>10. ASSUME NEW e \in Threads, NEW b \in At(e)'
       PROVE  b \in At(e) \/ (e = d /\ \E k \in DOMAIN new : b = new[k].buf)
  <2>1. CASE \E i \in DOMAIN delivered[e] : b = delivered[e][i].buf
    BY <2>1 DEF At
  <2>2. CASE \E p \in Live(e) : \E i \in DOMAIN Items(e, p)' : b = Items(e, p)'[i].buf
    <3>1. PICK p \in Live(e) : \E i \in DOMAIN Items(e, p)' : b = Items(e, p)'[i].buf
      BY <2>2
    <3>2. CASE e # d \/ p # a
      BY <1>5, <3>1, <3>2 DEF At
    <3>3. CASE e = d /\ p = a
      <4>1. Items(e, p)' = new
        BY <1>4, <3>3 DEF new
      <4> QED
        BY <3>1, <3>3, <4>1
    <3> QED
      BY <3>2, <3>3
  <2> QED
    BY <1>2, <1>3, <2>1, <2>2 DEF At
<1>11. Coming'
  <2> SUFFICES ASSUME NEW e \in Threads, NEW b \in At(e)'
      PROVE  /\ b[2] <= Begun(b[1])
             /\ \A u \in Threads : \A i \in Pending(u, e)' : Before(b, chunk[u][i].buf)
    BY <1>2, <1>3 DEF Coming
  <2>1. \A u \in Threads : \A i \in Pending(u, e)' :
          i \in Pending(u, e) /\ i \in DOMAIN chunk[u] /\ ~(u = t /\ e = d)
    BY <1>2, <1>3 DEF Pending, For, d
  <2>2. CASE b \in At(e)
    BY <1>0, <2>1, <2>2 DEF Coming
  <2>3. CASE e = d /\ \E k \in DOMAIN new : b = new[k].buf
    <3>1. b[1] = t /\ b[2] <= Begun(t)
      BY <1>6, <2>3
    <3>2. ASSUME NEW u \in Threads, NEW i \in Pending(u, e)' PROVE Before(b, chunk[u][i].buf)
      <4>1. u # t /\ chunk[u][i].buf[1] = u
        BY <1>0, <2>1, <2>3, ChunkFacts
      <4> QED
        BY <3>1, <4>1 DEF Before
    <3> QED
      BY <3>1, <3>2
  <2> QED
    BY <1>10, <2>2, <2>3
<1>12. LastClaim'
  <2> SUFFICES ASSUME NEW u \in Threads, pc'[u] = "fill", NEW p \in Live(Dst(u)),
                      NEW i \in DOMAIN Items(Dst(u), p)', p > seenTail[u] + 1
      PROVE  Items(Dst(u), p)'[i].buf[1] # u
    BY <1>2, <1>3 DEF LastClaim
  <2>1. u # t /\ pc[u] = "fill" /\ Dst(u) \in Threads
    BY <1>2, RingFacts DEF IInv
  <2>2. CASE Dst(u) # d \/ p # a
    <3>1. Items(Dst(u), p)' = Items(Dst(u), p)
      <4>1. \A e \in Threads : Dst(u)' = e => Items(Dst(u), p)' = Items(e, p)'
        BY DEF Items
      <4> QED
        BY <1>3, <1>5, <2>1, <2>2, <4>1
    <3> QED
      BY <1>0, <2>1, <3>1 DEF LastClaim
  <2>3. CASE Dst(u) = d /\ p = a
    <3>1. Items(Dst(u), p)' = new
      BY <1>3, <1>4, <2>3 DEF new, Items
    <3> QED
      BY <1>6, <2>1, <3>1
  <2> QED
    BY <2>2, <2>3
<1> QED
  BY <1>9, <1>11, <1>12

\* What one turn of the dequeue loop moves: the first entries of the element at
\* the head.
LEMMA DequeueMoves ==
  ASSUME IInv, Delivering, NEW t \in Threads, Dequeue(t)
  PROVE  LET h == head[t] + 1
             items == Items(t, h)
             old == delivered[t]
         IN  /\ h \in Live(t) /\ items \in Seq(Entry) /\ Len(items) \in Nat
             /\ Items(t, h)' \in Seq(Entry) /\ delivered' \in [Threads -> Seq(Handed)]
             /\ \A u \in Threads \ {t} : delivered'[u] = delivered[u]
             /\ \A e \in Threads : \A p \in Nat :
                  e # t \/ (head[t] < p /\ p <= head[t] + NElts /\ p # h)
                    => Items(e, p)' = Items(e, p)
             /\ \E n \in 0 .. Len(items) :
                  /\ pc'[t] = "reset" => n = Len(items)
                  /\ Len(delivered'[t]) = Len(old) + n
                  /\ \A i \in DOMAIN old : delivered'[t][i] = old[i]
                  /\ \A i \in 1 .. n : delivered'[t][Len(old) + i].buf = items[i].buf
                  /\ Len(Items(t, h)') = Len(items) - n
                  /\ \A j \in DOMAIN Items(t, h)' : Items(t, h)'[j] = items[n + j]
<1> DEFINE h == head[t] + 1
           items == Items(t, h)
           old == delivered[t]
           room == IF nFree[t] = 0 THEN FrameSize ELSE nFree[t]
           n == Min2(room, Len(items))
           copied == [i \in 1 .. n |->
                        Item(items[i].buf, IF DequeueWithAux THEN items[i].aux
                                           ELSE IF WithAux THEN Garbage ELSE NoAux)]
<1>1. head[t] \in Nat /\ tail[t] \in Nat /\ h \in Nat /\ items \in Seq(Entry)
      /\ head[t] <= tail[t] /\ tail[t] <= head[t] + NElts - 1
  <2>1. head[t] \in Nat /\ tail[t] \in Nat /\ h \in Nat
        /\ head[t] <= tail[t] /\ tail[t] <= head[t] + NElts - 1
    BY EntryFacts
  <2> HIDE DEF h
  <2> QED
    BY <2>1, EntryFacts
<1>2. HeadElt(t).items = items /\ HeadSlot(t) = Slot(h) /\ head' = head
  BY DEF HeadElt, HeadSlot, Items, Dequeue
<1>3. h \in Live(t)
  BY <1>1 DEF Dequeue, Ready, Live
<1>4. Len(items) \in Nat /\ room \in Nat /\ DOMAIN items = 1 .. Len(items)
  BY <1>1, Sizes, LenProperties DEF IInv, Types, LocalTypes
<1>5. n \in 0 .. Len(items)
  <2> HIDE DEF items, room
  <2> QED
    BY <1>4 DEF Min2
<1>6. /\ delivered' = [delivered EXCEPT ![t] = old \o copied]
      /\ elts' = [elts EXCEPT ![t][Slot(h)].items = LeftOver(items, n)]
      /\ pc' = [pc EXCEPT ![t] = AfterCopy(items, n)]
  <2> HIDE DEF items
  <2> QED
    BY <1>2 DEF Dequeue, Goto
<1>7. old \in Seq(Handed) /\ Len(old) \in Nat /\ DOMAIN old = 1 .. Len(old)
  BY LenProperties DEF Delivering
<1>8. copied \in Seq(Handed) /\ Len(copied) = n
      /\ \A i \in 1 .. n : copied[i].buf = items[i].buf
  <2> HIDE DEF items, n
  <2>1. \A i \in 1 .. n : items[i] \in Entry
    BY <1>1, <1>4, <1>5, ElementOfSeq
  <2>2. NoAux \in AuxWord /\ Garbage \in AuxWord \union {Garbage}
    BY DEF AuxWord
  <2>3. \A i \in 1 .. n : copied[i] \in Handed /\ copied[i].buf = items[i].buf
    BY <2>1, <2>2 DEF Item, Entry, Handed
  <2> QED
    BY <1>5, <2>3
<1>9. Slot(h) \in Slots /\ elts \in [Threads -> [Slots -> Elt]]
  BY <1>1, SlotType DEF IInv, Types, RingTypes
<1> HIDE DEF h, items, old, n, copied, room
<1>10. Items(t, h)' = LeftOver(items, n)
  <2>1. elts'[t][Slot(h)].items = LeftOver(items, n)
    BY <1>6, <1>9 DEF Elt
  <2>2. h' = h
    BY <1>2 DEF h
  <2> QED
    BY <2>1, <2>2 DEF Items
<1>11. /\ LeftOver(items, n) \in Seq(Entry) /\ Len(LeftOver(items, n)) = Len(items) - n
       /\ \A j \in DOMAIN LeftOver(items, n) : LeftOver(items, n)[j] = items[n + j]
  <2>1. \A i \in n + 1 .. Len(items) : items[i] \in Entry
    BY <1>1, <1>4, <1>5, ElementOfSeq
  <2>2. /\ SubSeq(items, n + 1, Len(items)) \in Seq(Entry)
        /\ Len(SubSeq(items, n + 1, Len(items))) =
             IF n + 1 <= Len(items) THEN Len(items) - (n + 1) + 1 ELSE 0
        /\ \A i \in 1 .. Len(items) - (n + 1) + 1 :
             SubSeq(items, n + 1, Len(items))[i] = items[n + 1 + i - 1]
    BY <1>4, <1>5, <2>1, SubSeqProperties
  <2>3. Len(LeftOver(items, n)) = Len(items) - n
    <3>0. Len(items) \in Nat /\ n \in Nat /\ n <= Len(items)
      BY <1>4, <1>5
    <3>1. Len(items) - n = IF n + 1 <= Len(items) THEN Len(items) - (n + 1) + 1 ELSE 0
      BY <3>0
    <3> QED
      BY <2>2, <3>1 DEF LeftOver
  <2>4. DOMAIN LeftOver(items, n) = 1 .. Len(items) - n
    BY <2>2, <2>3, LenProperties DEF LeftOver
  <2>5. ASSUME NEW j \in 1 .. Len(items) - n PROVE LeftOver(items, n)[j] = items[n + j]
    <3>1. j \in 1 .. Len(items) - (n + 1) + 1 /\ n + 1 + j - 1 = n + j
      BY <1>4, <1>5
    <3> QED
      BY <2>2, <3>1 DEF LeftOver
  <2> QED
    BY <2>2, <2>3, <2>4, <2>5 DEF LeftOver
<1>12. /\ delivered'[t] = old \o copied
       /\ \A u \in Threads \ {t} : delivered'[u] = delivered[u]
       /\ delivered' \in [Threads -> Seq(Handed)]
  <2>1. old \o copied \in Seq(Handed)
    BY <1>7, <1>8, ConcatProperties
  <2> QED
    BY <1>6, <2>1 DEF Delivering
<1>13. /\ Len(old \o copied) = Len(old) + n
       /\ \A i \in DOMAIN old : (old \o copied)[i] = old[i]
       /\ \A i \in 1 .. n : (old \o copied)[Len(old) + i].buf = items[i].buf
  <2>1. /\ Len(old \o copied) = Len(old) + Len(copied)
        /\ \A i \in 1 .. Len(old) + Len(copied) : (old \o copied)[i] =
             IF i <= Len(old) THEN old[i] ELSE copied[i - Len(old)]
    BY <1>7, <1>8, ConcatProperties
  <2>2. \A i \in 1 .. Len(old) : (old \o copied)[i] = old[i]
    BY <1>5, <1>7, <1>8, <2>1
  <2>3. \A i \in 1 .. n : (old \o copied)[Len(old) + i] = copied[i]
    <3> TAKE i \in 1 .. n
    <3>1. Len(old) + i \in 1 .. Len(old) + Len(copied) /\ ~(Len(old) + i <= Len(old))
          /\ (Len(old) + i) - Len(old) = i
      BY <1>4, <1>5, <1>7, <1>8
    <3> QED
      BY <2>1, <3>1
  <2> QED
    BY <1>7, <1>8, <2>1, <2>2, <2>3
<1>14. ASSUME NEW e \in Threads, NEW p \in Nat,
              e # t \/ (head[t] < p /\ p <= head[t] + NElts /\ p # h)
       PROVE  Items(e, p)' = Items(e, p)
  <2>1. Slot(p) \in Slots
    BY SlotType
  <2>2. e # t \/ Slot(p) # Slot(h)
    <3>1. CASE e # t
      BY <3>1
    <3>2. CASE head[t] < p /\ p <= head[t] + NElts /\ p # h
      <4>1. p < h + NElts /\ h < p + NElts
        BY <1>1, <3>2, Sizes DEF h
      <4> QED
        BY <1>1, <3>2, <4>1, SlotDistinct
    <3> QED
      BY <1>14, <3>1, <3>2
  <2>3. elts'[e][Slot(p)] = elts[e][Slot(p)]
    BY <1>6, <1>9, <2>1, <2>2
  <2> QED
    BY <2>3 DEF Items
<1>15. pc'[t] = "reset" => n = Len(items)
  BY <1>4, <1>5, <1>6 DEF AfterCopy, IInv, Types, LocalTypes
<1>16. /\ h \in Live(t) /\ items \in Seq(Entry) /\ Len(items) \in Nat
       /\ Items(t, h)' \in Seq(Entry) /\ delivered' \in [Threads -> Seq(Handed)]
       /\ \A u \in Threads \ {t} : delivered'[u] = delivered[u]
       /\ \A e \in Threads : \A p \in Nat :
            e # t \/ (head[t] < p /\ p <= head[t] + NElts /\ p # h)
              => Items(e, p)' = Items(e, p)
  BY <1>1, <1>3, <1>4, <1>10, <1>11, <1>12, <1>14
<1>17. /\ n \in 0 .. Len(items) /\ (pc'[t] = "reset" => n = Len(items))
       /\ Len(delivered'[t]) = Len(old) + n
       /\ \A i \in DOMAIN old : delivered'[t][i] = old[i]
       /\ \A i \in 1 .. n : delivered'[t][Len(old) + i].buf = items[i].buf
       /\ Len(Items(t, h)') = Len(items) - n
       /\ \A j \in DOMAIN Items(t, h)' : Items(t, h)'[j] = items[n + j]
  BY <1>5, <1>10, <1>11, <1>12, <1>13, <1>15
<1> QED
  BY <1>16, <1>17 DEF h, items, old

\* Entries leave an element in order and are delivered after what was before.
LEMMA DequeueOrder ==
  ASSUME IInv, OInv, NEW t \in Threads, Dequeue(t)
  PROVE  Sorted' /\ Coming' /\ LastClaim' /\ Delivering'
<1> DEFINE h == head[t] + 1
           items == Items(t, h)
           old == delivered[t]
<1>0. Sending /\ Delivering /\ Sorted /\ Coming /\ LastClaim
  BY DEF OInv
<1>1. /\ h \in Live(t) /\ items \in Seq(Entry) /\ Len(items) \in Nat
      /\ Items(t, h)' \in Seq(Entry) /\ delivered' \in [Threads -> Seq(Handed)]
      /\ \A u \in Threads \ {t} : delivered'[u] = delivered[u]
      /\ \A e \in Threads : \A p \in Nat :
           e # t \/ (head[t] < p /\ p <= head[t] + NElts /\ p # h)
             => Items(e, p)' = Items(e, p)
  BY <1>0, DequeueMoves
<1>2. PICK n \in 0 .. Len(items) :
        /\ pc'[t] = "reset" => n = Len(items)
        /\ Len(delivered'[t]) = Len(old) + n
        /\ \A i \in DOMAIN old : delivered'[t][i] = old[i]
        /\ \A i \in 1 .. n : delivered'[t][Len(old) + i].buf = items[i].buf
        /\ Len(Items(t, h)') = Len(items) - n
        /\ \A j \in DOMAIN Items(t, h)' : Items(t, h)'[j] = items[n + j]
  BY <1>0, DequeueMoves
<1>3. /\ UNCHANGED <<head, tail, chunk, seenTail, sent, vector>>
      /\ pc[t] = "dequeue" /\ pc'[t] \in {"dequeue", "reset"}
      /\ \A u \in Threads \ {t} : pc'[u] = pc[u]
  BY DEF Dequeue, AfterCopy, Goto, handoffVars, callVars, IInv, Types, LocalTypes
<1>4. \A u : Dst(u)' = Dst(u) /\ Begun(u)' = Begun(u) /\ Live(u)' = Live(u)
  BY <1>3, DstSame DEF Begun, Live
<1>5. \A u, e \in Threads : Pending(u, e)' = Pending(u, e)
  <2> TAKE u, e \in Threads
  <2>1. pc'[u] \in {"publish", "kick"} <=> pc[u] \in {"publish", "kick"}
    BY <1>3
  <2> QED
    BY <1>3, <1>4, <2>1 DEF Pending
<1>6. h' = h
  BY <1>3
<1>7. /\ Len(old) \in Nat /\ DOMAIN old = 1 .. Len(old) /\ DOMAIN items = 1 .. Len(items)
      /\ DOMAIN delivered'[t] = 1 .. Len(old) + n
      /\ DOMAIN Items(t, h)' = 1 .. Len(items) - n
  <2>1. old \in Seq(Handed) /\ delivered'[t] \in Seq(Handed)
    BY <1>0, <1>1 DEF Delivering
  <2> HIDE DEF old, items
  <2> QED
    BY <1>1, <1>2, <2>1, LenProperties
<1>8. head[t] \in Nat
  BY EntryFacts
<1> HIDE DEF h, items, old
<1>9. ASSUME NEW e \in Threads, NEW p \in Live(e), e # t \/ p # h
      PROVE  Items(e, p)' = Items(e, p)
  <2>0. head[e] \in Nat /\ tail[e] \in Nat /\ tail[e] <= head[e] + NElts - 1
    BY EntryFacts
  <2>1. p \in Nat /\ head[e] < p /\ p <= head[e] + NElts
    BY <2>0, Sizes DEF Live
  <2> QED
    BY <1>1, <1>9, <2>1
\* Where an entry was before.
<1>10. ASSUME NEW i \in DOMAIN delivered'[t]
       PROVE  \/ i \in DOMAIN old /\ delivered'[t][i].buf = old[i].buf
              \/ /\ i - Len(old) \in 1 .. n /\ i - Len(old) \in DOMAIN items
                 /\ delivered'[t][i].buf = items[i - Len(old)].buf
                 /\ i \notin DOMAIN old
  <2>1. CASE i <= Len(old)
    BY <1>2, <1>7, <2>1
  <2>2. CASE ~(i <= Len(old))
    <3>1. i - Len(old) \in 1 .. n /\ Len(old) + (i - Len(old)) = i
          /\ i - Len(old) \in 1 .. Len(items)
      BY <1>1, <1>2, <1>7, <2>2
    <3> QED
      BY <1>2, <1>7, <2>2, <3>1
  <2> QED
    BY <2>1, <2>2
<1>11. ASSUME NEW j \in DOMAIN Items(t, h)'
       PROVE  n + j \in DOMAIN items /\ Items(t, h)'[j].buf = items[n + j].buf /\ j \in Nat
              /\ j >= 1
  BY <1>1, <1>2, <1>7
<1>12. /\ \A i, j \in DOMAIN old : i < j => Before(old[i].buf, old[j].buf)
       /\ \A i \in DOMAIN old : \A p \in Live(t) : \A j \in DOMAIN Items(t, p) :
            Before(old[i].buf, Items(t, p)[j].buf)
       /\ \A p, q \in Live(t) : \A i \in DOMAIN Items(t, p) : \A j \in DOMAIN Items(t, q) :
            p < q \/ (p = q /\ i < j) => Before(Items(t, p)[i].buf, Items(t, q)[j].buf)
  BY <1>0 DEF Sorted, old
<1>13. /\ \A i \in DOMAIN old : \A j \in DOMAIN items : Before(old[i].buf, items[j].buf)
       /\ \A i, j \in DOMAIN items : i < j => Before(items[i].buf, items[j].buf)
       /\ \A q \in Live(t) : \A i \in DOMAIN items : \A j \in DOMAIN Items(t, q) :
            h < q => Before(items[i].buf, Items(t, q)[j].buf)
  BY <1>1, <1>12 DEF items
<1>14. \A q \in Live(t) : q \in Nat /\ (q = h \/ h < q)
  <2>1. tail[t] \in Nat
    BY EntryFacts
  <2> QED
    BY <1>8, <2>1 DEF Live, h
<1>15. ASSUME NEW i \in DOMAIN delivered'[t], NEW j \in DOMAIN delivered'[t], i < j
       PROVE  Before(delivered'[t][i].buf, delivered'[t][j].buf)
  <2>0. i \in Nat /\ j \in Nat /\ Len(old) \in Nat /\ DOMAIN old = 1 .. Len(old)
    BY <1>1, <1>2, <1>7
  <2>1. CASE i \in DOMAIN old /\ j \in DOMAIN old
    <3>1. delivered'[t][i].buf = old[i].buf /\ delivered'[t][j].buf = old[j].buf
      BY <1>10, <2>1
    <3> QED
      BY <1>12, <1>15, <2>1, <3>1
  <2>2. CASE i \in DOMAIN old /\ j \notin DOMAIN old
    <3>1. delivered'[t][i].buf = old[i].buf /\ j - Len(old) \in DOMAIN items
          /\ delivered'[t][j].buf = items[j - Len(old)].buf
      BY <1>10, <2>2
    <3> QED
      BY <1>13, <2>2, <3>1
  <2>3. CASE i \notin DOMAIN old
    <3>1. i - Len(old) \in DOMAIN items /\ delivered'[t][i].buf = items[i - Len(old)].buf
          /\ i - Len(old) >= 1
      BY <1>10, <2>3
    <3>2. j \notin DOMAIN old
      BY <1>15, <2>0, <3>1
    <3>3. j - Len(old) \in DOMAIN items /\ delivered'[t][j].buf = items[j - Len(old)].buf
      BY <1>10, <3>2
    <3>4. i - Len(old) < j - Len(old)
      BY <1>15, <2>0
    <3> QED
      BY <1>13, <3>1, <3>3, <3>4
  <2> QED
    BY <2>1, <2>2, <2>3
<1>16. ASSUME NEW i \in DOMAIN delivered'[t], NEW p \in Live(t), NEW j \in DOMAIN Items(t, p)'
       PROVE  Before(delivered'[t][i].buf, Items(t, p)'[j].buf)
  <2>1. CASE p = h
    <3>0. Items(t, p)' = Items(t, h)'
      BY <1>6, <2>1
    <3>1. n + j \in DOMAIN items /\ Items(t, p)'[j].buf = items[n + j].buf /\ j \in Nat /\ j >= 1
      BY <1>11, <3>0
    <3>2. CASE i \in DOMAIN old /\ delivered'[t][i].buf = old[i].buf
      BY <1>13, <3>1, <3>2
    <3>3. CASE i - Len(old) \in 1 .. n /\ i - Len(old) \in DOMAIN items
               /\ delivered'[t][i].buf = items[i - Len(old)].buf
      <4>1. i - Len(old) < n + j
        BY <3>1, <3>3
      <4> QED
        BY <1>13, <3>1, <3>3, <4>1
    <3> QED
      BY <1>10, <3>2, <3>3
  <2>2. CASE p # h
    <3>1. Items(t, p)' = Items(t, p) /\ h < p
      BY <1>9, <1>14, <2>2
    <3>2. CASE i \in DOMAIN old /\ delivered'[t][i].buf = old[i].buf
      BY <1>12, <3>1, <3>2
    <3>3. CASE i - Len(old) \in DOMAIN items /\ delivered'[t][i].buf = items[i - Len(old)].buf
      BY <1>13, <3>1, <3>3
    <3> QED
      BY <1>10, <3>2, <3>3
  <2> QED
    BY <2>1, <2>2
<1>17. ASSUME NEW p \in Live(t), NEW q \in Live(t), NEW i \in DOMAIN Items(t, p)',
              NEW j \in DOMAIN Items(t, q)', p < q \/ (p = q /\ i < j)
       PROVE  Before(Items(t, p)'[i].buf, Items(t, q)'[j].buf)
  <2>0. p \in Nat /\ q \in Nat /\ (p = h \/ h < p) /\ (q = h \/ h < q) /\ h \in Nat
    BY <1>8, <1>14 DEF h
  <2>1. CASE p = h /\ q = h
    <3>0. Items(t, p)' = Items(t, h)' /\ Items(t, q)' = Items(t, h)'
      BY <1>6, <2>1
    <3>1. /\ n + i \in DOMAIN items /\ Items(t, p)'[i].buf = items[n + i].buf /\ i \in Nat
          /\ n + j \in DOMAIN items /\ Items(t, q)'[j].buf = items[n + j].buf /\ j \in Nat
      BY <1>11, <3>0
    <3>2. n + i < n + j
      BY <1>17, <2>0, <2>1, <3>1
    <3> QED
      BY <1>13, <3>1, <3>2
  <2>2. CASE p = h /\ q # h
    <3>0. Items(t, p)' = Items(t, h)' /\ Items(t, q)' = Items(t, q) /\ h < q
      BY <1>6, <1>9, <2>0, <2>2
    <3>1. n + i \in DOMAIN items /\ Items(t, p)'[i].buf = items[n + i].buf
      BY <1>11, <3>0
    <3> QED
      BY <1>13, <3>0, <3>1
  <2>3. CASE p # h
    <3>1. q # h
      BY <1>17, <2>0, <2>3
    <3>2. Items(t, p)' = Items(t, p) /\ Items(t, q)' = Items(t, q)
      BY <1>9, <2>3, <3>1
    <3> QED
      BY <1>12, <1>17, <3>2
  <2> QED
    BY <2>1, <2>2, <2>3
<1>18. Sorted'
  <2> SUFFICES ASSUME NEW e \in Threads
      PROVE  /\ \A i, j \in DOMAIN delivered'[e] :
                  i < j => Before(delivered'[e][i].buf, delivered'[e][j].buf)
             /\ \A i \in DOMAIN delivered'[e] : \A p \in Live(e) :
                  \A j \in DOMAIN Items(e, p)' :
                  Before(delivered'[e][i].buf, Items(e, p)'[j].buf)
             /\ \A p, q \in Live(e) : \A i \in DOMAIN Items(e, p)' : \A j \in DOMAIN Items(e, q)' :
                  p < q \/ (p = q /\ i < j) => Before(Items(e, p)'[i].buf, Items(e, q)'[j].buf)
    BY <1>4 DEF Sorted
  <2>1. CASE e = t
    BY <1>15, <1>16, <1>17, <2>1
  <2>2. CASE e # t
    <3>1. delivered'[e] = delivered[e] /\ \A p \in Live(e) : Items(e, p)' = Items(e, p)
      BY <1>1, <1>9, <2>2
    <3> QED
      BY <1>0, <3>1 DEF Sorted
  <2> QED
    BY <2>1, <2>2
<1>19. ASSUME NEW e \in Threads, NEW b \in At(e)' PROVE b \in At(e)
  <2>1. CASE \E i \in DOMAIN delivered'[e] : b = delivered'[e][i].buf
    <3>1. PICK i \in DOMAIN delivered'[e] : b = delivered'[e][i].buf
      BY <2>1
    <3>2. CASE e # t
      BY <1>1, <3>1, <3>2 DEF At
    <3>3. CASE e = t /\ i \in DOMAIN old /\ delivered'[t][i].buf = old[i].buf
      BY <3>1, <3>3 DEF At, old
    <3>4. CASE e = t /\ i - Len(old) \in DOMAIN items
               /\ delivered'[t][i].buf = items[i - Len(old)].buf
      BY <1>1, <3>1, <3>4 DEF At, items
    <3> QED
      BY <1>10, <3>1, <3>2, <3>3, <3>4
  <2>2. CASE \E p \in Live(e) : \E i \in DOMAIN Items(e, p)' : b = Items(e, p)'[i].buf
    <3>1. PICK p \in Live(e) : \E i \in DOMAIN Items(e, p)' : b = Items(e, p)'[i].buf
      BY <2>2
    <3>2. CASE e # t \/ p # h
      BY <1>9, <3>1, <3>2 DEF At
    <3>3. CASE e = t /\ p = h
      <4>0. Items(e, p)' = Items(t, h)'
        BY <1>6, <3>3
      <4>1. PICK i \in DOMAIN Items(t, h)' : b = Items(t, h)'[i].buf
        BY <3>1, <4>0
      <4>2. n + i \in DOMAIN items /\ b = items[n + i].buf
        BY <1>11, <4>1
      <4> QED
        BY <1>1, <3>3, <4>2 DEF At, items
    <3> QED
      BY <3>2, <3>3
  <2> QED
    BY <1>4, <2>1, <2>2 DEF At
<1>20. Coming'
  <2> SUFFICES ASSUME NEW e \in Threads, NEW b \in At(e)'
      PROVE  /\ b[2] <= Begun(b[1])
             /\ \A u \in Threads : \A i \in Pending(u, e) : Before(b, chunk[u][i].buf)
    BY <1>3, <1>4, <1>5 DEF Coming
  <2> QED
    BY <1>0, <1>19 DEF Coming
<1>21. LastClaim'
  <2> SUFFICES ASSUME NEW u \in Threads, pc'[u] = "fill", NEW p \in Live(Dst(u)),
                      NEW i \in DOMAIN Items(Dst(u), p)', p > seenTail[u] + 1
      PROVE  Items(Dst(u), p)'[i].buf[1] # u
    BY <1>3, <1>4 DEF LastClaim
  <2>1. pc[u] = "fill" /\ Dst(u) \in Threads
    BY <1>3, RingFacts DEF IInv
  <2>2. PICK e \in Threads : Dst(u) = e /\ Dst(u)' = e /\ Items(Dst(u), p)' = Items(e, p)'
    BY <1>4, <2>1 DEF Items
  <2>3. CASE e # t \/ p # h
    <3>1. Items(Dst(u), p)' = Items(Dst(u), p)
      BY <1>9, <2>2, <2>3
    <3> QED
      BY <1>0, <2>1, <3>1 DEF LastClaim
  <2>4. CASE e = t /\ p = h
    <3>0. Items(Dst(u), p)' = Items(t, h)'
      BY <1>6, <2>2, <2>4
    <3>1. n + i \in DOMAIN items /\ Items(Dst(u), p)'[i].buf = items[n + i].buf
      BY <1>11, <3>0
    <3> QED
      BY <1>0, <2>1, <2>2, <2>4, <3>1 DEF LastClaim, items
  <2> QED
    BY <2>3, <2>4
<1> QED
  BY <1>1, <1>18, <1>20, <1>21 DEF Delivering

\* What NextChunk does: the first packets of the vector become the chunk.
LEMMA ChunkWrites ==
  ASSUME IInv, NEW t \in Threads, NextChunk(t)
  PROVE  /\ vector[t] \in Seq(Packet) /\ Len(vector[t]) \in Nat
         /\ \A u \in Threads \ {t} : vector'[u] = vector[u] /\ chunk'[u] = chunk[u]
         /\ \E n \in 1 .. FrameSize :
              /\ n <= Len(vector[t]) /\ DOMAIN chunk'[t] = 1 .. n
              /\ \A i \in 1 .. n : chunk'[t][i].buf = vector[t][i].buf
              /\ Len(vector'[t]) = Len(vector[t]) - n
              /\ DOMAIN vector'[t] = 1 .. Len(vector[t]) - n
              /\ \A j \in 1 .. Len(vector[t]) - n : vector'[t][j] = vector[t][n + j]
<1> DEFINE n == Min2(FrameSize, Len(vector[t]))
           c == [i \in 1 .. n |->
                   [buf |-> vector[t][i].buf, dst |-> vector[t][i].dst,
                    aux |-> IF WithAux THEN aux[t][i] ELSE NoAux]]
           rest == SubSeq(vector[t], n + 1, Len(vector[t]))
<1>1. vector[t] \in Seq(Packet) /\ vector[t] # << >>
      /\ vector \in [Threads -> Seq(Packet)] /\ chunk \in [Threads -> Chunk]
  BY DEF NextChunk, IInv, Types, CallTypes
<1>2. Len(vector[t]) \in Nat \ {0}
  BY <1>1, EmptySeq, LenProperties
<1>3. n \in 1 .. FrameSize /\ n <= Len(vector[t])
  BY <1>1, <1>2, Sizes DEF Min2
<1>4. chunk' = [chunk EXCEPT ![t] = c] /\ vector' = [vector EXCEPT ![t] = rest]
  BY DEF NextChunk, AfterChunk
<1> HIDE DEF n
<1>5. DOMAIN c = 1 .. n /\ \A i \in 1 .. n : c[i].buf = vector[t][i].buf
  OBVIOUS
<1> HIDE DEF c
<1>6. chunk'[t] = c /\ vector'[t] = rest
      /\ \A u \in Threads \ {t} : vector'[u] = vector[u] /\ chunk'[u] = chunk[u]
  <2> HIDE DEF rest
  <2> QED
    BY <1>1, <1>4
<1>7. /\ rest \in Seq(Packet)
      /\ Len(rest) = IF n + 1 <= Len(vector[t]) THEN Len(vector[t]) - (n + 1) + 1 ELSE 0
      /\ \A i \in 1 .. Len(vector[t]) - (n + 1) + 1 : rest[i] = vector[t][n + 1 + i - 1]
  <2>1. \A i \in n + 1 .. Len(vector[t]) : vector[t][i] \in Packet
    BY <1>1, <1>2, <1>3, ElementOfSeq
  <2> QED
    BY <1>2, <1>3, <2>1, SubSeqProperties
<1> HIDE DEF rest
<1>8. n \in Nat /\ n >= 1 /\ n <= Len(vector[t]) /\ Len(vector[t]) \in Nat
  BY <1>2, <1>3, Sizes
<1>9. Len(rest) = Len(vector[t]) - n
  <2>1. Len(vector[t]) - n =
          IF n + 1 <= Len(vector[t]) THEN Len(vector[t]) - (n + 1) + 1 ELSE 0
    BY <1>8
  <2> QED
    BY <1>7, <2>1
<1>10. DOMAIN rest = 1 .. Len(vector[t]) - n
  BY <1>7, <1>9, LenProperties
<1>11. ASSUME NEW j \in 1 .. Len(vector[t]) - n PROVE rest[j] = vector[t][n + j]
  <2>1. j \in 1 .. Len(vector[t]) - (n + 1) + 1 /\ n + 1 + j - 1 = n + j
    BY <1>8
  <2> QED
    BY <1>7, <2>1
<1> QED
  BY <1>1, <1>3, <1>5, <1>6, <1>8, <1>9, <1>10, <1>11

\* Numbers and chunks: the vector shrinks from the front as chunks are made of
\* it, and a chunk only loses packets until the next one.
LEMMA SendingStep == IInv /\ IInv' /\ Sending /\ Next => Sending'
<1> SUFFICES ASSUME IInv, IInv', Sending, NEW t \in Threads, Step(t) \/ Enqueue(t)
             PROVE  Sending'
  BY DEF Next
<1> DEFINE Of(u) ==
      /\ Len(vector[u]) <= sent[u] /\ sent[u] <= MaxBuffers[u]
      /\ pc[u] \in PollStates => vector[u] = << >>
      /\ \A j \in 1 .. Len(vector[u]) : vector[u][j].buf = <<u, Begun(u) + j>>
      /\ pc[u] \notin Placing => DOMAIN chunk[u] = {}
      /\ \A i \in DOMAIN chunk[u] :
           chunk[u][i].buf[1] = u /\ chunk[u][i].buf[2] <= Begun(u)
      /\ \A i, j \in DOMAIN chunk[u] : i < j => chunk[u][i].buf[2] < chunk[u][j].buf[2]
<1>1. pc \in [Threads -> PollStates \union HandoffStates] /\ chunk \in [Threads -> Chunk]
      /\ vector \in [Threads -> Seq(Packet)] /\ sent \in [Threads -> Nat]
  BY DEF IInv, Types, LocalTypes, CallTypes
<1>2. \A u \in Threads : Of(u)
  BY DEF Sending
<1>3. ASSUME \A u \in Threads \ {t} : /\ chunk'[u] = chunk[u] /\ vector'[u] = vector[u]
                                      /\ sent'[u] = sent[u] /\ pc'[u] = pc[u],
             Of(t)'
      PROVE  Sending'
  <2>1. ASSUME NEW u \in Threads PROVE Of(u)'
    <3>1. CASE u = t
      BY <1>3, <3>1
    <3>2. CASE u # t
      <4>1. Begun(u)' = Begun(u)
        BY <1>3, <3>2 DEF Begun
      <4> QED
        BY <1>2, <1>3, <3>2, <4>1
    <3> QED
      BY <3>1, <3>2
  <2> QED
    BY <2>1 DEF Sending
<1>4. ASSUME UNCHANGED <<chunk, vector, sent>>, NEW st, Goto(t, st),
             st \in PollStates => vector[t] = << >>,
             st \notin Placing => DOMAIN chunk[t] = {}
      PROVE  Sending'
  <2>1. pc'[t] = st /\ \A u \in Threads \ {t} : pc'[u] = pc[u]
    BY <1>1, <1>4 DEF Goto
  <2>2. Begun(t)' = Begun(t)
    BY <1>4 DEF Begun
  <2>3. Of(t)'
    BY <1>2, <1>4, <2>1, <2>2
  <2> HIDE DEF Of
  <2> QED
    BY <1>3, <1>4, <2>1, <2>3
<1>5. Of(t)
  BY <1>2
<1>6. ASSUME UNCHANGED <<chunk, vector, sent>>, NEW st, Goto(t, st),
             pc[t] \in PollStates, st \in PollStates
      PROVE  Sending'
  <2>1. pc[t] \notin Placing
    BY <1>6 DEF PollStates, Placing
  <2> QED
    BY <1>4, <1>5, <1>6, <2>1
<1>7. ASSUME UNCHANGED <<chunk, vector, sent>>, NEW st, Goto(t, st), st \in Placing
      PROVE  Sending'
  <2>1. st \notin PollStates
    BY <1>7 DEF PollStates, Placing
  <2> QED
    BY <1>4, <1>7, <2>1
<1> HIDE DEF Of
<1>8. CASE PollTest(t) \/ ClearCheck(t) \/ ResetElt(t) \/ BumpHead(t) \/ EndDequeue(t)
           \/ EndDispatch(t)
  BY <1>6, <1>8 DEF PollTest, ClearCheck, ResetElt, BumpHead, EndDequeue, EndDispatch,
     handoffVars, callVars, PollStates
<1>9. CASE Dequeue(t)
  BY <1>6, <1>9 DEF Dequeue, AfterCopy, handoffVars, callVars, PollStates
<1>10. CASE LoadTail(t) \/ FullTest(t) \/ SlotFreed(t) \/ Fill(t) \/ Publish(t)
  BY <1>7, <1>10 DEF LoadTail, FullTest, SlotFreed, Fill, Publish,
     handoffVars, callVars, Placing
<1>11. CASE Claim(t)
  BY <1>7, <1>11 DEF Claim, Retry, handoffVars, callVars, Placing
<1>12. CASE EndHandoff(t)
  <2>1. UNCHANGED <<chunk, vector, sent>> /\ Goto(t, "dispatch") /\ vector[t] = << >>
        /\ pc[t] = "chunk"
    BY <1>12 DEF EndHandoff, handoffVars, callVars
  <2>2. DOMAIN chunk[t] = {}
    BY <1>5, <2>1 DEF Of, Placing
  <2> QED
    BY <1>4, <2>1, <2>2
<1>13. CASE FreeDrops(t)
  <2>1. UNCHANGED <<chunk, vector, sent>> /\ Goto(t, "chunk") /\ pc[t] = "free"
    BY <1>13 DEF FreeDrops, callVars
  <2>2. DOMAIN chunk[t] = {} /\ "chunk" \notin PollStates
    BY <1>5, <2>1 DEF Of, Placing, PollStates
  <2> QED
    BY <1>4, <2>1, <2>2
<1>14. CASE Enqueue(t)
  <2>0. PICK n \in 1 .. MaxVector :
          /\ sent[t] + n <= MaxBuffers[t]
          /\ sent' = [sent EXCEPT ![t] = @ + n]
          /\ \E dsts \in [1 .. n -> Threads] :
               vector' = [vector EXCEPT ![t] =
                            [i \in 1 .. n |-> [buf |-> <<t, sent[t] + i>>, dst |-> dsts[i]]]]
    BY <1>14 DEF Enqueue
  <2>1. PICK dsts \in [1 .. n -> Threads] :
          vector' = [vector EXCEPT ![t] =
                       [i \in 1 .. n |-> [buf |-> <<t, sent[t] + i>>, dst |-> dsts[i]]]]
    BY <2>0
  <2>2. n \in Nat /\ sent[t] \in Nat /\ MaxBuffers[t] \in Nat
    BY <1>1, SizesAssumption
  <2>3. chunk' = chunk /\ pc[t] = "dispatch" /\ pc'[t] = "chunk"
        /\ \A u \in Threads \ {t} : pc'[u] = pc[u]
    BY <1>1, <1>14 DEF Enqueue, Goto
  <2>4. DOMAIN chunk[t] = {}
    BY <1>5, <2>3 DEF Of, Placing
  <2>5. vector'[t] = [i \in 1 .. n |-> [buf |-> <<t, sent[t] + i>>, dst |-> dsts[i]]]
    BY <1>1, <2>1
  <2>6. Len(vector'[t]) = n
    BY <2>2, <2>5
  <2>7. sent'[t] = sent[t] + n /\ Begun(t)' = sent[t]
    <3>1. sent'[t] = sent[t] + n
      BY <1>1, <2>0
    <3> QED
      BY <2>2, <2>6, <3>1 DEF Begun
  <2>8. \A j \in 1 .. n : vector'[t][j].buf = <<t, sent[t] + j>>
    BY <2>5
  <2>9. Of(t)'
    BY <2>0, <2>2, <2>3, <2>4, <2>6, <2>7, <2>8 DEF Of, PollStates
  <2>10. \A u \in Threads \ {t} : vector'[u] = vector[u] /\ sent'[u] = sent[u]
    BY <1>1, <2>0, <2>1
  <2> QED
    BY <1>3, <2>3, <2>9, <2>10
<1>15. CASE NextChunk(t)
  <2>1. PICK n \in 1 .. FrameSize :
          /\ n <= Len(vector[t]) /\ DOMAIN chunk'[t] = 1 .. n
          /\ \A i \in 1 .. n : chunk'[t][i].buf = vector[t][i].buf
          /\ Len(vector'[t]) = Len(vector[t]) - n
          /\ \A j \in 1 .. Len(vector[t]) - n : vector'[t][j] = vector[t][n + j]
    BY <1>15, ChunkWrites
  <2>4. sent' = sent /\ pc'[t] = "load" /\ \A u \in Threads \ {t} : pc'[u] = pc[u]
    BY <1>1, <1>15 DEF NextChunk, Goto
  <2> DEFINE c == chunk'[t]
  <2>5. DOMAIN c = 1 .. n /\ \A i \in 1 .. n : c[i].buf = vector[t][i].buf
    BY <2>1
  <2>8. n \in Nat /\ n >= 1 /\ n <= Len(vector[t]) /\ Len(vector[t]) \in Nat /\ sent[t] \in Nat
        /\ Len(vector[t]) <= sent[t]
    BY <1>1, <1>5, <1>15, <2>1, ChunkWrites, Sizes DEF Of
  <2>9. Len(vector'[t]) = Len(vector[t]) - n
    BY <2>1
  <2>10. Begun(t)' = Begun(t) + n /\ Begun(t) \in Nat
    BY <2>4, <2>8, <2>9 DEF Begun
  <2>11. \A j \in 1 .. Len(vector[t]) : vector[t][j].buf = <<t, Begun(t) + j>>
    BY <1>5 DEF Of
  <2>12. ASSUME NEW j \in 1 .. Len(vector'[t])
         PROVE  vector'[t][j].buf = <<t, Begun(t)' + j>>
    <3>1. /\ j \in 1 .. Len(vector[t]) - n
          /\ n + j \in 1 .. Len(vector[t]) /\ Begun(t)' + j = Begun(t) + (n + j)
      BY <2>8, <2>9, <2>10
    <3>2. vector'[t][j] = vector[t][n + j]
      BY <2>1, <3>1
    <3> QED
      BY <2>11, <3>1, <3>2
  <2>13. \A i \in 1 .. n : c[i].buf[1] = t /\ c[i].buf[2] = Begun(t) + i
    <3> TAKE i \in 1 .. n
    <3>1. i \in 1 .. Len(vector[t])
      BY <2>8
    <3> QED
      BY <2>5, <2>11, <3>1
  <2>14. \A i \in DOMAIN c : c[i].buf[1] = t /\ c[i].buf[2] <= Begun(t)'
    BY <2>5, <2>8, <2>10, <2>13
  <2>15. \A i, j \in DOMAIN c : i < j => c[i].buf[2] < c[j].buf[2]
    BY <2>5, <2>8, <2>10, <2>13
  <2>16. Len(vector'[t]) <= sent'[t] /\ sent'[t] <= MaxBuffers[t]
    BY <1>5, <2>4, <2>8, <2>9 DEF Of
  <2>17. Of(t)'
    BY <2>4, <2>12, <2>14, <2>15, <2>16 DEF Of, PollStates, Placing
  <2>18. \A u \in Threads \ {t} : vector'[u] = vector[u] /\ chunk'[u] = chunk[u]
                                  /\ sent'[u] = sent[u]
    BY <1>15, <2>4, ChunkWrites
  <2> QED
    BY <1>3, <2>4, <2>17, <2>18
<1>16. CASE Kick(t) \/ DropGroup(t)
  <2>1. AfterGroup(t) /\ UNCHANGED <<vector, sent>>
    BY <1>16 DEF Kick, DropGroup, callVars
  <2>2. /\ chunk'[t] = [i \in Rest(t) |-> chunk[t][i]]
        /\ pc'[t] = IF Rest(t) = {} THEN "free" ELSE "load"
        /\ \A u \in Threads \ {t} : pc'[u] = pc[u] /\ chunk'[u] = chunk[u]
    BY <1>1, <2>1 DEF AfterGroup, Goto
  <2>3. /\ DOMAIN chunk'[t] = Rest(t) /\ Rest(t) \subseteq DOMAIN chunk[t]
        /\ \A i \in Rest(t) : chunk'[t][i] = chunk[t][i]
    BY <2>2 DEF Rest
  <2>4. Begun(t)' = Begun(t)
    BY <2>1 DEF Begun
  <2>5. Of(t)'
    BY <1>5, <2>1, <2>2, <2>3, <2>4 DEF Of, PollStates, Placing
  <2> QED
    BY <1>3, <2>1, <2>2, <2>5
<1> QED
  BY <1>8, <1>9, <1>10, <1>11, <1>12, <1>13, <1>14, <1>15, <1>16 DEF Step

\* Emptying elements, or leaving them, keeps the free positions empty.
LEMMA EmptiedQuiet ==
  ASSUME IInv, Emptied, head' = head, tail' = tail,
         \A d \in Threads : \A p \in Nat : Items(d, p)' \in {<< >>, Items(d, p)},
         \A u \in Threads : pc'[u] \in {"reset", "bump"} => pc[u] \in {"reset", "bump"},
         \A u \in Threads : pc'[u] = "fill" =>
           pc[u] = "fill" /\ Dst(u)' = Dst(u) /\ seenTail'[u] = seenTail[u]
  PROVE  Emptied'
<1> SUFFICES ASSUME NEW d \in Threads
    PROVE  /\ \A p \in tail[d] + 1 .. head[d] + NElts : Items(d, p)' = << >>
           /\ pc'[d] \in {"reset", "bump"} => elts'[d][Slot(head[d] + 1)].items = << >>
           /\ pc'[d] = "fill" => elts'[Dst(d)'][Slot(seenTail'[d] + 1)].items = << >>
  BY DEF Emptied, Items
<1>1. head[d] \in Nat /\ tail[d] \in Nat
  BY EntryFacts
<1>2. \A p \in tail[d] + 1 .. head[d] + NElts : p \in Nat /\ Items(d, p) = << >>
  BY <1>1, Sizes DEF Emptied
<1>3. \A p \in tail[d] + 1 .. head[d] + NElts : Items(d, p)' = << >>
  BY <1>2
<1>4. ASSUME pc'[d] \in {"reset", "bump"} PROVE elts'[d][Slot(head[d] + 1)].items = << >>
  <2>1. PICK p \in Nat : p = head[d] + 1
    BY <1>1
  <2>2. Items(d, p) = << >>
    BY <1>4, <2>1 DEF Emptied
  <2>3. Items(d, p)' = << >>
    BY <2>2
  <2> QED
    BY <2>1, <2>3 DEF Items
<1>5. ASSUME pc'[d] = "fill" PROVE elts'[Dst(d)'][Slot(seenTail'[d] + 1)].items = << >>
  <2>1. pc[d] = "fill" /\ Dst(d)' = Dst(d) /\ seenTail'[d] = seenTail[d]
    BY <1>5
  <2>2. Dst(d) \in Threads /\ seenTail[d] \in Nat
    BY <2>1, RingFacts DEF IInv
  <2>3. PICK e \in Threads, p \in Nat : e = Dst(d) /\ p = seenTail[d] + 1
    BY <2>2
  <2>4. Items(e, p) = << >>
    BY <2>1, <2>3 DEF Emptied
  <2>5. Items(e, p)' = << >>
    BY <2>4
  <2> QED
    BY <2>1, <2>3, <2>5 DEF Items
<1> QED
  BY <1>3, <1>4, <1>5

\* Filling a claimed element, or emptying the one at the head, leaves the
\* positions that are to stay empty.
LEMMA EmptiedCopy ==
  ASSUME IInv, OInv, NEW t \in Threads, Fill(t) \/ Dequeue(t)
  PROVE  Emptied'
<1>0. Emptied /\ Sending /\ Delivering
  BY DEF OInv
<1>1. CASE Fill(t)
  <2> DEFINE d == Dst(t)
             a == seenTail[t] + 1
  <2>1. /\ d \in Threads /\ a \in Live(d) /\ pc[t] = "fill"
        /\ \A e \in Threads : \A p \in Nat :
             e # d \/ (head[d] < p /\ p <= head[d] + NElts /\ p # a)
               => Items(e, p)' = Items(e, p)
    BY <1>0, <1>1, FillWrites
  <2>2. /\ UNCHANGED <<head, tail, chunk, seenTail>>
        /\ pc'[t] = "publish" /\ \A u \in Threads \ {t} : pc'[u] = pc[u]
    BY <1>1 DEF Fill, Goto, handoffVars, IInv, Types, LocalTypes
  <2>3. \A u : Dst(u)' = Dst(u)
    BY <2>2, DstSame
  <2>4. seenTail[t] \in Nat /\ a \in Nat /\ head[d] \in Nat /\ tail[d] \in Nat
        /\ head[d] < a /\ a <= tail[d] /\ ClaimOf(t) /\ Holding(t)
        /\ tail[d] <= head[d] + NElts - 1
    <3>1. seenTail[t] \in Nat /\ head[d] \in Nat /\ tail[d] \in Nat
          /\ tail[d] <= head[d] + NElts - 1
      BY <2>1, RingFacts, EntryFacts DEF IInv
    <3> QED
      BY <2>1, <3>1 DEF Live, IInv, Claims, Holding
  <2> SUFFICES ASSUME NEW e \in Threads
      PROVE  /\ \A p \in tail[e] + 1 .. head[e] + NElts : Items(e, p)' = << >>
             /\ pc'[e] \in {"reset", "bump"} => elts'[e][Slot(head[e] + 1)].items = << >>
             /\ pc'[e] = "fill" => elts'[Dst(e)][Slot(seenTail[e] + 1)].items = << >>
    BY <2>2, <2>3 DEF Emptied, Items
  <2>5. head[e] \in Nat /\ tail[e] \in Nat /\ head[e] <= tail[e] /\ seenTail[e] \in Nat
    BY EntryFacts, RingFacts DEF IInv
  <2>6. ASSUME NEW p \in tail[e] + 1 .. head[e] + NElts PROVE Items(e, p)' = << >>
    <3>1. p \in Nat /\ head[e] < p /\ p <= head[e] + NElts /\ p > tail[e]
      BY <2>5, Sizes
    <3>2. e # d \/ p # a
      BY <2>4, <2>5, <3>1
    <3>3. Items(e, p)' = Items(e, p)
      <4> HIDE DEF d, a
      <4> QED
        BY <2>1, <3>1, <3>2
    <3> QED
      BY <1>0, <3>3 DEF Emptied
  <2>7. ASSUME pc'[e] \in {"reset", "bump"} PROVE elts'[e][Slot(head[e] + 1)].items = << >>
    <3>1. PICK p \in Nat : p = head[e] + 1
      BY <2>5
    <3>2. pc[e] \in {"reset", "bump"}
      BY <2>2, <2>7
    <3>3. e # d \/ p # a
      BY <2>4, <2>5, <3>1, <3>2 DEF ClaimOf
    <3>4. head[e] < p /\ p <= head[e] + NElts
      BY <2>5, <3>1, Sizes
    <3>5. Items(e, p)' = Items(e, p)
      <4> HIDE DEF d, a
      <4> QED
        BY <2>1, <3>3, <3>4
    <3>6. Items(e, p) = << >>
      BY <1>0, <3>1, <3>2 DEF Emptied
    <3> QED
      BY <3>1, <3>5, <3>6 DEF Items
  <2>8. ASSUME pc'[e] = "fill" PROVE elts'[Dst(e)][Slot(seenTail[e] + 1)].items = << >>
    <3>1. e # t /\ pc[e] = "fill" /\ Dst(e) \in Threads
      BY <2>2, <2>8, RingFacts DEF IInv
    <3>2. PICK f \in Threads, p \in Nat : f = Dst(e) /\ p = seenTail[e] + 1
      BY <2>5, <3>1
    <3>3. /\ ClaimOf(e) /\ Holding(e) /\ head[f] \in Nat /\ tail[f] \in Nat
          /\ tail[f] <= head[f] + NElts - 1
      BY <3>1, <3>2, EntryFacts DEF IInv, Claims, Holding
    <3>4. f # d \/ p # a
      BY <2>4, <2>5, <3>1, <3>2, <3>3 DEF ClaimOf
    <3>5. head[f] < p /\ p <= head[f] + NElts
      <4>1. head[f] <= seenTail[e] /\ seenTail[e] < tail[f]
        BY <3>2, <3>3 DEF ClaimOf
      <4> QED
        BY <2>5, <3>2, <3>3, <4>1, Sizes
    <3>6. Items(f, p)' = Items(f, p)
      <4> HIDE DEF d, a
      <4> QED
        BY <2>1, <3>4, <3>5
    <3>7. Items(f, p) = << >>
      BY <1>0, <3>1, <3>2 DEF Emptied
    <3> QED
      BY <3>2, <3>6, <3>7 DEF Items
  <2> QED
    BY <2>6, <2>7, <2>8
<1>2. CASE Dequeue(t)
  <2> DEFINE h == head[t] + 1
             items == Items(t, h)
  <2>1. /\ h \in Live(t) /\ Items(t, h)' \in Seq(Entry) /\ Len(items) \in Nat
        /\ \A e \in Threads : \A p \in Nat :
             e # t \/ (head[t] < p /\ p <= head[t] + NElts /\ p # h)
               => Items(e, p)' = Items(e, p)
        /\ \E n \in 0 .. Len(items) :
             /\ pc'[t] = "reset" => n = Len(items)
             /\ Len(Items(t, h)') = Len(items) - n
    BY <1>0, <1>2, DequeueMoves
  <2>2. /\ UNCHANGED <<head, tail, chunk, seenTail>>
        /\ pc[t] = "dequeue" /\ pc'[t] \in {"dequeue", "reset"}
        /\ \A u \in Threads \ {t} : pc'[u] = pc[u]
    BY <1>2 DEF Dequeue, AfterCopy, Goto, handoffVars, IInv, Types, LocalTypes
  <2>3. \A u : Dst(u)' = Dst(u)
    BY <2>2, DstSame
  <2>4. head[t] \in Nat /\ tail[t] \in Nat /\ h \in Nat
    BY EntryFacts
  <2>5. elts[t][Slot(h)].valid
    BY <1>2 DEF Dequeue, Ready, HeadElt, HeadSlot
  <2> SUFFICES ASSUME NEW e \in Threads
      PROVE  /\ \A p \in tail[e] + 1 .. head[e] + NElts : Items(e, p)' = << >>
             /\ pc'[e] \in {"reset", "bump"} => elts'[e][Slot(head[e] + 1)].items = << >>
             /\ pc'[e] = "fill" => elts'[Dst(e)][Slot(seenTail[e] + 1)].items = << >>
    BY <2>2, <2>3 DEF Emptied, Items
  <2>6. head[e] \in Nat /\ tail[e] \in Nat /\ head[e] <= tail[e] /\ seenTail[e] \in Nat
    BY EntryFacts, RingFacts DEF IInv
  <2>7. ASSUME NEW p \in tail[e] + 1 .. head[e] + NElts PROVE Items(e, p)' = << >>
    <3>1. p \in Nat /\ head[e] < p /\ p <= head[e] + NElts /\ p > tail[e]
      BY <2>6, Sizes
    <3>2. e # t \/ p # h
      <4>1. h <= tail[t]
        BY <2>1, <2>4 DEF Live
      <4> QED
        BY <2>4, <2>6, <3>1, <4>1
    <3>3. Items(e, p)' = Items(e, p)
      <4> HIDE DEF h
      <4> QED
        BY <2>1, <3>1, <3>2
    <3> QED
      BY <1>0, <3>3 DEF Emptied
  <2>8. ASSUME pc'[e] \in {"reset", "bump"} PROVE elts'[e][Slot(head[e] + 1)].items = << >>
    <3>1. PICK p \in Nat : p = head[e] + 1
      BY <2>6
    <3>2. CASE e # t
      <4>1. Items(e, p)' = Items(e, p)
        BY <2>1, <3>2
      <4>2. Items(e, p) = << >>
        BY <1>0, <2>2, <2>8, <3>1, <3>2 DEF Emptied
      <4> QED
        BY <3>1, <4>1, <4>2 DEF Items
    <3>3. CASE e = t
      <4>1. pc'[t] = "reset"
        BY <2>2, <2>8, <3>3
      <4>2. Len(Items(t, h)') = 0
        BY <2>1, <4>1
      <4>3. Items(t, h)' = << >>
        <5> HIDE DEF h
        <5> QED
          BY <2>1, <4>2, EmptySeq
      <4>4. Items(t, h)' = elts'[t][Slot(head[t] + 1)].items
        BY <2>2 DEF Items
      <4> QED
        BY <3>3, <4>3, <4>4
    <3> QED
      BY <3>2, <3>3
  <2>9. ASSUME pc'[e] = "fill" PROVE elts'[Dst(e)][Slot(seenTail[e] + 1)].items = << >>
    <3>1. e # t /\ pc[e] = "fill" /\ Dst(e) \in Threads
      BY <2>2, <2>9, RingFacts DEF IInv
    <3>2. PICK f \in Threads, p \in Nat : f = Dst(e) /\ p = seenTail[e] + 1
      BY <2>6, <3>1
    <3>3. /\ ClaimOf(e) /\ Holding(e) /\ head[f] \in Nat /\ tail[f] \in Nat
          /\ tail[f] <= head[f] + NElts - 1
      BY <3>1, <3>2, EntryFacts DEF IInv, Claims, Holding
    <3>4. ~elts[f][Slot(p)].valid
      BY <3>2, <3>3 DEF ClaimOf, Claimed
    <3>5. f # t \/ p # h
      BY <2>5, <3>4
    <3>6. head[f] < p /\ p <= head[f] + NElts
      <4>1. head[f] <= seenTail[e] /\ seenTail[e] < tail[f]
        BY <3>2, <3>3 DEF ClaimOf
      <4> QED
        BY <2>6, <3>2, <3>3, <4>1, Sizes
    <3>7. Items(f, p)' = Items(f, p)
      <4> HIDE DEF h
      <4> QED
        BY <2>1, <3>5, <3>6
    <3>8. Items(f, p) = << >>
      BY <1>0, <3>1, <3>2 DEF Emptied
    <3> QED
      BY <3>2, <3>7, <3>8 DEF Items
  <2> QED
    BY <2>7, <2>8, <2>9
<1> QED
  BY <1>1, <1>2

\* A step that touches neither elements nor counters, and makes nothing pending
\* that was not.
LEMMA QuietOrder ==
  ASSUME IInv, OInv, IInv', Sending', UNCHANGED <<head, tail, delivered>>,
         \A d \in Threads : \A p \in Nat : Items(d, p)' \in {<< >>, Items(d, p)},
         \A u \in Threads : pc'[u] \in {"reset", "bump"} => pc[u] \in {"reset", "bump"},
         \A u \in Threads : pc'[u] = "fill" =>
           pc[u] = "fill" /\ Dst(u)' = Dst(u) /\ seenTail'[u] = seenTail[u],
         \A u, d \in Threads : \A i \in Pending(u, d)' :
           \/ i \in Pending(u, d) /\ chunk'[u][i] = chunk[u][i]
           \/ chunk'[u][i].buf[1] = u /\ chunk'[u][i].buf[2] > Begun(u),
         \A u \in Threads : Begun(u) <= Begun(u)'
  PROVE  OInv'
<1>1. Emptied'
  BY EmptiedQuiet DEF OInv
<1>2. \A d \in Threads : Live(d)' = Live(d) /\ Live(d) \subseteq Nat
  BY EntryFacts DEF Live
<1>3. Keeps
  BY <1>2 DEF Keeps
<1> QED
  BY <1>1, <1>3, KeepStep DEF OInv, Delivering

\* Steps of the polling loop and of vlib_get_frame_queue_elt.
LEMMA LoopOrder ==
  ASSUME IInv, OInv, IInv', Sending', NEW t \in Threads,
         \/ PollTest(t) \/ ClearCheck(t) \/ EndDequeue(t) \/ EndDispatch(t) \/ EndHandoff(t)
         \/ FreeDrops(t) \/ LoadTail(t) \/ FullTest(t) \/ SlotFreed(t) \/ Publish(t)
         \/ ResetElt(t)
  PROVE  OInv'
<1>0. pc \in [Threads -> PollStates \union HandoffStates] /\ seenTail \in [Threads -> Nat]
  BY DEF IInv, Types, LocalTypes
<1>1. /\ UNCHANGED <<head, tail, delivered, chunk, sent, vector>>
      /\ \A u \in Threads \ {t} : pc'[u] = pc[u] /\ seenTail'[u] = seenTail[u]
      /\ pc'[t] # "fill" /\ (pc'[t] \in {"reset", "bump"} => pc[t] \in {"reset", "bump"})
      /\ pc[t] \in {"publish", "kick"} => pc'[t] \in {"publish", "kick"}
  <2>1. CASE PollTest(t) \/ ClearCheck(t) \/ EndDequeue(t) \/ EndDispatch(t) \/ EndHandoff(t)
    BY <1>0, <2>1 DEF PollTest, ClearCheck, EndDequeue, EndDispatch, EndHandoff, Goto,
       ringVars, handoffVars, callVars, dequeueVars
  <2>2. CASE FreeDrops(t) \/ LoadTail(t) \/ FullTest(t) \/ SlotFreed(t)
    BY <1>0, <2>2 DEF FreeDrops, LoadTail, FullTest, SlotFreed, Goto,
       ringVars, handoffVars, callVars, dequeueVars
  <2>3. CASE Publish(t) \/ ResetElt(t)
    BY <1>0, <2>3 DEF Publish, ResetElt, Goto, handoffVars, callVars, dequeueVars
  <2> QED
    BY <2>1, <2>2, <2>3
<1>2. \A u : Dst(u)' = Dst(u) /\ Begun(u)' = Begun(u)
  BY <1>1, DstSame DEF Begun
<1>3. \A u, d \in Threads : \A i \in Pending(u, d)' : i \in Pending(u, d)
  <2> TAKE u, d \in Threads
  <2>1. pc[u] \in {"publish", "kick"} => pc'[u] \in {"publish", "kick"}
    BY <1>1
  <2> QED
    BY <1>1, <1>2, <2>1 DEF Pending
<1>4. \A d \in Threads : \A p \in Nat : Items(d, p)' \in {<< >>, Items(d, p)}
  <2>0. elts \in [Threads -> [Slots -> Elt]]
    BY DEF IInv, Types, RingTypes
  <2>1. CASE elts' = elts
    BY <2>1 DEF Items
  <2>2. CASE Publish(t)
    <3>1. pc[t] = "publish" /\ elts' = [elts EXCEPT ![Dst(t)][Claimed(t)].valid = TRUE]
      BY <2>2 DEF Publish
    <3>2. Dst(t) \in Threads /\ seenTail[t] + 1 \in Nat
      BY <1>0, <3>1, RingFacts DEF IInv
    <3>3. Claimed(t) \in Slots
      BY <3>2, SlotType DEF Claimed
    <3>4. \A d \in Threads : \A s \in Slots : elts'[d][s].items = elts[d][s].items
      BY <2>0, <3>1, <3>2, <3>3 DEF Elt
    <3> QED
      BY <3>4, SlotType DEF Items
  <2>3. CASE ResetElt(t)
    <3>1. elts' = [elts EXCEPT ![t][HeadSlot(t)] = EmptyElt]
      BY <2>3 DEF ResetElt
    <3>2. \A d \in Threads : \A s \in Slots : elts'[d][s] \in {elts[d][s], EmptyElt}
      BY <2>0, <3>1
    <3>3. \A d \in Threads : \A s \in Slots : elts'[d][s].items \in {<< >>, elts[d][s].items}
      BY <3>2 DEF EmptyElt
    <3> QED
      BY <3>3, SlotType DEF Items
  <2>4. CASE ~(Publish(t) \/ ResetElt(t))
    BY <2>1, <2>4 DEF PollTest, ClearCheck, EndDequeue, EndDispatch, EndHandoff,
       FreeDrops, LoadTail, FullTest, SlotFreed, ringVars
  <2> QED
    BY <2>2, <2>3, <2>4
<1>5. \A u \in Threads : Begun(u) \in Nat
  BY BegunType DEF OInv
<1>6. \A u \in Threads : Begun(u) <= Begun(u)'
  BY <1>2, <1>5
<1> QED
  BY <1>1, <1>2, <1>3, <1>4, <1>6, QuietOrder

\* Steps of the call that change what is pending.
LEMMA CallOrder ==
  ASSUME IInv, OInv, IInv', Sending', NEW t \in Threads,
         Enqueue(t) \/ NextChunk(t) \/ Kick(t) \/ DropGroup(t)
  PROVE  OInv'
<1>0. pc \in [Threads -> PollStates \union HandoffStates] /\ chunk \in [Threads -> Chunk]
      /\ sent \in [Threads -> Nat] /\ vector \in [Threads -> Seq(Packet)]
  BY DEF IInv, Types, LocalTypes, CallTypes
<1>1. /\ UNCHANGED <<head, tail, elts, delivered, seenTail>>
      /\ \A u \in Threads \ {t} : pc'[u] = pc[u] /\ chunk'[u] = chunk[u]
                                  /\ sent'[u] = sent[u] /\ vector'[u] = vector[u]
      /\ pc'[t] \in {"chunk", "load", "free"}
  <2>1. CASE Enqueue(t)
    BY <1>0, <2>1 DEF Enqueue, Goto, ringVars, dequeueVars
  <2>2. CASE NextChunk(t)
    BY <1>0, <2>2 DEF NextChunk, Goto, ringVars, dequeueVars
  <2>3. CASE Kick(t) \/ DropGroup(t)
    BY <1>0, <2>3 DEF Kick, DropGroup, AfterGroup, Goto, ringVars, dequeueVars, callVars
  <2> QED
    BY <2>1, <2>2, <2>3
<1>2. Sending /\ \A u \in Threads : Begun(u) \in Nat /\ Len(vector[u]) \in Nat /\ sent[u] \in Nat
  BY BegunType DEF OInv
<1>3. /\ Begun(t) <= Begun(t)'
      /\ \A d \in Threads : \A i \in Pending(t, d)' :
           \/ i \in Pending(t, d) /\ chunk'[t][i] = chunk[t][i]
           \/ chunk'[t][i].buf[1] = t /\ chunk'[t][i].buf[2] > Begun(t)
  <2>1. CASE Enqueue(t)
    <3>1. chunk' = chunk /\ pc[t] = "dispatch" /\ vector[t] = << >>
      BY <1>2, <2>1 DEF Enqueue, Sending, PollStates
    <3>2. DOMAIN chunk[t] = {}
      BY <1>2, <3>1 DEF Sending, Placing
    <3>3. Begun(t) = sent[t]
      BY <1>2, <3>1, EmptySeq DEF Begun
    <3>4. Begun(t)' = sent[t]
      <4>1. PICK n \in 1 .. MaxVector :
              /\ sent' = [sent EXCEPT ![t] = @ + n]
              /\ \E dsts \in [1 .. n -> Threads] :
                   vector' = [vector EXCEPT ![t] =
                     [i \in 1 .. n |-> [buf |-> <<t, sent[t] + i>>, dst |-> dsts[i]]]]
        BY <2>1 DEF Enqueue
      <4>2. n \in Nat
        BY SizesAssumption
      <4>3. PICK dsts \in [1 .. n -> Threads] :
              vector'[t] = [i \in 1 .. n |-> [buf |-> <<t, sent[t] + i>>, dst |-> dsts[i]]]
        BY <1>0, <4>1
      <4>4. Len(vector'[t]) = n /\ sent'[t] = sent[t] + n
        BY <1>0, <4>1, <4>2, <4>3
      <4> QED
        BY <1>2, <4>2, <4>4 DEF Begun
    <3> QED
      BY <1>2, <3>1, <3>2, <3>3, <3>4 DEF Pending, For
  <2>2. CASE NextChunk(t)
    <3> DEFINE n == Min2(FrameSize, Len(vector[t]))
               c == [i \in 1 .. n |->
                       [buf |-> vector[t][i].buf, dst |-> vector[t][i].dst,
                        aux |-> IF WithAux THEN aux[t][i] ELSE NoAux]]
    <3>1. vector[t] # << >> /\ vector[t] \in Seq(Packet)
      BY <1>0, <2>2 DEF NextChunk
    <3>2. n \in Nat /\ n <= Len(vector[t])
      BY <1>2, Sizes DEF Min2
    <3>3. chunk'[t] = c /\ vector'[t] = SubSeq(vector[t], n + 1, Len(vector[t]))
          /\ sent' = sent
      BY <1>0, <2>2 DEF NextChunk, AfterChunk
    <3> HIDE DEF n
    <3>4. DOMAIN c = 1 .. n /\ \A i \in 1 .. n : c[i].buf = vector[t][i].buf
      OBVIOUS
    <3> HIDE DEF c
    <3>5. \A i \in 1 .. n : c[i].buf = <<t, Begun(t) + i>>
      BY <1>2, <3>2, <3>4 DEF Sending
    <3>6. Len(vector'[t]) <= Len(vector[t]) /\ Len(vector'[t]) \in Nat
      <4>1. \A i \in n + 1 .. Len(vector[t]) : vector[t][i] \in Packet
        BY <1>2, <3>1, <3>2, ElementOfSeq
      <4>2. Len(SubSeq(vector[t], n + 1, Len(vector[t]))) =
              IF n + 1 <= Len(vector[t]) THEN Len(vector[t]) - (n + 1) + 1 ELSE 0
        BY <1>2, <3>2, <4>1, SubSeqProperties
      <4> QED
        BY <1>2, <3>2, <3>3, <4>2
    <3>7. Begun(t) <= Begun(t)'
      <4>1. sent'[t] = sent[t] /\ sent[t] \in Nat /\ Len(vector[t]) \in Nat
        BY <1>2, <3>3
      <4> QED
        BY <3>6, <4>1 DEF Begun
    <3>8. ASSUME NEW d \in Threads, NEW i \in Pending(t, d)'
          PROVE  chunk'[t][i].buf[1] = t /\ chunk'[t][i].buf[2] > Begun(t)
      <4>1. i \in 1 .. n
        BY <3>3, <3>4 DEF Pending, For
      <4> QED
        BY <1>2, <3>2, <3>3, <3>5, <4>1
    <3> QED
      BY <3>7, <3>8
  <2>3. CASE Kick(t) \/ DropGroup(t)
    <3>1. chunk'[t] = [i \in Rest(t) |-> chunk[t][i]] /\ UNCHANGED <<sent, vector>>
      BY <1>0, <2>3 DEF Kick, DropGroup, AfterGroup, callVars
    <3>2. \A d \in Threads : \A i \in Pending(t, d)' :
            i \in Pending(t, d) /\ chunk'[t][i] = chunk[t][i]
      BY <3>1 DEF Pending, For, Rest
    <3>3. Begun(t)' = Begun(t)
      BY <3>1 DEF Begun
    <3> QED
      BY <1>2, <3>2, <3>3
  <2> QED
    BY <2>1, <2>2, <2>3
<1>4. \A u \in Threads \ {t} : Begun(u)' = Begun(u) /\ Dst(u)' = Dst(u)
  BY <1>1, DstSame DEF Begun
<1>5. \A u \in Threads : Begun(u) <= Begun(u)'
  BY <1>2, <1>3, <1>4
<1>6. \A u, d \in Threads : \A i \in Pending(u, d)' :
        \/ i \in Pending(u, d) /\ chunk'[u][i] = chunk[u][i]
        \/ chunk'[u][i].buf[1] = u /\ chunk'[u][i].buf[2] > Begun(u)
  BY <1>1, <1>3, <1>4 DEF Pending
<1>7. \A d \in Threads : \A p \in Nat : Items(d, p)' \in {<< >>, Items(d, p)}
  BY <1>1 DEF Items
<1> QED
  BY <1>1, <1>4, <1>5, <1>6, <1>7, QuietOrder

\* A claimed position joins the ring, and a reset one leaves it.
LEMMA CounterOrder ==
  ASSUME IInv, OInv, IInv', Sending', NEW t \in Threads, Claim(t) \/ BumpHead(t)
  PROVE  OInv'
<1>0. Emptied /\ Sending /\ Delivering /\ \A u \in Threads : Begun(u) \in Nat
  BY BegunType DEF OInv
<1>1. /\ UNCHANGED <<elts, delivered, chunk, sent, vector, seenTail>>
      /\ \A u \in Threads \ {t} : pc'[u] = pc[u]
      /\ pc[t] \notin {"publish", "kick"} /\ pc'[t] \notin {"reset", "bump"}
  BY DEF Claim, BumpHead, Retry, Goto, handoffVars, callVars, dequeueVars, IInv, Types, LocalTypes
<1>2. \A u : Dst(u)' = Dst(u) /\ Begun(u)' = Begun(u)
  BY <1>1, DstSame DEF Begun
<1>3. \A d, p : Items(d, p)' = Items(d, p)
  BY <1>1 DEF Items
<1>4. \A u, d \in Threads : \A i \in Pending(u, d)' :
        i \in Pending(u, d) /\ chunk'[u][i] = chunk[u][i]
  <2> TAKE u, d \in Threads
  <2>1. pc[u] \in {"publish", "kick"} => pc'[u] \in {"publish", "kick"}
    BY <1>1
  <2> QED
    BY <1>1, <1>2, <2>1 DEF Pending
<1>5. ASSUME \A d \in Threads : \A p \in Live(d)' : Items(d, p) = << >> \/ p \in Live(d),
             \A d \in Threads : \A p \in tail'[d] + 1 .. head'[d] + NElts : Items(d, p) = << >>,
             pc'[t] = "fill" => /\ tail'[Dst(t)] = seenTail[t] + 1
                                /\ Items(Dst(t), seenTail[t] + 1) = << >>,
             \A u \in Threads : pc'[u] \in {"reset", "bump"} => head'[u] = head[u]
      PROVE  OInv'
  <2>1. Emptied'
    <3> SUFFICES ASSUME NEW d \in Threads
        PROVE  /\ \A p \in tail'[d] + 1 .. head'[d] + NElts : Items(d, p) = << >>
               /\ pc'[d] \in {"reset", "bump"} => Items(d, head'[d] + 1) = << >>
               /\ pc'[d] = "fill" => Items(Dst(d), seenTail[d] + 1) = << >>
      BY <1>1, <1>2 DEF Emptied, Items
    <3>1. CASE d = t
      BY <1>1, <1>5, <3>1
    <3>2. CASE d # t
      BY <1>0, <1>1, <1>5, <3>2 DEF Emptied
    <3> QED
      BY <3>1, <3>2
  <2>2. \A u \in Threads : Begun(u) <= Begun(u)'
    BY <1>0, <1>2
  <2>3. Keeps
    <3>1. \A d \in Threads : \A p \in Live(d)' :
            Items(d, p)' = << >> \/ (p \in Live(d) /\ Items(d, p)' = Items(d, p))
      BY <1>3, <1>5
    <3>2. \A u \in Threads : pc'[u] = "fill" =>
            \/ pc[u] = "fill" /\ Dst(u)' = Dst(u) /\ seenTail'[u] = seenTail[u]
            \/ tail'[Dst(u)'] = seenTail'[u] + 1
      BY <1>1, <1>2, <1>5
    <3> QED
      BY <1>1, <1>4, <2>2, <3>1, <3>2 DEF Keeps
  <2> QED
    BY <1>0, <1>1, <2>1, <2>3, KeepStep DEF OInv, Delivering
<1>6. CASE Claim(t) /\ TailAsSeen(t)
  <2> DEFINE d == Dst(t)
  <2>1. pc[t] = "claim" /\ d \in Threads /\ seenTail[t] \in Nat /\ tail[d] = seenTail[t]
        /\ head[d] \in Nat /\ tail[d] \in Nat
    <3>1. pc[t] = "claim" /\ tail[d] = seenTail[t]
      BY <1>6 DEF Claim, TailAsSeen
    <3> QED
      BY <3>1, RingFacts DEF IInv
  <2>2. tail' = [tail EXCEPT ![d] = tail[d] + 1] /\ head' = head /\ pc'[t] = "fill"
    BY <1>6 DEF Claim, Goto, IInv, Types, LocalTypes
  <2> HIDE DEF d
  <2>3. tail'[d] = tail[d] + 1 /\ \A e \in Threads : e # d => tail'[e] = tail[e]
    BY <2>1, <2>2 DEF IInv, Types, RingTypes
  <2>4. tail[d] + 1 \in tail[d] + 1 .. head[d] + NElts
    <3>1. ~(seenTail[t] + 1 >= head[d] + NElts)
      BY <2>1 DEF IInv, Claims, ClaimOf, RingFull, d
    <3> QED
      BY <2>1, <3>1, Sizes
  <2>5. Items(d, tail[d] + 1) = << >>
    BY <1>0, <2>1, <2>4 DEF Emptied
  <2>6. ASSUME NEW e \in Threads, NEW p \in Live(e)' PROVE Items(e, p) = << >> \/ p \in Live(e)
    <3>1. CASE e # d
      BY <2>2, <2>3, <3>1 DEF Live
    <3>2. CASE e = d
      <4>1. p = tail[d] + 1 \/ p \in Live(d)
        BY <2>1, <2>2, <2>3, <3>2 DEF Live
      <4> QED
        BY <2>5, <3>2, <4>1
    <3> QED
      BY <3>1, <3>2
  <2>7. ASSUME NEW e \in Threads, NEW p \in tail'[e] + 1 .. head'[e] + NElts
        PROVE  Items(e, p) = << >>
    <3>1. head[e] \in Nat /\ tail[e] \in Nat
      BY EntryFacts
    <3>2. p \in tail[e] + 1 .. head[e] + NElts
      BY <2>1, <2>2, <2>3, <3>1, Sizes
    <3> QED
      BY <1>0, <3>2 DEF Emptied
  <2>8. tail'[Dst(t)] = seenTail[t] + 1 /\ Items(Dst(t), seenTail[t] + 1) = << >>
    BY <2>1, <2>3, <2>5 DEF d
  <2> QED
    BY <1>5, <2>2, <2>6, <2>7, <2>8
<1>7. CASE Claim(t) /\ ~TailAsSeen(t)
  <2>1. UNCHANGED <<head, tail>> /\ pc'[t] = "load"
    BY <1>7 DEF Claim, Retry, Goto, IInv, Types, LocalTypes
  <2>2. \A d : Live(d)' = Live(d)
    BY <2>1 DEF Live
  <2>3. \A d \in Threads : \A p \in tail'[d] + 1 .. head'[d] + NElts : Items(d, p) = << >>
    BY <1>0, <2>1 DEF Emptied
  <2> QED
    BY <1>5, <2>1, <2>2, <2>3
<1>8. CASE BumpHead(t)
  <2>1. pc[t] = "bump" /\ pc'[t] = "dequeue" /\ tail' = tail
        /\ head' = [head EXCEPT ![t] = head[t] + 1]
    BY <1>8 DEF BumpHead, Goto, IInv, Types, LocalTypes
  <2>2. head'[t] = head[t] + 1 /\ \A e \in Threads : e # t => head'[e] = head[e]
    BY <2>1 DEF IInv, Types, RingTypes
  <2>3. head[t] \in Nat /\ tail[t] \in Nat
    BY EntryFacts
  <2>4. Items(t, head[t] + 1) = << >>
    BY <1>0, <2>1 DEF Emptied
  <2>5. Slot((head[t] + 1) + NElts) = Slot(head[t] + 1)
    BY <2>3, SlotWrap
  <2>6. ASSUME NEW e \in Threads, NEW p \in Live(e)' PROVE p \in Live(e)
    <3>1. CASE e # t
      BY <2>1, <2>2, <3>1 DEF Live
    <3>2. CASE e = t
      BY <2>1, <2>2, <2>3, <3>2 DEF Live
    <3> QED
      BY <3>1, <3>2
  <2>7. ASSUME NEW e \in Threads, NEW p \in tail'[e] + 1 .. head'[e] + NElts
        PROVE  Items(e, p) = << >>
    <3>1. head[e] \in Nat /\ tail[e] \in Nat
      BY EntryFacts
    <3>2. CASE e = t /\ p = (head[t] + 1) + NElts
      BY <2>4, <2>5, <3>2 DEF Items
    <3>3. CASE ~(e = t /\ p = (head[t] + 1) + NElts)
      <4>1. p \in tail[e] + 1 .. head[e] + NElts
        BY <2>1, <2>2, <3>1, <3>3, Sizes
      <4> QED
        BY <1>0, <4>1 DEF Emptied
    <3> QED
      BY <3>2, <3>3
  <2>8. \A u \in Threads : pc'[u] \in {"reset", "bump"} => head'[u] = head[u]
    BY <2>1, <2>2
  <2> QED
    BY <1>5, <2>1, <2>6, <2>7, <2>8
<1> QED
  BY <1>6, <1>7, <1>8

\* Every step keeps the order.
LEMMA OrderStep == IInv /\ IInv' /\ OInv /\ Next => OInv'
<1> SUFFICES ASSUME IInv, IInv', OInv, NEW t \in Threads, Step(t) \/ Enqueue(t), Next
             PROVE  OInv'
  BY DEF Next
<1>1. Sending'
  BY SendingStep DEF OInv
<1>2. CASE Fill(t)
  <2>1. Delivering'
    BY <1>2 DEF Fill, dequeueVars, OInv, Delivering
  <2> QED
    BY <1>1, <1>2, <2>1, FillOrder, EmptiedCopy DEF OInv
<1>3. CASE Dequeue(t)
  BY <1>1, <1>3, DequeueOrder, EmptiedCopy DEF OInv
<1> QED
  BY <1>1, <1>2, <1>3, LoopOrder, CallOrder, CounterOrder DEF Step

\* The order holds at the start.
LEMMA OrderInit == Init => OInv
<1> SUFFICES ASSUME Init PROVE OInv
  OBVIOUS
<1>1. IInv
  BY InitHolds
<1>2. \A d \in Threads : Live(d) = {}
  <2> TAKE d \in Threads
  <2>1. head[d] = 0 /\ tail[d] = 0
    BY DEF Init
  <2> QED
    BY <2>1 DEF Live
<1>3. \A d \in Threads : \A p \in Nat : Items(d, p) = << >>
  BY SlotType DEF Init, Items, EmptyElt
<1>4. Emptied
  <2> SUFFICES ASSUME NEW d \in Threads
      PROVE  \A p \in tail[d] + 1 .. head[d] + NElts : Items(d, p) = << >>
    BY DEF Emptied, Init
  <2>1. \A p \in tail[d] + 1 .. head[d] + NElts : p \in Nat
    <3>1. head[d] \in Nat /\ tail[d] \in Nat
      BY <1>1, EntryFacts
    <3> QED
      BY <3>1, Sizes
  <2> QED
    BY <1>3, <2>1
<1>5. Len(<< >>) = 0 /\ DOMAIN << >> = {}
  BY EmptySeq, NoEntries
<1>6. Sending
  BY <1>5, SizesAssumption DEF Init, Sending, Begun, Placing
<1>7. Delivering
  BY EmptySeq DEF Init, Delivering
<1>8. \A d \in Threads : DOMAIN delivered[d] = {}
  BY <1>5 DEF Init
<1>9. Sorted /\ Coming
  BY <1>2, <1>8 DEF Sorted, Coming, At
<1>10. LastClaim
  BY DEF Init, LastClaim
<1> QED
  BY <1>4, <1>6, <1>7, <1>9, <1>10 DEF OInv

\* The order invariant holds in every reachable state.
THEOREM OrderInvariance == Spec => []OInv
<1>1. OInv /\ UNCHANGED vars => OInv'
  <2> SUFFICES ASSUME OInv, UNCHANGED vars PROVE OInv'
    OBVIOUS
  <2>1. UNCHANGED <<head, tail, elts, pc, sent, vector, chunk, seenTail, delivered>>
    BY DEF vars, ringVars, handoffVars, callVars, dequeueVars
  <2>2. /\ \A u : Dst(u)' = Dst(u) /\ Begun(u)' = Begun(u) /\ Live(u)' = Live(u)
        /\ \A d, p : Items(d, p)' = Items(d, p)
    BY <2>1, DstSame DEF Begun, Live, Items
  <2>3. \A u, d : Pending(u, d)' = Pending(u, d) /\ At(d)' = At(d)
    BY <2>1, <2>2 DEF Pending, At
  <2>4. Emptied' /\ LastClaim'
    BY <2>1, <2>2 DEF OInv, Emptied, LastClaim, Items, Live
  <2>5. Sending' /\ Delivering'
    BY <2>1, <2>2 DEF OInv, Sending, Delivering
  <2>6. Sorted' /\ Coming'
    BY <2>1, <2>2, <2>3 DEF OInv, Sorted, Coming
  <2> QED
    BY <2>4, <2>5, <2>6 DEF OInv
<1> QED
  BY <1>1, OrderInit, OrderStep, Invariance, PTL DEF Spec

\* The buffers one thread hands to another arrive in the order they were sent,
\* for any number of threads, any size of rings and frames, splits and races.
THEOREM OrderIsKept == Spec => []OrderKept
<1>1. OInv => OrderKept
  BY DEF OInv, Sorted, Before, OrderKept
<1> QED
  BY <1>1, OrderInvariance, PTL

-----------------------------------------------------------------------------
(* Conservation: a buffer is in one place, and a step moves it to another. *)

\* A buffer that was handed over is in one place, any other in none.
One(b) == \E x : Places(b) = {x}
Kept ==
  \A t \in Threads : \A n \in Nat \ {0} :
    IF n <= sent[t] THEN One(<<t, n>>) ELSE Places(<<t, n>>) = {}
Dropping == dropList \in [Threads -> Seq(Buffers)]
CInv == Kept /\ Dropping

\* The kinds of places.
LEMMA Kinds ==
  ASSUME NEW b
  PROVE  /\ Places(b) = InVector(b) \cup InChunk(b) \cup InElt(b) \cup InFrame(b)
                        \cup InDrop(b) \cup InFreed(b)
         /\ \A x \in InVector(b) : x[1] = "vector"
         /\ \A x \in InChunk(b) : x[1] = "chunk"
         /\ \A x \in InElt(b) : x[1] = "ring"
         /\ \A x \in InFrame(b) : x[1] = "delivered"
         /\ \A x \in InDrop(b) : x[1] = "drop"
         /\ \A x \in InFreed(b) : x[1] = "freed"
<1>1. Places(b) = InVector(b) \cup InChunk(b) \cup InElt(b) \cup InFrame(b)
                  \cup InDrop(b) \cup InFreed(b)
  BY DEF Places
<1>2. /\ \A x \in InVector(b) : x[1] = "vector"
      /\ \A x \in InChunk(b) : x[1] = "chunk"
      /\ \A x \in InElt(b) : x[1] = "ring"
  BY DEF InVector, InChunk, InElt
<1>3. /\ \A x \in InFrame(b) : x[1] = "delivered"
      /\ \A x \in InDrop(b) : x[1] = "drop"
      /\ \A x \in InFreed(b) : x[1] = "freed"
  BY DEF InFrame, InDrop, InFreed
<1> QED
  BY <1>1, <1>2, <1>3

\* When a place of each kind is in the set: a packet of a vector.
LEMMA InVectorIs ==
  ASSUME NEW b, NEW x
  PROVE  x \in InVector(b) <=>
           \E u \in Threads : x = <<"vector", u>> /\ \E j \in DOMAIN vector[u] : vector[u][j].buf = b
  BY DEF InVector

\* A packet of a chunk that is not placed yet.
LEMMA InChunkIs ==
  ASSUME NEW b, NEW x
  PROVE  x \in InChunk(b) <=>
           \E u \in Threads : \E i \in DOMAIN chunk[u] :
             /\ x = <<"chunk", u, i>> /\ chunk[u][i].buf = b
             /\ ~ Placed(u, i)
  BY DEF InChunk

\* An entry of a ring element.
LEMMA InEltIs ==
  ASSUME NEW b, NEW x
  PROVE  x \in InElt(b) <=>
           \E u \in Threads : \E s \in Slots : \E i \in DOMAIN elts[u][s].items :
             x = <<"ring", u, s, i>> /\ elts[u][s].items[i].buf = b
  BY DEF InElt

\* An entry given to the node.
LEMMA InFrameIs ==
  ASSUME NEW b, NEW x
  PROVE  x \in InFrame(b) <=>
           \E u \in Threads : \E i \in DOMAIN delivered[u] :
             x = <<"delivered", u, i>> /\ delivered[u][i].buf = b
  BY DEF InFrame

\* An entry of a drop list.
LEMMA InDropIs ==
  ASSUME NEW b, NEW x
  PROVE  x \in InDrop(b) <=>
           \E u \in Threads : \E i \in DOMAIN dropList[u] :
             x = <<"drop", u, i>> /\ dropList[u][i] = b
  BY DEF InDrop

\* A step that moves no buffer.
LEMMA StillPlaces ==
  ASSUME UNCHANGED <<vector, delivered, dropList, freed>>,
         \A u \in Threads : \A s \in Slots : elts'[u][s].items = elts[u][s].items,
         \A u \in Threads : \A i :
           i \in DOMAIN chunk'[u] /\ ~Placed(u, i)' <=> i \in DOMAIN chunk[u] /\ ~Placed(u, i),
         \A u \in Threads : \A i \in DOMAIN chunk'[u] :
           ~Placed(u, i)' => chunk'[u][i] = chunk[u][i],
         NEW b
  PROVE  Places(b)' = Places(b)
<1>1. InVector(b)' = InVector(b) /\ InFrame(b)' = InFrame(b) /\ InDrop(b)' = InDrop(b)
      /\ InFreed(b)' = InFreed(b)
  BY DEF InVector, InFrame, InDrop, InFreed
<1>2. InElt(b)' = InElt(b)
  <2>1. ASSUME NEW x PROVE x \in InElt(b)' <=> x \in InElt(b)
    BY DEF InElt
  <2> QED
    BY <2>1
<1>3. InChunk(b)' = InChunk(b)
  <2>1. ASSUME NEW x PROVE x \in InChunk(b)' <=> x \in InChunk(b)
    BY DEF InChunk
  <2> QED
    BY <2>1
<1> QED
  BY <1>1, <1>2, <1>3 DEF Places

\* What a step does to a buffer: nothing, or it moves it.
Moves(b) == Places(b)' = Places(b) \/ \E x, y : Places(b) = {x} /\ Places(b)' = {y}

\* The steps that move no buffer.
LEMMA StillStep ==
  ASSUME IInv, OInv, NEW t \in Threads,
         \/ PollTest(t) \/ ClearCheck(t) \/ EndDequeue(t) \/ EndDispatch(t) \/ EndHandoff(t)
         \/ LoadTail(t) \/ FullTest(t) \/ SlotFreed(t) \/ Claim(t) \/ BumpHead(t)
         \/ Publish(t) \/ ResetElt(t) \/ Kick(t),
         NEW b
  PROVE  Places(b)' = Places(b)
<1>0. pc \in [Threads -> PollStates \union HandoffStates] /\ chunk \in [Threads -> Chunk]
      /\ elts \in [Threads -> [Slots -> Elt]]
  BY DEF IInv, Types, LocalTypes, CallTypes, RingTypes
<1>1. ASSUME UNCHANGED <<vector, delivered, dropList, freed, chunk>>,
             \A u \in Threads : \A s \in Slots : elts'[u][s].items = elts[u][s].items,
             \A u \in Threads \ {t} : pc'[u] = pc[u],
             pc'[t] \in {"publish", "kick"} <=> pc[t] \in {"publish", "kick"}
      PROVE  Places(b)' = Places(b)
  <2>1. \A u : Dst(u)' = Dst(u)
    BY <1>1, DstSame
  <2>2. \A u \in Threads : \A i : Placed(u, i)' <=> Placed(u, i)
    <3> TAKE u \in Threads
    <3>1. pc'[u] \in {"publish", "kick"} <=> pc[u] \in {"publish", "kick"}
      BY <1>1
    <3> QED
      BY <1>1, <2>1, <3>1 DEF Placed
  <2> QED
    BY <1>1, <2>2, StillPlaces
<1>2. CASE \/ PollTest(t) \/ ClearCheck(t) \/ EndDequeue(t) \/ EndDispatch(t)
           \/ EndHandoff(t)
  <2>1. UNCHANGED <<vector, delivered, dropList, freed, chunk, elts>>
        /\ \A u \in Threads \ {t} : pc'[u] = pc[u]
    BY <1>0, <1>2 DEF PollTest, ClearCheck, EndDequeue, EndDispatch, EndHandoff, Goto,
       ringVars, handoffVars, callVars, dequeueVars
  <2>2. pc'[t] \notin {"publish", "kick"} /\ pc[t] \notin {"publish", "kick"}
    BY <1>0, <1>2 DEF PollTest, ClearCheck, EndDequeue, EndDispatch, EndHandoff, Goto
  <2> QED
    BY <1>1, <2>1, <2>2
<1>3. CASE LoadTail(t) \/ FullTest(t) \/ SlotFreed(t) \/ Claim(t) \/ BumpHead(t)
  <2>1. UNCHANGED <<vector, delivered, dropList, freed, chunk, elts>>
        /\ \A u \in Threads \ {t} : pc'[u] = pc[u]
    BY <1>0, <1>3 DEF LoadTail, FullTest, SlotFreed, Claim, BumpHead, Goto,
       ringVars, handoffVars, callVars, dequeueVars
  <2>2. pc'[t] \notin {"publish", "kick"} /\ pc[t] \notin {"publish", "kick"}
    BY <1>0, <1>3 DEF LoadTail, FullTest, SlotFreed, Claim, Retry, BumpHead, Goto
  <2> QED
    BY <1>1, <2>1, <2>2
<1>4. CASE Publish(t)
  <2>1. UNCHANGED <<vector, delivered, dropList, freed, chunk>>
        /\ elts' = [elts EXCEPT ![Dst(t)][Claimed(t)].valid = TRUE]
        /\ pc[t] = "publish" /\ pc'[t] = "kick" /\ \A u \in Threads \ {t} : pc'[u] = pc[u]
    BY <1>0, <1>4 DEF Publish, Goto, handoffVars, callVars, dequeueVars
  <2>2. \A u \in Threads : \A s \in Slots : elts'[u][s].items = elts[u][s].items
    <3>1. Dst(t) \in Threads /\ seenTail[t] + 1 \in Nat
      BY <2>1, RingFacts DEF IInv
    <3>2. Claimed(t) \in Slots
      BY <3>1, SlotType DEF Claimed
    <3>3. elts' = [elts EXCEPT ![Dst(t)][Claimed(t)].valid = TRUE]
      BY <2>1
    <3> QED
      BY <1>0, <3>1, <3>2, <3>3 DEF Elt
  <2> QED
    BY <1>1, <2>1, <2>2
<1>5. CASE ResetElt(t)
  <2>1. UNCHANGED <<vector, delivered, dropList, freed, chunk>>
        /\ elts' = [elts EXCEPT ![t][HeadSlot(t)] = EmptyElt]
        /\ pc[t] = "reset" /\ pc'[t] = "bump" /\ \A u \in Threads \ {t} : pc'[u] = pc[u]
    BY <1>0, <1>5 DEF ResetElt, Goto, handoffVars, callVars, dequeueVars
  <2>2. elts[t][HeadSlot(t)].items = << >>
    BY <2>1 DEF OInv, Emptied, Items, HeadSlot
  <2>3. \A u \in Threads : \A s \in Slots : elts'[u][s].items = elts[u][s].items
    <3>1. HeadSlot(t) \in Slots
      BY EntryFacts, SlotType DEF HeadSlot
    <3>2. elts' = [elts EXCEPT ![t][HeadSlot(t)] = EmptyElt]
      BY <2>1
    <3> QED
      BY <1>0, <2>2, <3>1, <3>2 DEF EmptyElt
  <2> QED
    BY <1>1, <2>1, <2>3
<1>6. CASE Kick(t)
  <2>1. UNCHANGED <<vector, delivered, dropList, freed, elts>> /\ pc[t] = "kick"
        /\ pc'[t] \notin {"publish", "kick"}
        /\ \A u \in Threads \ {t} : pc'[u] = pc[u] /\ chunk'[u] = chunk[u]
    BY <1>0, <1>6 DEF Kick, AfterGroup, Goto, ringVars, callVars, dequeueVars
  <2>0. chunk'[t] = [i \in Rest(t) |-> chunk[t][i]]
    BY <1>0, <1>6 DEF Kick, AfterGroup
  <2>2. \A u \in Threads \ {t} : \A i : Placed(u, i)' <=> Placed(u, i)
    BY <2>1, DstSame DEF Placed
  <2>3. \A i : ~Placed(t, i)' /\ (i \in DOMAIN chunk'[t] <=> i \in DOMAIN chunk[t] /\ ~Placed(t, i))
    <3>1. pc[t] = "kick" /\ pc'[t] \notin {"publish", "kick"}
      BY <2>1
    <3>2. DOMAIN chunk'[t] = Rest(t)
      BY <2>0
    <3> QED
      BY <3>1, <3>2 DEF Placed, Rest, For
  <2>4. \A i \in DOMAIN chunk'[t] : chunk'[t][i] = chunk[t][i]
    BY <2>0
  <2> QED
    BY <2>1, <2>2, <2>3, <2>4, StillPlaces
<1> QED
  BY <1>2, <1>3, <1>4, <1>5, <1>6

\* A buffer in one place is in no place of another kind.
LEMMA Alone ==
  ASSUME NEW b, NEW x, Places(b) = {x}
  PROVE  /\ x[1] # "vector" => InVector(b) = {}
         /\ x[1] # "chunk" => InChunk(b) = {}
         /\ x[1] # "ring" => InElt(b) = {}
         /\ x[1] # "delivered" => InFrame(b) = {}
         /\ x[1] # "drop" => InDrop(b) = {}
         /\ x[1] # "freed" => InFreed(b) = {}
         /\ \A y \in InChunk(b) : y = x
         /\ \A y \in InElt(b) : y = x
         /\ \A y \in InDrop(b) : y = x
<1>1. \A y : (\/ y \in InVector(b) \/ y \in InChunk(b) \/ y \in InElt(b) \/ y \in InFrame(b)
              \/ y \in InDrop(b) \/ y \in InFreed(b)) => y = x
  BY DEF Places
<1>2. /\ \A y \in InVector(b) : y[1] = "vector"
      /\ \A y \in InChunk(b) : y[1] = "chunk"
      /\ \A y \in InElt(b) : y[1] = "ring"
      /\ \A y \in InFrame(b) : y[1] = "delivered"
      /\ \A y \in InDrop(b) : y[1] = "drop"
      /\ \A y \in InFreed(b) : y[1] = "freed"
  BY Kinds
<1> QED
  BY <1>1, <1>2

\* Every position has a rank.
LEMMA NthOnto ==
  ASSUME NEW pos \in SUBSET (1 .. FrameSize), NEW i \in pos
  PROVE  \E k \in 1 .. Cardinality(pos) : Nth(pos, k) = i
<1> DEFINE Below(j) == {l \in pos : l < j}
           k == Cardinality(Below(i)) + 1
<1>1. pos \subseteq Nat /\ IsFiniteSet(pos) /\ Cardinality(pos) \in Nat
  BY Countable, Sizes
<1>2. \A j \in pos : IsFiniteSet(Below(j)) /\ Cardinality(Below(j)) \in Nat
  <2> TAKE j \in pos
  <2>1. Below(j) \subseteq pos
    OBVIOUS
  <2> QED
    BY <1>1, <2>1, FS_Subset, FS_CardinalityType
<1>3. ASSUME NEW j \in pos, NEW l \in pos, j < l
      PROVE  Cardinality(Below(j)) < Cardinality(Below(l))
  <2>1. Below(j) \union {j} \subseteq Below(l) /\ j \notin Below(j)
    <3>1. j \in Nat /\ l \in Nat
      BY <1>1
    <3>2. ASSUME NEW m \in Below(j) \union {j} PROVE m \in Below(l)
      <4>1. m \in pos /\ (m < j \/ m = j)
        OBVIOUS
      <4>2. m \in Nat
        BY <1>1, <4>1
      <4>3. m < l
        BY <1>3, <3>1, <4>1, <4>2
      <4> QED
        BY <4>1, <4>3
    <3>3. j \notin Below(j)
      <4>1. ~(j < j)
        BY <3>1
      <4> QED
        BY <4>1
    <3> HIDE DEF Below
    <3> QED
      BY <3>2, <3>3
  <2>2. Cardinality(Below(j) \union {j}) = Cardinality(Below(j)) + 1
    <3> HIDE DEF Below
    <3> QED
      BY <1>2, <2>1, FS_AddElement
  <2>3. Cardinality(Below(j) \union {j}) <= Cardinality(Below(l))
    <3> HIDE DEF Below
    <3> QED
      BY <1>2, <2>1, FS_Subset
  <2> HIDE DEF Below
  <2> QED
    BY <1>2, <2>2, <2>3
<1>4. Cardinality(Below(i)) < Cardinality(pos)
  <2>1. Below(i) \union {i} \subseteq pos /\ i \notin Below(i)
    BY <1>1
  <2>2. Cardinality(Below(i) \union {i}) = Cardinality(Below(i)) + 1
    <3> HIDE DEF Below
    <3> QED
      BY <1>2, <2>1, FS_AddElement
  <2>3. Cardinality(Below(i) \union {i}) <= Cardinality(pos)
    <3> HIDE DEF Below
    <3> QED
      BY <1>1, <2>1, FS_Subset
  <2> HIDE DEF Below
  <2> QED
    BY <1>1, <1>2, <2>2, <2>3
<1>5. k \in 1 .. Cardinality(pos) /\ k - 1 = Cardinality(Below(i))
  <2> HIDE DEF Below
  <2> QED
    BY <1>1, <1>2, <1>4
<1>6. Nth(pos, k) \in pos /\ Cardinality(Below(Nth(pos, k))) = Cardinality(Below(i))
  <2>1. Nth(pos, k) \in pos /\ Cardinality(Below(Nth(pos, k))) = k - 1
    <3> HIDE DEF k
    <3> QED
      BY <1>5, NthExists
  <2> QED
    BY <1>5, <2>1
<1>7. PICK j \in pos : j = Nth(pos, k) /\ Cardinality(Below(j)) = Cardinality(Below(i))
  BY <1>6
<1>8. j = i
  <2>1. j \in Nat /\ i \in Nat
    BY <1>1
  <2>2. ~(j < i) /\ ~(i < j)
    <3> HIDE DEF Below
    <3> QED
      BY <1>2, <1>3, <1>7
  <2> QED
    BY <2>1, <2>2
<1> QED
  BY <1>5, <1>7, <1>8

\* ... and only one.
LEMMA NthOnce ==
  ASSUME NEW pos \in SUBSET (1 .. FrameSize), NEW k \in 1 .. Cardinality(pos),
         NEW l \in 1 .. Cardinality(pos), Nth(pos, k) = Nth(pos, l)
  PROVE  k = l
<1>1. Cardinality(pos) \in Nat
  BY Countable
<1>2. Cardinality({j \in pos : j < Nth(pos, k)}) = k - 1
      /\ Cardinality({j \in pos : j < Nth(pos, l)}) = l - 1
  BY NthExists
<1>3. k - 1 = l - 1
  BY <1>2
<1> QED
  BY <1>1, <1>3

\* Fill moves the buffers of a group from the chunk into the element.
LEMMA FillMoves ==
  ASSUME IInv, OInv, NEW t \in Threads, Fill(t), NEW b, One(b) \/ Places(b) = {}
  PROVE  Moves(b)
<1> DEFINE d == Dst(t)
           s == Claimed(t)
           pos == For(chunk[t], d)
           new == elts'[d][s].items
<1>0. Sending /\ Emptied
  BY DEF OInv
<1>1. /\ UNCHANGED <<vector, delivered, dropList, freed, chunk, seenTail>>
      /\ pc[t] = "fill" /\ pc'[t] = "publish" /\ \A u \in Threads \ {t} : pc'[u] = pc[u]
  BY DEF Fill, Goto, handoffVars, callVars, dequeueVars, IInv, Types, LocalTypes
<1>2. d \in Threads /\ s \in Slots
  <2>1. d \in Threads /\ seenTail[t] + 1 \in Nat
    BY <1>1, RingFacts DEF IInv
  <2> QED
    BY <2>1, SlotType DEF Claimed
<1>3. \A u : Dst(u)' = Dst(u)
  BY <1>1, DstSame
<1>4. Items(d, seenTail[t] + 1)' = new
  BY <1>1, <1>3 DEF Items, Claimed
<1>5. /\ pos \in SUBSET DOMAIN chunk[t] /\ pos \in SUBSET (1 .. FrameSize)
      /\ DOMAIN new = 1 .. Cardinality(pos) /\ Cardinality(pos) \in Nat
      /\ \A k \in DOMAIN new :
           Nth(pos, k) \in pos /\ new[k].buf = chunk[t][Nth(pos, k)].buf
  BY <1>0, <1>4, FillWrites
<1>6. \A e \in Threads : \A r \in Slots : e # d \/ r # s => elts'[e][r] = elts[e][r]
  <2>1. \E y : elts' = [elts EXCEPT ![d][s].items = y]
    BY DEF Fill
  <2>2. elts \in [Threads -> [Slots -> Elt]]
    BY DEF IInv, Types, RingTypes
  <2> HIDE DEF d, s
  <2> QED
    BY <1>2, <2>1, <2>2
<1>7. elts[d][s].items = << >>
  BY <1>0, <1>1 DEF Emptied, Items, Claimed
<1>8. \A u \in Threads \ {t} : \A i : Placed(u, i)' <=> Placed(u, i)
  BY <1>1, <1>3 DEF Placed
<1>9. \A i \in DOMAIN chunk[t] : ~Placed(t, i) /\ (Placed(t, i)' <=> i \in pos)
  BY <1>1, <1>3 DEF Placed, For
<1>10. InVector(b)' = InVector(b) /\ InFrame(b)' = InFrame(b) /\ InDrop(b)' = InDrop(b)
       /\ InFreed(b)' = InFreed(b)
  BY <1>1 DEF InVector, InFrame, InDrop, InFreed
<1> HIDE DEF d, s, pos, new
<1>11. \A x : x \in InChunk(b)' <=> x \in InChunk(b) /\ \A i \in pos : x # <<"chunk", t, i>>
  <2> TAKE x
  <2>1. ASSUME x \in InChunk(b)' PROVE x \in InChunk(b) /\ \A i \in pos : x # <<"chunk", t, i>>
    <3>1. PICK u \in Threads : \E i \in DOMAIN chunk[u] :
             x = <<"chunk", u, i>> /\ chunk[u][i].buf = b /\ ~Placed(u, i)'
      BY <1>1, <2>1 DEF InChunk
    <3>2. PICK i \in DOMAIN chunk[u] :
             x = <<"chunk", u, i>> /\ chunk[u][i].buf = b /\ ~Placed(u, i)'
      BY <3>1
    <3>3. ~Placed(u, i) /\ (u = t => i \notin pos)
      BY <1>8, <1>9, <3>2
    <3>4. x \in InChunk(b)
      BY <3>2, <3>3, InChunkIs
    <3> QED
      BY <3>2, <3>3, <3>4
  <2>2. ASSUME x \in InChunk(b), \A i \in pos : x # <<"chunk", t, i>> PROVE x \in InChunk(b)'
    <3>1. PICK u \in Threads : \E i \in DOMAIN chunk[u] :
             x = <<"chunk", u, i>> /\ chunk[u][i].buf = b /\ ~Placed(u, i)
      BY <2>2, InChunkIs
    <3>2. PICK i \in DOMAIN chunk[u] :
             x = <<"chunk", u, i>> /\ chunk[u][i].buf = b /\ ~Placed(u, i)
      BY <3>1
    <3>3. ~Placed(u, i)'
      BY <1>8, <1>9, <2>2, <3>2
    <3> QED
      BY <1>1, <3>2, <3>3 DEF InChunk
  <2> QED
    BY <2>1, <2>2
<1>12. \A x : x \in InElt(b)' <=>
         x \in InElt(b) \/ \E k \in DOMAIN new : x = <<"ring", d, s, k>> /\ new[k].buf = b
  <2> TAKE x
  <2>1. ASSUME x \in InElt(b)'
        PROVE  x \in InElt(b) \/ \E k \in DOMAIN new : x = <<"ring", d, s, k>> /\ new[k].buf = b
    <3>1. PICK u \in Threads, r \in Slots : \E i \in DOMAIN elts'[u][r].items :
             x = <<"ring", u, r, i>> /\ elts'[u][r].items[i].buf = b
      BY <2>1 DEF InElt
    <3>2. CASE u # d \/ r # s
      <4>1. elts'[u][r] = elts[u][r]
        BY <1>6, <3>2
      <4> QED
        BY <3>1, <4>1, InEltIs
    <3>3. CASE u = d /\ r = s
      BY <3>1, <3>3 DEF new
    <3> QED
      BY <3>2, <3>3
  <2>2. ASSUME x \in InElt(b) PROVE x \in InElt(b)'
    <3>1. PICK u \in Threads, r \in Slots : \E i \in DOMAIN elts[u][r].items :
             x = <<"ring", u, r, i>> /\ elts[u][r].items[i].buf = b
      BY <2>2, InEltIs
    <3>2. u # d \/ r # s
      BY <1>7, <3>1, NoEntries
    <3>3. elts'[u][r] = elts[u][r]
      BY <1>6, <3>2
    <3> QED
      BY <3>1, <3>3 DEF InElt
  <2>3. ASSUME NEW k \in DOMAIN new, x = <<"ring", d, s, k>>, new[k].buf = b
        PROVE  x \in InElt(b)'
    BY <1>2, <2>3 DEF InElt, new
  <2> QED
    BY <2>1, <2>2, <2>3
<1>13. CASE \E i \in pos : chunk[t][i].buf = b
  <2>1. PICK i \in pos : chunk[t][i].buf = b
    BY <1>13
  <2> DEFINE x == <<"chunk", t, i>>
  <2>2. x \in InChunk(b)
    BY <1>5, <1>9, <2>1, InChunkIs
  <2>3. Places(b) = {x}
    <3>1. x \in Places(b)
      BY <2>2, Kinds
    <3> HIDE DEF x
    <3> QED
      BY <3>1 DEF One
  <2>4. /\ InVector(b) = {} /\ InElt(b) = {} /\ InFrame(b) = {} /\ InDrop(b) = {}
        /\ InFreed(b) = {} /\ \A y \in InChunk(b) : y = x
    <3>1. x[1] = "chunk"
      OBVIOUS
    <3> HIDE DEF x
    <3> QED
      BY <2>3, <3>1, Alone
  <2>5. InChunk(b)' = {}
    BY <1>11, <2>4
  <2>6. PICK k \in DOMAIN new : Nth(pos, k) = i
    BY <1>5, NthOnto
  <2>7. new[k].buf = b
    BY <1>5, <2>1, <2>6
  <2>8. \A l \in DOMAIN new : new[l].buf = b => l = k
    <3> SUFFICES ASSUME NEW l \in DOMAIN new, new[l].buf = b PROVE l = k
      OBVIOUS
    <3>1. Nth(pos, l) \in pos /\ chunk[t][Nth(pos, l)].buf = b
      BY <1>5
    <3>2. <<"chunk", t, Nth(pos, l)>> \in InChunk(b)
      BY <1>5, <1>9, <3>1, InChunkIs
    <3>3. Nth(pos, l) = i
      BY <2>4, <3>2
    <3> QED
      BY <1>5, <2>6, <3>3, NthOnce
  <2>9. InElt(b)' = {<<"ring", d, s, k>>}
    BY <1>12, <2>4, <2>7, <2>8
  <2>10. Places(b)' = {<<"ring", d, s, k>>}
    BY <1>10, <2>4, <2>5, <2>9 DEF Places
  <2> QED
    BY <2>3, <2>10 DEF Moves
<1>14. CASE ~\E i \in pos : chunk[t][i].buf = b
  <2>1. InElt(b)' = InElt(b)
    <3>1. \A k \in DOMAIN new : new[k].buf # b
      BY <1>5, <1>14
    <3> QED
      BY <1>12, <3>1
  <2>2. InChunk(b)' = InChunk(b)
    <3>1. ASSUME NEW x \in InChunk(b), NEW i \in pos PROVE x # <<"chunk", t, i>>
      BY <1>14, <3>1, InChunkIs
    <3> QED
      BY <1>11, <3>1
  <2> QED
    BY <1>10, <2>1, <2>2 DEF Places, Moves
<1> QED
  BY <1>13, <1>14

\* What DropGroup writes: the buffers of the group, after what is there already.
LEMMA DropWrites ==
  ASSUME IInv, Sending, Dropping, ~WithAux, NEW t \in Threads, DropGroup(t)
  PROVE  LET pos == For(chunk[t], Dst(t))
             old == dropList[t]
         IN  /\ pos \in SUBSET DOMAIN chunk[t] /\ pos \in SUBSET (1 .. FrameSize)
             /\ Cardinality(pos) \in Nat /\ Len(old) \in Nat /\ DOMAIN old = 1 .. Len(old)
             /\ dropList' \in [Threads -> Seq(Buffers)]
             /\ \A u \in Threads \ {t} : dropList'[u] = dropList[u]
             /\ DOMAIN dropList'[t] = 1 .. Len(old) + Cardinality(pos)
             /\ \A i \in DOMAIN old : dropList'[t][i] = old[i]
             /\ \A k \in 1 .. Cardinality(pos) :
                  /\ Nth(pos, k) \in pos
                  /\ dropList'[t][Len(old) + k] = chunk[t][Nth(pos, k)].buf
<1> DEFINE pos == For(chunk[t], Dst(t))
           old == dropList[t]
           group == Compress(chunk[t], pos)
           new == [i \in 1 .. Len(group) |-> group[i].buf]
<1>1. dropList' = [dropList EXCEPT ![t] = old \o new]
  BY DEF DropGroup
<1>2. chunk[t] \in Chunk /\ pos \in SUBSET DOMAIN chunk[t]
  BY DEF IInv, Types, CallTypes, For
<1>3. pos \in SUBSET (1 .. FrameSize)
  BY <1>2 DEF Chunk
<1>4. Len(group) = Cardinality(pos) /\ Cardinality(pos) \in Nat
  BY <1>2, CompressType
<1>5. \A k \in 1 .. Cardinality(pos) :
        Nth(pos, k) \in pos /\ group[k] = chunk[t][Nth(pos, k)]
  <2> HIDE DEF pos
  <2> QED
    BY <1>3, NthExists DEF Compress
<1>6. old \in Seq(Buffers) /\ Len(old) \in Nat /\ DOMAIN old = 1 .. Len(old)
  BY LenProperties DEF Dropping
<1> HIDE DEF pos, group
<1>7. \A k \in 1 .. Cardinality(pos) : chunk[t][Nth(pos, k)].buf \in Buffers
  BY <1>2, <1>5, ChunkFacts
<1>8. new \in Seq(Buffers) /\ Len(new) = Cardinality(pos)
      /\ \A k \in 1 .. Cardinality(pos) : new[k] = chunk[t][Nth(pos, k)].buf
  BY <1>4, <1>5, <1>7
<1> HIDE DEF old, new
<1>9. /\ old \o new \in Seq(Buffers)
      /\ Len(old \o new) = Len(old) + Len(new)
      /\ \A i \in 1 .. Len(old) + Len(new) :
           (old \o new)[i] = IF i <= Len(old) THEN old[i] ELSE new[i - Len(old)]
  BY <1>6, <1>8, ConcatProperties
<1>10. DOMAIN (old \o new) = 1 .. Len(old) + Cardinality(pos)
  BY <1>8, <1>9, LenProperties
<1>11. \A i \in DOMAIN old : (old \o new)[i] = old[i]
  BY <1>4, <1>6, <1>8, <1>9
<1>12. \A k \in 1 .. Cardinality(pos) : (old \o new)[Len(old) + k] = new[k]
  <2> TAKE k \in 1 .. Cardinality(pos)
  <2>1. Len(old) + k \in 1 .. Len(old) + Len(new) /\ ~(Len(old) + k <= Len(old))
        /\ (Len(old) + k) - Len(old) = k
    BY <1>4, <1>6, <1>8
  <2> QED
    BY <1>9, <2>1
<1>13. /\ dropList'[t] = old \o new /\ dropList' \in [Threads -> Seq(Buffers)]
       /\ \A u \in Threads \ {t} : dropList'[u] = dropList[u]
  BY <1>1, <1>9 DEF Dropping
<1> QED
  BY <1>2, <1>3, <1>4, <1>5, <1>6, <1>8, <1>10, <1>11, <1>12, <1>13 DEF pos, old

\* DropGroup moves the buffers of a group from the chunk to the drop list.
LEMMA DropMoves ==
  ASSUME IInv, OInv, Dropping, ~WithAux, NEW t \in Threads, DropGroup(t),
         NEW b, One(b) \/ Places(b) = {}
  PROVE  Moves(b)
<1> DEFINE pos == For(chunk[t], Dst(t))
           old == dropList[t]
           m == Cardinality(pos)
<1>0. Sending
  BY DEF OInv
<1>1. /\ pos \in SUBSET DOMAIN chunk[t] /\ pos \in SUBSET (1 .. FrameSize)
      /\ m \in Nat /\ Len(old) \in Nat /\ DOMAIN old = 1 .. Len(old)
      /\ \A u \in Threads \ {t} : dropList'[u] = dropList[u]
      /\ DOMAIN dropList'[t] = 1 .. Len(old) + m
      /\ \A i \in DOMAIN old : dropList'[t][i] = old[i]
      /\ \A k \in 1 .. m :
           Nth(pos, k) \in pos /\ dropList'[t][Len(old) + k] = chunk[t][Nth(pos, k)].buf
  BY <1>0, DropWrites
<1>2. /\ UNCHANGED <<vector, delivered, freed, elts>> /\ pc[t] = "drop"
      /\ pc'[t] \notin {"publish", "kick"}
      /\ \A u \in Threads \ {t} : pc'[u] = pc[u] /\ chunk'[u] = chunk[u]
      /\ chunk'[t] = [i \in Rest(t) |-> chunk[t][i]]
  BY DEF DropGroup, AfterGroup, Goto, ringVars, callVars, dequeueVars, IInv, Types,
     LocalTypes, CallTypes
<1>3. \A u \in Threads \ {t} : \A i : Placed(u, i)' <=> Placed(u, i)
  BY <1>2, DstSame DEF Placed
<1>4. \A i : ~Placed(t, i) /\ ~Placed(t, i)'
  BY <1>2 DEF Placed
<1>5. /\ DOMAIN chunk'[t] = DOMAIN chunk[t] \ pos
      /\ \A i \in DOMAIN chunk'[t] : chunk'[t][i] = chunk[t][i]
  BY <1>2 DEF Rest
<1>6. InVector(b)' = InVector(b) /\ InFrame(b)' = InFrame(b) /\ InElt(b)' = InElt(b)
      /\ InFreed(b)' = InFreed(b)
  BY <1>2 DEF InVector, InFrame, InElt, InFreed
<1> HIDE DEF pos, old, m
<1>7. \A x : x \in InChunk(b)' <=> x \in InChunk(b) /\ \A i \in pos : x # <<"chunk", t, i>>
  <2> TAKE x
  <2>1. ASSUME x \in InChunk(b)' PROVE x \in InChunk(b) /\ \A i \in pos : x # <<"chunk", t, i>>
    <3>1. PICK u \in Threads : \E i \in DOMAIN chunk'[u] :
             x = <<"chunk", u, i>> /\ chunk'[u][i].buf = b /\ ~Placed(u, i)'
      BY <2>1 DEF InChunk
    <3>2. PICK i \in DOMAIN chunk'[u] :
             x = <<"chunk", u, i>> /\ chunk'[u][i].buf = b /\ ~Placed(u, i)'
      BY <3>1
    <3>3. /\ i \in DOMAIN chunk[u] /\ chunk[u][i].buf = b /\ ~Placed(u, i)
          /\ (u = t => i \notin pos)
      BY <1>2, <1>3, <1>4, <1>5, <3>2
    <3>4. x \in InChunk(b)
      BY <3>2, <3>3, InChunkIs
    <3> QED
      BY <3>2, <3>3, <3>4
  <2>2. ASSUME x \in InChunk(b), \A i \in pos : x # <<"chunk", t, i>> PROVE x \in InChunk(b)'
    <3>1. PICK u \in Threads : \E i \in DOMAIN chunk[u] :
             x = <<"chunk", u, i>> /\ chunk[u][i].buf = b /\ ~Placed(u, i)
      BY <2>2, InChunkIs
    <3>2. PICK i \in DOMAIN chunk[u] :
             x = <<"chunk", u, i>> /\ chunk[u][i].buf = b /\ ~Placed(u, i)
      BY <3>1
    <3>3. i \in DOMAIN chunk'[u] /\ chunk'[u][i].buf = b /\ ~Placed(u, i)'
      BY <1>2, <1>3, <1>4, <1>5, <2>2, <3>2
    <3> QED
      BY <3>2, <3>3 DEF InChunk
  <2> QED
    BY <2>1, <2>2
<1>8. \A x : x \in InDrop(b)' <=>
        x \in InDrop(b)
        \/ \E k \in 1 .. m : x = <<"drop", t, Len(old) + k>> /\ chunk[t][Nth(pos, k)].buf = b
  <2> TAKE x
  <2>1. ASSUME x \in InDrop(b)'
        PROVE  x \in InDrop(b)
               \/ \E k \in 1 .. m : x = <<"drop", t, Len(old) + k>> /\ chunk[t][Nth(pos, k)].buf = b
    <3>1. PICK u \in Threads : \E i \in DOMAIN dropList'[u] :
             x = <<"drop", u, i>> /\ dropList'[u][i] = b
      BY <2>1 DEF InDrop
    <3>2. PICK i \in DOMAIN dropList'[u] : x = <<"drop", u, i>> /\ dropList'[u][i] = b
      BY <3>1
    <3>3. CASE u # t \/ i \in DOMAIN old
      <4>1. i \in DOMAIN dropList[u] /\ dropList[u][i] = b
        BY <1>1, <3>2, <3>3 DEF old
      <4> QED
        BY <3>2, <4>1, InDropIs
    <3>4. CASE u = t /\ i \notin DOMAIN old
      <4>1. i \in 1 .. Len(old) + m /\ i \notin 1 .. Len(old)
        BY <1>1, <3>2, <3>4
      <4>2. i - Len(old) \in 1 .. m /\ Len(old) + (i - Len(old)) = i
        BY <1>1, <4>1
      <4> QED
        BY <1>1, <3>2, <3>4, <4>2
    <3> QED
      BY <3>3, <3>4
  <2>2. ASSUME x \in InDrop(b) PROVE x \in InDrop(b)'
    <3>1. PICK u \in Threads : \E i \in DOMAIN dropList[u] :
             x = <<"drop", u, i>> /\ dropList[u][i] = b
      BY <2>2, InDropIs
    <3>2. PICK i \in DOMAIN dropList[u] : x = <<"drop", u, i>> /\ dropList[u][i] = b
      BY <3>1
    <3>3. i \in DOMAIN dropList'[u] /\ dropList'[u][i] = b
      <4>1. CASE u # t
        BY <1>1, <3>2, <4>1
      <4>2. CASE u = t
        <5>1. i \in 1 .. Len(old)
          BY <1>1, <3>2, <4>2 DEF old
        <5>2. i \in 1 .. Len(old) + m
          BY <1>1, <5>1
        <5> QED
          BY <1>1, <3>2, <4>2, <5>1, <5>2 DEF old
      <4> QED
        BY <4>1, <4>2
    <3> QED
      BY <3>2, <3>3 DEF InDrop
  <2>3. ASSUME NEW k \in 1 .. m, x = <<"drop", t, Len(old) + k>>, chunk[t][Nth(pos, k)].buf = b
        PROVE  x \in InDrop(b)'
    <3>1. Len(old) + k \in DOMAIN dropList'[t] /\ dropList'[t][Len(old) + k] = b
      BY <1>1, <2>3
    <3> QED
      BY <2>3, <3>1 DEF InDrop
  <2> QED
    BY <2>1, <2>2, <2>3
<1>9. CASE \E i \in pos : chunk[t][i].buf = b
  <2>1. PICK i \in pos : chunk[t][i].buf = b
    BY <1>9
  <2> DEFINE x == <<"chunk", t, i>>
  <2>2. x \in InChunk(b)
    BY <1>1, <1>4, <2>1, InChunkIs
  <2>3. Places(b) = {x}
    <3>1. x \in Places(b)
      BY <2>2, Kinds
    <3> HIDE DEF x
    <3> QED
      BY <3>1 DEF One
  <2>4. /\ InVector(b) = {} /\ InElt(b) = {} /\ InFrame(b) = {} /\ InDrop(b) = {}
        /\ InFreed(b) = {} /\ \A y \in InChunk(b) : y = x
    <3>1. x[1] = "chunk"
      OBVIOUS
    <3> HIDE DEF x
    <3> QED
      BY <2>3, <3>1, Alone
  <2>5. InChunk(b)' = {}
    BY <1>7, <2>4
  <2>6. PICK k \in 1 .. m : Nth(pos, k) = i
    BY <1>1, NthOnto DEF m
  <2>7. \A l \in 1 .. m : chunk[t][Nth(pos, l)].buf = b => l = k
    <3> SUFFICES ASSUME NEW l \in 1 .. m, chunk[t][Nth(pos, l)].buf = b PROVE l = k
      OBVIOUS
    <3>1. Nth(pos, l) \in pos
      BY <1>1
    <3>2. <<"chunk", t, Nth(pos, l)>> \in InChunk(b)
      BY <1>1, <1>4, <3>1, InChunkIs
    <3>3. Nth(pos, l) = i
      BY <2>4, <3>2
    <3> QED
      BY <1>1, <2>6, <3>3, NthOnce DEF m
  <2>8. InDrop(b)' = {<<"drop", t, Len(old) + k>>}
    <3>1. chunk[t][Nth(pos, k)].buf = b
      BY <2>1, <2>6
    <3>2. \A y : y \in InDrop(b)' <=> y = <<"drop", t, Len(old) + k>>
      BY <1>8, <2>4, <2>7, <3>1
    <3> QED
      BY <3>2
  <2>9. Places(b)' = {<<"drop", t, Len(old) + k>>}
    BY <1>6, <2>4, <2>5, <2>8 DEF Places
  <2> QED
    BY <2>3, <2>9 DEF Moves
<1>10. CASE ~\E i \in pos : chunk[t][i].buf = b
  <2>1. InDrop(b)' = InDrop(b)
    <3>1. \A k \in 1 .. m : chunk[t][Nth(pos, k)].buf # b
      BY <1>1, <1>10
    <3> QED
      BY <1>8, <3>1
  <2>2. InChunk(b)' = InChunk(b)
    <3>1. ASSUME NEW x \in InChunk(b), NEW i \in pos PROVE x # <<"chunk", t, i>>
      BY <1>10, <3>1, InChunkIs
    <3> QED
      BY <1>7, <3>1
  <2> QED
    BY <1>6, <2>1, <2>2 DEF Places, Moves
<1> QED
  BY <1>9, <1>10

\* FreeDrops moves the buffers of the drop list to those that are freed.
LEMMA FreeMoves ==
  ASSUME IInv, OInv, NEW t \in Threads, Dropping, FreeDrops(t), NEW b, One(b) \/ Places(b) = {}
  PROVE  Moves(b)
<1>1. /\ UNCHANGED <<vector, delivered, elts, chunk>> /\ pc[t] = "free" /\ pc'[t] = "chunk"
      /\ \A u \in Threads \ {t} : pc'[u] = pc[u] /\ dropList'[u] = dropList[u]
      /\ dropList'[t] = << >>
      /\ freed' = freed \union {dropList[t][i] : i \in DOMAIN dropList[t]}
  BY DEF FreeDrops, Goto, ringVars, callVars, dequeueVars, IInv, Types, LocalTypes, Dropping
<1>2. \A u \in Threads : \A i : Placed(u, i)' <=> Placed(u, i)
  BY <1>1, DstSame DEF Placed
<1>3. InVector(b)' = InVector(b) /\ InFrame(b)' = InFrame(b) /\ InElt(b)' = InElt(b)
  BY <1>1 DEF InVector, InFrame, InElt
<1>4. InChunk(b)' = InChunk(b)
  <2>1. ASSUME NEW x PROVE x \in InChunk(b)' <=> x \in InChunk(b)
    BY <1>1, <1>2 DEF InChunk
  <2> QED
    BY <2>1
<1>5. \A x : x \in InDrop(b)' <=>
        \E u \in Threads \ {t} : \E i \in DOMAIN dropList[u] :
          x = <<"drop", u, i>> /\ dropList[u][i] = b
  <2> TAKE x
  <2>1. x \in InDrop(b)' <=> \E u \in Threads : \E i \in DOMAIN dropList'[u] :
          x = <<"drop", u, i>> /\ dropList'[u][i] = b
    BY DEF InDrop
  <2> QED
    BY <1>1, <2>1, NoEntries
<1>6. CASE \E i \in DOMAIN dropList[t] : dropList[t][i] = b
  <2>1. PICK i \in DOMAIN dropList[t] : dropList[t][i] = b
    BY <1>6
  <2> DEFINE x == <<"drop", t, i>>
  <2>2. x \in InDrop(b)
    BY <2>1, InDropIs
  <2>3. Places(b) = {x}
    <3>1. x \in Places(b)
      BY <2>2, Kinds
    <3> HIDE DEF x
    <3> QED
      BY <3>1 DEF One
  <2>4. /\ InVector(b) = {} /\ InElt(b) = {} /\ InFrame(b) = {} /\ InChunk(b) = {}
        /\ InFreed(b) = {} /\ \A y \in InDrop(b) : y = x
    <3>1. x[1] = "drop"
      OBVIOUS
    <3> HIDE DEF x
    <3> QED
      BY <2>3, <3>1, Alone
  <2>5. InDrop(b)' = {}
    <3> SUFFICES ASSUME NEW y \in InDrop(b)' PROVE FALSE
      OBVIOUS
    <3>1. PICK u \in Threads \ {t} : \E j \in DOMAIN dropList[u] :
            y = <<"drop", u, j>> /\ dropList[u][j] = b
      BY <1>5
    <3>2. y \in InDrop(b)
      BY <3>1, InDropIs
    <3>3. <<"drop", t, i>> = y
      BY <2>4, <3>2
    <3> QED
      BY <3>1, <3>3
  <2>6. InFreed(b)' = {<<"freed">>}
    BY <1>1, <2>1 DEF InFreed
  <2>7. Places(b)' = {<<"freed">>}
    BY <1>3, <1>4, <2>4, <2>5, <2>6 DEF Places
  <2> QED
    BY <2>3, <2>7 DEF Moves
<1>7. CASE ~\E i \in DOMAIN dropList[t] : dropList[t][i] = b
  <2>1. InFreed(b)' = InFreed(b)
    BY <1>1, <1>7 DEF InFreed
  <2>2. InDrop(b)' = InDrop(b)
    <3>1. \A x : x \in InDrop(b) <=>
            \E u \in Threads \ {t} : \E i \in DOMAIN dropList[u] :
              x = <<"drop", u, i>> /\ dropList[u][i] = b
      <4> TAKE x
      <4>1. x \in InDrop(b) <=> \E u \in Threads : \E i \in DOMAIN dropList[u] :
              x = <<"drop", u, i>> /\ dropList[u][i] = b
        BY InDropIs
      <4> QED
        BY <1>7, <4>1
    <3> QED
      BY <1>5, <3>1
  <2> QED
    BY <1>3, <1>4, <2>1, <2>2 DEF Places, Moves
<1> QED
  BY <1>6, <1>7

\* Dequeue moves the first entries of the element at the head into a frame, and
\* the others up.
LEMMA DequeueMovesOne ==
  ASSUME IInv, OInv, NEW t \in Threads, Dequeue(t), NEW b, One(b) \/ Places(b) = {}
  PROVE  Moves(b)
<1> DEFINE h == head[t] + 1
           s == Slot(h)
           items == elts[t][s].items
           left == elts'[t][s].items
           old == delivered[t]
<1>0. Delivering
  BY DEF OInv
<1>1. /\ UNCHANGED <<head, vector, dropList, freed, chunk>>
      /\ pc[t] \notin {"publish", "kick"} /\ pc'[t] \notin {"publish", "kick"}
      /\ \A u \in Threads \ {t} : pc'[u] = pc[u]
  <2>1. UNCHANGED <<head, vector, dropList, freed, chunk>> /\ pc[t] = "dequeue"
        /\ \A u \in Threads \ {t} : pc'[u] = pc[u]
    BY DEF Dequeue, Goto, handoffVars, callVars, IInv, Types, LocalTypes
  <2>2. pc'[t] \in {"dequeue", "reset"}
    BY DEF Dequeue, Goto, AfterCopy, IInv, Types, LocalTypes
  <2> QED
    BY <2>1, <2>2
<1>2. Items(t, h) = items /\ Items(t, h)' = left
  BY <1>1 DEF Items
<1>3. s \in Slots
  BY EntryFacts, SlotType
<1>4. /\ items \in Seq(Entry) /\ Len(items) \in Nat /\ left \in Seq(Entry)
      /\ delivered' \in [Threads -> Seq(Handed)]
      /\ \A u \in Threads \ {t} : delivered'[u] = delivered[u]
      /\ \E n \in 0 .. Len(items) :
           /\ Len(delivered'[t]) = Len(old) + n
           /\ \A i \in DOMAIN old : delivered'[t][i] = old[i]
           /\ \A i \in 1 .. n : delivered'[t][Len(old) + i].buf = items[i].buf
           /\ Len(left) = Len(items) - n
           /\ \A j \in DOMAIN left : left[j] = items[n + j]
  <2> HIDE DEF items, left
  <2> QED
    BY <1>0, <1>2, DequeueMoves
<1>5. PICK n \in 0 .. Len(items) :
        /\ Len(delivered'[t]) = Len(old) + n
        /\ \A i \in DOMAIN old : delivered'[t][i] = old[i]
        /\ \A i \in 1 .. n : delivered'[t][Len(old) + i].buf = items[i].buf
        /\ Len(left) = Len(items) - n
        /\ \A j \in DOMAIN left : left[j] = items[n + j]
  BY <1>4
<1>6. /\ n \in Nat /\ n <= Len(items) /\ Len(items) \in Nat /\ Len(old) \in Nat
      /\ DOMAIN items = 1 .. Len(items) /\ DOMAIN left = 1 .. Len(items) - n
      /\ DOMAIN old = 1 .. Len(old) /\ DOMAIN delivered'[t] = 1 .. Len(old) + n
  <2>1. old \in Seq(Handed) /\ delivered'[t] \in Seq(Handed)
    BY <1>0, <1>4 DEF Delivering
  <2>2. items \in Seq(Entry) /\ left \in Seq(Entry) /\ Len(left) = Len(items) - n
        /\ Len(delivered'[t]) = Len(old) + n
    BY <1>4, <1>5
  <2> HIDE DEF items, left, old
  <2>3. DOMAIN items = 1 .. Len(items) /\ DOMAIN left = 1 .. Len(left)
        /\ DOMAIN old = 1 .. Len(old) /\ DOMAIN delivered'[t] = 1 .. Len(delivered'[t])
        /\ Len(items) \in Nat /\ Len(old) \in Nat
    BY <2>1, <2>2, LenProperties
  <2>4. n \in Nat /\ n <= Len(items)
    BY <2>3
  <2> QED
    BY <2>2, <2>3, <2>4
<1>7. \A e \in Threads : \A r \in Slots : e # t \/ r # s => elts'[e][r] = elts[e][r]
  <2>1. \E y : elts' = [elts EXCEPT ![t][s].items = y]
    BY DEF Dequeue, HeadSlot
  <2>2. elts \in [Threads -> [Slots -> Elt]]
    BY DEF IInv, Types, RingTypes
  <2> HIDE DEF s
  <2> QED
    BY <1>3, <2>1, <2>2
<1>8. \A u \in Threads : \A i : Placed(u, i)' <=> Placed(u, i)
  BY <1>1, DstSame DEF Placed
<1>9. InVector(b)' = InVector(b) /\ InDrop(b)' = InDrop(b) /\ InFreed(b)' = InFreed(b)
  BY <1>1 DEF InVector, InDrop, InFreed
<1>10. InChunk(b)' = InChunk(b)
  <2>1. ASSUME NEW x PROVE x \in InChunk(b)' <=> x \in InChunk(b)
    BY <1>1, <1>8 DEF InChunk
  <2> QED
    BY <2>1
<1> HIDE DEF s, items, left, old
<1> DEFINE Elsewhere(x) == \E u \in Threads : \E r \in Slots : \E i \in DOMAIN elts[u][r].items :
             /\ u # t \/ r # s
             /\ x = <<"ring", u, r, i>> /\ elts[u][r].items[i].buf = b
<1>11. \A x : x \in InElt(b) <=>
         Elsewhere(x) \/ \E i \in 1 .. Len(items) : x = <<"ring", t, s, i>> /\ items[i].buf = b
  <2> TAKE x
  <2>1. ASSUME x \in InElt(b)
        PROVE  Elsewhere(x) \/ \E i \in 1 .. Len(items) : x = <<"ring", t, s, i>> /\ items[i].buf = b
    <3>1. PICK u \in Threads, r \in Slots : \E i \in DOMAIN elts[u][r].items :
             x = <<"ring", u, r, i>> /\ elts[u][r].items[i].buf = b
      BY <2>1, InEltIs
    <3>2. CASE u # t \/ r # s
      BY <3>1, <3>2
    <3>3. CASE u = t /\ r = s
      BY <1>6, <3>1, <3>3 DEF items
    <3> QED
      BY <3>2, <3>3
  <2>2. ASSUME Elsewhere(x) PROVE x \in InElt(b)
    BY <2>2, InEltIs
  <2>3. ASSUME NEW i \in 1 .. Len(items), x = <<"ring", t, s, i>>, items[i].buf = b
        PROVE  x \in InElt(b)
    BY <1>3, <1>6, <2>3, InEltIs DEF items
  <2> QED
    BY <2>1, <2>2, <2>3
<1>12. \A x : x \in InElt(b)' <=>
         Elsewhere(x)
         \/ \E j \in 1 .. Len(items) - n : x = <<"ring", t, s, j>> /\ items[n + j].buf = b
  <2> TAKE x
  <2>0. x \in InElt(b)' <=> \E u \in Threads : \E r \in Slots : \E i \in DOMAIN elts'[u][r].items :
             x = <<"ring", u, r, i>> /\ elts'[u][r].items[i].buf = b
    BY DEF InElt
  <2>1. ASSUME x \in InElt(b)'
        PROVE  Elsewhere(x)
               \/ \E j \in 1 .. Len(items) - n : x = <<"ring", t, s, j>> /\ items[n + j].buf = b
    <3>1. PICK u \in Threads, r \in Slots : \E i \in DOMAIN elts'[u][r].items :
             x = <<"ring", u, r, i>> /\ elts'[u][r].items[i].buf = b
      BY <2>0, <2>1
    <3>2. CASE u # t \/ r # s
      BY <1>7, <3>1, <3>2
    <3>3. CASE u = t /\ r = s
      <4>1. PICK j \in DOMAIN left : x = <<"ring", t, s, j>> /\ left[j].buf = b
        BY <3>1, <3>3 DEF left
      <4>2. j \in 1 .. Len(items) - n /\ items[n + j].buf = b
        BY <1>5, <1>6, <4>1
      <4> QED
        BY <4>1, <4>2
    <3> QED
      BY <3>2, <3>3
  <2>2. ASSUME Elsewhere(x) PROVE x \in InElt(b)'
    BY <1>7, <2>0, <2>2
  <2>3. ASSUME NEW j \in 1 .. Len(items) - n, x = <<"ring", t, s, j>>, items[n + j].buf = b
        PROVE  x \in InElt(b)'
    <3>1. j \in DOMAIN left /\ left[j].buf = b
      BY <1>5, <1>6, <2>3
    <3> QED
      BY <1>3, <2>0, <2>3, <3>1 DEF left
  <2> QED
    BY <2>1, <2>2, <2>3
<1>13. \A x : x \in InFrame(b)' <=>
         x \in InFrame(b)
         \/ \E i \in 1 .. n : x = <<"delivered", t, Len(old) + i>> /\ items[i].buf = b
  <2> TAKE x
  <2>0. x \in InFrame(b)' <=> \E u \in Threads : \E i \in DOMAIN delivered'[u] :
             x = <<"delivered", u, i>> /\ delivered'[u][i].buf = b
    BY DEF InFrame
  <2>1. ASSUME x \in InFrame(b)'
        PROVE  x \in InFrame(b)
               \/ \E i \in 1 .. n : x = <<"delivered", t, Len(old) + i>> /\ items[i].buf = b
    <3>1. PICK u \in Threads : \E i \in DOMAIN delivered'[u] :
             x = <<"delivered", u, i>> /\ delivered'[u][i].buf = b
      BY <2>0, <2>1
    <3>2. PICK i \in DOMAIN delivered'[u] :
             x = <<"delivered", u, i>> /\ delivered'[u][i].buf = b
      BY <3>1
    <3>3. CASE u # t \/ i \in DOMAIN old
      <4>1. i \in DOMAIN delivered[u] /\ delivered[u][i].buf = b
        BY <1>4, <1>5, <3>2, <3>3 DEF old
      <4> QED
        BY <3>2, <4>1, InFrameIs
    <3>4. CASE u = t /\ i \notin DOMAIN old
      <4>1. i \in 1 .. Len(old) + n /\ i \notin 1 .. Len(old)
        BY <1>6, <3>2, <3>4
      <4>2. i - Len(old) \in 1 .. n /\ Len(old) + (i - Len(old)) = i
        BY <1>6, <4>1
      <4> QED
        BY <1>5, <3>2, <3>4, <4>2
    <3> QED
      BY <3>3, <3>4
  <2>2. ASSUME x \in InFrame(b) PROVE x \in InFrame(b)'
    <3>1. PICK u \in Threads : \E i \in DOMAIN delivered[u] :
             x = <<"delivered", u, i>> /\ delivered[u][i].buf = b
      BY <2>2, InFrameIs
    <3>2. PICK i \in DOMAIN delivered[u] :
             x = <<"delivered", u, i>> /\ delivered[u][i].buf = b
      BY <3>1
    <3>3. i \in DOMAIN delivered'[u] /\ delivered'[u][i].buf = b
      <4>1. CASE u # t
        BY <1>4, <3>2, <4>1
      <4>2. CASE u = t
        <5>1. i \in 1 .. Len(old)
          BY <1>6, <3>2, <4>2 DEF old
        <5>2. i \in 1 .. Len(old) + n
          BY <1>6, <5>1
        <5> QED
          BY <1>5, <1>6, <3>2, <4>2, <5>1, <5>2 DEF old
      <4> QED
        BY <4>1, <4>2
    <3> QED
      BY <2>0, <3>2, <3>3
  <2>3. ASSUME NEW i \in 1 .. n, x = <<"delivered", t, Len(old) + i>>, items[i].buf = b
        PROVE  x \in InFrame(b)'
    <3>1. Len(old) + i \in DOMAIN delivered'[t]
      BY <1>6
    <3> QED
      BY <1>5, <2>0, <2>3, <3>1
  <2> QED
    BY <2>1, <2>2, <2>3
<1> HIDE DEF Elsewhere
<1>14. CASE \E i \in 1 .. Len(items) : items[i].buf = b
  <2>1. PICK i \in 1 .. Len(items) : items[i].buf = b
    BY <1>14
  <2> DEFINE x == <<"ring", t, s, i>>
  <2>2. x \in InElt(b)
    BY <1>11, <2>1
  <2>3. Places(b) = {x}
    <3>1. x \in Places(b)
      BY <2>2, Kinds
    <3> HIDE DEF x
    <3> QED
      BY <3>1 DEF One
  <2>4. /\ InVector(b) = {} /\ InChunk(b) = {} /\ InFrame(b) = {} /\ InDrop(b) = {}
        /\ InFreed(b) = {} /\ \A y \in InElt(b) : y = x
    <3>1. x[1] = "ring"
      OBVIOUS
    <3> HIDE DEF x
    <3> QED
      BY <2>3, <3>1, Alone
  <2>5. \A j \in 1 .. Len(items) : items[j].buf = b => j = i
    <3> SUFFICES ASSUME NEW j \in 1 .. Len(items), items[j].buf = b PROVE j = i
      OBVIOUS
    <3>1. <<"ring", t, s, j>> \in InElt(b)
      BY <1>11
    <3> QED
      BY <2>4, <3>1
  <2>6. \A y : ~Elsewhere(y)
    <3> SUFFICES ASSUME NEW y, Elsewhere(y) PROVE FALSE
      OBVIOUS
    <3>1. y = <<"ring", t, s, i>>
      BY <1>11, <2>4
    <3> QED
      BY <3>1 DEF Elsewhere
  <2>7. i \in Nat /\ i >= 1 /\ i <= Len(items)
    BY <1>6
  <2>8. CASE i <= n
    <3>1. InElt(b)' = {}
      <4>1. \A j \in 1 .. Len(items) - n : items[n + j].buf # b
        <5> SUFFICES ASSUME NEW j \in 1 .. Len(items) - n, items[n + j].buf = b PROVE FALSE
          OBVIOUS
        <5>1. n + j \in 1 .. Len(items) /\ n + j # i
          BY <1>6, <2>7, <2>8
        <5> QED
          BY <2>5, <5>1
      <4> QED
        BY <1>12, <2>6, <4>1
    <3>2. InFrame(b)' = {<<"delivered", t, Len(old) + i>>}
      <4>1. i \in 1 .. n
        BY <1>6, <2>7, <2>8
      <4>2. \A j \in 1 .. n : items[j].buf = b => j = i
        <5> TAKE j \in 1 .. n
        <5>1. j \in 1 .. Len(items)
          BY <1>6
        <5> QED
          BY <2>5, <5>1
      <4>3. \A y : y \in InFrame(b)' <=> y = <<"delivered", t, Len(old) + i>>
        BY <1>13, <2>1, <2>4, <4>1, <4>2
      <4> QED
        BY <4>3
    <3>3. Places(b)' = {<<"delivered", t, Len(old) + i>>}
      BY <1>9, <1>10, <2>4, <3>1, <3>2 DEF Places
    <3> QED
      BY <2>3, <3>3 DEF Moves
  <2>9. CASE ~(i <= n)
    <3>0. i - n \in 1 .. Len(items) - n /\ n + (i - n) = i
      BY <1>6, <2>7, <2>9
    <3>1. InElt(b)' = {<<"ring", t, s, i - n>>}
      <4>1. \A j \in 1 .. Len(items) - n : items[n + j].buf = b => j = i - n
        <5> SUFFICES ASSUME NEW j \in 1 .. Len(items) - n, items[n + j].buf = b PROVE j = i - n
          OBVIOUS
        <5>1. n + j \in 1 .. Len(items)
          BY <1>6
        <5>2. n + j = i
          BY <2>5, <5>1
        <5> QED
          BY <1>6, <2>7, <5>2
      <4>2. \A y : y \in InElt(b)' <=> y = <<"ring", t, s, i - n>>
        BY <1>12, <2>1, <2>6, <3>0, <4>1
      <4> QED
        BY <4>2
    <3>2. InFrame(b)' = {}
      <4>1. \A j \in 1 .. n : items[j].buf # b
        <5> SUFFICES ASSUME NEW j \in 1 .. n, items[j].buf = b PROVE FALSE
          OBVIOUS
        <5>1. j \in 1 .. Len(items) /\ j # i
          BY <1>6, <2>7, <2>9
        <5> QED
          BY <2>5, <5>1
      <4> QED
        BY <1>13, <2>4, <4>1
    <3>3. Places(b)' = {<<"ring", t, s, i - n>>}
      BY <1>9, <1>10, <2>4, <3>1, <3>2 DEF Places
    <3> QED
      BY <2>3, <3>3 DEF Moves
  <2> QED
    BY <2>8, <2>9
<1>15. CASE ~\E i \in 1 .. Len(items) : items[i].buf = b
  <2>1. InFrame(b)' = InFrame(b)
    <3>1. \A i \in 1 .. n : items[i].buf # b
      BY <1>6, <1>15
    <3> QED
      BY <1>13, <3>1
  <2>2. InElt(b)' = InElt(b)
    <3>1. \A j \in 1 .. Len(items) - n : n + j \in 1 .. Len(items)
      BY <1>6
    <3>2. \A j \in 1 .. Len(items) - n : items[n + j].buf # b
      BY <1>15, <3>1
    <3> QED
      BY <1>11, <1>12, <1>15, <3>2
  <2> QED
    BY <1>9, <1>10, <2>1, <2>2 DEF Places, Moves
<1> QED
  BY <1>14, <1>15

\* NextChunk moves the first packets of the vector into the chunk.
LEMMA ChunkMoves ==
  ASSUME IInv, OInv, NEW t \in Threads, NextChunk(t), NEW b, One(b) \/ Places(b) = {}
  PROVE  Moves(b)
<1>0. Sending
  BY DEF OInv
<1>1. /\ UNCHANGED <<elts, delivered, dropList, freed>> /\ pc[t] = "chunk" /\ pc'[t] = "load"
      /\ \A u \in Threads \ {t} : pc'[u] = pc[u]
  BY DEF NextChunk, Goto, ringVars, dequeueVars, IInv, Types, LocalTypes
<1>2. /\ vector[t] \in Seq(Packet) /\ Len(vector[t]) \in Nat
      /\ \A u \in Threads \ {t} : vector'[u] = vector[u] /\ chunk'[u] = chunk[u]
  BY ChunkWrites
<1>3. PICK n \in 1 .. FrameSize :
        /\ n <= Len(vector[t]) /\ DOMAIN chunk'[t] = 1 .. n
        /\ \A i \in 1 .. n : chunk'[t][i].buf = vector[t][i].buf
        /\ DOMAIN vector'[t] = 1 .. Len(vector[t]) - n
        /\ \A j \in 1 .. Len(vector[t]) - n : vector'[t][j] = vector[t][n + j]
  BY ChunkWrites
<1>4. n \in Nat /\ n >= 1 /\ n <= Len(vector[t]) /\ Len(vector[t]) \in Nat
      /\ DOMAIN vector[t] = 1 .. Len(vector[t])
  BY <1>2, <1>3, Sizes, LenProperties
<1>5. DOMAIN chunk[t] = {}
  BY <1>0, <1>1 DEF Sending, Placing
<1>6. \A i, j \in 1 .. Len(vector[t]) : vector[t][i].buf = vector[t][j].buf => i = j
  <2>1. \A j \in 1 .. Len(vector[t]) : vector[t][j].buf = <<t, Begun(t) + j>>
    BY <1>0 DEF Sending
  <2>2. Begun(t) \in Nat
    BY <1>0, BegunType
  <2> TAKE i, j \in 1 .. Len(vector[t])
  <2> HAVE vector[t][i].buf = vector[t][j].buf
  <2>3. Begun(t) + i = Begun(t) + j
    BY <2>1
  <2> QED
    BY <1>4, <2>2, <2>3
<1>7. \A u \in Threads \ {t} : \A i : Placed(u, i)' <=> Placed(u, i)
  BY <1>1, <1>2, DstSame DEF Placed
<1>8. \A i : ~Placed(t, i) /\ ~Placed(t, i)'
  BY <1>1 DEF Placed
<1>9. InElt(b)' = InElt(b) /\ InFrame(b)' = InFrame(b) /\ InDrop(b)' = InDrop(b)
      /\ InFreed(b)' = InFreed(b)
  BY <1>1 DEF InElt, InFrame, InDrop, InFreed
<1>10. \A x : x \in InChunk(b)' <=>
         x \in InChunk(b) \/ \E i \in 1 .. n : x = <<"chunk", t, i>> /\ vector[t][i].buf = b
  <2> TAKE x
  <2>0. x \in InChunk(b)' <=> \E u \in Threads : \E i \in DOMAIN chunk'[u] :
          x = <<"chunk", u, i>> /\ chunk'[u][i].buf = b /\ ~Placed(u, i)'
    BY DEF InChunk
  <2>1. ASSUME x \in InChunk(b)'
        PROVE  x \in InChunk(b) \/ \E i \in 1 .. n : x = <<"chunk", t, i>> /\ vector[t][i].buf = b
    <3>1. PICK u \in Threads : \E i \in DOMAIN chunk'[u] :
             x = <<"chunk", u, i>> /\ chunk'[u][i].buf = b /\ ~Placed(u, i)'
      BY <2>0, <2>1
    <3>2. CASE u = t
      BY <1>3, <3>1, <3>2
    <3>3. CASE u # t
      BY <1>2, <1>7, <3>1, <3>3, InChunkIs
    <3> QED
      BY <3>2, <3>3
  <2>2. ASSUME x \in InChunk(b) PROVE x \in InChunk(b)'
    <3>1. PICK u \in Threads : \E i \in DOMAIN chunk[u] :
             x = <<"chunk", u, i>> /\ chunk[u][i].buf = b /\ ~Placed(u, i)
      BY <2>2, InChunkIs
    <3>2. u # t
      BY <1>5, <3>1
    <3> QED
      BY <1>2, <1>7, <2>0, <3>1, <3>2
  <2>3. ASSUME NEW i \in 1 .. n, x = <<"chunk", t, i>>, vector[t][i].buf = b
        PROVE  x \in InChunk(b)'
    BY <1>3, <1>8, <2>0, <2>3
  <2> QED
    BY <2>1, <2>2, <2>3
<1>11. \A x : x \in InVector(b)' <=>
         \/ \E u \in Threads \ {t} :
              x = <<"vector", u>> /\ \E j \in DOMAIN vector[u] : vector[u][j].buf = b
         \/ x = <<"vector", t>> /\ \E j \in 1 .. Len(vector[t]) - n : vector[t][n + j].buf = b
  <2> TAKE x
  <2>0. x \in InVector(b)' <=> \E u \in Threads :
          x = <<"vector", u>> /\ \E j \in DOMAIN vector'[u] : vector'[u][j].buf = b
    BY DEF InVector
  <2>1. (\E j \in DOMAIN vector'[t] : vector'[t][j].buf = b)
        <=> \E j \in 1 .. Len(vector[t]) - n : vector[t][n + j].buf = b
    BY <1>3
  <2> QED
    BY <1>2, <2>0, <2>1
<1>12. CASE \E i \in 1 .. n : vector[t][i].buf = b
  <2>1. PICK i \in 1 .. n : vector[t][i].buf = b
    BY <1>12
  <2>2. i \in 1 .. Len(vector[t])
    BY <1>4
  <2>3. \A j \in 1 .. Len(vector[t]) : vector[t][j].buf = b => j = i
    BY <1>6, <2>1, <2>2
  <2> DEFINE x == <<"vector", t>>
  <2>4. x \in InVector(b)
    BY <1>4, <2>1, <2>2, InVectorIs
  <2>5. Places(b) = {x}
    <3>1. x \in Places(b)
      BY <2>4, Kinds
    <3> HIDE DEF x
    <3> QED
      BY <3>1 DEF One
  <2>6. /\ InChunk(b) = {} /\ InElt(b) = {} /\ InFrame(b) = {} /\ InDrop(b) = {}
        /\ InFreed(b) = {}
    <3>1. x[1] = "vector"
      OBVIOUS
    <3> HIDE DEF x
    <3> QED
      BY <2>5, <3>1, Alone
  <2>7. \A u \in Threads \ {t} : ~\E j \in DOMAIN vector[u] : vector[u][j].buf = b
    <3> SUFFICES ASSUME NEW u \in Threads \ {t}, \E j \in DOMAIN vector[u] : vector[u][j].buf = b
                 PROVE  FALSE
      OBVIOUS
    <3>1. <<"vector", u>> \in InVector(b)
      BY InVectorIs
    <3>2. <<"vector", u>> \in Places(b)
      BY <3>1, Kinds
    <3>3. <<"vector", u>> = <<"vector", t>>
      BY <2>5, <3>2
    <3> QED
      BY <3>3
  <2>8. \A j \in 1 .. Len(vector[t]) - n : vector[t][n + j].buf # b
    <3> SUFFICES ASSUME NEW j \in 1 .. Len(vector[t]) - n, vector[t][n + j].buf = b PROVE FALSE
      OBVIOUS
    <3>1. n + j \in 1 .. Len(vector[t]) /\ n + j # i
      BY <1>4
    <3> QED
      BY <2>3, <3>1
  <2>9. InVector(b)' = {}
    BY <1>11, <2>7, <2>8
  <2>10. InChunk(b)' = {<<"chunk", t, i>>}
    <3>1. \A j \in 1 .. n : vector[t][j].buf = b => j = i
      <4> TAKE j \in 1 .. n
      <4>1. j \in 1 .. Len(vector[t])
        BY <1>4
      <4> QED
        BY <2>3, <4>1
    <3>2. \A y : y \in InChunk(b)' <=> y = <<"chunk", t, i>>
      BY <1>10, <2>1, <2>6, <3>1
    <3> QED
      BY <3>2
  <2>11. Places(b)' = {<<"chunk", t, i>>}
    BY <1>9, <2>6, <2>9, <2>10 DEF Places
  <2> QED
    BY <2>5, <2>11 DEF Moves
<1>13. CASE ~\E i \in 1 .. n : vector[t][i].buf = b
  <2>1. InChunk(b)' = InChunk(b)
    BY <1>10, <1>13
  <2>2. (\E j \in 1 .. Len(vector[t]) - n : vector[t][n + j].buf = b)
        <=> \E j \in DOMAIN vector[t] : vector[t][j].buf = b
    <3>1. \A j \in 1 .. Len(vector[t]) - n : n + j \in DOMAIN vector[t]
      BY <1>4
    <3>2. ASSUME NEW j \in DOMAIN vector[t], vector[t][j].buf = b
          PROVE  \E k \in 1 .. Len(vector[t]) - n : vector[t][n + k].buf = b
      <4>1. j \notin 1 .. n
        BY <1>13, <3>2
      <4>2. j - n \in 1 .. Len(vector[t]) - n /\ n + (j - n) = j
        BY <1>4, <4>1
      <4> QED
        BY <3>2, <4>2
    <3> QED
      BY <3>1, <3>2
  <2>3. InVector(b)' = InVector(b)
    <3>1. \A x : x \in InVector(b) <=> \E u \in Threads :
            x = <<"vector", u>> /\ \E j \in DOMAIN vector[u] : vector[u][j].buf = b
      BY InVectorIs
    <3>2. \A x : x \in InVector(b)' <=> x \in InVector(b)
      BY <1>11, <2>2, <3>1
    <3> QED
      BY <3>2
  <2> QED
    BY <1>9, <2>1, <2>3 DEF Places, Moves
<1> QED
  BY <1>12, <1>13

\* Enqueue puts the new buffers into the vector.
LEMMA EnqueueKept ==
  ASSUME IInv, OInv, Kept, NEW t \in Threads, Enqueue(t)
  PROVE  Kept'
<1>0. Sending
  BY DEF OInv
<1>1. PICK n \in 1 .. MaxVector :
        /\ sent' = [sent EXCEPT ![t] = @ + n]
        /\ \E dsts \in [1 .. n -> Threads] :
             vector' = [vector EXCEPT ![t] =
                          [i \in 1 .. n |-> [buf |-> <<t, sent[t] + i>>, dst |-> dsts[i]]]]
  BY DEF Enqueue
<1>2. vector \in [Threads -> Seq(Packet)] /\ sent \in [Threads -> Nat]
  BY DEF IInv, Types, LocalTypes, CallTypes
<1>3. n \in Nat /\ sent[t] \in Nat /\ sent'[t] = sent[t] + n
      /\ \A u \in Threads \ {t} : sent'[u] = sent[u]
  BY <1>1, <1>2, SizesAssumption
<1>4. DOMAIN vector'[t] = 1 .. n /\ \A i \in 1 .. n : vector'[t][i].buf = <<t, sent[t] + i>>
  BY <1>1, <1>2
<1>5. \A u \in Threads \ {t} : vector'[u] = vector[u]
  BY <1>1, <1>2
<1>6. /\ UNCHANGED <<elts, delivered, dropList, freed, chunk>>
      /\ pc[t] = "dispatch" /\ pc'[t] = "chunk" /\ \A u \in Threads \ {t} : pc'[u] = pc[u]
  BY DEF Enqueue, Goto, ringVars, dequeueVars, IInv, Types, LocalTypes
<1>7. vector[t] = << >>
  BY <1>0, <1>6 DEF Sending, PollStates
<1>8. \A u \in Threads : \A i : Placed(u, i)' <=> Placed(u, i)
  BY <1>6, DstSame DEF Placed
<1>9. ASSUME NEW b
      PROVE  InElt(b)' = InElt(b) /\ InFrame(b)' = InFrame(b) /\ InDrop(b)' = InDrop(b)
             /\ InFreed(b)' = InFreed(b) /\ InChunk(b)' = InChunk(b)
  <2>1. InElt(b)' = InElt(b) /\ InFrame(b)' = InFrame(b) /\ InDrop(b)' = InDrop(b)
        /\ InFreed(b)' = InFreed(b)
    BY <1>6 DEF InElt, InFrame, InDrop, InFreed
  <2>2. ASSUME NEW x PROVE x \in InChunk(b)' <=> x \in InChunk(b)
    BY <1>6, <1>8 DEF InChunk
  <2> QED
    BY <2>1, <2>2
<1>10. ASSUME NEW b, NEW x
       PROVE  x \in InVector(b)' <=>
                x \in InVector(b)
                \/ (x = <<"vector", t>> /\ \E i \in 1 .. n : <<t, sent[t] + i>> = b)
  <2>1. x \in InVector(b)' <=> \E u \in Threads :
          x = <<"vector", u>> /\ \E j \in DOMAIN vector'[u] : vector'[u][j].buf = b
    BY DEF InVector
  <2>2. x \in InVector(b) <=> \E u \in Threads :
          x = <<"vector", u>> /\ \E j \in DOMAIN vector[u] : vector[u][j].buf = b
    BY InVectorIs
  <2>3. ~\E j \in DOMAIN vector[t] : vector[t][j].buf = b
    BY <1>7, NoEntries
  <2>4. (\E j \in DOMAIN vector'[t] : vector'[t][j].buf = b)
        <=> \E i \in 1 .. n : <<t, sent[t] + i>> = b
    BY <1>4
  <2> QED
    BY <1>5, <2>1, <2>2, <2>3, <2>4
<1>11. ASSUME NEW u \in Threads, NEW k \in Nat \ {0}
       PROVE  IF k <= sent'[u] THEN One(<<u, k>>)' ELSE Places(<<u, k>>)' = {}
  <2> DEFINE b == <<u, k>>
  <2>1. IF k <= sent[u] THEN One(b) ELSE Places(b) = {}
    BY DEF Kept
  <2>2. CASE u = t /\ k > sent[t] /\ k <= sent[t] + n
    <3>1. Places(b) = {}
      BY <1>3, <2>1, <2>2
    <3>2. k - sent[t] \in 1 .. n /\ sent[t] + (k - sent[t]) = k
      BY <1>3, <2>2
    <3>3. \E i \in 1 .. n : <<t, sent[t] + i>> = b
      BY <2>2, <3>2
    <3> HIDE DEF b
    <3>4. InVector(b)' = {<<"vector", t>>}
      <4>1. InVector(b) = {}
        BY <3>1 DEF Places
      <4>2. \A x : x \in InVector(b)' <=> x = <<"vector", t>>
        BY <1>10, <3>3, <4>1
      <4> QED
        BY <4>2
    <3>5. Places(b)' = {<<"vector", t>>}
      BY <1>9, <3>1, <3>4 DEF Places
    <3>6. One(b)'
      BY <3>5 DEF One
    <3> QED
      BY <1>3, <2>2, <3>6 DEF b
  <2>3. CASE ~(u = t /\ k > sent[t] /\ k <= sent[t] + n)
    <3>1. ~\E i \in 1 .. n : <<t, sent[t] + i>> = b
      <4> SUFFICES ASSUME NEW i \in 1 .. n, <<t, sent[t] + i>> = b PROVE FALSE
        OBVIOUS
      <4>1. u = t /\ k = sent[t] + i
        OBVIOUS
      <4> QED
        BY <1>3, <2>3, <4>1
    <3>2. k <= sent'[u] <=> k <= sent[u]
      <4>1. CASE u = t
        BY <1>3, <2>3, <4>1
      <4>2. CASE u # t
        BY <1>3, <4>2
      <4> QED
        BY <4>1, <4>2
    <3> HIDE DEF b
    <3>3. InVector(b)' = InVector(b)
      BY <1>10, <3>1
    <3>4. Places(b)' = Places(b)
      BY <1>9, <3>3 DEF Places
    <3>5. One(b)' <=> One(b)
      BY <3>4 DEF One
    <3> QED
      BY <2>1, <3>2, <3>4, <3>5 DEF b
  <2> QED
    BY <2>2, <2>3
<1> QED
  BY <1>11 DEF Kept

\* Every step keeps each buffer in its one place.
LEMMA KeptStep == ~WithAux /\ IInv /\ OInv /\ CInv /\ Next => CInv'
<1> SUFFICES ASSUME ~WithAux, IInv, OInv, CInv, NEW t \in Threads, Step(t) \/ Enqueue(t)
             PROVE  CInv'
  BY DEF Next
<1>0. Kept /\ Dropping /\ Sending
  BY DEF CInv, OInv
<1>1. Dropping'
  <2>1. CASE DropGroup(t)
    BY <1>0, <2>1, DropWrites DEF Dropping
  <2>2. CASE FreeDrops(t)
    <3>1. << >> \in Seq(Buffers)
      OBVIOUS
    <3> QED
      BY <1>0, <2>2, <3>1 DEF Dropping, FreeDrops
  <2>3. CASE Enqueue(t) \/ NextChunk(t) \/ LoadTail(t) \/ Kick(t)
    BY <1>0, <2>3 DEF Dropping, Enqueue, NextChunk, LoadTail, Kick
  <2>4. CASE PollTest(t) \/ ClearCheck(t) \/ Dequeue(t) \/ ResetElt(t) \/ BumpHead(t)
             \/ EndDequeue(t) \/ EndDispatch(t)
    BY <1>0, <2>4 DEF Dropping, PollTest, ClearCheck, Dequeue, ResetElt, BumpHead,
       EndDequeue, EndDispatch, handoffVars
  <2>5. CASE EndHandoff(t) \/ FullTest(t) \/ SlotFreed(t) \/ Claim(t) \/ Fill(t) \/ Publish(t)
    BY <1>0, <2>5 DEF Dropping, EndHandoff, FullTest, SlotFreed, Claim, Fill, Publish,
       handoffVars
  <2> QED
    BY <2>1, <2>2, <2>3, <2>4, <2>5 DEF Step
<1>2. CASE Enqueue(t)
  BY <1>0, <1>1, <1>2, EnqueueKept DEF CInv
<1>3. CASE Step(t)
  <2>1. sent' = sent
    BY <1>3 DEF Step, PollTest, ClearCheck, Dequeue, ResetElt, BumpHead, EndDequeue,
       EndDispatch, NextChunk, EndHandoff, LoadTail, FullTest, SlotFreed, Claim, Fill,
       Publish, Kick, DropGroup, FreeDrops, handoffVars, callVars
  <2>2. ASSUME NEW b, One(b) \/ Places(b) = {} PROVE Moves(b)
    <3>1. CASE Dequeue(t)
      BY <2>2, <3>1, DequeueMovesOne
    <3>2. CASE NextChunk(t)
      BY <2>2, <3>2, ChunkMoves
    <3>3. CASE Fill(t)
      BY <2>2, <3>3, FillMoves
    <3>4. CASE DropGroup(t)
      BY <1>0, <2>2, <3>4, DropMoves
    <3>5. CASE FreeDrops(t)
      BY <1>0, <2>2, <3>5, FreeMoves
    <3>6. CASE \/ PollTest(t) \/ ClearCheck(t) \/ EndDequeue(t) \/ EndDispatch(t)
               \/ EndHandoff(t) \/ LoadTail(t) \/ FullTest(t) \/ SlotFreed(t) \/ Claim(t)
               \/ BumpHead(t) \/ Publish(t) \/ ResetElt(t) \/ Kick(t)
      BY <3>6, StillStep DEF Moves
    <3> QED
      BY <1>3, <3>1, <3>2, <3>3, <3>4, <3>5, <3>6 DEF Step
  <2>3. ASSUME NEW u \in Threads, NEW k \in Nat \ {0}
        PROVE  IF k <= sent'[u] THEN One(<<u, k>>)' ELSE Places(<<u, k>>)' = {}
    <3> DEFINE b == <<u, k>>
    <3>1. IF k <= sent[u] THEN One(b) ELSE Places(b) = {}
      BY <1>0 DEF Kept
    <3> HIDE DEF b
    <3>2. Moves(b)
      BY <2>2, <3>1
    <3>3. (One(b) => One(b)') /\ (Places(b) = {} => Places(b)' = {})
      BY <3>2 DEF Moves, One
    <3> QED
      BY <2>1, <3>1, <3>3 DEF b
  <2>4. Kept'
    BY <2>3 DEF Kept
  <2> QED
    BY <1>1, <2>4 DEF CInv
<1> QED
  BY <1>2, <1>3

\* Nothing is handed over at the start.
LEMMA KeptInit == Init => CInv
<1> SUFFICES ASSUME Init PROVE CInv
  OBVIOUS
<1>1. Dropping
  BY DEF Init, Dropping
<1>2. ASSUME NEW b PROVE Places(b) = {}
  <2>1. InVector(b) = {}
    <3>1. \A u \in Threads : DOMAIN vector[u] = {}
      BY NoEntries DEF Init
    <3> QED
      BY <3>1 DEF InVector
  <2>2. InChunk(b) = {}
    <3>1. \A u \in Threads : DOMAIN chunk[u] = {}
      BY NoEntries DEF Init
    <3> QED
      BY <3>1 DEF InChunk
  <2>3. InElt(b) = {}
    <3>1. \A u \in Threads : \A s \in Slots : DOMAIN elts[u][s].items = {}
      BY NoEntries DEF Init, EmptyElt
    <3> QED
      BY <3>1 DEF InElt
  <2>4. InFrame(b) = {}
    <3>1. \A u \in Threads : DOMAIN delivered[u] = {}
      BY NoEntries DEF Init
    <3> QED
      BY <3>1 DEF InFrame
  <2>5. InDrop(b) = {}
    <3>1. \A u \in Threads : DOMAIN dropList[u] = {}
      BY NoEntries DEF Init
    <3> QED
      BY <3>1 DEF InDrop
  <2>6. InFreed(b) = {}
    BY DEF Init, InFreed
  <2> QED
    BY <2>1, <2>2, <2>3, <2>4, <2>5, <2>6 DEF Places
<1>3. \A u \in Threads : \A k \in Nat \ {0} : ~(k <= sent[u])
  BY DEF Init
<1> QED
  BY <1>1, <1>2, <1>3 DEF Kept, CInv

\* Buffers are conserved (buffer_funcs.c, vlib_buffer_enqueue_to_thread and
\* vlib_frame_queue_dequeue): whatever the number of threads, the size of rings
\* and frames and the callers' choices of drop_on_congestion, a buffer handed
\* over without aux data is in one place, neither lost nor delivered twice.
\* (With aux data the drop list gets the aux words: the buffers are lost.)
THEOREM BuffersConserved == ASSUME ~WithAux PROVE Spec => []Conserved
<1>1. CInv => Conserved
  <2> SUFFICES ASSUME CInv, NEW t \in Threads, NEW n \in 1 .. sent[t]
               PROVE  Cardinality(Places(<<t, n>>)) = 1
    BY DEF Conserved
  <2>1. One(<<t, n>>)
    <3>1. n \in Nat \ {0} /\ n <= sent[t]
      OBVIOUS
    <3> QED
      BY <3>1 DEF CInv, Kept
  <2>2. PICK x : Places(<<t, n>>) = {x}
    BY <2>1 DEF One
  <2> QED
    BY <2>2, FS_Singleton
<1>2. CInv /\ UNCHANGED vars => CInv'
  <2> SUFFICES ASSUME CInv, UNCHANGED vars PROVE CInv'
    OBVIOUS
  <2>1. UNCHANGED <<head, tail, elts, pc, sent, vector, chunk, dropList, freed, delivered>>
    BY DEF vars, ringVars, handoffVars, callVars, dequeueVars
  <2>2. ASSUME NEW b PROVE Places(b)' = Places(b)
    BY <2>1 DEF Places, InVector, InChunk, InElt, InFrame, InDrop, InFreed, Placed, Dst
  <2>3. \A b : One(b)' <=> One(b)
    BY <2>2 DEF One
  <2> QED
    BY <2>1, <2>2, <2>3 DEF CInv, Kept, Dropping
<1>3. IInv /\ OInv /\ CInv /\ [Next]_vars => CInv'
  BY <1>2, KeptStep
<1> QED
  BY Invariance, OrderInvariance, KeptInit, <1>1, <1>3, PTL DEF Spec
=============================================================================
