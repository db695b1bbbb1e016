------------------------------ MODULE SvmFifo ------------------------------
(***************************************************************************)
(* The byte fifo of a session (src/src/svm/svm_fifo.c): one producer and   *)
(* one consumer, in different threads or processes, share a linked list of *)
(* chunks taken from the free list of a segment.  The producer links       *)
(* chunks at the end and moves tail; the consumer unlinks chunks at the    *)
(* start, gives them back and moves head.  No lock is taken: each side     *)
(* owns one index, and the next pointer of the last chunk is where they    *)
(* meet.                                                                   *)
(*                                                                         *)
(* The rx fifo of a stream transport also accepts bytes ahead of tail and  *)
(* finds chunks through a tree (role "rx"); the tx fifo is peeked at an    *)
(* offset through another tree and emptied with drops (role "tx").         *)
(*                                                                         *)
(* A byte is represented by its position in the stream, so that a byte in  *)
(* the wrong place is visible.  An ordered tree of chunks is the set of    *)
(* its <<key, chunk>> pairs; the list of ooo segments is a sequence.       *)
(* Fields only one side touches are updated in the neighbouring step of    *)
(* that side.                                                              *)
(***************************************************************************)
EXTENDS Integers, Sequences, FiniteSets, SequencesExt

CONSTANTS
  Chunks,    \* the chunks of the segment's slice
  Length,    \* c->length, the same for all of them
  W,         \* positions are unsigned integers modulo W (2^32 in the code)
  Size,      \* f->shr->size
  MinAlloc,  \* f->shr->min_alloc
  MaxLen,    \* bound on the length and on the offset of one request
  Roles,     \* subset of {"rx", "tx"}
  Nil        \* no chunk; also the content of memory nobody wrote

ASSUME FifoAssumption ==
  /\ W \in Nat \ {0} /\ Length \in Nat \ {0} /\ MinAlloc \in Nat
  /\ Size \in Nat \ {0} /\ 2 * (Size + 2 * Length) <= W
  /\ 2 * (Size + MinAlloc + Length) <= W
  /\ MaxLen \in 1 .. Size
  /\ Roles \subseteq {"rx", "tx"}
  /\ Nil \notin Chunks \cup Nat /\ IsFiniteSet(Chunks)

VARIABLES
  role,      \* which end of a session the fifo is
  others,    \* the chunks of the slice that other fifos hold
  head,      \* f->shr->head
  tail,      \* f->shr->tail
  start,     \* c->start_byte of every chunk
  next,      \* c->next
  data,      \* c->data
  free,      \* the free list of the slice, last freed first
  startC,    \* f->shr->start_chunk
  endC,      \* f->shr->end_chunk
  headC,     \* f->shr->head_chunk
  tailC,     \* f->shr->tail_chunk
  ooo,       \* the ooo segments: sequence of [start, length]
  oooEnq,    \* f->ooo_enq
  oooDeq,    \* f->ooo_deq
  enqTree,   \* f->ooo_enq_lookup
  deqTree,   \* f->ooo_deq_lookup
  prod,      \* the producer's call: [pc, op, off, len, head, old, new]
  closed,    \* tx: the transport is gone, the session drops what still comes
  cons,      \* the consumer's call: [pc, op, off, len, end, freed]
  wrong      \* the positions for which the consumer got another byte

shared == <<head, tail, start, next, data, free>>
prodVars == <<endC, tailC, ooo, oooEnq, enqTree, prod>>
consVars == <<startC, headC, oooDeq, deqTree, closed, cons, wrong>>
setup == <<role, others>>
vars == <<setup, shared, prodVars, consVars>>

Pos == 0 .. W - 1
Opt == Chunks \cup {Nil}

----------------------------------------------------------------------------
(* Positions and chunks.                                                   *)

Plus(p, n) == (p + n) % W

\* (i32) (a - b)
Diff(a, b) == LET d == (a - b) % W IN IF 2 * d < W THEN d ELSE d - W

f_pos_lt(a, b) == Diff(a, b) < 0
f_pos_leq(a, b) == Diff(a, b) <= 0

Free(h, t) == Size - Diff(t, h)

ChunkEnd(c) == Plus(start[c], Length)

\* Whether chunk c, with start bytes st, holds position p.
Covers(st, c, p) == ~f_pos_lt(p, st[c]) /\ f_pos_lt(p, Plus(st[c], Length))

Includes(c, p) == Covers(start, c, p)

\* The chunks from c on, along next.
ListFrom(c) ==
  LET hop[k \in 0 .. Cardinality(Chunks)] ==
        IF k = 0 THEN c ELSE IF hop[k - 1] = Nil THEN Nil ELSE next[hop[k - 1]]
  IN [k \in 1 .. Cardinality({j \in DOMAIN hop : hop[j] # Nil}) |-> hop[k - 1]]

\* The first chunk from c on that holds p, or Nil.
FindChunk(c, p) ==
  LET l == ListFrom(c)
      i == SelectInSeq(l, LAMBDA d : Includes(d, p))
  IN IF i = 0 THEN Nil ELSE l[i]

\* The chunks from c on before the one that holds p.
Before(c, p) ==
  LET l == ListFrom(c)
      i == SelectInSeq(l, LAMBDA d : Includes(d, p))
  IN ToSet(IF i = 0 THEN l ELSE SubSeq(l, 1, i - 1))

\* svm_fifo_copy_to_chunk: the bytes for p, p + 1, ... go into c and the
\* chunks after it; nothing useful happens when p is not in c.
CopyTo(c, p, n) ==
  LET at(d, i) == Diff(Plus(start[d], i), p)
      l == IF c # Nil /\ Includes(c, p) THEN ToSet(ListFrom(c)) ELSE {}
  IN [d \in Chunks |->
        [i \in 0 .. Length - 1 |->
           IF d \in l /\ at(d, i) \in 0 .. n - 1 THEN Plus(start[d], i)
           ELSE data[d][i]]]

\* svm_fifo_copy_from_chunk: the byte found for q by a copy that starts in
\* chunk c at position p.
CopyFrom(c, p, q) ==
  LET d == IF c # Nil /\ Includes(c, p) THEN FindChunk(c, q) ELSE Nil
  IN IF d = Nil THEN Nil ELSE data[d][Diff(q, start[d])]

\* The positions, of the n copied, that do not come out as they went in.
Misread(c, p, n) ==
  {q \in {Plus(p, k) : k \in 0 .. n - 1} : CopyFrom(c, p, q) # q}

----------------------------------------------------------------------------
(* The trees of chunks, ordered by position.                               *)

\* f_find_node_rbtree: the entry with the greatest key that is not after p.
FindNode(tree, p) ==
  CHOOSE e \in tree :
    /\ f_pos_leq(e[1], p)
    /\ \A g \in tree : f_pos_leq(g[1], p) => f_pos_leq(g[1], e[1])

Tracked(tree) == {e[2] : e \in tree}

\* f_update_ooo_enq and f_update_ooo_deq: look up p, and enter the chunks
\* up to the one that holds end.  c0 is where an empty tree starts.
Lookup(tree, c0, p, end) ==
  LET c == IF tree = {} THEN c0 ELSE FindNode(tree, p)[2]
      rest == IF Includes(c, end) THEN <<>> ELSE Tail(ListFrom(c))
      stop == SelectInSeq(rest, LAMBDA d : d \in Tracked(tree))
      run == IF stop = 0 THEN rest ELSE SubSeq(rest, 1, stop - 1)
      last == SelectInSeq(run, LAMBDA d : Includes(d, end))
      new == ToSet(IF last = 0 THEN run ELSE SubSeq(run, 1, last))
             \cup IF tree = {} THEN {c} ELSE {}
      seen == {d \in new \cup {c} : Includes(d, p)}
  IN [tree |-> tree \cup {<<start[d], d>> : d \in new},
      found |-> IF seen = {} THEN Nil ELSE CHOOSE d \in seen : TRUE]

\* rb_tree_del_node for each chunk of S that is tracked.
Untrack(tree, S) == {e \in tree : e[2] \notin S}

----------------------------------------------------------------------------
(* Out-of-order segments.                                                  *)

SegEnd(s) == Plus(s.start, s.length)
Seg(a, b) == [start |-> a, length |-> Diff(b, a)]

\* (mutant) a segment that only touches the stretched one is not merged
StretchTailLeavesTouching(l, i, end) ==
  IF ~f_pos_lt(SegEnd(l[i]), end) THEN l
  ELSE LET it == Min({k \in i + 1 .. Len(l) : f_pos_lt(end, SegEnd(l[k]))}
                     \cup {Len(l) + 1})
           merge == it <= Len(l) /\ f_pos_lt(l[it].start, end)
       IN SubSeq(l, 1, i - 1)
          \o <<Seg(l[i].start, IF merge THEN SegEnd(l[it]) ELSE end)>>
          \o SubSeq(l, IF merge THEN it + 1 ELSE it, Len(l))

\* check_tail: segment i of list l is stretched to end; the segments it then
\* covers are removed, and the first that it does not is merged if reached.
StretchTail(l, i, end) ==
  IF ~f_pos_lt(SegEnd(l[i]), end) THEN l
  ELSE LET it == Min({k \in i + 1 .. Len(l) : f_pos_lt(end, SegEnd(l[k]))}
                     \cup {Len(l) + 1})
           merge == it <= Len(l) /\ f_pos_leq(l[it].start, end)
       IN SubSeq(l, 1, i - 1)
          \o <<Seg(l[i].start, IF merge THEN SegEnd(l[it]) ELSE end)>>
          \o SubSeq(l, IF merge THEN it + 1 ELSE it, Len(l))

ooo_segment_add(a, b) ==
  LET i == CHOOSE k \in 1 .. Len(ooo) :
             /\ k = Len(ooo) \/ ~f_pos_lt(ooo[k].start, a)
             /\ \A j \in 1 .. k - 1 : f_pos_lt(ooo[j].start, a)
      s == ooo[i]
  IN IF ooo = <<>> THEN <<Seg(a, b)>>
     ELSE IF i > 1 /\ f_pos_leq(a, SegEnd(ooo[i - 1])) THEN StretchTail(ooo, i - 1, b)
     ELSE IF f_pos_lt(b, s.start) THEN InsertAt(ooo, i, Seg(a, b))
     ELSE IF f_pos_lt(SegEnd(s), a) THEN InsertAt(ooo, i + 1, Seg(a, b))
     ELSE StretchTail([ooo EXCEPT ![i] =
                         IF f_pos_lt(a, s.start) THEN Seg(a, SegEnd(s)) ELSE s], i, b)

\* (mutant) only the first of the reached segments is collected
CollectsFirstOnly(n, t) == {k \in 1 .. Len(ooo) :
                              k = 1 /\ Diff(t, ooo[1].start) \in 0 .. n - 1}

\* ooo_segment_try_collect: n bytes took the tail to t.  The segments that
\* start inside them go; the first that reaches beyond t moves t to its end.
Collects(n, t) == {k \in 1 .. Len(ooo) :
                     /\ \A j \in 1 .. k : Diff(t, ooo[j].start) \in 0 .. n - 1
                     /\ \A j \in 1 .. k - 1 : ooo[j].length <= Diff(t, ooo[j].start)}

ooo_segment_try_collect(n, t) ==
  LET k == Cardinality(Collects(n, t)) IN
  [ooo |-> SubSeq(ooo, k + 1, Len(ooo)),
   tail |-> IF k > 0 /\ ooo[k].length > Diff(t, ooo[k].start)
            THEN SegEnd(ooo[k]) ELSE t]

----------------------------------------------------------------------------
Idle == [pc |-> "idle", op |-> "none", off |-> 0, len |-> 0,
         head |-> 0, old |-> Nil, new |-> <<>>]
Rest == [pc |-> "idle", op |-> "none", off |-> 0, len |-> 0,
         end |-> 0, freed |-> <<>>]

\* svm_fifo_init on a fifo of one chunk; other fifos may hold some of the slice.
Init ==
  /\ role \in Roles
  /\ \E c \in Chunks :
       /\ startC = c /\ endC = c /\ headC = c /\ tailC = c
       /\ others \in SUBSET (Chunks \ {c})
       /\ \E l \in SetToSeqs(Chunks \ ({c} \cup others)) : free = l
  /\ head = 0 /\ tail = 0
  /\ start = [c \in Chunks |-> 0]
  /\ next = [c \in Chunks |-> Nil]
  /\ data = [c \in Chunks |-> [i \in 0 .. Length - 1 |-> Nil]]
  /\ ooo = <<>> /\ oooEnq = Nil /\ oooDeq = Nil
  /\ enqTree = {} /\ deqTree = {}
  /\ prod = Idle /\ cons = Rest
  /\ closed = FALSE /\ wrong = {}

----------------------------------------------------------------------------
(* The producer.                                                           *)

\* svm_fifo_enqueue ("enq"), svm_fifo_enqueue_segments without partial
\* writes ("segs"), svm_fifo_provision_chunks followed by
\* svm_fifo_enqueue_nocopy ("nocopy"), svm_fifo_enqueue_with_offset ("ooo").
ProdOps == IF role = "rx" THEN {"enq", "segs", "ooo"} ELSE {"enq", "segs", "nocopy"}

\* f_pos_gt (tail + offset + len, f_chunk_end (end chunk))
NeedsChunk(off, n) == f_pos_lt(ChunkEnd(endC), Plus(tail, off + n))

\* The call starts, loads the indices and tests for space; EFULL ends it.
ProdLoad ==
  /\ prod.pc = "idle"
  /\ \E op \in ProdOps, off \in 0 .. MaxLen, want \in 1 .. MaxLen :
       LET room == Free(head, tail)
           n == IF op = "enq" THEN IF want < room THEN want ELSE room ELSE want
       IN /\ (off > 0) = (op = "ooo")
          /\ n > 0 /\ off + n <= room
          /\ prod' = [prod EXCEPT
                        !.pc = IF NeedsChunk(off, n) THEN "alloc" ELSE "copy",
                        !.op = op, !.off = off, !.len = n,
                        !.head = head, !.old = tailC]
  /\ UNCHANGED <<setup, shared, endC, tailC, ooo, oooEnq, enqTree, consVars>>

AllocSize ==
  LET room == Free(prod.head, tail)
      least == IF MinAlloc < room THEN MinAlloc ELSE room
      missing == prod.off + prod.len - Diff(ChunkEnd(endC), tail)
  IN IF least < missing THEN missing ELSE least

NChunks == (AllocSize + Length - 1) \div Length

\* fsh_alloc_chunk: chunks are popped, and their start bytes set.
ProdAlloc ==
  /\ prod.pc = "alloc"
  /\ NChunks <= Len(free)
  /\ LET new == Reverse(SubSeq(free, 1, NChunks)) IN
     /\ free' = SubSeq(free, NChunks + 1, Len(free))
     /\ start' = [c \in Chunks |->
                    IF Contains(new, c)
                    THEN Plus(ChunkEnd(endC), Length * (SelectInSeq(new, LAMBDA d : d = c) - 1))
                    ELSE start[c]]
     /\ next' = [c \in Chunks |->
                   IF Contains(new, c)
                   THEN LET i == SelectInSeq(new, LAMBDA d : d = c)
                        IN IF i = Len(new) THEN Nil ELSE new[i + 1]
                   ELSE next[c]]
     /\ prod' = [prod EXCEPT !.pc = "link", !.new = new]
  /\ UNCHANGED <<setup, head, tail, data, endC, tailC, ooo, oooEnq, enqTree, consVars>>

\* No memory: svm_fifo_enqueue writes what fits, the others return EGROW.
ProdGrowFails ==
  /\ prod.pc = "alloc"
  /\ NChunks > Len(free)
  /\ LET n == Diff(ChunkEnd(endC), tail) IN
     prod' = IF prod.op = "enq" /\ n > 0
             THEN [prod EXCEPT !.pc = "copy", !.len = n] ELSE Idle
  /\ UNCHANGED <<setup, shared, endC, tailC, ooo, oooEnq, enqTree, consVars>>

\* (mutant) the end chunk stays the old one
ProdLinkKeepsEnd ==
  /\ prod.pc = "link"
  /\ next' = [next EXCEPT ![endC] = prod.new[1]]
  /\ tailC' = IF tailC = Nil THEN prod.new[1] ELSE tailC
  /\ prod' = [prod EXCEPT !.pc = "copy", !.new = <<>>]
  /\ UNCHANGED <<setup, head, tail, start, data, free, endC, ooo, oooEnq, enqTree, consVars>>

\* The end of f_try_chunk_alloc: the consumer can now reach the chunks.
ProdLink ==
  /\ prod.pc = "link"
  /\ next' = [next EXCEPT ![endC] = prod.new[1]]
  /\ endC' = Last(prod.new)
  /\ tailC' = IF tailC = Nil THEN prod.new[1] ELSE tailC
  /\ prod' = [prod EXCEPT !.pc = "copy", !.new = <<>>,
                          !.old = IF prod.op = "segs" THEN @ ELSE tailC']
  /\ UNCHANGED <<setup, head, tail, start, data, free, ooo, oooEnq, enqTree, consVars>>

\* The bytes are copied, and tail_chunk follows them.
ProdCopy ==
  /\ prod.pc = "copy" /\ prod.op # "ooo"
  /\ data' = CopyTo(tailC, tail, prod.len)
  /\ tailC' = FindChunk(tailC, Plus(tail, prod.len))
  /\ prod' = [prod EXCEPT !.pc = "store"]
  /\ UNCHANGED <<setup, head, tail, start, next, free, endC, ooo, oooEnq, enqTree, consVars>>

\* f_lookup_clear_enq_chunks: the chunks from c on that are forgotten when
\* tail is at t, also the one of t itself when no ooo segment is left.
\* (mutant) the chunk of tail stays tracked when no segment is left
PassedKeepsCurrent(c, t, left) == Before(c, t)
Passed(c, t, left) ==
  Before(c, t) \cup IF left = <<>> THEN {FindChunk(c, t)} ELSE {}

\* Segments that tail reached are collected, and tail is published.
ProdStore ==
  /\ prod.pc = "store"
  /\ LET t == Plus(tail, prod.len)
         got == ooo_segment_try_collect(prod.len, t)
     IN IF ooo = <<>>
        THEN tail' = t /\ UNCHANGED <<tailC, ooo, oooEnq, enqTree>>
        ELSE /\ tail' = got.tail /\ ooo' = got.ooo
             /\ tailC' = FindChunk(prod.old, got.tail) /\ oooEnq' = Nil
             /\ enqTree' = Untrack(enqTree, Passed(prod.old, got.tail, got.ooo))
  /\ prod' = Idle
  /\ UNCHANGED <<setup, head, start, next, data, free, endC, consVars>>

\* The rest of svm_fifo_enqueue_with_offset.
ProdCopyOoo ==
  /\ prod.pc = "copy" /\ prod.op = "ooo"
  /\ LET a == Plus(tail, prod.off)
         b == Plus(a, prod.len)
         known == oooEnq # Nil /\ Includes(oooEnq, a)
         l == Lookup(enqTree, tailC, a, b)
         c == IF known THEN oooEnq
              ELSE IF l.found = Nil THEN oooEnq ELSE l.found
     IN /\ ooo' = ooo_segment_add(a, b)
        /\ enqTree' = IF known THEN enqTree ELSE l.tree
        /\ data' = CopyTo(c, a, prod.len)
        /\ oooEnq' = FindChunk(c, b)
  /\ prod' = Idle
  /\ UNCHANGED <<setup, head, tail, start, next, free, endC, tailC, consVars>>

----------------------------------------------------------------------------
(* The consumer.                                                           *)

\* svm_fifo_dequeue, svm_fifo_peek, svm_fifo_segments, svm_fifo_dequeue_drop
\* and svm_fifo_dequeue_drop_all.  A fifo that is peeked through the tree is
\* not emptied with svm_fifo_dequeue.  The session layer drops everything
\* when the transport is reset, closed or deleted, and peeks no more.
ConsOps == IF role = "rx" THEN {"deq", "peek", "segments", "drop"}
           ELSE IF closed THEN {"dropall"}
           ELSE {"peek", "segments", "drop", "dropall"}

\* Whether the consumer leaves the first chunk when it moves head to h.
LeavesStart(h) == ~f_pos_lt(h, ChunkEnd(startC))

\* svm_fifo_peek rejects an offset beyond the data only and would read no byte
\* at the end of the data.  Such a peek is left out: the session layer and tcp
\* test how much data lies beyond their offset before they peek.
ConsLoad ==
  /\ cons.pc = "idle"
  /\ \E op \in ConsOps, off \in 0 .. MaxLen, want \in 1 .. MaxLen :
       LET cursize == Diff(tail, head)
           n == IF cursize - off < want THEN cursize - off ELSE want
           h == Plus(head, IF op = "dropall" THEN cursize ELSE n)
       IN /\ off > 0 => op \in {"peek", "segments"}
          /\ op = "dropall" => want = 1
          /\ op # "dropall" => off < cursize
          /\ cons' = [cons EXCEPT
                        !.pc = IF op # "drop" THEN "read"
                               ELSE IF LeavesStart(h) THEN "unlink" ELSE "store",
                        !.op = op, !.off = off, !.len = n, !.end = h]
  /\ UNCHANGED <<setup, shared, prodVars, startC, headC, oooDeq, deqTree, closed, wrong>>

\* The chunk of head, searched again when it is not known.
\* (mutant) an unknown head chunk is not searched again
HeadChunkNotSearched == headC
HeadChunk == IF headC = Nil THEN FindChunk(startC, head) ELSE headC

ConsDequeue ==
  /\ cons.pc = "read" /\ cons.op = "deq"
  /\ wrong' = Misread(HeadChunk, head, cons.len)
  /\ headC' = FindChunk(HeadChunk, cons.end)
  /\ cons' = [cons EXCEPT !.pc = IF LeavesStart(cons.end) THEN "unlink" ELSE "store"]
  /\ UNCHANGED <<setup, shared, prodVars, startC, oooDeq, deqTree, closed>>

ConsSegments ==
  /\ cons.pc = "read" /\ cons.op = "segments"
  /\ headC' = HeadChunk
  /\ LET p == Plus(head, cons.off) IN
     wrong' = Misread(FindChunk(HeadChunk, p), p, cons.len)
  /\ cons' = Rest
  /\ UNCHANGED <<setup, shared, prodVars, startC, oooDeq, deqTree, closed>>

ConsPeek ==
  /\ cons.pc = "read" /\ cons.op = "peek"
  /\ LET p == Plus(head, cons.off)
         end == Plus(p, cons.len)
         known == oooDeq # Nil /\ Includes(oooDeq, p)
         l == Lookup(deqTree, startC, p, end)
         c == IF known THEN oooDeq
              ELSE IF role = "rx" THEN FindChunk(startC, p)
              ELSE IF l.found = Nil THEN oooDeq ELSE l.found
     IN /\ wrong' = Misread(c, p, cons.len)
        /\ oooDeq' = FindChunk(c, end)
        /\ deqTree' = IF known \/ role = "rx" THEN deqTree ELSE l.tree
  /\ cons' = Rest
  /\ UNCHANGED <<setup, shared, prodVars, startC, headC, closed>>

\* svm_fifo_dequeue_drop_all up to f_unlink_chunks; it drops up to the tail
\* it loaded.
ConsDropAll ==
  /\ cons.pc = "read" /\ cons.op = "dropall"
  /\ LET c == IF headC # Nil /\ Includes(headC, head) THEN headC
              ELSE FindChunk(startC, head)
     IN /\ headC' = FindChunk(c, cons.end)
        /\ deqTree' = Untrack(deqTree, Before(c, cons.end))
  /\ closed' = TRUE
  /\ cons' = [cons EXCEPT !.pc = IF LeavesStart(cons.end) THEN "unlink" ELSE "store"]
  /\ UNCHANGED <<setup, shared, prodVars, startC, oooDeq, wrong>>

\* How many chunks of the list are unlinked: those before the one that holds
\* the new head, but never the last one.
NUnlinked(l, h) ==
  LET i == SelectInSeq(Tail(l), LAMBDA d : Includes(d, h))
  IN IF i = 0 THEN Len(l) - 1 ELSE i

\* f_unlink_chunks
ConsUnlink ==
  /\ cons.pc = "unlink"
  /\ LET l == ListFrom(startC)
         n == NUnlinked(l, cons.end)
         c == l[n + 1]
         gone == ToSet(SubSeq(l, 1, IF Includes(c, cons.end) THEN n ELSE n + 1))
         drop == cons.op = "drop"
     IN /\ startC' = c
        /\ next' = IF n = 0 THEN next ELSE [next EXCEPT ![l[n]] = Nil]
        /\ deqTree' = IF drop THEN Untrack(deqTree, gone) ELSE deqTree
        /\ oooDeq' = IF oooDeq # Nil /\ drop
                        /\ ~f_pos_lt(start[oooDeq], ChunkEnd(c))
                     THEN oooDeq ELSE Nil
        /\ cons' = [cons EXCEPT !.pc = IF n = 0 THEN "store" ELSE "collect",
                                !.freed = SubSeq(l, 1, n)]
        /\ headC' = IF ~drop THEN headC ELSE IF Includes(c, cons.end) THEN c ELSE Nil
  /\ UNCHANGED <<setup, head, tail, start, data, free, prodVars, closed, wrong>>

\* fsh_slice_collect_chunks: one chunk goes back to the free list.
ConsCollect ==
  /\ cons.pc = "collect"
  /\ LET c == Head(cons.freed) IN
     /\ free' = <<c>> \o free
     /\ next' = [next EXCEPT ![c] = Nil]
     /\ data' = [data EXCEPT ![c] = [i \in 0 .. Length - 1 |-> Nil]]
     /\ start' = [start EXCEPT ![c] = 0]
     /\ cons' = [cons EXCEPT !.freed = Tail(@),
                             !.pc = IF Len(cons.freed) = 1 THEN "store" ELSE "collect"]
  /\ UNCHANGED <<setup, head, tail, prodVars, startC, headC, oooDeq, deqTree, closed,
                 wrong>>

ConsStore ==
  /\ cons.pc = "store"
  /\ head' = cons.end
  /\ cons' = Rest
  /\ UNCHANGED <<setup, tail, start, next, data, free, prodVars, startC, headC,
                 oooDeq, deqTree, closed, wrong>>

Next ==
  \/ ProdLoad \/ ProdAlloc \/ ProdGrowFails \/ ProdLink
  \/ ProdCopy \/ ProdStore \/ ProdCopyOoo
  \/ ConsLoad \/ ConsDequeue \/ ConsSegments \/ ConsPeek \/ ConsDropAll
  \/ ConsUnlink \/ ConsCollect \/ ConsStore

Spec == Init /\ [][Next]_vars

----------------------------------------------------------------------------
(* Properties.                                                             *)

\* Types, and the bound that matters: the bytes in the fifo, as a signed
\* difference of two wrapping indices, are never negative nor more than Size.
TypeOK ==
  /\ role \in Roles /\ others \subseteq Chunks
  /\ head \in Pos /\ tail \in Pos
  /\ start \in [Chunks -> Pos]
  /\ next \in [Chunks -> Opt]
  /\ data \in [Chunks -> [0 .. Length - 1 -> Pos \cup {Nil}]]
  /\ startC \in Chunks /\ endC \in Chunks /\ headC \in Opt /\ tailC \in Opt
  /\ oooEnq \in Opt /\ oooDeq \in Opt /\ wrong \subseteq Pos
  /\ closed \in BOOLEAN
  /\ ToSet(free) \subseteq Chunks
  /\ \A i \in 1 .. Len(ooo) : ooo[i].start \in Pos /\ ooo[i].length \in 1 .. Size
  /\ enqTree \in SUBSET (Pos \X Chunks) /\ deqTree \in SUBSET (Pos \X Chunks)
  /\ prod.pc \in {"idle", "alloc", "link", "copy", "store"}
  /\ cons.pc \in {"idle", "read", "unlink", "collect", "store"}
  /\ Diff(tail, head) \in 0 .. Size

\* Every byte that svm_fifo_dequeue, svm_fifo_peek or svm_fifo_segments
\* returns is the one that was enqueued for its position, whether it came in
\* order or ahead, in whichever chunk, while the producer goes on.
ReadExact == wrong = {}

Linked == ListFrom(startC)

\* Every chunk is in exactly one place: in the fifo's list, in the free list,
\* about to be linked by the producer or about to be freed by the consumer,
\* also when the consumer unlinks up to the chunk the producer is extending.
ChunksConserved ==
  /\ ToSet(Linked) \cup ToSet(free) \cup ToSet(cons.freed) \cup ToSet(prod.new)
       = Chunks \ others
  /\ Len(Linked) + Len(free) + Len(cons.freed) + Len(prod.new)
       = Cardinality(Chunks \ others)

\* No pointer to a chunk, and no node of a chunk lookup tree, outlives the
\* chunk's place in the list: f_unlink_chunks and f_lookup_clear_enq_chunks
\* forget every chunk before it is given back.  (After
\* svm_fifo_dequeue_drop_all nobody looks into the dequeue tree again.)
NoStaleChunk ==
  /\ ({endC, headC, tailC, oooEnq, oooDeq} \ {Nil}) \subseteq ToSet(Linked)
  /\ \A e \in enqTree \cup (IF closed THEN {} ELSE deqTree) :
       e[2] \in ToSet(Linked) /\ e[1] = start[e[2]]

\* The ooo segments are sorted, apart from each other and from tail: what
\* touches is merged (ooo_segment_add) or collected.
OooCanonical ==
  \A i \in 1 .. Len(ooo) :
    f_pos_lt(IF i = 1 THEN tail ELSE SegEnd(ooo[i - 1]), ooo[i].start)

\* The positions covered by the ooo segments.
OooPositions ==
  UNION {{Plus(ooo[i].start, k) : k \in 0 .. ooo[i].length - 1} : i \in 1 .. Len(ooo)}

\* The fifo implements a reassembly window: tail moves exactly over what has
\* arrived without a gap, nothing that arrived ahead is forgotten or counted
\* twice, and the window never exceeds the size of the fifo.
R == INSTANCE Reassembly WITH ahead <- OooPositions
IsReassembly == R!Spec
=============================================================================
