------------------------------- MODULE Bihash -------------------------------
(***************************************************************************)
(* The bounded-index extensible hash table (bihash) of vppinfra: writers   *)
(* that lock a bucket, split it through a working copy and recycle backing *)
(* stores through per-size freelists, and readers that search without a    *)
(* lock.  A backing store is a block of 2^log2_pages pages of PerPage      *)
(* slots; a slot holds a key and its value or is free.  The lowest bits of *)
(* a key's hash choose its bucket, the next ones its page.                 *)
(***************************************************************************)
EXTENDS Integers, Sequences, FiniteSets, FiniteSetsExt, SequencesExt

CONSTANTS Threads,       \* writers
          Readers,
          Keys, Vals,
          Replaced,      \* bound: the keys whose value an add may change
          Buckets,
          BucketOf,      \* the bucket of each key
          PageHash,      \* the rest of each key's hash
          PerPage,       \* BIHASH_KVP_PER_PAGE
          AtBucketLevel, \* the values of BIHASH_KVP_AT_BUCKET_LEVEL checked
          Debug,         \* the values of CLIB_DEBUG > 0 checked
          NBlocks,       \* blocks of each size the arena has room for
          MaxLog2,       \* largest log2_pages a split may try
          Budgets        \* operations each writer and each reader may begin

NoBlock == <<>>
NoThread == "none"
Free == "free"     \* a free slot: all ones
Junk == "junk"     \* the key field of a freed block's first slot: its link
NotFound == "not found"

ASSUME BihashAssumption ==
  /\ BucketOf \in [Keys -> Buckets] /\ PageHash \in [Keys -> Nat]
  /\ Budgets \subseteq [Threads \union Readers -> Nat] /\ Budgets # {}
  /\ PerPage \in Nat \ {0} /\ Buckets \subseteq 1..NBlocks /\ NBlocks \in Nat /\ MaxLog2 \in Nat
  /\ AtBucketLevel \subseteq BOOLEAN /\ AtBucketLevel # {}
  /\ Debug \subseteq BOOLEAN /\ Debug # {}
  /\ NoThread \notin Threads /\ NotFound \notin Vals /\ Free \notin Keys
  /\ Junk \notin Keys /\ Vals # {} /\ Replaced \subseteq Keys

VARIABLES inl, dbg, \* BIHASH_KVP_AT_BUCKET_LEVEL; a debug image
          bkt,      \* bkt[b]: the 64-bit bucket word
          mem,      \* mem[blk]: the slots of a block, <<>> if not allocated
          freelists, \* freelists[log2]: blocks of that size
          wcopy,    \* working_copies[t]
          lost,     \* outgrown working copies
          alock,    \* alloc_lock
          saved,    \* h->saved_bucket
          wpc, job, \* writers: control, and the operation being done
          left,     \* operations a writer or a reader may still begin
          fresh,    \* writers: new backing store of a split, and its shape
          rd,       \* readers
          ref       \* the map the table stands for

vars == <<inl, dbg, bkt, mem, freelists, wcopy, lost, alock, saved, wpc, job, left,
          fresh, rd, ref>>
build == <<inl, dbg>>
heap == <<mem, freelists>>

Log2s == 0..MaxLog2
Blocks == Log2s \X (1..NBlocks)  \* log2_pages, and a number that tells them apart
EmptySlot == [key |-> Free, val |-> Free]
Slots(log2) == PerPage * 2^log2

\* An empty bucket: no backing store, or the one next to the bucket, which
\* counts for one reference.
NoBucket == [blk |-> NoBlock, lock |-> FALSE, lin |-> FALSE, log2 |-> 0,
             refcnt |-> 0]
InlineBlock == [b \in Buckets |-> <<0, b>>]

Init ==
  /\ inl \in AtBucketLevel /\ dbg \in Debug
  /\ bkt = [b \in Buckets |->
              IF inl THEN [NoBucket EXCEPT !.blk = InlineBlock[b], !.refcnt = 1]
                     ELSE NoBucket]
  /\ mem = [blk \in Blocks |->
              IF inl /\ blk \in Range(InlineBlock)
              THEN [i \in 1..PerPage |-> EmptySlot] ELSE <<>>]
  /\ freelists = [l \in Log2s |-> <<>>]
  /\ wcopy = [t \in Threads |-> NoBlock]
  /\ lost = {}
  /\ alock = NoThread
  /\ saved = NoBucket
  /\ wpc = [t \in Threads |-> "idle"]
  /\ job = [t \in Threads |-> <<>>]
  /\ left \in Budgets
  /\ fresh = [t \in Threads |-> <<>>]
  /\ rd = [r \in Readers |-> <<>>]
  /\ ref = [k \in Keys |-> NotFound]

-----------------------------------------------------------------------------
(* Searching a block.                                                      *)

\* The slots that may hold key k: all of them after a fall back to linear
\* search, else those of its page.
PageStart(k, log2) == (PageHash[k] % 2^log2) * PerPage
Window(k, log2, lin) ==
  IF lin THEN 1..Slots(log2)
         ELSE (PageStart(k, log2) + 1)..(PageStart(k, log2) + PerPage)

WindowOf(b, k) == Window(k, bkt[b].log2, bkt[b].lin)
Matches(b, k) == IF bkt[b].blk = NoBlock THEN {}
                 ELSE {i \in WindowOf(b, k) : mem[bkt[b].blk][i].key = k}
FreeSlots(b, k) == {i \in WindowOf(b, k) : mem[bkt[b].blk][i].key = Free}

-----------------------------------------------------------------------------
(* The allocator.  A heap is the pair of mem and freelists.                *)

\* alloc_aligned: new memory for 2^log2 pages
NewBlock(m, log2) == <<log2, Min({n \in 1..NBlocks : m[<<log2, n>>] = <<>>})>>

\* value_alloc: the head of the freelist, else new memory; all slots free
ValueAlloc(h, log2) ==
  LET blk == IF h.fl[log2] # <<>> THEN Head(h.fl[log2])
             ELSE NewBlock(h.mem, log2)
  IN  [blk |-> blk,
       mem |-> [h.mem EXCEPT ![blk] = [i \in 1..Slots(log2) |-> EmptySlot]],
       fl |-> IF h.fl[log2] # <<>> THEN [h.fl EXCEPT ![log2] = Tail(@)]
                                   ELSE h.fl]

\* value_free: onto the head of its freelist, the link written over the
\* first key; a debug image fills the block first
JunkSlot == [key |-> Junk, val |-> Junk]
ValueFree(h, blk, log2) ==
  [blk |-> blk,
   mem |-> IF dbg THEN [h.mem EXCEPT ![blk] =
                         [i \in DOMAIN @ |-> IF i <= Slots(log2) THEN JunkSlot ELSE @[i]]]
                  ELSE [h.mem EXCEPT ![blk][1].key = Junk],
   fl |-> [h.fl EXCEPT ![log2] = <<blk>> \o @]]

Heap == [blk |-> NoBlock, mem |-> mem, fl |-> freelists]
SetHeap(h) == mem' = h.mem /\ freelists' = h.fl

-----------------------------------------------------------------------------
(* Splitting.                                                              *)

\* The used slots of a block, in order
Used(slots) == SelectSeq(slots, LAMBDA s : s.key # Free)

\* One entry put in the first free slot of its window, or <<>>
Put(slots, s, log2, lin) ==
  LET room == {i \in Window(s.key, log2, lin) : slots[i].key = Free}
  IN  IF slots = <<>> \/ room = {} THEN <<>> ELSE [slots EXCEPT ![Min(room)] = s]

\* split_and_rehash, split_and_rehash_linear: deal the old entries to a new
\* block of 2^log2 pages; <<>> if one finds no room
Rehash(old, log2, lin) ==
  FoldLeft(LAMBDA acc, s : Put(acc, s, log2, lin),
           [i \in 1..Slots(log2) |-> EmptySlot], Used(old))

\* The attempts of one split: twice the size, four times, and at last twice
\* the size with linear search.  An attempt whose block cannot take the old
\* entries and the new one frees it again.
Attempts(old) == <<[log2 |-> old + 1, lin |-> FALSE],
                   [log2 |-> old + 2, lin |-> FALSE],
                   [log2 |-> old + 1, lin |-> TRUE]>>

Attempt(h, old, s, a) ==
  LET new == ValueAlloc(h, a.log2)
      all == Put(Rehash(old, a.log2, a.lin), s, a.log2, a.lin)
  IN  IF all = <<>> THEN [ValueFree(new, new.blk, a.log2) EXCEPT !.blk = NoBlock]
                    ELSE [new EXCEPT !.mem[new.blk] = all]

\* The heap after the attempts, with the block of the one that worked and its
\* shape.
Split(old, oldLog2, s) ==
  LET as == Attempts(oldLog2)
      try(acc, a) == IF acc.h.blk # NoBlock THEN acc
                     ELSE [h |-> Attempt(acc.h, old, s, a), a |-> a]
  IN  FoldLeft(try, [h |-> Heap, a |-> as[1]], as)

-----------------------------------------------------------------------------
(* Writers: clib_bihash_add_del_inline_with_hash.                          *)

B(t) == BucketOf[job[t].key]
K(t) == job[t].key
Entry(t) == [key |-> job[t].key, val |-> job[t].val]
SetRef(k, v) == ref' = [ref EXCEPT ![k] = v]
Unlocked(w) == [w EXCEPT !.lock = FALSE]

\* Readers of the bucket the step belongs to are disturbed by it.
Disturb(b) == rd' = [r \in Readers |->
                       IF rd[r] # <<>> /\ BucketOf[rd[r].key] = b
                       THEN [rd[r] EXCEPT !.quiet = FALSE] ELSE rd[r]]
\* ... and see the value their key has after it.
See(k, v) == rd' = [r \in Readers |->
                      CASE rd[r] # <<>> /\ rd[r].key = k
                             -> [rd[r] EXCEPT !.quiet = FALSE, !.seen = @ \union {v}]
                        [] rd[r] # <<>> /\ rd[r].key # k /\ BucketOf[rd[r].key] = BucketOf[k]
                             -> [rd[r] EXCEPT !.quiet = FALSE]
                        [] OTHER -> rd[r]]

Return(t) ==
  /\ wpc' = [wpc EXCEPT ![t] = "idle"]
  /\ job' = [job EXCEPT ![t] = <<>>]

\* The bound on growth: no add that could need a larger split is begun.
WithinBound(k) ==
  LET b == BucketOf[k]
  IN  bkt[b].blk # NoBlock /\ bkt[b].log2 + 2 > MaxLog2
        => Matches(b, k) \union FreeSlots(b, k) # {}

\* The value of every add but those that may change one.
UsualVal == CHOOSE x \in Vals : TRUE

\* clib_bihash_lock_bucket.  is_add is 1 (overwrite), 2 (do not overwrite)
\* or 0 (delete); "stale" is an add with a callback that finds stale entries.
LockBucket(t) ==
  /\ wpc[t] = "idle" /\ left[t] > 0
  /\ left' = [left EXCEPT ![t] = @ - 1]
  /\ \E op \in {"add", "add2", "stale", "del"}, k \in Keys, v \in Vals :
       /\ v # UsualVal => op = "add" /\ k \in Replaced
       /\ ~bkt[BucketOf[k]].lock /\ (op # "del" => WithinBound(k))
       /\ job' = [job EXCEPT ![t] = [op |-> op, key |-> k, val |-> v]]
       /\ bkt' = [bkt EXCEPT ![BucketOf[k]].lock = TRUE]
       /\ Disturb(BucketOf[k])
  /\ wpc' = [wpc EXCEPT ![t] = "locked"]
  /\ UNCHANGED <<build, heap, wcopy, lost, alock, saved, fresh, ref>>

Locked(t) == wpc[t] = "locked"
Adds(t) == job[t].op # "del"
IsEmpty(b) == ~inl /\ bkt[b].blk = NoBlock

\* The first element of a bucket gets a page.
FirstElement(t) ==
  /\ Locked(t) /\ IsEmpty(B(t)) /\ Adds(t) /\ alock = NoThread
  /\ LET h == ValueAlloc(Heap, 0)
     IN  /\ SetHeap([h EXCEPT !.mem[h.blk][1] = Entry(t)])
         /\ bkt' = [bkt EXCEPT ![B(t)] = [NoBucket EXCEPT !.blk = h.blk,
                                                          !.refcnt = 1]]
  /\ SetRef(K(t), job[t].val) /\ See(K(t), job[t].val)
  /\ Return(t)
  /\ UNCHANGED <<build, left, wcopy, lost, alock, saved, fresh>>

\* Nothing to delete, or an entry that must not be overwritten
Refused(t) ==
  /\ Locked(t)
  /\ \/ ~Adds(t) /\ (IsEmpty(B(t)) \/ Matches(B(t), K(t)) = {})
     \/ job[t].op = "add2" /\ ~IsEmpty(B(t)) /\ Matches(B(t), K(t)) # {}
  /\ bkt' = [bkt EXCEPT ![B(t)] = Unlocked(@)]
  /\ Disturb(B(t)) /\ Return(t)
  /\ UNCHANGED <<build, left, heap, wcopy, lost, alock, saved, fresh, ref>>

Replace(t) ==
  /\ Locked(t) /\ job[t].op \in {"add", "stale"} /\ Matches(B(t), K(t)) # {}
  /\ mem' = [mem EXCEPT ![bkt[B(t)].blk][Min(Matches(B(t), K(t)))].val = job[t].val]
  /\ bkt' = [bkt EXCEPT ![B(t)] = Unlocked(@)]
  /\ SetRef(K(t), job[t].val) /\ See(K(t), job[t].val)
  /\ Return(t)
  /\ UNCHANGED <<build, left, freelists, wcopy, lost, alock, saved, fresh>>

NewKey(t) == Locked(t) /\ Adds(t) /\ ~IsEmpty(B(t)) /\ Matches(B(t), K(t)) = {}

UseFreeSlot(t) ==
  /\ NewKey(t) /\ FreeSlots(B(t), K(t)) # {}
  /\ mem' = [mem EXCEPT ![bkt[B(t)].blk][Min(FreeSlots(B(t), K(t)))] = Entry(t)]
  /\ bkt' = [bkt EXCEPT ![B(t)] = [Unlocked(@) EXCEPT !.refcnt = @ + 1]]
  /\ SetRef(K(t), job[t].val) /\ See(K(t), job[t].val)
  /\ Return(t)
  /\ UNCHANGED <<build, left, freelists, wcopy, lost, alock, saved, fresh>>

\* The callback calls one of the entries of the page stale: it is overwritten.
OverwriteStale(t) ==
  /\ NewKey(t) /\ FreeSlots(B(t), K(t)) = {} /\ job[t].op = "stale"
  /\ \E i \in WindowOf(B(t), K(t)) :
       LET old == mem[bkt[B(t)].blk][i].key
       IN  /\ mem' = [mem EXCEPT ![bkt[B(t)].blk][i] = Entry(t)]
           /\ ref' = [ref EXCEPT ![old] = NotFound, ![K(t)] = job[t].val]
           /\ rd' = [r \in Readers |->
                       IF rd[r] # <<>> /\ BucketOf[rd[r].key] = B(t)
                       THEN [rd[r] EXCEPT !.quiet = FALSE,
                               !.seen = @ \union {ref'[rd[r].key]}]
                       ELSE rd[r]]
  /\ bkt' = [bkt EXCEPT ![B(t)] = Unlocked(@)]
  /\ Return(t)
  /\ UNCHANGED <<build, left, freelists, wcopy, lost, alock, saved, fresh>>

\* (mutant) the array at the bucket level is not cleaned up.
DeleteLeavesArray(t) ==
  /\ Locked(t) /\ ~Adds(t) /\ Matches(B(t), K(t)) # {}
  /\ LET b == B(t)
         m == [mem EXCEPT ![bkt[b].blk][Min(Matches(b, K(t)))] = EmptySlot]
         last == bkt[b].refcnt = (IF inl THEN 2 ELSE 1)
     IN  IF last /\ (bkt[b].log2 > 0 \/ ~inl)
         THEN /\ bkt' = [bkt EXCEPT ![b] =
                          IF inl THEN [NoBucket EXCEPT !.blk = InlineBlock[b],
                                                       !.refcnt = 1]
                                 ELSE NoBucket]
              /\ mem' = m
              /\ fresh' = [fresh EXCEPT ![t] = [blk |-> bkt[b].blk,
                                                log2 |-> bkt[b].log2,
                                                lin |-> FALSE]]
              /\ wpc' = [wpc EXCEPT ![t] = "free"]
              /\ UNCHANGED <<job, saved>>
         ELSE /\ bkt' = [bkt EXCEPT ![b] = [Unlocked(@) EXCEPT !.refcnt = @ - 1]]
              /\ mem' = m
              /\ Return(t)
              /\ UNCHANGED <<saved, fresh>>
  /\ SetRef(K(t), NotFound) /\ See(K(t), NotFound)
  /\ UNCHANGED <<build, left, freelists, wcopy, lost, alock>>

\* Deleting an entry.  The last one of a bucket frees the backing store; with
\* entries at the bucket level the bucket goes back to that level.
Delete(t) ==
  /\ Locked(t) /\ ~Adds(t) /\ Matches(B(t), K(t)) # {}
  /\ LET b == B(t)
         m == [mem EXCEPT ![bkt[b].blk][Min(Matches(b, K(t)))] = EmptySlot]
         last == bkt[b].refcnt = (IF inl THEN 2 ELSE 1)
     IN  IF last /\ (bkt[b].log2 > 0 \/ ~inl)
         THEN /\ bkt' = [bkt EXCEPT ![b] =
                          IF inl THEN [NoBucket EXCEPT !.blk = InlineBlock[b],
                                                       !.refcnt = 1]
                                 ELSE NoBucket]
              /\ mem' = IF inl THEN [m EXCEPT ![InlineBlock[b]] =
                                       [i \in 1..PerPage |-> EmptySlot]]
                               ELSE m
              /\ fresh' = [fresh EXCEPT ![t] = [blk |-> bkt[b].blk,
                                                log2 |-> bkt[b].log2,
                                                lin |-> FALSE]]
              /\ wpc' = [wpc EXCEPT ![t] = "free"]
              /\ UNCHANGED <<job, saved>>
         ELSE /\ bkt' = [bkt EXCEPT ![b] = [Unlocked(@) EXCEPT !.refcnt = @ - 1]]
              /\ mem' = m
              /\ Return(t)
              /\ UNCHANGED <<saved, fresh>>
  /\ SetRef(K(t), NotFound) /\ See(K(t), NotFound)
  /\ UNCHANGED <<build, left, freelists, wcopy, lost, alock>>

\* ... after the bucket was unlocked
FreeBacking(t) ==
  /\ wpc[t] = "free" /\ alock = NoThread
  /\ SetHeap(ValueFree(Heap, fresh[t].blk, fresh[t].log2))
  /\ fresh' = [fresh EXCEPT ![t] = <<>>]
  /\ Return(t)
  /\ UNCHANGED <<build, left, bkt, wcopy, lost, alock, saved, rd, ref>>

\* No room: take the allocator's lock and move readers to a working copy
\* (make_working_copy; the bucket stays locked).  An outgrown working copy
\* is not freed.
MakeWorkingCopy(t) ==
  /\ NewKey(t) /\ FreeSlots(B(t), K(t)) = {} /\ alock = NoThread
  /\ LET b == B(t)
         old == mem[bkt[b].blk]
         grow == wcopy[t] = NoBlock \/ Len(mem[wcopy[t]]) < Len(old)
         blk == IF grow THEN NewBlock(mem, bkt[b].log2) ELSE wcopy[t]
         kept == IF grow THEN <<>> ELSE SubSeq(mem[blk], Len(old) + 1, Len(mem[blk]))
     IN  /\ mem' = [mem EXCEPT ![blk] = old \o kept]
         /\ wcopy' = [wcopy EXCEPT ![t] = blk]
         /\ lost' = IF grow THEN lost \union ({wcopy[t]} \ {NoBlock}) ELSE lost
         /\ saved' = bkt[b]
         /\ bkt' = [bkt EXCEPT ![b].blk = blk]
         /\ Disturb(b)
  /\ alock' = t
  /\ wpc' = [wpc EXCEPT ![t] = "split"]
  /\ UNCHANGED <<build, left, freelists, job, fresh, ref>>

\* Rehash the working copy into a new backing store and add the entry.
SplitBucket(t) ==
  /\ wpc[t] = "split"
  /\ LET old == SubSeq(mem[wcopy[t]], 1, Slots(saved.log2))
         new == Split(old, saved.log2, Entry(t))
     IN  /\ SetHeap(new.h)
         /\ fresh' = [fresh EXCEPT ![t] = [blk |-> new.h.blk, log2 |-> new.a.log2,
                                           lin |-> new.a.lin]]
  /\ wpc' = [wpc EXCEPT ![t] = "publish"]
  /\ UNCHANGED <<build, left, bkt, wcopy, lost, alock, saved, job, rd, ref>>

\* Swap the new bucket word in, which also unlocks the bucket.
Publish(t) ==
  /\ wpc[t] = "publish"
  /\ bkt' = [bkt EXCEPT ![B(t)] =
              [blk |-> fresh[t].blk, lock |-> FALSE, lin |-> fresh[t].lin,
               log2 |-> fresh[t].log2, refcnt |-> saved.refcnt + 1]]
  /\ SetRef(K(t), job[t].val) /\ See(K(t), job[t].val)
  /\ fresh' = [fresh EXCEPT ![t] = <<>>]
  /\ wpc' = [wpc EXCEPT ![t] = "freeOld"]
  /\ UNCHANGED <<build, left, heap, wcopy, lost, alock, saved, job>>

\* (mutant) also the store at the bucket level is freed.
FreeOldAlways(t) ==
  /\ wpc[t] = "freeOld"
  /\ SetHeap(ValueFree(Heap, saved.blk, saved.log2))
  /\ alock' = NoThread
  /\ saved' = NoBucket
  /\ Return(t)
  /\ UNCHANGED <<build, left, bkt, wcopy, lost, fresh, rd, ref>>

\* Free the old backing store, if it is not the one at the bucket level, and
\* give up the allocator's lock.  saved_bucket is not read again before the
\* next make_working_copy stores it, so its value is forgotten.
FreeOld(t) ==
  /\ wpc[t] = "freeOld"
  /\ IF inl /\ saved.log2 = 0 THEN UNCHANGED heap
     ELSE SetHeap(ValueFree(Heap, saved.blk, saved.log2))
  /\ alock' = NoThread
  /\ saved' = NoBucket
  /\ Return(t)
  /\ UNCHANGED <<build, left, bkt, wcopy, lost, fresh, rd, ref>>

-----------------------------------------------------------------------------
(* Readers: clib_bihash_search_inline_with_hash.  The bucket word is       *)
(* loaded anew for each of its fields.  quiet and seen are history: whether *)
(* no writer was at the bucket since the search began, and the values the  *)
(* key has had.                                                            *)

SearchStart(r) ==
  /\ rd[r] = <<>> /\ left[r] > 0
  /\ left' = [left EXCEPT ![r] = @ - 1]
  /\ \E k \in Keys :
       LET b == bkt[BucketOf[k]]
           empty == IF inl THEN b.log2 = 0 /\ b.refcnt = 1 ELSE b.blk = NoBlock
       IN  rd' = [rd EXCEPT ![r] =
                   [key |-> k, pc |-> IF empty THEN "done" ELSE "lock",
                    blk |-> NoBlock, log2 |-> 0, lin |-> FALSE, i |-> 0,
                    res |-> NotFound, quiet |-> ~b.lock, seen |-> {ref[k]}]]
  /\ UNCHANGED <<build, bkt, heap, wcopy, lost, alock, saved, wpc, job, fresh, ref>>

At(r, pc) == rd[r] # <<>> /\ rd[r].pc = pc
RB(r) == bkt[BucketOf[rd[r].key]]

\* spin while a writer holds the bucket
SearchUnlocked(r) ==
  /\ At(r, "lock") /\ ~RB(r).lock
  /\ rd' = [rd EXCEPT ![r].pc = "offset"]
  /\ UNCHANGED <<build, left, bkt, heap, wcopy, lost, alock, saved, wpc, job, fresh, ref>>

SearchOffset(r) ==
  /\ At(r, "offset")
  /\ rd' = [rd EXCEPT ![r].pc = "shape", ![r].blk = RB(r).blk]
  /\ UNCHANGED <<build, left, bkt, heap, wcopy, lost, alock, saved, wpc, job, fresh, ref>>

\* (mutant) a bucket that fell back to linear search is searched by page.
SearchShapeByPage(r) ==
  /\ At(r, "shape")
  /\ rd' = [rd EXCEPT ![r].pc = "scan", ![r].log2 = RB(r).log2,
              ![r].i = Min(Window(rd[r].key, RB(r).log2, FALSE))]
  /\ UNCHANGED <<build, left, bkt, heap, wcopy, lost, alock, saved, wpc, job, fresh, ref>>

SearchShape(r) ==
  /\ At(r, "shape")
  /\ rd' = [rd EXCEPT ![r].pc = "scan", ![r].log2 = RB(r).log2,
              ![r].lin = RB(r).lin,
              ![r].i = Min(Window(rd[r].key, RB(r).log2, RB(r).lin))]
  /\ UNCHANGED <<build, left, bkt, heap, wcopy, lost, alock, saved, wpc, job, fresh, ref>>

\* What a reader finds at index i from the start of a block; behind its end
\* is memory of something else.
SlotAt(blk, i) == IF blk # NoBlock /\ i <= Len(mem[blk]) THEN mem[blk][i]
                  ELSE JunkSlot

SearchSlot(r) ==
  /\ At(r, "scan")
  /\ LET s == rd[r]
         hit == SlotAt(s.blk, s.i).key = s.key
         more == s.i + 1 \in Window(s.key, s.log2, s.lin)
     IN  rd' = [rd EXCEPT ![r] =
                  CASE hit -> [s EXCEPT !.pc = "copy"]
                    [] ~hit /\ more -> [s EXCEPT !.i = @ + 1]
                    [] OTHER -> [s EXCEPT !.pc = "done"]]
  /\ UNCHANGED <<build, left, bkt, heap, wcopy, lost, alock, saved, wpc, job, fresh, ref>>

\* The matching entry is copied out.
SearchCopy(r) ==
  /\ At(r, "copy")
  /\ rd' = [rd EXCEPT ![r].pc = "done",
                      ![r].res = SlotAt(rd[r].blk, rd[r].i).val]
  /\ UNCHANGED <<build, left, bkt, heap, wcopy, lost, alock, saved, wpc, job, fresh, ref>>

SearchReturn(r) ==
  /\ At(r, "done")
  /\ rd' = [rd EXCEPT ![r] = <<>>]
  /\ UNCHANGED <<build, left, bkt, heap, wcopy, lost, alock, saved, wpc, job, fresh, ref>>

\* All have done what the bound lets them: nobody waits for a lock.
Finished ==
  /\ \A t \in Threads : wpc[t] = "idle" /\ left[t] = 0
  /\ \A r \in Readers : rd[r] = <<>> /\ left[r] = 0
  /\ UNCHANGED vars

Next ==
  \/ Finished
  \/ \E t \in Threads :
       \/ LockBucket(t) \/ FirstElement(t) \/ Refused(t) \/ Replace(t)
       \/ UseFreeSlot(t) \/ OverwriteStale(t) \/ Delete(t) \/ FreeBacking(t)
       \/ MakeWorkingCopy(t) \/ SplitBucket(t) \/ Publish(t) \/ FreeOld(t)
  \/ \E r \in Readers :
       \/ SearchStart(r) \/ SearchUnlocked(r) \/ SearchOffset(r)
       \/ SearchShape(r) \/ SearchSlot(r) \/ SearchCopy(r) \/ SearchReturn(r)

Spec == Init /\ [][Next]_vars

-----------------------------------------------------------------------------
Slot == [key : Keys \union {Free, Junk}, val : Vals \union {Free, Junk}]

\* Types of the state; in particular no block is used for a backing store of
\* another size than it was allocated with.
TypeOK ==
  /\ \A b \in Buckets : /\ bkt[b].blk \in Blocks \union {NoBlock}
                        /\ bkt[b].log2 \in Log2s /\ bkt[b].refcnt \in Nat
                        /\ bkt[b].lock \in BOOLEAN /\ bkt[b].lin \in BOOLEAN
  /\ \A blk \in Blocks : \A i \in DOMAIN mem[blk] : mem[blk][i] \in Slot
  /\ \A b \in Buckets : bkt[b].blk # NoBlock /\ ~bkt[b].lock
       => Len(mem[bkt[b].blk]) = Slots(bkt[b].log2)
  /\ \A l \in Log2s : \A j \in DOMAIN freelists[l] :
       Len(mem[freelists[l][j]]) = Slots(l)
  /\ alock \in Threads \union {NoThread}

\* What a search of an unlocked bucket would find
Stored(k) ==
  LET b == BucketOf[k]
  IN  IF Matches(b, k) = {} THEN NotFound
      ELSE mem[bkt[b].blk][Min(Matches(b, k))].val

\* Whatever splits, falls back to linear search, deletes and recycles blocks,
\* an unlocked bucket holds exactly the entries of the map, each once and
\* where a search looks for it, and its reference count is their number.
TableIsMap ==
  \A b \in Buckets : ~bkt[b].lock =>
    LET mine == {k \in Keys : BucketOf[k] = b /\ ref[k] # NotFound}
        slots == IF bkt[b].blk = NoBlock THEN <<>> ELSE mem[bkt[b].blk]
    IN  /\ \A k \in Keys : BucketOf[k] = b => Stored(k) = ref[k]
        /\ Len(Used(slots)) = Cardinality(mine)
        /\ bkt[b].refcnt = Cardinality(mine) + IF inl THEN 1 ELSE 0

\* Every allocated block has exactly one use: the backing store of a bucket,
\* the one at a bucket's level, a freelist entry, a working copy (or one that
\* was outgrown), the old store of a split, or what a writer is about to
\* publish or free.
Uses ==
  {<<"bucket", b, bkt[b].blk>> : b \in {x \in Buckets :
     /\ bkt[x].blk \notin Range(wcopy) \union {NoBlock}
     /\ ~(inl /\ bkt[x].blk = InlineBlock[x])}}
  \union {<<"inline", b, InlineBlock[b]>> : b \in {x \in Buckets : inl}}
  \union UNION {{<<"free", <<l, j>>, freelists[l][j]>> : j \in DOMAIN freelists[l]}
               : l \in Log2s}
  \union {<<"working", t, wcopy[t]>> : t \in {x \in Threads : wcopy[x] # NoBlock}}
  \union {<<"outgrown", 0, blk>> : blk \in lost}
  \union {<<"old", t, saved.blk>> : t \in {x \in Threads : alock = x /\
             ~(inl /\ saved.blk \in Range(InlineBlock))}}
  \union {<<"new", t, fresh[t].blk>> : t \in {x \in Threads : fresh[x] # <<>>}}
BlocksOwned ==
  LET allocated == {blk \in Blocks : mem[blk] # <<>>}
  IN  /\ {u[3] : u \in Uses} = allocated
      /\ Cardinality(Uses) = Cardinality(allocated)

\* A search that no writer of its own bucket overlaps returns what the map
\* holds, whatever writers do to other buckets and to the shared allocator.
SearchExact ==
  \A r \in Readers : At(r, "done") /\ rd[r].quiet => rd[r].res = ref[rd[r].key]

\* "So, no reader locking is required to search a bihash table": a search
\* returns a value its key had while it ran.
SearchLinear ==
  \A r \in Readers : At(r, "done") => rd[r].res \in rd[r].seen
=============================================================================
