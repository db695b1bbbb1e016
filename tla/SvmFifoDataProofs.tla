------------------------- MODULE SvmFifoDataProofs -------------------------
(***************************************************************************)
(* Proofs that the fifo of SvmFifo returns the bytes that were put in, and *)
(* that no pointer outlives its chunk.  They rest on where each chunk      *)
(* lies: the chunks of the list are laid end to end, and a position is     *)
(* described by its distance from tail.                                    *)
(***************************************************************************)
EXTENDS SvmFifoProofs

\* Where the chunks of the list begin, and those about to be linked.
Place == [c \in ToSet(Linked) |-> Diff(start[c], tail)]
Coming == [c \in ToSet(prod.new) |-> Diff(start[c], tail)]

\* Chunk c, placed by e, holds the position at distance k.
Holds(e, c, k) == c \in DOMAIN e /\ e[c] <= k /\ k < e[c] + Length

\* The chunks of l lie one after the other without a gap.
Laid(l, e) ==
  /\ \A i \in 1 .. Len(l) - 1 : e[l[i + 1]] = e[l[i]] + Length
  /\ \A i, j \in 1 .. Len(l) : i < j => e[l[i]] + Length <= e[l[j]]

\* Where the list ends.
Reach == Place[endC] + Length

\* The consumer has left the positions before cons.end.
Moved == cons.pc \in {"collect", "store"}

\* The first position that is still to be read.
Kept == Diff(IF Moved THEN cons.end ELSE head, tail)

\* The position up to which the producer has filled the list.
Written == IF prod.pc = "store" THEN prod.len ELSE 0

\* The position for which head_chunk was chosen.
Held == IF Moved \/ (cons.pc = "unlink" /\ cons.op # "drop")
        THEN Diff(cons.end, tail) ELSE Diff(head, tail)

\* A tree that tracks the chunks T, and how they lie: from the chunk of position
\* lo on, without leaving one out.
TreeOf(T) == {<<start[d], d>> : d \in T}
Dense(T, e, lo) ==
  /\ T \subseteq DOMAIN e
  /\ \A d \in T : e[d] + Length > lo
  /\ \A c \in DOMAIN e, d \in T : e[c] <= e[d] /\ e[c] + Length > lo => c \in T

\* The list reaches from the chunk of the first position to be read to beyond
\* all that has arrived and all that the producer is about to copy.
Geometry ==
  /\ Laid(Linked, Place)
  /\ Place[startC] <= Kept /\ Kept <= Place[startC] + Length
  /\ 0 <= Reach /\ Reach < Free(head, tail) + MinAlloc + Length
  /\ prod.pc \in {"copy", "store"} => prod.off + prod.len <= Reach
  /\ \A k \in Int : Covered(ooo, tail, k) => k < Reach
  /\ cons.pc = "unlink" => Diff(cons.end, tail) >= Place[startC] + Length

\* The chunks about to be linked continue the list as far as it is needed.
Pending ==
  prod.pc = "link" =>
    /\ Laid(prod.new, Coming) /\ Coming[prod.new[1]] = Reach
    /\ prod.off + prod.len <= Coming[Last(prod.new)] + Length
    /\ Coming[Last(prod.new)] < Free(head, tail) + MinAlloc

\* The chunks the producer remembers.
ProdSide ==
  /\ tailC # Nil => Holds(Place, tailC, Written)
  /\ tailC = Nil => Written = Reach
  /\ prod.pc # "idle" => IF prod.old = Nil THEN ooo = <<>> ELSE Holds(Place, prod.old, 0)
  /\ oooEnq # Nil => oooEnq \in DOMAIN Place /\ Place[oooEnq] + Length > 0 /\ ooo # <<>>

\* The chunks of the enqueue tree: from that of tail on, and none of them beyond
\* what has arrived.
EnqSide ==
  /\ enqTree = TreeOf(Tracked(enqTree)) /\ Dense(Tracked(enqTree), Place, 0)
  /\ \A d \in Tracked(enqTree) : \E k \in Int : Covered(ooo, tail, k) /\ Place[d] <= k + 1

\* The chunks the consumer remembers, and those of the dequeue tree.
ConsSide ==
  /\ headC # Nil => Holds(Place, headC, Held)
  /\ oooDeq # Nil => oooDeq \in DOMAIN Place
DeqSide ==
  /\ closed = FALSE =>
       deqTree = TreeOf(Tracked(deqTree)) /\ Dense(Tracked(deqTree), Place, Place[startC])
  /\ deqTree \in SUBSET (Pos \X Chunks)

\* Which calls the consumer makes, and what it was admitted with.
Calls ==
  /\ role = "rx" => deqTree = {} /\ closed = FALSE
  /\ closed = TRUE => cons.pc = "idle" \/ cons.op = "dropall"
  /\ cons.op = "deq" => role = "rx"
  /\ cons.op = "dropall" => role # "rx"
  /\ cons.pc \in {"unlink", "collect", "store"} =>
       cons.op \in {"deq", "drop", "dropall"} /\ (cons.op = "dropall" => closed = TRUE)
  /\ cons.pc = "read" /\ cons.op # "dropall" =>
       /\ cons.len >= 1 /\ cons.off + cons.len <= Diff(tail, head)
       /\ cons.op = "deq" => cons.off = 0 /\ cons.end = Plus(head, cons.len)

\* What has arrived and was not read is in its place.
Arrived(k) == (Kept <= k /\ k < Written) \/ Covered(ooo, tail, k)
Bytes ==
  \A d \in DOMAIN Place, i \in 0 .. Length - 1 :
    Arrived(Place[d] + i) => data[d][i] = Plus(start[d], i)

\* The types that IInv leaves open.
Kinds ==
  /\ role \in Roles /\ others \subseteq Chunks /\ closed \in BOOLEAN /\ wrong = {}
  /\ data \in [Chunks -> [0 .. Length - 1 -> Pos \cup {Nil}]]

JInv ==
  /\ Geometry /\ Pending /\ ProdSide /\ EnqSide
  /\ ConsSide /\ DeqSide /\ Calls /\ Bytes /\ Kinds

-----------------------------------------------------------------------------
(* Distances from tail.                                                    *)

\* The bounds that keep positions comparable.
LEMMA Bounds ==
  /\ W \in Nat /\ Length \in Nat /\ Length > 0 /\ Size \in Nat /\ MinAlloc \in Nat
  /\ 2 * (Size + 2 * Length) <= W /\ 2 * (Size + MinAlloc + Length) <= W
  BY FifoAssumption

\* Positions less than half of W apart compare as their distances do.
LEMMA Near ==
  ASSUME NEW t \in Pos, NEW a \in Int, NEW b \in Int, -W <= 2 * (a - b), 2 * (a - b) < W
  PROVE  /\ Diff(Plus(t, a), Plus(t, b)) = a - b
         /\ f_pos_lt(Plus(t, a), Plus(t, b)) <=> a < b
         /\ f_pos_leq(Plus(t, a), Plus(t, b)) <=> a <= b
<1>1. t \in Int /\ W \in Nat
  BY Sizes DEF Pos
<1>2. Diff(Plus(t, a), Plus(t, b)) = a - b
  BY <1>1, DiffPlus
<1> QED
  BY <1>2 DEF f_pos_lt, f_pos_leq

\* Where head and the end of the consumer's call are.
LEMMA HeadIs ==
  ASSUME IInv
  PROVE  /\ Diff(head, tail) = -Diff(tail, head) /\ head = Plus(tail, -Diff(tail, head))
         /\ Kept \in Int /\ -Diff(tail, head) <= Kept /\ Kept <= 0
         /\ cons.pc # "idle" =>
              /\ Diff(cons.end, tail) \in Int /\ Diff(cons.end, tail) <= 0
              /\ Diff(cons.end, tail) = Diff(cons.end, head) - Diff(tail, head)
              /\ Diff(cons.end, head) \in Nat
              /\ cons.end = Plus(tail, Diff(cons.end, tail))
<1> DEFINE fill == Diff(tail, head)
           e == cons.end
           m == Diff(e, head)
<1>1. head \in Pos /\ tail \in Pos /\ head \in Int /\ tail \in Int /\ fill \in Nat /\ fill <= Size
      /\ e \in Pos
  BY FillIs DEF IInv, Types
<1>2. W \in Nat /\ Size \in Nat /\ 2 * Size < W
  BY Sizes
<1>3. cons.pc # "idle" => m \in 0 .. fill
  BY DEF IInv, Window
<1>4. e \in Int
  BY <1>1, <1>2 DEF Pos
<1>5. m \in Int /\ e = Plus(head, m) /\ tail = Plus(head, fill) /\ head = Plus(head, 0)
  BY <1>1, <1>4, DiffIs, PlusDiff, PlusZero
<1> HIDE DEF fill, e, m
<1>6. 0 \in Int /\ fill \in Int /\ -W <= 2 * (0 - fill) /\ 2 * (0 - fill) < W /\ 0 - fill = -fill
  BY <1>1, <1>2
<1>7. Diff(head, tail) = -fill
  <2>1. Diff(Plus(head, 0), Plus(head, fill)) = 0 - fill
    BY <1>1, <1>6, Near
  <2> QED
    BY <1>5, <1>6, <2>1
<1>8. head = Plus(tail, -fill)
  <2>1. Plus(tail, Diff(head, tail)) = head
    BY <1>1, PlusDiff
  <2> QED
    BY <1>7, <2>1
<1>9. cons.pc # "idle" => Diff(e, tail) = m - fill /\ e = Plus(tail, m - fill)
  <2> SUFFICES ASSUME cons.pc # "idle" PROVE Diff(e, tail) = m - fill /\ e = Plus(tail, m - fill)
    OBVIOUS
  <2>1. m \in Int /\ fill \in Int /\ -W <= 2 * (m - fill) /\ 2 * (m - fill) < W
    BY <1>1, <1>2, <1>3
  <2>2. Diff(Plus(head, m), Plus(head, fill)) = m - fill
    BY <1>1, <2>1, Near
  <2>3. Diff(e, tail) = m - fill
    BY <1>5, <2>2
  <2>4. Plus(tail, Diff(e, tail)) = e
    BY <1>1, PlusDiff
  <2> QED
    BY <2>3, <2>4
<1>10. cons.pc # "idle" => Diff(e, tail) \in Int /\ Diff(e, tail) <= 0 /\ m \in Nat
                           /\ -fill <= Diff(e, tail)
  BY <1>1, <1>3, <1>9
<1>11. Kept = IF Moved THEN Diff(e, tail) ELSE Diff(head, tail)
  BY DEF Kept, e
<1>12. Moved => cons.pc # "idle"
  BY DEF Moved
<1>13. Kept \in Int /\ -fill <= Kept /\ Kept <= 0
  BY <1>1, <1>7, <1>10, <1>11, <1>12
<1> QED
  BY <1>7, <1>8, <1>9, <1>10, <1>13 DEF fill, e, m

-----------------------------------------------------------------------------
(* The chunks of the list.                                                 *)

\* Two different chunks of a laid list do not overlap.
Apart(e) ==
  \A c, d \in DOMAIN e : c # d => e[c] + Length <= e[d] \/ e[d] + Length <= e[c]

\* The list and the places of its chunks.
LEMMA ListIs ==
  ASSUME IInv, Geometry
  PROVE  /\ DOMAIN Place = ToSet(Linked) /\ ToSet(Linked) \subseteq Chunks
         /\ startC \in DOMAIN Place /\ endC \in DOMAIN Place /\ Nil \notin DOMAIN Place
         /\ Reach \in Int /\ 0 <= Reach /\ Reach < Free(head, tail) + MinAlloc + Length
         /\ \A c \in DOMAIN Place :
              /\ Place[c] \in Int /\ Place[c] = Diff(start[c], tail)
              /\ start[c] = Plus(tail, Place[c])
              /\ Place[startC] <= Place[c] /\ Place[c] + Length <= Reach
              /\ -(Diff(tail, head) + Length) <= Place[c]
         /\ Apart(Place)
<1> DEFINE l == Linked
           n == Len(l)
           e == Place
           fill == Diff(tail, head)
<1>1. Chain(next, l, startC, endC)
  BY DEF IInv, Lists
<1>2. /\ l \in Seq(Chunks) /\ n \in Nat /\ n > 0 /\ Once(l)
      /\ ToSet(l) \subseteq Chunks /\ startC \in ToSet(l) /\ endC \in ToSet(l)
      /\ \A i \in 1 .. n : l[i] \in ToSet(l) /\ l[i] \in Chunks
  BY <1>1, ChainParts
<1>3. \A c \in ToSet(l) : \E i \in 1 .. n : c = l[i]
  BY <1>2, LenProperties DEF ToSet
<1>4. DOMAIN e = ToSet(l) /\ \A c \in ToSet(l) : e[c] = Diff(start[c], tail)
  BY DEF Place
<1>5. tail \in Pos /\ tail \in Int /\ fill \in Nat /\ fill <= Size /\ Free(head, tail) \in Nat
  BY FillIs
<1>6. ASSUME NEW c \in ToSet(l) PROVE e[c] \in Int /\ start[c] = Plus(tail, e[c])
  <2>1. start[c] \in Pos
    BY <1>2 DEF IInv, Types
  <2>2. start[c] \in Int
    BY <2>1, Sizes DEF Pos
  <2> QED
    BY <1>4, <1>5, <2>1, <2>2, DiffIs, PlusDiff
<1>7. /\ \A i, j \in 1 .. n : i < j => e[l[i]] + Length <= e[l[j]]
      /\ e[startC] <= Kept /\ Kept <= e[startC] + Length
      /\ 0 <= Reach /\ Reach < Free(head, tail) + MinAlloc + Length
  BY DEF Geometry, Laid
<1>8. l[1] = startC /\ l[n] = endC
  BY <1>1 DEF Chain
<1>9. Kept \in Int /\ -fill <= Kept
  BY HeadIs
<1>10. Reach = e[endC] + Length
  BY DEF Reach
<1>11. Length \in Nat /\ Length > 0
  BY Sizes
<1> HIDE DEF l, n, e, fill
<1>12. ASSUME NEW c \in ToSet(l) PROVE e[startC] <= e[c] /\ e[c] + Length <= Reach
  <2>1. PICK i \in 1 .. n : c = l[i]
    BY <1>3
  <2>2. 1 \in 1 .. n /\ n \in 1 .. n /\ (i = 1 \/ 1 < i) /\ (i = n \/ i < n)
    BY <1>2
  <2>3. i = 1 \/ e[startC] + Length <= e[c]
    BY <1>7, <1>8, <2>1, <2>2
  <2>4. i = n \/ e[c] + Length <= e[endC]
    BY <1>7, <1>8, <2>1, <2>2
  <2>5. e[c] \in Int /\ e[startC] \in Int /\ e[endC] \in Int
    BY <1>2, <1>6
  <2>6. i = 1 => e[c] = e[startC]
    BY <1>8, <2>1
  <2>7. i = n => e[c] = e[endC]
    BY <1>8, <2>1
  <2> QED
    BY <1>10, <1>11, <2>3, <2>4, <2>5, <2>6, <2>7
<1>13. ASSUME NEW c \in ToSet(l) PROVE -(fill + Length) <= e[c]
  <2>1. e[c] \in Int /\ e[startC] \in Int
    BY <1>2, <1>6
  <2> QED
    BY <1>5, <1>7, <1>9, <1>11, <1>12, <2>1
<1>14. ASSUME NEW c \in ToSet(l), NEW d \in ToSet(l), c # d
       PROVE  e[c] + Length <= e[d] \/ e[d] + Length <= e[c]
  <2>1. PICK i \in 1 .. n : c = l[i]
    BY <1>3
  <2>2. PICK j \in 1 .. n : d = l[j]
    BY <1>3
  <2>3. i < j \/ j < i
    BY <1>2, <1>14, <2>1, <2>2
  <2> QED
    BY <1>7, <2>1, <2>2, <2>3
<1>15. Apart(e)
  BY <1>4, <1>14 DEF Apart
<1>16. Reach \in Int /\ Nil \notin ToSet(l)
  BY <1>2, <1>6, <1>10, <1>11, Sizes
<1> QED
  BY <1>2, <1>4, <1>6, <1>7, <1>12, <1>13, <1>15, <1>16 DEF l, e, fill

\* Every position from the first chunk to the end of the list is in a chunk.
LEMMA HolderIs ==
  ASSUME IInv, Geometry, NEW k \in Int, Place[startC] <= k, k < Reach
  PROVE  \E c \in DOMAIN Place : Holds(Place, c, k)
<1> DEFINE l == Linked
           n == Len(l)
           e == Place
           I == {i \in 1 .. n : k < e[l[i]] + Length}
           m == Min(I)
<1>1. Chain(next, l, startC, endC)
  BY DEF IInv, Lists
<1>2. /\ n \in Nat /\ n > 0 /\ l[1] = startC /\ l[n] = endC
      /\ \A i \in 1 .. n : l[i] \in ToSet(l)
  BY <1>1, ChainParts DEF Chain
<1>3. DOMAIN e = ToSet(l) /\ (\A c \in DOMAIN e : e[c] \in Int) /\ Length \in Nat
  BY ListIs, Sizes
<1>4. \A i \in 1 .. n - 1 : e[l[i + 1]] = e[l[i]] + Length
  BY DEF Geometry, Laid
<1>5. n \in I /\ I \subseteq Nat
  BY <1>2 DEF Reach
<1> HIDE DEF I
<1>6. m \in I /\ \A y \in I : m <= y
  BY <1>5, MinIn
<1>7. m \in 1 .. n /\ k < e[l[m]] + Length /\ e[l[m]] \in Int
  BY <1>2, <1>3, <1>6 DEF I
<1>8. e[startC] <= k
  OBVIOUS
<1> HIDE DEF l, n, e, m
<1>9. e[l[m]] <= k
  <2>1. CASE m = 1
    BY <1>2, <1>8, <2>1
  <2>2. CASE m # 1
    <3>1. m - 1 \in 1 .. n - 1 /\ m - 1 \in 1 .. n /\ (m - 1) + 1 = m /\ ~(m <= m - 1)
      BY <1>2, <1>7, <2>2
    <3>2. m - 1 \notin I
      BY <1>6, <3>1
    <3>3. ~(k < e[l[m - 1]] + Length)
      BY <3>1, <3>2 DEF I
    <3>4. e[l[m]] = e[l[m - 1]] + Length /\ e[l[m - 1]] \in Int
      BY <1>2, <1>3, <1>4, <3>1
    <3> QED
      BY <1>3, <3>3, <3>4
  <2> QED
    BY <2>1, <2>2
<1>10. l[m] \in DOMAIN e /\ Holds(e, l[m], k)
  BY <1>2, <1>3, <1>7, <1>9 DEF Holds
<1> QED
  BY <1>10 DEF e

\* Two chunks that hold the same position are the same.
LEMMA OneHolder ==
  ASSUME IInv, Geometry, NEW c, NEW d, NEW k \in Int, Holds(Place, c, k), Holds(Place, d, k)
  PROVE  c = d
<1>1. c \in DOMAIN Place /\ d \in DOMAIN Place /\ Place[c] <= k /\ k < Place[c] + Length
      /\ Place[d] <= k /\ k < Place[d] + Length
  BY DEF Holds
<1>2. Place[c] \in Int /\ Place[d] \in Int /\ Length \in Nat
  BY <1>1, ListIs, Sizes
<1>3. c # d => Place[c] + Length <= Place[d] \/ Place[d] + Length <= Place[c]
  BY <1>1, ListIs DEF Apart
<1> HIDE DEF Place
<1> QED
  BY <1>1, <1>2, <1>3

\* The positions for which a chunk is looked up.
InRange(k) == k \in Int /\ -Diff(tail, head) <= k /\ k <= Free(head, tail)

\* f_chunk_includes_pos tells whether a chunk of the list holds a position.
LEMMA IncludesIs ==
  ASSUME IInv, Geometry, NEW c \in DOMAIN Place, NEW k, InRange(k)
  PROVE  Includes(c, Plus(tail, k)) <=> Holds(Place, c, k)
<1> DEFINE x == Place[c]
           fill == Diff(tail, head)
           room == Free(head, tail)
<1>1. k \in Int /\ -fill <= k /\ k <= room
  BY DEF InRange
<1>2. tail \in Pos /\ tail \in Int /\ fill \in Nat /\ room \in Nat /\ room = Size - fill
  BY FillIs
<1>3. x \in Int /\ start[c] = Plus(tail, x) /\ x + Length <= Reach /\ Reach \in Int
      /\ Reach < room + MinAlloc + Length /\ -(fill + Length) <= x
  BY ListIs
<1>4. /\ W \in Nat /\ Length \in Nat /\ Length > 0 /\ Size \in Nat /\ MinAlloc \in Nat
      /\ 2 * (Size + 2 * Length) <= W /\ 2 * (Size + MinAlloc + Length) <= W
  BY Bounds
<1>5. Includes(c, Plus(tail, k)) <=>
        /\ ~f_pos_lt(Plus(tail, k), start[c])
        /\ f_pos_lt(Plus(tail, k), Plus(start[c], Length))
  BY DEF Includes, Covers
<1>6. Holds(Place, c, k) <=> x <= k /\ k < x + Length
  BY DEF Holds
<1> HIDE DEF x, fill, room
<1>7. Plus(start[c], Length) = Plus(tail, x + Length)
  BY <1>2, <1>3, <1>4, PlusPlus
<1>8. f_pos_lt(Plus(tail, k), Plus(tail, x)) <=> k < x
  <2>1. -W <= 2 * (k - x) /\ 2 * (k - x) < W
    BY <1>1, <1>2, <1>3, <1>4
  <2> QED
    BY <1>1, <1>2, <1>3, <2>1, Near
<1>9. f_pos_lt(Plus(tail, k), Plus(tail, x + Length)) <=> k < x + Length
  <2>1. x + Length \in Int /\ -W <= 2 * (k - (x + Length)) /\ 2 * (k - (x + Length)) < W
    BY <1>1, <1>2, <1>3, <1>4
  <2> QED
    BY <1>1, <1>2, <2>1, Near
<1> QED
  BY <1>1, <1>3, <1>4, <1>5, <1>6, <1>7, <1>8, <1>9

\* The first index of a set, as SelectInSeq returns it.
FirstOf(I) == IF I # {} THEN Min(I) ELSE 0

\* It is the least one, and 0 if there is none.
LEMMA FirstIs ==
  ASSUME NEW n \in Nat, NEW I \in SUBSET (1 .. n)
  PROVE  /\ I = {} => FirstOf(I) = 0
         /\ I # {} => FirstOf(I) \in I /\ FirstOf(I) \in 1 .. n /\ FirstOf(I) # 0
                      /\ \A j \in I : FirstOf(I) <= j
<1>1. I \subseteq Nat
  OBVIOUS
<1>2. I # {} => Min(I) \in I /\ \A j \in I : Min(I) <= j
  BY <1>1, MinIn
<1>3. 0 \notin 1 .. n
  OBVIOUS
<1> QED
  BY <1>2, <1>3 DEF FirstOf

\* s is the part of the list from chunk c on.
Suffix(s, c) ==
  /\ s \in Seq(Chunks) /\ Len(s) \in Nat /\ Len(s) > 0 /\ s[1] = c /\ Once(s)
  /\ \A i \in 1 .. Len(s) : s[i] \in DOMAIN Place /\ Place[c] <= Place[s[i]]
  /\ \A d \in DOMAIN Place : Place[c] <= Place[d] => \E i \in 1 .. Len(s) : d = s[i]
  /\ \A i, j \in 1 .. Len(s) : i < j => Place[s[i]] + Length <= Place[s[j]]

\* ListFrom a chunk of the list is the rest of the list.
LEMMA SuffixIs ==
  ASSUME IInv, Geometry, NEW c \in DOMAIN Place
  PROVE  Suffix(ListFrom(c), c)
<1> DEFINE l == Linked
           n == Len(l)
           e == Place
<1>1. Chain(next, l, startC, endC)
  BY DEF IInv, Lists
<1>2. /\ l \in Seq(Chunks) /\ n \in Nat /\ n > 0 /\ Once(l)
      /\ \A i \in 1 .. n : l[i] \in ToSet(l) /\ l[i] \in Chunks
  BY <1>1, ChainParts
<1>3. DOMAIN e = ToSet(l) /\ \A d \in DOMAIN e : e[d] \in Int
  BY ListIs
<1>4. \A d \in ToSet(l) : \E i \in 1 .. n : d = l[i]
  BY <1>2, LenProperties DEF ToSet
<1>5. \A i, j \in 1 .. n : i < j => e[l[i]] + Length <= e[l[j]]
  BY DEF Geometry, Laid
<1>6. PICK m \in 1 .. n : c = l[m]
  BY <1>3, <1>4
<1> DEFINE p == m - 1
           s == SubSeq(l, p + 1, n)
<1>7. p \in 0 .. n - 1 /\ p \in 0 .. n /\ p \in Nat /\ p + 1 = m /\ p < n
  BY <1>2, <1>6
<1>8. next \in [Chunks -> Opt]
  BY DEF IInv, Types
<1>9. Length \in Nat /\ Length > 0
  BY Sizes
<1> HIDE DEF l, n, e, p
<1>10. Chain(next, s, l[p + 1], endC)
  BY <1>1, <1>7, <1>8, ChainCut DEF n
<1>11. /\ s \in Seq(Chunks) /\ Len(s) = n - p /\ Once(s)
       /\ \A i \in 1 .. n - p : s[i] = l[p + i]
  BY <1>2, <1>7, SplitOnce DEF n
<1> HIDE DEF s
<1>12. ListFrom(c) = s
  <2>1. ListFrom(c) = ListAlong(next, c)
    BY Zenon DEF ListFrom, ListAlong
  <2> QED
    BY <1>6, <1>7, <1>10, <2>1, ListOfChain
<1>13. Len(s) \in Nat /\ Len(s) > 0 /\ 1 \in 1 .. n - p
  BY <1>2, <1>7, <1>11
<1>14. s[1] = c
  BY <1>6, <1>7, <1>11, <1>13
<1>15. ASSUME NEW i \in 1 .. n - p
       PROVE  /\ p + i \in 1 .. n /\ s[i] = l[p + i] /\ s[i] \in DOMAIN e
              /\ e[c] <= e[s[i]]
  <2>1. p + i \in 1 .. n /\ (p + i = m \/ m < p + i)
    BY <1>2, <1>7
  <2>2. s[i] = l[p + i] /\ s[i] \in DOMAIN e
    BY <1>2, <1>3, <1>11, <2>1
  <2>3. e[s[i]] \in Int /\ e[c] \in Int
    BY <1>2, <1>3, <1>6, <2>2
  <2>4. p + i = m => e[s[i]] = e[c]
    BY <1>6, <2>2
  <2>5. m < p + i => e[c] + Length <= e[s[i]]
    BY <1>5, <1>6, <2>1, <2>2
  <2> QED
    BY <1>9, <2>1, <2>2, <2>3, <2>4, <2>5
<1>16. ASSUME NEW d \in DOMAIN e, e[c] <= e[d] PROVE \E i \in 1 .. n - p : d = s[i]
  <2>1. PICK j \in 1 .. n : d = l[j]
    BY <1>3, <1>4
  <2>2. j < m => e[d] + Length <= e[c]
    BY <1>5, <1>6, <2>1
  <2>3. e[d] \in Int /\ e[c] \in Int
    BY <1>2, <1>3, <1>6, <1>16
  <2>4. ~(j < m)
    BY <1>9, <1>16, <2>2, <2>3
  <2>5. j - p \in 1 .. n - p /\ p + (j - p) = j
    BY <1>2, <1>7, <2>4
  <2>6. s[j - p] = l[p + (j - p)]
    BY <1>11, <2>5
  <2> QED
    BY <2>1, <2>5, <2>6
<1>17. ASSUME NEW i \in 1 .. n - p, NEW j \in 1 .. n - p, i < j
       PROVE  e[s[i]] + Length <= e[s[j]]
  <2>1. p + i \in 1 .. n /\ s[i] = l[p + i]
    BY <1>15
  <2>2. p + j \in 1 .. n /\ s[j] = l[p + j]
    BY <1>15
  <2>3. p + i < p + j
    BY <1>7, <1>17
  <2> QED
    BY <1>5, <2>1, <2>2, <2>3
<1> HIDE DEF Place
<1>18. Suffix(s, c)
  BY <1>11, <1>13, <1>14, <1>15, <1>16, <1>17 DEF Suffix, e
<1> QED
  BY <1>12, <1>18

\* What FindChunk and Before look for in the rest of the list.
LEMMA SearchIs ==
  ASSUME IInv, Geometry, NEW c \in DOMAIN Place, NEW k, InRange(k)
  PROVE  LET s == ListFrom(c)
             I == {i \in 1 .. Len(s) : Holds(Place, s[i], k)}
         IN /\ SelectInSeq(s, LAMBDA d : Includes(d, Plus(tail, k))) = FirstOf(I)
            /\ Place[c] <= k /\ k < Reach => I # {}
<1> DEFINE s == ListFrom(c)
           I == {i \in 1 .. Len(s) : Holds(Place, s[i], k)}
           J == {i \in 1 .. Len(s) : Includes(s[i], Plus(tail, k))}
<1>1. Suffix(s, c)
  BY SuffixIs
<1> HIDE DEF s
<1>2. \A i \in 1 .. Len(s) : Includes(s[i], Plus(tail, k)) <=> Holds(Place, s[i], k)
  BY <1>1, IncludesIs DEF Suffix
<1>3. I = J
  BY <1>2
<1>4. SelectInSeq(s, LAMBDA d : Includes(d, Plus(tail, k))) = FirstOf(J)
  BY DEF SelectInSeq, FirstOf
<1>5. ASSUME Place[c] <= k, k < Reach PROVE I # {}
  <2>1. k \in Int
    BY DEF InRange
  <2>2. Place[c] \in Int /\ Place[startC] \in Int /\ Place[startC] <= Place[c] /\ Length \in Nat
    BY ListIs, Sizes
  <2> HIDE DEF Place, Reach
  <2>3. Place[startC] <= k
    BY <1>5, <2>1, <2>2
  <2>4. PICK d \in DOMAIN Place : Holds(Place, d, k)
    BY <1>5, <2>1, <2>3, HolderIs
  <2>5. Place[d] \in Int /\ (d # c => Place[c] + Length <= Place[d] \/ Place[d] + Length <= Place[c])
    BY ListIs DEF Apart
  <2>6. Place[d] <= k /\ k < Place[d] + Length
    BY <2>4 DEF Holds
  <2>7. Place[c] <= Place[d]
    BY <1>5, <2>1, <2>2, <2>5, <2>6
  <2>8. PICK i \in 1 .. Len(s) : d = s[i]
    BY <1>1, <2>7 DEF Suffix
  <2> QED
    BY <2>4, <2>8
<1> HIDE DEF I, J
<1>6. SelectInSeq(s, LAMBDA d : Includes(d, Plus(tail, k))) = FirstOf(I)
  BY <1>3, <1>4
<1> QED
  BY <1>5, <1>6 DEF I, s

\* FindChunk returns the chunk that holds the position, and Nil when there is
\* none from c on.
LEMMA FindIs ==
  ASSUME IInv, Geometry, NEW c \in DOMAIN Place, NEW k, InRange(k)
  PROVE  LET d == FindChunk(c, Plus(tail, k))
         IN /\ d # Nil => Holds(Place, d, k) /\ Place[c] <= Place[d]
            /\ d = Nil => k < Place[c] \/ Reach <= k
<1> DEFINE s == ListFrom(c)
           I == {i \in 1 .. Len(s) : Holds(Place, s[i], k)}
           i == FirstOf(I)
           d == FindChunk(c, Plus(tail, k))
<1>1. Suffix(s, c)
  BY SuffixIs
<1>2. /\ SelectInSeq(s, LAMBDA x : Includes(x, Plus(tail, k))) = i
      /\ Place[c] <= k /\ k < Reach => I # {}
  BY SearchIs
<1>3. d = IF i = 0 THEN Nil ELSE s[i]
  BY <1>2 DEF FindChunk
<1>4. Len(s) \in Nat /\ I \in SUBSET (1 .. Len(s))
  BY <1>1 DEF Suffix
<1>5. k \in Int /\ Place[c] \in Int /\ Reach \in Int /\ Nil \notin DOMAIN Place
  BY ListIs DEF InRange
<1>6. /\ I = {} => i = 0
      /\ I # {} => i \in I /\ i \in 1 .. Len(s) /\ i # 0
  <2> HIDE DEF s, I, i
  <2> QED
    BY <1>4, FirstIs DEF i
<1>7. i \in I => Holds(Place, s[i], k)
  BY DEF I
<1> HIDE DEF s, I, i, d, Place, Reach
<1>8. CASE I = {}
  BY <1>2, <1>3, <1>5, <1>6, <1>8 DEF d
<1>9. CASE I # {}
  <2>1. s[i] \in DOMAIN Place /\ Place[c] <= Place[s[i]]
    BY <1>1, <1>6, <1>9 DEF Suffix
  <2> QED
    BY <1>3, <1>5, <1>6, <1>7, <1>9, <2>1 DEF d
<1> QED
  BY <1>8, <1>9

\* The elements of the first n elements of a sequence.
LEMMA FirstPart ==
  ASSUME NEW s \in Seq(Chunks), Len(s) \in Nat, Once(s), NEW n \in 0 .. Len(s), NEW x
  PROVE  x \in ToSet(SubSeq(s, 1, n)) <=> \E i \in 1 .. n : x = s[i]
<1> DEFINE a == SubSeq(s, 1, n)
<1>1. a \in Seq(Chunks) /\ Len(a) = n /\ \A i \in 1 .. n : a[i] = s[i]
  BY SplitOnce
<1> HIDE DEF a
<1>2. DOMAIN a = 1 .. n
  BY <1>1, LenProperties
<1> QED
  BY <1>1, <1>2 DEF ToSet, a

\* Before returns the chunks from c on that end before the position.
LEMMA BeforeIs ==
  ASSUME IInv, Geometry, NEW c \in DOMAIN Place, NEW k, InRange(k), Place[c] <= k, NEW x
  PROVE  x \in Before(c, Plus(tail, k)) <=>
           x \in DOMAIN Place /\ Place[c] <= Place[x] /\ Place[x] + Length <= k
<1> DEFINE s == ListFrom(c)
           I == {i \in 1 .. Len(s) : Holds(Place, s[i], k)}
           m == FirstOf(I)
           B == Before(c, Plus(tail, k))
<1>1. Suffix(s, c)
  BY SuffixIs
<1>2. /\ SelectInSeq(s, LAMBDA d : Includes(d, Plus(tail, k))) = m
      /\ Place[c] <= k /\ k < Reach => I # {}
  BY SearchIs
<1>3. B = ToSet(IF m = 0 THEN s ELSE SubSeq(s, 1, m - 1))
  BY <1>2 DEF Before
<1>4. s \in Seq(Chunks) /\ Len(s) \in Nat /\ Once(s) /\ I \in SUBSET (1 .. Len(s))
  BY <1>1 DEF Suffix
<1>5. k \in Int /\ Place[c] \in Int /\ Reach \in Int /\ Length \in Nat /\ Length > 0
      /\ \A d \in DOMAIN Place : Place[d] \in Int /\ Place[d] + Length <= Reach
  BY ListIs, Sizes DEF InRange
<1>6. /\ I = {} => m = 0
      /\ I # {} => m \in I /\ m \in 1 .. Len(s) /\ m # 0
  <2> HIDE DEF s, I, m
  <2> QED
    BY <1>4, FirstIs DEF m
<1>7. m \in I => Place[s[m]] <= k /\ k < Place[s[m]] + Length
  BY DEF I, Holds
<1> HIDE DEF s, I, m, B, Place, Reach
<1>8. CASE I = {}
  <2>1. B = ToSet(s) /\ Reach <= k
    BY <1>2, <1>3, <1>5, <1>6, <1>8
  <2>2. x \in ToSet(s) <=> \E i \in 1 .. Len(s) : x = s[i]
    BY <1>4, LenProperties DEF ToSet
  <2>3. x \in ToSet(s) <=> x \in DOMAIN Place /\ Place[c] <= Place[x]
    BY <1>1, <2>2 DEF Suffix
  <2>4. x \in DOMAIN Place => Place[x] + Length <= k
    BY <1>5, <2>1
  <2> QED
    BY <2>1, <2>3, <2>4 DEF B
<1>9. CASE I # {}
  <2>1. m \in 1 .. Len(s) /\ m # 0 /\ m - 1 \in 0 .. Len(s) /\ s[m] \in DOMAIN Place
        /\ Place[s[m]] <= k /\ k < Place[s[m]] + Length
    BY <1>1, <1>4, <1>6, <1>7, <1>9 DEF Suffix
  <2>2. x \in B <=> \E i \in 1 .. m - 1 : x = s[i]
    BY <1>3, <1>4, <2>1, FirstPart
  <2>3. ASSUME NEW i \in 1 .. m - 1, x = s[i]
        PROVE  x \in DOMAIN Place /\ Place[c] <= Place[x] /\ Place[x] + Length <= k
    <3>1. i \in 1 .. Len(s) /\ i < m
      BY <1>4, <2>1
    <3>2. x \in DOMAIN Place /\ Place[c] <= Place[x] /\ Place[x] + Length <= Place[s[m]]
      BY <1>1, <2>1, <2>3, <3>1 DEF Suffix
    <3> QED
      BY <1>5, <2>1, <3>2
  <2>4. ASSUME x \in DOMAIN Place, Place[c] <= Place[x], Place[x] + Length <= k
        PROVE  \E i \in 1 .. m - 1 : x = s[i]
    <3>1. PICK i \in 1 .. Len(s) : x = s[i]
      BY <1>1, <2>4 DEF Suffix
    <3>2. i # m
      BY <1>5, <2>1, <2>4, <3>1
    <3>3. ~(m < i)
      <4> SUFFICES ASSUME m < i PROVE FALSE
        OBVIOUS
      <4>1. Place[s[m]] + Length <= Place[x]
        BY <1>1, <2>1, <3>1 DEF Suffix
      <4> QED
        BY <1>5, <2>1, <2>4, <4>1
    <3>4. i \in 1 .. m - 1
      BY <1>4, <2>1, <3>2, <3>3
    <3> QED
      BY <3>1, <3>4
  <2> QED
    BY <2>2, <2>3, <2>4 DEF B
<1> QED
  BY <1>8, <1>9

\* There is nothing after no chunk.
LEMMA NothingAfterNil ==
  ASSUME NEW p
  PROVE  FindChunk(Nil, p) = Nil /\ Before(Nil, p) = {}
<1> DEFINE N == Cardinality(Chunks)
           g == CHOOSE h : h = [k \in 0 .. N |->
                  IF k = 0 THEN Nil ELSE IF h[k - 1] = Nil THEN Nil ELSE next[h[k - 1]]]
           z == [k \in 0 .. N |-> Nil]
           l == ListFrom(Nil)
           I == {i \in 1 .. Len(l) : Includes(l[i], p)}
<1>1. N \in Nat
  BY Sizes, FS_CardinalityType
<1>2. z = [k \in 0 .. N |->
             IF k = 0 THEN Nil ELSE IF z[k - 1] = Nil THEN Nil ELSE next[z[k - 1]]]
  <2>1. \A k \in 0 .. N : k # 0 => k - 1 \in 0 .. N
    BY <1>1
  <2> QED
    BY <2>1
<1> HIDE DEF z, N
<1>3. g = [k \in 0 .. N |->
             IF k = 0 THEN Nil ELSE IF g[k - 1] = Nil THEN Nil ELSE next[g[k - 1]]]
  BY <1>2
<1> HIDE DEF g
<1>4. DOMAIN g = 0 .. N
  BY <1>3
<1>5. \A k \in 0 .. N : g[k] = IF k = 0 THEN Nil ELSE IF g[k - 1] = Nil THEN Nil ELSE next[g[k - 1]]
  BY <1>3
<1>6. \A k \in 0 .. N : g[k] = Nil
  <2> DEFINE B == {k \in 0 .. N : g[k] # Nil}
             m == Min(B)
  <2> SUFFICES ASSUME B # {} PROVE FALSE
    OBVIOUS
  <2>1. B \subseteq Nat
    BY <1>1
  <2>2. m \in B /\ \A y \in B : m <= y
    BY <2>1, MinIn
  <2>3. m \in 0 .. N /\ g[m] # Nil
    BY <2>2
  <2> HIDE DEF m
  <2>4. m # 0
    BY <1>5, <2>3
  <2>5. m - 1 \in 0 .. N /\ ~(m <= m - 1)
    BY <1>1, <2>3, <2>4
  <2>6. g[m - 1] = Nil
    BY <2>2, <2>5
  <2> QED
    BY <1>5, <2>3, <2>4, <2>6
<1>7. {j \in DOMAIN g : g[j] # Nil} = {}
  BY <1>4, <1>6
<1>8. l = [k \in 1 .. Cardinality({j \in DOMAIN g : g[j] # Nil}) |-> g[k - 1]]
  BY Zenon DEF ListFrom, g, N
<1>9. Cardinality({}) = 0
  BY FS_EmptySet
<1>10. l = <<>>
  <2>1. l = [k \in 1 .. 0 |-> g[k - 1]]
    BY <1>7, <1>8, <1>9
  <2>2. 1 .. 0 = {}
    OBVIOUS
  <2> QED
    BY <2>1, <2>2
<1> HIDE DEF l
<1>11. I = {} /\ Len(l) = 0
  BY <1>10
<1>12. SelectInSeq(l, LAMBDA d : Includes(d, p)) = IF I # {} THEN Min(I) ELSE 0
  BY DEF SelectInSeq
<1>13. SelectInSeq(l, LAMBDA d : Includes(d, p)) = 0
  BY <1>11, <1>12
<1>14. FindChunk(Nil, p) = Nil /\ Before(Nil, p) = ToSet(l)
  BY <1>13 DEF FindChunk, Before, l
<1> QED
  BY <1>10, <1>14 DEF ToSet

-----------------------------------------------------------------------------
(* Copies into and out of the list.                                        *)

\* svm_fifo_copy_to_chunk writes the bytes of the positions k to k + n - 1,
\* each where it belongs.
LEMMA CopyToIs ==
  ASSUME IInv, Geometry, NEW c, NEW k, InRange(k), Holds(Place, c, k), NEW n \in Nat,
         NEW d \in Chunks, NEW i \in 0 .. Length - 1
  PROVE  CopyTo(c, Plus(tail, k), n)[d][i] =
           IF d \in DOMAIN Place /\ k <= Place[d] + i /\ Place[d] + i < k + n
           THEN Plus(start[d], i) ELSE data[d][i]
<1> DEFINE s == ListFrom(c)
           p == Plus(tail, k)
           x == Place[d]
           y == Place[c]
           at == Diff(Plus(start[d], i), p)
           fill == Diff(tail, head)
           room == Free(head, tail)
<1>1. c \in DOMAIN Place /\ y <= k /\ k < y + Length
  BY DEF Holds
<1>2. Includes(c, p) /\ c # Nil
  BY <1>1, IncludesIs, ListIs
<1>3. CopyTo(c, p, n)[d][i] =
        IF d \in ToSet(s) /\ at \in 0 .. n - 1 THEN Plus(start[d], i) ELSE data[d][i]
  BY <1>2 DEF CopyTo
<1>4. Suffix(s, c)
  BY <1>1, SuffixIs
<1> HIDE DEF s
<1>5. d \in ToSet(s) <=> \E j \in 1 .. Len(s) : d = s[j]
  BY <1>4, LenProperties DEF Suffix, ToSet
<1>6. d \in ToSet(s) <=> d \in DOMAIN Place /\ y <= x
  BY <1>4, <1>5 DEF Suffix
<1>7. k \in Int /\ -fill <= k /\ k <= room
  BY DEF InRange
<1>8. tail \in Pos /\ tail \in Int /\ fill \in Nat /\ room \in Nat /\ room = Size - fill
  BY FillIs
<1>9. /\ W \in Nat /\ Length \in Nat /\ Length > 0 /\ Size \in Nat /\ MinAlloc \in Nat
      /\ 2 * (Size + 2 * Length) <= W /\ 2 * (Size + MinAlloc + Length) <= W
  BY Bounds
<1>10. CASE d \notin DOMAIN Place
  BY <1>3, <1>6, <1>10
<1>11. CASE d \in DOMAIN Place
  <2>1. x \in Int /\ start[d] = Plus(tail, x) /\ x + Length <= Reach /\ Reach \in Int
        /\ Reach < room + MinAlloc + Length /\ y \in Int
    BY <1>1, <1>11, ListIs
  <2>2. x # y => x + Length <= y \/ y + Length <= x
    BY <1>1, <1>11, ListIs DEF Apart
  <2> HIDE DEF x, y, fill, room
  <2>3. i \in Int /\ 0 <= i /\ i < Length
    BY <1>9
  <2>4. CASE y <= x
    <3>1. x + i \in Int /\ -W <= 2 * ((x + i) - k) /\ 2 * ((x + i) - k) < W
      BY <1>1, <1>7, <1>8, <1>9, <2>1, <2>3, <2>4
    <3>2. Plus(start[d], i) = Plus(tail, x + i)
      BY <1>8, <2>1, <2>3, PlusPlus
    <3>3. at = (x + i) - k
      BY <1>7, <1>8, <3>1, <3>2, Near
    <3> HIDE DEF at
    <3>4. at \in 0 .. n - 1 <=> k <= x + i /\ x + i < k + n
      BY <1>7, <3>1, <3>3
    <3> QED
      BY <1>3, <1>6, <1>11, <2>4, <3>4 DEF x
  <2>5. CASE ~(y <= x)
    <3>1. ~(k <= x + i)
      BY <1>1, <1>7, <1>9, <2>1, <2>2, <2>3, <2>5
    <3> QED
      BY <1>3, <1>6, <2>5, <3>1 DEF x
  <2> QED
    BY <2>4, <2>5
<1> QED
  BY <1>10, <1>11

\* Copied data is still a function from chunks to contents.
LEMMA CopyToType ==
  ASSUME IInv, data \in [Chunks -> [0 .. Length - 1 -> Pos \cup {Nil}]], NEW c, NEW p, NEW n
  PROVE  CopyTo(c, p, n) \in [Chunks -> [0 .. Length - 1 -> Pos \cup {Nil}]]
<1>1. ASSUME NEW d \in Chunks, NEW i \in 0 .. Length - 1 PROVE Plus(start[d], i) \in Pos
  <2>1. start[d] \in Pos
    BY DEF IInv, Types
  <2>2. start[d] \in Int /\ i \in Int
    BY <2>1, Sizes DEF Pos
  <2> QED
    BY <2>2, PlusIs
<1>2. ASSUME NEW d \in Chunks, NEW i \in 0 .. Length - 1 PROVE data[d][i] \in Pos \cup {Nil}
  OBVIOUS
<1> QED
  BY <1>1, <1>2 DEF CopyTo

\* svm_fifo_copy_from_chunk finds the bytes that arrived.
LEMMA ReadIs ==
  ASSUME IInv, Geometry, Bytes, NEW c, NEW k, Holds(Place, c, k), InRange(k), NEW n \in Nat,
         Kept <= k, k + n <= 0
  PROVE  Misread(c, Plus(tail, k), n) = {}
<1> DEFINE p == Plus(tail, k)
           fill == Diff(tail, head)
<1>1. c \in DOMAIN Place /\ Place[c] <= k /\ Includes(c, p) /\ c # Nil
  BY IncludesIs, ListIs DEF Holds
<1>2. k \in Int /\ -fill <= k /\ tail \in Pos /\ tail \in Int /\ fill \in Nat
      /\ Free(head, tail) \in Nat
  BY FillIs DEF InRange
<1>3. ASSUME NEW j \in 0 .. n - 1 PROVE CopyFrom(c, p, Plus(p, j)) = Plus(p, j)
  <2> DEFINE m == k + j
             q == Plus(p, j)
             d == FindChunk(c, q)
             i == m - Place[d]
  <2>1. m \in Int /\ j \in Int /\ k <= m /\ m < 0 /\ -fill <= m /\ m <= Free(head, tail)
    BY <1>2
  <2>2. q = Plus(tail, m)
    BY <1>2, <2>1, PlusPlus
  <2>3. InRange(m)
    BY <2>1 DEF InRange
  <2>4. Reach \in Int /\ 0 <= Reach /\ Place[c] \in Int
    BY <1>1, ListIs
  <2> HIDE DEF m, q
  <2>5. d # Nil /\ Holds(Place, d, m)
    <3>1. /\ d # Nil => Holds(Place, d, m) /\ Place[c] <= Place[d]
          /\ d = Nil => m < Place[c] \/ Reach <= m
      BY <1>1, <2>2, <2>3, FindIs
    <3> HIDE DEF d, Reach, Place
    <3>2. ~(m < Place[c]) /\ ~(Reach <= m)
      BY <1>1, <1>2, <2>1, <2>4
    <3> QED
      BY <3>1, <3>2
  <2>6. CopyFrom(c, p, q) = data[d][Diff(q, start[d])]
    BY <1>1, <2>5 DEF CopyFrom
  <2> HIDE DEF d
  <2>7. d \in DOMAIN Place /\ Place[d] <= m /\ m < Place[d] + Length
    BY <2>5 DEF Holds
  <2>8. Place[d] \in Int /\ start[d] = Plus(tail, Place[d])
    BY <2>7, ListIs
  <2>9. /\ W \in Nat /\ Length \in Nat /\ Length > 0 /\ Size \in Nat
        /\ 2 * (Size + 2 * Length) <= W
    BY Bounds
  <2>10. i \in 0 .. Length - 1 /\ i \in Int /\ Place[d] + i = m /\ -W <= 2 * i /\ 2 * i < W
    BY <2>1, <2>7, <2>8, <2>9
  <2>11. Diff(q, start[d]) = i
    <3>1. Diff(Plus(tail, m), Plus(tail, Place[d])) = m - Place[d]
      BY <1>2, <2>1, <2>8, <2>10, Near
    <3> QED
      BY <2>2, <2>8, <3>1
  <2>12. Plus(start[d], i) = q
    <3>1. Plus(Plus(tail, Place[d]), i) = Plus(tail, Place[d] + i)
      BY <1>2, <2>8, <2>10, PlusPlus
    <3> QED
      BY <2>2, <2>8, <2>10, <3>1
  <2>13. Arrived(m)
    <3>1. Written \in Int /\ Written >= 0
      BY DEF Written, IInv, Types
    <3>2. Kept \in Int /\ Kept <= k
      BY HeadIs
    <3>3. Kept <= m /\ m < Written
      BY <1>2, <2>1, <3>1, <3>2
    <3> QED
      BY <3>3 DEF Arrived
  <2>14. data[d][i] = Plus(start[d], i)
    <3> HIDE DEF i
    <3> QED
      BY <2>7, <2>10, <2>13 DEF Bytes
  <2> QED
    BY <2>6, <2>11, <2>12, <2>14 DEF q
<1> QED
  BY <1>3 DEF Misread

-----------------------------------------------------------------------------
(* The trees of chunks.                                                    *)

\* The chunks of a list r that Lookup enters when those of T are tracked.
EnteredOf(r, T, end) ==
  LET stop == SelectInSeq(r, LAMBDA d : d \in T)
      run == IF stop = 0 THEN r ELSE SubSeq(r, 1, stop - 1)
      last == SelectInSeq(run, LAMBDA d : Includes(d, end))
  IN ToSet(IF last = 0 THEN run ELSE SubSeq(run, 1, last))
Entered(c, T, end) ==
  EnteredOf(IF Includes(c, end) THEN <<>> ELSE Tail(ListFrom(c)), T, end)

\* They are the first m, up to a tracked one or to the one that holds the end.
FirstChunks(r, T, end, m) ==
  /\ m \in 0 .. Len(r)
  /\ \A x : x \in EnteredOf(r, T, end) <=> \E i \in 1 .. m : x = r[i]
  /\ \/ m >= 1 /\ Includes(r[m], end)
     \/ /\ \A i \in 1 .. m : ~Includes(r[i], end)
        /\ m < Len(r) => \E i \in 1 .. Len(r) : r[i] \in T

\* Such an m always exists.
LEMMA EnteredAre ==
  ASSUME NEW r \in Seq(Chunks), Once(r), NEW T, NEW end
  PROVE  \E m \in Nat : FirstChunks(r, T, end, m)
<1> DEFINE n == Len(r)
           S == {i \in 1 .. n : r[i] \in T}
           q == IF S = {} THEN n ELSE Min(S) - 1
           L == {i \in 1 .. q : Includes(r[i], end)}
           m == IF L = {} THEN q ELSE Min(L)
           stop == SelectInSeq(r, LAMBDA d : d \in T)
           run == IF stop = 0 THEN r ELSE SubSeq(r, 1, stop - 1)
           L2 == {i \in 1 .. Len(run) : Includes(run[i], end)}
           last == SelectInSeq(run, LAMBDA d : Includes(d, end))
<1>1. n \in Nat
  BY LenProperties
<1>2. S \in SUBSET (1 .. n) /\ S \subseteq Nat
  BY <1>1
<1>3. stop = FirstOf(S)
  BY DEF SelectInSeq, FirstOf
<1> HIDE DEF S
<1>4. S # {} => Min(S) \in S /\ Min(S) \in 1 .. n
  BY <1>2, MinIn
<1>5. q \in 0 .. n /\ q \in Nat
  BY <1>1, <1>4
<1>6. (S = {} => stop = 0) /\ (S # {} => stop = Min(S) /\ stop # 0)
  BY <1>3, <1>4 DEF FirstOf
<1> HIDE DEF q, stop
<1>7. run \in Seq(Chunks) /\ Once(run) /\ Len(run) = q /\ \A i \in 1 .. q : run[i] = r[i]
  <2>1. CASE S = {}
    BY <1>6, <2>1 DEF q
  <2>2. CASE S # {}
    <3> DEFINE a == SubSeq(r, 1, q)
    <3>1. run = a
      BY <1>6, <2>2 DEF q
    <3>2. a \in Seq(Chunks) /\ Once(a) /\ Len(a) = q /\ \A i \in 1 .. q : a[i] = r[i]
      BY <1>5, SplitOnce
    <3> HIDE DEF a, run
    <3> QED
      BY <3>1, <3>2
  <2> QED
    BY <2>1, <2>2
<1> HIDE DEF run
<1>8. L2 = L
  BY <1>7
<1>9. L \in SUBSET (1 .. q) /\ L \subseteq Nat
  BY <1>5
<1>10. last = FirstOf(L2)
  BY DEF SelectInSeq, FirstOf
<1> HIDE DEF L, L2
<1>11. L # {} => Min(L) \in L /\ Min(L) \in 1 .. q
  BY <1>9, MinIn
<1>12. m \in 0 .. q
  BY <1>5, <1>11
<1>13. (L = {} => last = 0) /\ (L # {} => last = Min(L) /\ last # 0)
  BY <1>8, <1>10, <1>11 DEF FirstOf
<1> HIDE DEF m, last
<1>14. ASSUME NEW x
       PROVE  x \in ToSet(IF last = 0 THEN run ELSE SubSeq(run, 1, last)) <=>
                \E i \in 1 .. m : x = r[i]
  <2>1. CASE L = {}
    <3>1. last = 0 /\ m = q
      BY <1>13, <2>1 DEF m
    <3>2. x \in ToSet(run) <=> \E i \in 1 .. q : x = run[i]
      BY <1>7, LenProperties DEF ToSet
    <3> QED
      BY <1>7, <3>1, <3>2
  <2>2. CASE L # {}
    <3>1. last # 0 /\ m = last /\ m \in 0 .. Len(run) /\ Len(run) \in Nat
      BY <1>5, <1>7, <1>12, <1>13, <2>2 DEF m
    <3>2. x \in ToSet(SubSeq(run, 1, m)) <=> \E i \in 1 .. m : x = run[i]
      BY <1>7, <3>1, FirstPart
    <3>3. \A i \in 1 .. m : run[i] = r[i]
      BY <1>5, <1>7, <1>12
    <3> QED
      BY <3>1, <3>2, <3>3
  <2> QED
    BY <2>1, <2>2
<1>15. EnteredOf(r, T, end) = ToSet(IF last = 0 THEN run ELSE SubSeq(run, 1, last))
  BY DEF EnteredOf, last, run, stop
<1>16. m \in 0 .. n /\ m \in Nat
  BY <1>1, <1>5, <1>12
<1>17. CASE L = {}
  <2>1. m = q /\ \A i \in 1 .. q : ~Includes(r[i], end)
    BY <1>17 DEF m, L
  <2>2. q < n => \E i \in 1 .. n : r[i] \in T
    BY <1>4 DEF q, S
  <2>3. \A x : x \in EnteredOf(r, T, end) <=> \E i \in 1 .. m : x = r[i]
    BY <1>14, <1>15
  <2>4. FirstChunks(r, T, end, m)
    BY <1>16, <2>1, <2>2, <2>3 DEF FirstChunks
  <2> QED
    BY <1>16, <2>4
<1>18. CASE L # {}
  <2>1. m = Min(L) /\ Min(L) \in L
    BY <1>11, <1>18 DEF m
  <2>2. m \in 1 .. q /\ Includes(r[m], end)
    BY <2>1 DEF L
  <2>3. \A x : x \in EnteredOf(r, T, end) <=> \E i \in 1 .. m : x = r[i]
    BY <1>14, <1>15
  <2>4. m >= 1
    BY <1>5, <2>2
  <2>5. FirstChunks(r, T, end, m)
    BY <1>16, <2>2, <2>3, <2>4 DEF FirstChunks
  <2> QED
    BY <1>16, <2>5
<1> QED
  BY <1>17, <1>18

\* The rest of the list after chunk c.
After(r, c) ==
  /\ r \in Seq(Chunks) /\ Len(r) \in Nat /\ Once(r)
  /\ \A i \in 1 .. Len(r) : r[i] \in DOMAIN Place /\ Place[c] < Place[r[i]]
  /\ \A d \in DOMAIN Place : Place[c] < Place[d] => \E i \in 1 .. Len(r) : d = r[i]
  /\ \A i, j \in 1 .. Len(r) : i < j => Place[r[i]] + Length <= Place[r[j]]

\* The tail of the list from c on is that rest.
LEMMA AfterIs ==
  ASSUME IInv, Geometry, NEW c \in DOMAIN Place
  PROVE  After(Tail(ListFrom(c)), c)
<1> DEFINE s == ListFrom(c)
           r == Tail(s)
           n == Len(s)
<1>1. Suffix(s, c)
  BY SuffixIs
<1>2. s \in Seq(Chunks) /\ n \in Nat /\ n > 0 /\ s[1] = c /\ Once(s)
  BY <1>1 DEF Suffix
<1>3. \A d \in DOMAIN Place : Place[d] \in Int
  BY ListIs
<1>4. Length \in Nat /\ Length > 0
  BY Sizes
<1> HIDE DEF s
<1>5. r = SubSeq(s, 1 + 1, n)
  <2>1. s # <<>> /\ 1 + 1 = 2
    BY <1>2
  <2>2. r = SubSeq(s, 2, n)
    BY <1>2, <2>1, HeadTailProperties
  <2> QED
    BY <2>1, <2>2
<1>6. 1 \in 0 .. n
  BY <1>2
<1>7. /\ r \in Seq(Chunks) /\ Len(r) = n - 1 /\ Once(r)
      /\ \A i \in 1 .. n - 1 : r[i] = s[1 + i]
  <2> DEFINE b == SubSeq(s, 1 + 1, Len(s))
  <2>1. /\ b \in Seq(Chunks) /\ Len(b) = Len(s) - 1 /\ Once(b)
        /\ \A i \in 1 .. Len(s) - 1 : b[i] = s[1 + i]
    BY <1>2, <1>6, SplitOnce
  <2>2. r = b
    BY <1>5
  <2> HIDE DEF b, r
  <2> QED
    BY <2>1, <2>2
<1> HIDE DEF r, Place
<1>8. ASSUME NEW i \in 1 .. n - 1
      PROVE  1 + i \in 1 .. n /\ r[i] = s[1 + i] /\ r[i] \in DOMAIN Place
             /\ Place[c] < Place[r[i]]
  <2>1. 1 + i \in 1 .. n /\ 1 \in 1 .. n /\ 1 < 1 + i
    BY <1>2
  <2>2. r[i] = s[1 + i] /\ r[i] \in DOMAIN Place /\ Place[c] + Length <= Place[r[i]]
    BY <1>1, <1>2, <1>7, <2>1 DEF Suffix
  <2> QED
    BY <1>3, <1>4, <2>1, <2>2
<1>9. ASSUME NEW d \in DOMAIN Place, Place[c] < Place[d] PROVE \E i \in 1 .. n - 1 : d = r[i]
  <2>1. Place[c] \in Int /\ Place[d] \in Int
    BY <1>3
  <2>2. PICK j \in 1 .. n : d = s[j]
    BY <1>1, <1>9, <2>1 DEF Suffix
  <2>3. j # 1
    BY <1>2, <1>9, <2>1, <2>2
  <2>4. j - 1 \in 1 .. n - 1 /\ 1 + (j - 1) = j
    BY <1>2, <2>3
  <2>5. r[j - 1] = s[1 + (j - 1)]
    BY <1>7, <2>4
  <2> QED
    BY <2>2, <2>4, <2>5
<1>10. ASSUME NEW i \in 1 .. n - 1, NEW j \in 1 .. n - 1, i < j
       PROVE  Place[r[i]] + Length <= Place[r[j]]
  <2>1. 1 + i \in 1 .. n /\ 1 + j \in 1 .. n /\ r[i] = s[1 + i] /\ r[j] = s[1 + j]
    BY <1>8
  <2>2. 1 + i < 1 + j
    BY <1>2, <1>10
  <2> QED
    BY <1>1, <2>1, <2>2 DEF Suffix
<1>11. Len(r) \in Nat
  BY <1>2, <1>7
<1> QED
  BY <1>7, <1>8, <1>9, <1>10, <1>11 DEF After, r, s

\* What Lookup enters follows chunk c without a gap, begins no later than the
\* end, and has the chunk of the position unless c itself is that chunk.
EnteredProp(N, c, k, y) ==
  /\ \A x \in N : x \in DOMAIN Place /\ Place[c] < Place[x] /\ Place[x] <= y
  /\ \A x \in DOMAIN Place, d \in N : Place[c] < Place[x] /\ Place[x] <= Place[d] => x \in N
  /\ ~Holds(Place, c, k) => \E x \in N : Holds(Place, x, k)

\* The chunks that Lookup enters have that property.
LEMMA EnteredIs ==
  ASSUME IInv, Geometry, NEW c \in DOMAIN Place, NEW T, NEW k, NEW y, InRange(k), InRange(y),
         Place[c] <= k, k < y, y <= Reach,
         ~Holds(Place, c, k) => \A d \in T : d \in DOMAIN Place /\ Place[d] <= Place[c]
  PROVE  EnteredProp(Entered(c, T, Plus(tail, y)), c, k, y)
<1> DEFINE end == Plus(tail, y)
           N == Entered(c, T, end)
           r == IF Includes(c, end) THEN <<>> ELSE Tail(ListFrom(c))
           n == Len(r)
<1>1. k \in Int /\ y \in Int /\ Place[c] \in Int /\ Reach \in Int /\ Length \in Nat /\ Length > 0
      /\ Place[startC] \in Int /\ Place[startC] <= Place[c]
      /\ \A d \in DOMAIN Place : Place[d] \in Int /\ Place[d] + Length <= Reach
  BY ListIs, Sizes DEF InRange
<1>2. Includes(c, end) <=> Holds(Place, c, y)
  BY IncludesIs
<1>3. r = <<>> \/ After(r, c)
  BY AfterIs
<1>4. r \in Seq(Chunks) /\ Once(r)
  <2>1. CASE r = <<>>
    <3>1. <<>> \in Seq(Chunks) /\ Once(<<>>)
      BY EmptySeq DEF Once
    <3> QED
      BY <2>1, <3>1
  <2>2. CASE After(r, c)
    BY <2>2 DEF After
  <2> QED
    BY <1>3, <2>1, <2>2
<1>5. ~Includes(c, end) => After(r, c)
  BY AfterIs
<1>6. N = EnteredOf(r, T, end)
  BY DEF Entered
<1> HIDE DEF r, N
<1>7. PICK m \in Nat : FirstChunks(r, T, end, m)
  BY <1>4, EnteredAre
<1>8. n \in Nat /\ m \in 0 .. n /\ \A x : x \in N <=> \E i \in 1 .. m : x = r[i]
  BY <1>4, <1>6, <1>7, LenProperties DEF FirstChunks
<1>9. ASSUME NEW i \in 1 .. n
      PROVE  /\ r[i] \in DOMAIN Place /\ Place[c] < Place[r[i]] /\ Place[r[i]] \in Int
             /\ Includes(r[i], end) <=> Holds(Place, r[i], y)
  <2>1. After(r, c)
    <3>1. r = <<>> => n = 0
      OBVIOUS
    <3> QED
      BY <1>3, <3>1
  <2>2. r[i] \in DOMAIN Place /\ Place[c] < Place[r[i]]
    BY <2>1 DEF After
  <2> QED
    BY <1>1, <2>2, IncludesIs
<1>10. \A i, j \in 1 .. n : i < j => Place[r[i]] + Length <= Place[r[j]]
  <2>1. r = <<>> => n = 0
    OBVIOUS
  <2>2. r = <<>> => 1 .. n = {}
    BY <2>1
  <2> QED
    BY <1>3, <2>2 DEF After
<1>11. ~Includes(c, end) =>
         \A d \in DOMAIN Place : Place[c] < Place[d] => \E i \in 1 .. n : d = r[i]
  BY <1>5 DEF After
<1>12. \A i \in 1 .. m : i \in 1 .. n
  BY <1>8
<1>13. \/ m \in 1 .. n /\ Holds(Place, r[m], y)
       \/ /\ \A i \in 1 .. m : ~Holds(Place, r[i], y)
          /\ m < n => \E i \in 1 .. n : r[i] \in T
  <2>1. CASE m >= 1 /\ Includes(r[m], end)
    <3>1. m \in 1 .. n
      BY <1>8, <2>1
    <3> QED
      BY <1>9, <2>1, <3>1
  <2>2. CASE /\ \A i \in 1 .. m : ~Includes(r[i], end)
             /\ m < n => \E i \in 1 .. n : r[i] \in T
    BY <1>9, <1>12, <2>2
  <2> QED
    BY <1>7, <2>1, <2>2 DEF FirstChunks
<1> HIDE DEF n, end, Place, Reach
<1>14. \A i, j \in 1 .. n : Place[r[i]] <= Place[r[j]] => i <= j
  <2> SUFFICES ASSUME NEW i \in 1 .. n, NEW j \in 1 .. n, Place[r[i]] <= Place[r[j]], j < i
               PROVE  FALSE
    BY <1>8
  <2>1. Place[r[j]] + Length <= Place[r[i]]
    BY <1>10
  <2> QED
    BY <1>1, <1>9, <2>1
<1>15. ASSUME NEW x \in N
       PROVE  x \in DOMAIN Place /\ Place[c] < Place[x] /\ Place[x] <= y
  <2>1. PICK i \in 1 .. m : x = r[i]
    BY <1>8
  <2>2. i \in 1 .. n /\ m \in 1 .. n
    BY <1>8
  <2>3. r[i] \in DOMAIN Place /\ Place[c] < Place[r[i]] /\ Place[r[i]] \in Int
    BY <1>9, <2>2
  <2>4. CASE Holds(Place, r[m], y)
    <3>1. Holds(Place, r[m], y)
      BY <2>4
    <3>2. Place[r[m]] <= y /\ Place[r[m]] \in Int
      BY <1>9, <2>2, <3>1 DEF Holds
    <3>3. i = m \/ i < m
      BY <1>8
    <3>4. i < m => Place[r[i]] + Length <= Place[r[m]]
      BY <1>10, <2>2
    <3>5. i = m => Place[r[i]] = Place[r[m]]
      OBVIOUS
    <3>6. Place[r[i]] <= y
      BY <1>1, <2>3, <3>2, <3>3, <3>4, <3>5
    <3> QED
      BY <2>1, <2>3, <3>6
  <2>5. CASE \A j \in 1 .. m : ~Holds(Place, r[j], y)
    <3>1. ASSUME ~(Place[r[i]] <= y) PROVE FALSE
      <4>1. Place[startC] <= y /\ y < Reach
        BY <1>1, <2>3, <3>1
      <4>2. PICK h \in DOMAIN Place : Holds(Place, h, y)
        BY <1>1, <4>1, HolderIs
      <4>3. Place[h] <= y /\ y < Place[h] + Length /\ Place[h] \in Int
        BY <1>1, <4>2 DEF Holds
      <4>4. ~Includes(c, end)
        <5>1. r # <<>>
          <6> SUFFICES ASSUME r = <<>> PROVE FALSE
            OBVIOUS
          <6>1. n = 0
            BY DEF n
          <6> QED
            BY <2>2, <6>1
        <5> QED
          BY <5>1 DEF r
      <4>5. h # c
        BY <1>2, <4>2, <4>4
      <4>6. Place[c] + Length <= Place[h] \/ Place[h] + Length <= Place[c]
        BY <4>5, ListIs DEF Apart
      <4>7. Place[c] < Place[h]
        BY <1>1, <4>3, <4>6
      <4>8. PICK j \in 1 .. n : h = r[j]
        BY <1>11, <4>4, <4>7
      <4>9. Place[r[j]] <= Place[r[i]]
        BY <1>1, <2>3, <3>1, <4>3, <4>8
      <4>10. j <= i
        BY <1>14, <2>2, <4>9
      <4>11. j \in 1 .. m
        BY <1>8, <2>2, <4>10
      <4> QED
        BY <2>5, <4>2, <4>8, <4>11
    <3> QED
      BY <2>1, <2>3, <3>1
  <2> QED
    BY <1>13, <2>4, <2>5
<1>16. ASSUME NEW x \in DOMAIN Place, NEW d \in N, Place[c] < Place[x], Place[x] <= Place[d]
       PROVE  x \in N
  <2>1. PICK i \in 1 .. m : d = r[i]
    BY <1>8
  <2>2. i \in 1 .. n
    BY <1>8
  <2>3. ~Includes(c, end)
    <3>1. r # <<>>
      <4> SUFFICES ASSUME r = <<>> PROVE FALSE
        OBVIOUS
      <4>1. n = 0
        BY DEF n
      <4> QED
        BY <2>2, <4>1
    <3> QED
      BY <3>1 DEF r
  <2>4. PICK j \in 1 .. n : x = r[j]
    BY <1>11, <1>16, <2>3
  <2>5. j <= i
    BY <1>14, <1>16, <2>1, <2>2, <2>4
  <2>6. j \in 1 .. m
    BY <1>8, <2>1, <2>4, <2>5
  <2> QED
    BY <1>8, <2>4, <2>6
<1>17. ASSUME ~Holds(Place, c, k) PROVE \E x \in N : Holds(Place, x, k)
  <2>1. Place[c] + Length <= k
    BY <1>1, <1>17 DEF Holds
  <2>2. Place[startC] <= k /\ k < Reach
    BY <1>1
  <2>3. PICK h \in DOMAIN Place : Holds(Place, h, k)
    BY <1>1, <2>2, HolderIs
  <2>4. Place[h] <= k /\ k < Place[h] + Length /\ Place[h] \in Int
    BY <1>1, <2>3 DEF Holds
  <2>5. Place[c] < Place[h]
    BY <1>1, <2>1, <2>4
  <2>6. ~Includes(c, end)
    <3>1. ~Holds(Place, c, y)
      BY <1>1, <2>1 DEF Holds
    <3> QED
      BY <1>2, <3>1
  <2>7. PICK j \in 1 .. n : h = r[j]
    BY <1>11, <2>5, <2>6
  <2>8. \A i \in 1 .. n : r[i] \notin T
    <3> SUFFICES ASSUME NEW i \in 1 .. n, r[i] \in T PROVE FALSE
      OBVIOUS
    <3>1. Place[c] < Place[r[i]] /\ Place[r[i]] \in Int /\ Place[r[i]] <= Place[c]
      BY <1>9, <1>17
    <3> QED
      BY <1>1, <3>1
  <2>9. j \in 1 .. m
    <3>1. CASE ~(m < n)
      BY <1>8, <3>1
    <3>2. CASE m \in 1 .. n /\ Holds(Place, r[m], y)
      <4>1. y < Place[r[m]] + Length /\ Place[r[m]] \in Int
        BY <1>9, <3>2 DEF Holds
      <4>2. m < j => Place[r[m]] + Length <= Place[r[j]]
        BY <1>10, <3>2
      <4>3. ~(m < j)
        BY <1>1, <2>4, <2>7, <4>1, <4>2
      <4> QED
        BY <1>8, <4>3
    <3> QED
      BY <1>13, <2>8, <3>1, <3>2
  <2> QED
    BY <1>8, <2>3, <2>7, <2>9
<1> QED
  BY <1>15, <1>16, <1>17 DEF EnteredProp, N, end

\* The chunks of a tree, and the keys compared.
LEMMA TreeIs ==
  ASSUME IInv, Geometry, NEW T, T \subseteq DOMAIN Place
  PROVE  /\ Tracked(TreeOf(T)) = T /\ (TreeOf(T) = {} <=> T = {})
         /\ \A e \in TreeOf(T) : e[2] \in T /\ e[1] = start[e[2]] /\ e \in Pos \X Chunks
         /\ \A c, d \in T : f_pos_leq(start[c], start[d]) <=> Place[c] <= Place[d]
         /\ \A d \in T : \A k : InRange(k) => (f_pos_leq(start[d], Plus(tail, k)) <=> Place[d] <= k)
<1>1. Tracked(TreeOf(T)) = T /\ (TreeOf(T) = {} <=> T = {})
  <2>1. \A d \in T : <<start[d], d>> \in TreeOf(T) /\ <<start[d], d>>[2] = d
    BY DEF TreeOf
  <2>2. \A e \in TreeOf(T) : e[2] \in T
    BY DEF TreeOf
  <2>3. \A x : x \in Tracked(TreeOf(T)) <=> \E e \in TreeOf(T) : x = e[2]
    BY DEF Tracked
  <2>4. \A x : x \in Tracked(TreeOf(T)) <=> x \in T
    BY <2>1, <2>2, <2>3
  <2>5. TreeOf(T) = {} <=> T = {}
    BY <2>1, <2>2
  <2> QED
    BY <2>4, <2>5
<1>2. \A d \in T : d \in Chunks /\ start[d] \in Pos
  BY ListIs DEF IInv, Types
<1>3. \A e \in TreeOf(T) : e[2] \in T /\ e[1] = start[e[2]] /\ e \in Pos \X Chunks
  BY <1>2 DEF TreeOf
<1> DEFINE fill == Diff(tail, head)
           room == Free(head, tail)
<1>4. tail \in Pos /\ tail \in Int /\ fill \in Nat /\ room \in Nat /\ room = Size - fill
  BY FillIs
<1>5. \A c \in T : /\ Place[c] \in Int /\ start[c] = Plus(tail, Place[c])
                   /\ Place[c] + Length <= Reach /\ -(fill + Length) <= Place[c]
  BY ListIs
<1>6. Reach \in Int /\ Reach < room + MinAlloc + Length
  BY ListIs
<1>7. /\ W \in Nat /\ Length \in Nat /\ Length > 0 /\ Size \in Nat /\ MinAlloc \in Nat
      /\ 2 * (Size + 2 * Length) <= W /\ 2 * (Size + MinAlloc + Length) <= W
  BY Bounds
<1>8. ASSUME NEW k, InRange(k) PROVE k \in Int /\ -fill <= k /\ k <= room
  BY <1>8 DEF InRange
<1> HIDE DEF fill, room, Place, Reach
<1>9. ASSUME NEW c \in T, NEW d \in T
      PROVE  f_pos_leq(start[c], start[d]) <=> Place[c] <= Place[d]
  <2> DEFINE x == Place[c]
             y == Place[d]
  <2>1. x \in Int /\ start[c] = Plus(tail, x) /\ x + Length <= Reach /\ -(fill + Length) <= x
    BY <1>5
  <2>2. y \in Int /\ start[d] = Plus(tail, y) /\ y + Length <= Reach /\ -(fill + Length) <= y
    BY <1>5
  <2> HIDE DEF x, y
  <2>3. -W <= 2 * (x - y) /\ 2 * (x - y) < W
    BY <1>4, <1>6, <1>7, <2>1, <2>2
  <2>4. f_pos_leq(Plus(tail, x), Plus(tail, y)) <=> x <= y
    BY <1>4, <2>1, <2>2, <2>3, Near
  <2> QED
    BY <2>1, <2>2, <2>4 DEF x, y
<1>10. ASSUME NEW d \in T, NEW k, InRange(k)
       PROVE  f_pos_leq(start[d], Plus(tail, k)) <=> Place[d] <= k
  <2> DEFINE x == Place[d]
  <2>1. x \in Int /\ start[d] = Plus(tail, x) /\ x + Length <= Reach /\ -(fill + Length) <= x
    BY <1>5
  <2>2. k \in Int /\ -fill <= k /\ k <= room
    BY <1>8, <1>10
  <2> HIDE DEF x
  <2>3. -W <= 2 * (x - k) /\ 2 * (x - k) < W
    BY <1>4, <1>6, <1>7, <2>1, <2>2
  <2>4. f_pos_leq(Plus(tail, x), Plus(tail, k)) <=> x <= k
    BY <1>4, <2>1, <2>2, <2>3, Near
  <2> QED
    BY <2>1, <2>4 DEF x
<1> QED
  BY <1>1, <1>3, <1>9, <1>10

\* f_find_node_rbtree returns the last tracked chunk that begins at or before
\* the position.
LEMMA NodeIs ==
  ASSUME IInv, Geometry, NEW T, T \subseteq DOMAIN Place, NEW k, InRange(k),
         NEW t \in T, Place[t] <= k
  PROVE  LET c == FindNode(TreeOf(T), Plus(tail, k))[2]
         IN c \in T /\ Place[c] <= k /\ \A g \in T : Place[g] <= k => Place[g] <= Place[c]
<1> DEFINE p == Plus(tail, k)
           V == {k - Place[d] : d \in {g \in T : Place[g] <= k}}
           Good(e) == /\ f_pos_leq(e[1], p)
                      /\ \A g \in TreeOf(T) : f_pos_leq(g[1], p) => f_pos_leq(g[1], e[1])
           n == FindNode(TreeOf(T), p)
<1>1. k \in Int /\ \A d \in T : Place[d] \in Int
  BY ListIs DEF InRange
<1>2. V \subseteq Nat /\ V # {}
  <2> HIDE DEF Place
  <2> QED
    BY <1>1
<1>3. Min(V) \in V /\ \A v \in V : Min(V) <= v
  BY <1>2, MinIn
<1>4. PICK b \in T : Place[b] <= k /\ Min(V) = k - Place[b]
  BY <1>3
<1>5. \A g \in T : Place[g] <= k => Place[g] <= Place[b]
  <2> HIDE DEF Place
  <2> SUFFICES ASSUME NEW g \in T, Place[g] <= k PROVE Place[g] <= Place[b]
    OBVIOUS
  <2>1. k - Place[g] \in V
    OBVIOUS
  <2>2. k - Place[b] <= k - Place[g]
    BY <1>3, <1>4, <2>1
  <2> QED
    BY <1>1, <2>2
<1> HIDE DEF V
<1>6. /\ \A e \in TreeOf(T) : e[2] \in T /\ e[1] = start[e[2]]
      /\ \A c, d \in T : f_pos_leq(start[c], start[d]) <=> Place[c] <= Place[d]
      /\ \A d \in T : f_pos_leq(start[d], p) <=> Place[d] <= k
  BY TreeIs
<1>7. \A d \in T : <<start[d], d>> \in TreeOf(T)
  BY DEF TreeOf
<1>8. Good(<<start[b], b>>)
  <2> HIDE DEF Place
  <2> QED
    BY <1>4, <1>5, <1>6
<1>9. n = CHOOSE e \in TreeOf(T) : Good(e)
  BY DEF FindNode
<1> HIDE DEF Good, n
<1>10. n \in TreeOf(T) /\ Good(n)
  BY <1>7, <1>8, <1>9
<1>11. n[2] \in T /\ n[1] = start[n[2]]
  BY <1>6, <1>10
<1>12. Place[n[2]] <= k
  BY <1>6, <1>10, <1>11 DEF Good
<1>13. ASSUME NEW g \in T, Place[g] <= k PROVE Place[g] <= Place[n[2]]
  <2>1. f_pos_leq(start[g], p)
    BY <1>6, <1>13
  <2>2. f_pos_leq(<<start[g], g>>[1], n[1])
    BY <1>7, <1>10, <2>1 DEF Good
  <2> QED
    BY <1>6, <1>11, <2>2
<1> QED
  BY <1>11, <1>12, <1>13 DEF n

\* What Lookup returns: a tree without gaps, which has the chunk of the position.
Found(r, T, lo, k, y) ==
  /\ r.tree = TreeOf(Tracked(r.tree)) /\ Dense(Tracked(r.tree), Place, lo)
  /\ \A d \in Tracked(r.tree) : d \in T \/ Place[d] <= y
  /\ Holds(Place, r.found, k)

\* f_update_ooo_enq and f_update_ooo_deq find the chunk of the position and keep
\* the tree without gaps.
LEMMA LookupIs ==
  ASSUME IInv, Geometry, NEW lo \in Int, Place[startC] <= lo, NEW c0, NEW T,
         Dense(T, Place, lo), Holds(Place, c0, lo),
         NEW k, NEW y, InRange(k), InRange(y), lo <= k, k < y, y <= Reach
  PROVE  Found(Lookup(TreeOf(T), c0, Plus(tail, k), Plus(tail, y)), T, lo, k, y)
<1> DEFINE p == Plus(tail, k)
           end == Plus(tail, y)
           c == IF T = {} THEN c0 ELSE FindNode(TreeOf(T), p)[2]
           N == Entered(c, T, end)
           new == N \cup IF T = {} THEN {c} ELSE {}
           seen == {d \in new \cup {c} : Includes(d, p)}
           r == Lookup(TreeOf(T), c0, p, end)
           T2 == T \cup new
<1>1. k \in Int /\ y \in Int /\ Reach \in Int /\ Length \in Nat /\ Length > 0
      /\ (\A d \in DOMAIN Place : Place[d] \in Int) /\ Apart(Place)
  BY ListIs, Sizes DEF InRange
<1>2. /\ T \subseteq DOMAIN Place /\ \A d \in T : Place[d] + Length > lo
      /\ \A x \in DOMAIN Place, d \in T : Place[x] <= Place[d] /\ Place[x] + Length > lo => x \in T
  BY DEF Dense
<1>3. c0 \in DOMAIN Place /\ Place[c0] <= lo /\ lo < Place[c0] + Length
  BY DEF Holds
<1>4. Tracked(TreeOf(T)) = T /\ (TreeOf(T) = {} <=> T = {})
  BY <1>2, TreeIs
<1>5. r.tree = TreeOf(T) \cup {<<start[d], d>> : d \in new}
      /\ r.found = IF seen = {} THEN Nil ELSE CHOOSE d \in seen : TRUE
  <2> DEFINE tree == TreeOf(T)
             c1 == IF tree = {} THEN c0 ELSE FindNode(tree, p)[2]
             new1 == Entered(c1, Tracked(tree), end) \cup IF tree = {} THEN {c1} ELSE {}
             seen1 == {d \in new1 \cup {c1} : Includes(d, p)}
  <2>1. r = [tree |-> tree \cup {<<start[d], d>> : d \in new1},
             found |-> IF seen1 = {} THEN Nil ELSE CHOOSE d \in seen1 : TRUE]
    BY Zenon DEF Lookup, Entered, EnteredOf
  <2> HIDE DEF r
  <2>2. r.tree = tree \cup {<<start[d], d>> : d \in new1}
        /\ r.found = IF seen1 = {} THEN Nil ELSE CHOOSE d \in seen1 : TRUE
    <3> HIDE DEF tree, new1, seen1
    <3> QED
      BY <2>1
  <2>3. c1 = c
    BY <1>4
  <2> HIDE DEF c1, c
  <2>4. new1 = new
    BY <1>4, <2>3
  <2> HIDE DEF new1, new
  <2>5. seen1 = seen
    BY <2>3, <2>4
  <2> HIDE DEF seen1, seen
  <2> QED
    BY <2>2, <2>4, <2>5
<1>6. /\ c \in DOMAIN Place /\ Place[c] <= k /\ Place[c] + Length > lo
      /\ T # {} => c \in T /\ \A g \in T : Place[g] <= k => Place[g] <= Place[c]
      /\ T = {} => c = c0
  <2>1. CASE T = {}
    <3>1. Place[c0] <= k
      <4> HIDE DEF Place
      <4> QED
        BY <1>1, <1>3
    <3> QED
      BY <1>3, <2>1, <3>1
  <2>2. CASE T # {}
    <3>1. PICK d \in T : TRUE
      BY <2>2
    <3>2. Place[c0] <= k /\ Place[c0] <= Place[d]
      <4>1. Place[d] \in Int /\ Place[d] + Length > lo /\ Place[c0] \in Int
            /\ (c0 # d => Place[c0] + Length <= Place[d] \/ Place[d] + Length <= Place[c0])
        BY <1>1, <1>2, <1>3 DEF Apart
      <4> HIDE DEF Place
      <4> QED
        BY <1>1, <1>3, <4>1
    <3>3. c0 \in T
      BY <1>2, <1>3, <3>2
    <3>4. c \in T /\ Place[c] <= k /\ \A g \in T : Place[g] <= k => Place[g] <= Place[c]
      BY <1>2, <2>2, <3>2, <3>3, NodeIs
    <3> HIDE DEF c, Place
    <3> QED
      BY <1>2, <2>2, <3>4
  <2> QED
    BY <2>1, <2>2
<1> HIDE DEF c, r
<1>7. ~Holds(Place, c, k) => \A d \in T : d \in DOMAIN Place /\ Place[d] <= Place[c]
  <2> HIDE DEF Place, Reach
  <2> SUFFICES ASSUME ~Holds(Place, c, k), NEW d \in T, ~(Place[d] <= Place[c]) PROVE FALSE
    BY <1>2
  <2>1. Place[c] + Length <= k /\ Place[c] \in Int /\ Place[d] \in Int /\ d \in DOMAIN Place
    BY <1>1, <1>2, <1>6 DEF Holds
  <2>2. ~(Place[d] <= k) /\ c \in T
    BY <1>6
  <2>3. Place[startC] <= k /\ k < Reach
    <3>1. Place[startC] \in Int
      BY <1>1, ListIs
    <3> QED
      BY <1>1, <3>1
  <2>4. PICK h \in DOMAIN Place : Holds(Place, h, k)
    BY <1>1, <2>3, HolderIs
  <2>5. Place[h] <= k /\ k < Place[h] + Length /\ Place[h] \in Int
    BY <1>1, <2>4 DEF Holds
  <2>6. h \in T
    <3>1. Place[h] <= Place[d] /\ Place[h] + Length > lo
      BY <1>1, <2>1, <2>2, <2>5
    <3> QED
      BY <1>2, <3>1
  <2>7. Place[h] <= Place[c]
    BY <1>6, <2>2, <2>5, <2>6
  <2> QED
    BY <1>1, <2>1, <2>5, <2>7
<1>8. EnteredProp(N, c, k, y)
  BY <1>6, <1>7, EnteredIs
<1> HIDE DEF N
<1>9. /\ \A x \in N : x \in DOMAIN Place /\ Place[c] < Place[x] /\ Place[x] <= y
      /\ \A x \in DOMAIN Place, d \in N : Place[c] < Place[x] /\ Place[x] <= Place[d] => x \in N
      /\ ~Holds(Place, c, k) => \E x \in N : Holds(Place, x, k)
  BY <1>8 DEF EnteredProp
<1>10. new \subseteq DOMAIN Place /\ T2 \subseteq DOMAIN Place /\ c \in T2
  BY <1>2, <1>6, <1>9
<1>11. r.tree = TreeOf(T2) /\ Tracked(r.tree) = T2
  <2>1. r.tree = TreeOf(T2)
    <3> HIDE DEF new, seen
    <3> QED
      BY <1>5 DEF TreeOf
  <2> HIDE DEF T2
  <2> QED
    BY <1>10, <2>1, TreeIs
<1>12. \A d \in T2 : d \in T \/ Place[d] <= y
  <2> HIDE DEF Place
  <2>1. Place[c] <= y
    BY <1>1, <1>6
  <2> QED
    BY <1>9, <2>1
<1>13. Dense(T2, Place, lo)
  <2> HIDE DEF Place
  <2>1. ASSUME NEW d \in T2 PROVE Place[d] + Length > lo
    <3>1. d \in T \/ d = c \/ (d \in N /\ Place[c] < Place[d])
      BY <1>9
    <3>2. Place[d] \in Int /\ Place[c] \in Int
      BY <1>1, <1>6, <1>10
    <3> QED
      BY <1>1, <1>2, <1>6, <3>1, <3>2
  <2>2. ASSUME NEW x \in DOMAIN Place, Place[x] <= Place[c], Place[x] + Length > lo
        PROVE  x \in T2
    <3>1. CASE T # {}
      BY <1>2, <1>6, <2>2, <3>1
    <3>2. CASE T = {}
      <4>1. x # c => Place[x] + Length <= Place[c] \/ Place[c] + Length <= Place[x]
        BY <1>1, <1>6 DEF Apart
      <4>2. c = c0 /\ Place[x] \in Int /\ Place[c] \in Int
        BY <1>1, <1>6, <3>2
      <4>3. x = c
        BY <1>1, <1>3, <2>2, <4>1, <4>2
      <4> QED
        BY <1>10, <4>3
    <3> QED
      BY <3>1, <3>2
  <2>3. ASSUME NEW x \in DOMAIN Place, NEW d \in T2, Place[x] <= Place[d], Place[x] + Length > lo
        PROVE  x \in T2
    <3>1. CASE d \in T
      BY <1>2, <2>3, <3>1
    <3>2. CASE d = c
      BY <2>2, <2>3, <3>2
    <3>3. CASE d \in N
      <4>1. CASE Place[c] < Place[x]
        BY <1>9, <2>3, <3>3, <4>1
      <4>2. CASE ~(Place[c] < Place[x])
        <5>1. Place[x] <= Place[c]
          BY <1>1, <1>6, <4>2
        <5> QED
          BY <2>2, <2>3, <5>1
      <4> QED
        BY <4>1, <4>2
    <3> QED
      BY <3>1, <3>2, <3>3
  <2> QED
    BY <1>10, <2>1, <2>3 DEF Dense
<1>14. Holds(Place, r.found, k)
  <2>1. \A d \in seen : Holds(Place, d, k)
    BY <1>6, <1>10, IncludesIs
  <2>2. seen # {}
    <3>1. PICK x \in new \cup {c} : Holds(Place, x, k)
      BY <1>9
    <3>2. x \in DOMAIN Place
      BY <3>1 DEF Holds
    <3>3. Includes(x, p)
      BY <3>1, <3>2, IncludesIs
    <3> QED
      BY <3>1, <3>3
  <2> HIDE DEF seen
  <2>3. r.found \in seen
    BY <1>5, <2>2
  <2> QED
    BY <2>1, <2>3
<1> QED
  BY <1>11, <1>12, <1>13, <1>14 DEF Found, r

-----------------------------------------------------------------------------
(* Steps that leave the list as it is.                                     *)

\* The list, the places of its chunks and tail are unchanged.
SameList ==
  /\ Linked' = Linked /\ Place' = Place /\ UNCHANGED <<tail, startC, endC>>
  /\ \A c \in DOMAIN Place : start'[c] = start[c]

\* So they are when no pointer changes.
LEMMA SameIs ==
  ASSUME UNCHANGED <<next, start, tail, startC, endC>>
  PROVE  SameList
<1>1. Linked' = Linked
  BY LinkedIs
<1>2. Place' = Place
  BY <1>1 DEF Place
<1> QED
  BY <1>1, <1>2 DEF SameList

\* And when only chunks outside the list change.
LEMMA SameOutside ==
  ASSUME IInv, UNCHANGED <<tail, startC, endC>>,
         \A c \in ToSet(Linked) : next'[c] = next[c] /\ start'[c] = start[c]
  PROVE  SameList
<1>1. Chain(next, Linked, startC, endC)
  BY DEF IInv, Lists
<1>2. Chain(next', Linked, startC, endC)
  BY <1>1, ChainSame
<1>3. Linked' = Linked
  BY <1>2, LinkedIs, ListOfChain
<1>4. Place' = Place /\ DOMAIN Place = ToSet(Linked)
  BY <1>3 DEF Place
<1> QED
  BY <1>3, <1>4 DEF SameList

\* The parts of the invariant in a step that leaves the list as it is.
LEMMA KeepGeometry ==
  ASSUME IInv, IInv', Geometry, SameList,
         Place[startC] <= Kept', Kept' <= Place[startC] + Length,
         Free(head, tail) <= Free(head', tail),
         prod'.pc \in {"copy", "store"} => prod'.off + prod'.len <= Reach,
         \A k \in Int : Covered(ooo', tail, k) => k < Reach,
         cons'.pc = "unlink" => Diff(cons'.end, tail) >= Place[startC] + Length
  PROVE  Geometry'
<1>1. Reach' = Reach /\ tail' = tail /\ Linked' = Linked /\ Place' = Place /\ startC' = startC
  BY DEF SameList, Reach
<1>2. Free(head, tail) \in Nat /\ Free(head', tail') \in Nat
  <2>1. (Free(head, tail) \in Nat)'
    BY FillIs, PTL
  <2> QED
    BY <2>1, FillIs
<1>3. Reach \in Int /\ Length \in Nat /\ MinAlloc \in Nat
      /\ Reach < Free(head, tail) + MinAlloc + Length /\ 0 <= Reach
  BY ListIs, Bounds
<1>4. Reach < Free(head', tail) + MinAlloc + Length
  BY <1>1, <1>2, <1>3
<1> HIDE DEF Reach, Place
<1> QED
  BY <1>1, <1>3, <1>4 DEF Geometry

\* The chunks about to be linked still continue the list.
LEMMA KeepPending ==
  ASSUME IInv, IInv', Pending, SameList, prod' = prod,
         \A c \in ToSet(prod.new) : start'[c] = start[c],
         Free(head, tail) <= Free(head', tail)
  PROVE  Pending'
<1>1. tail' = tail /\ Reach' = Reach /\ Coming' = Coming
  BY DEF SameList, Coming, Reach
<1>2. Free(head, tail) \in Nat /\ Free(head', tail) \in Nat
  <2>1. (Free(head, tail) \in Nat)'
    BY FillIs, PTL
  <2> QED
    BY <1>1, <2>1, FillIs
<1>3. prod.pc = "link" => Coming[Last(prod.new)] \in Int
  <2> SUFFICES ASSUME prod.pc = "link" PROVE Coming[Last(prod.new)] \in Int
    OBVIOUS
  <2> DEFINE d == Last(prod.new)
             m == prod.new
  <2>1. Chain(next, m, m[1], d)
    BY DEF IInv, Lists
  <2>2. d \in ToSet(m) /\ d \in Chunks
    <3> HIDE DEF m
    <3> QED
      BY <2>1, ChainParts
  <2>3. start[d] \in Int /\ tail \in Int
    BY <2>2, Sizes DEF IInv, Types, Pos
  <2>4. Diff(start[d], tail) \in Int
    BY <2>3, DiffIs
  <2> QED
    BY <2>2, <2>4 DEF Coming
<1>4. MinAlloc \in Nat
  BY Bounds
<1> HIDE DEF Coming, Reach
<1> QED
  BY <1>1, <1>2, <1>3, <1>4 DEF Pending

\* The producer's chunks are still right.
LEMMA KeepProdSide ==
  ASSUME ProdSide, SameList, UNCHANGED <<tailC, prod, ooo, oooEnq>>
  PROVE  ProdSide'
<1>1. Reach' = Reach /\ Written' = Written /\ Place' = Place
  BY DEF SameList, Reach, Written
<1> QED
  BY <1>1 DEF ProdSide

\* So is the enqueue tree.
LEMMA KeepEnqSide ==
  ASSUME EnqSide, SameList, UNCHANGED <<enqTree, ooo>>
  PROVE  EnqSide'
<1> DEFINE T == Tracked(enqTree)
<1>1. T' = T /\ T \subseteq DOMAIN Place /\ Place' = Place /\ tail' = tail
  BY DEF EnqSide, SameList, Dense, Tracked
<1> HIDE DEF T
<1>2. TreeOf(T)' = TreeOf(T)
  <2>1. \A d \in T : start'[d] = start[d]
    BY <1>1 DEF SameList
  <2> QED
    BY <1>1, <2>1 DEF TreeOf
<1> QED
  BY <1>1, <1>2 DEF EnqSide, T

\* So are the consumer's chunks.
LEMMA KeepConsSide ==
  ASSUME ConsSide, SameList, UNCHANGED <<headC, oooDeq>>, Held' = Held
  PROVE  ConsSide'
  BY DEF ConsSide, SameList

\* So is the dequeue tree.
LEMMA KeepDeqSide ==
  ASSUME DeqSide, SameList, UNCHANGED <<deqTree, closed>>
  PROVE  DeqSide'
<1> DEFINE T == Tracked(deqTree)
<1>1. T' = T /\ Place' = Place /\ startC' = startC
  BY DEF SameList, Tracked
<1>2. closed = FALSE => T \subseteq DOMAIN Place
  BY DEF DeqSide, Dense
<1> HIDE DEF T
<1>3. closed = FALSE => TreeOf(T)' = TreeOf(T)
  <2> SUFFICES ASSUME closed = FALSE PROVE TreeOf(T)' = TreeOf(T)
    OBVIOUS
  <2>1. \A d \in T : start'[d] = start[d]
    BY <1>2 DEF SameList
  <2> QED
    BY <1>1, <2>1 DEF TreeOf
<1> QED
  BY <1>1, <1>3 DEF DeqSide, T

\* What is still to be read is still in its place.
LEMMA KeepBytes ==
  ASSUME IInv, IInv', Geometry, Bytes, SameList, ooo' = ooo,
         \A d \in DOMAIN Place : data'[d] = data[d], Kept <= Kept', Written' = Written
  PROVE  Bytes'
<1>1. Place' = Place /\ tail' = tail /\ \A d \in DOMAIN Place : start'[d] = start[d]
  BY DEF SameList
<1>2. Kept \in Int /\ Kept' \in Int
  <2>1. (Kept \in Int)'
    BY HeadIs, PTL
  <2> QED
    BY <2>1, HeadIs
<1>3. \A d \in DOMAIN Place : Place[d] \in Int
  BY ListIs
<1> HIDE DEF Place
<1>4. ASSUME NEW d \in DOMAIN Place, NEW i \in 0 .. Length - 1, Arrived(Place[d] + i)'
      PROVE  Arrived(Place[d] + i)
  <2>1. Place[d] + i \in Int
    BY <1>3
  <2>2. (Kept' <= Place[d] + i /\ Place[d] + i < Written) \/ Covered(ooo, tail, Place[d] + i)
    BY <1>1, <1>4 DEF Arrived
  <2>3. (Kept <= Place[d] + i /\ Place[d] + i < Written) \/ Covered(ooo, tail, Place[d] + i)
    BY <1>2, <2>1, <2>2
  <2> QED
    BY <2>3 DEF Arrived
<1> QED
  BY <1>1, <1>4 DEF Bytes

\* The consumer's steps that leave the list, when they leave the chunks the
\* consumer remembers right.
LEMMA ConsKeeps ==
  ASSUME IInv, IInv', JInv,
         UNCHANGED <<role, others, tail, start, next, data, endC, tailC, ooo, oooEnq,
                     enqTree, prod, startC>>,
         Kept <= Kept', Kept' <= Place[startC] + Length,
         Free(head, tail) <= Free(head', tail),
         cons'.pc = "unlink" => Diff(cons'.end, tail) >= Place[startC] + Length,
         ConsSide', DeqSide', Calls', wrong' = {}, closed' \in BOOLEAN
  PROVE  JInv'
<1>1. /\ Geometry /\ Pending /\ ProdSide /\ EnqSide /\ Bytes
      /\ role \in Roles /\ others \subseteq Chunks
      /\ data \in [Chunks -> [0 .. Length - 1 -> Pos \cup {Nil}]]
  BY DEF JInv, Kinds
<1>2. SameList
  BY SameIs
<1>3. Place[startC] <= Kept'
  <2>1. Place[startC] <= Kept /\ Kept <= Kept'
    BY <1>1 DEF Geometry
  <2>2. Place[startC] \in Int /\ Kept \in Int
    BY <1>1, ListIs, HeadIs
  <2>3. (Kept \in Int)'
    BY HeadIs, PTL
  <2> HIDE DEF Place
  <2> QED
    BY <2>1, <2>2, <2>3
<1>4. Geometry'
  <2>1. prod'.pc \in {"copy", "store"} => prod'.off + prod'.len <= Reach
    BY <1>1 DEF Geometry
  <2>2. \A k \in Int : Covered(ooo', tail, k) => k < Reach
    BY <1>1 DEF Geometry
  <2> QED
    BY <1>1, <1>2, <1>3, <2>1, <2>2, KeepGeometry
<1>5. Pending'
  BY <1>1, <1>2, KeepPending
<1>6. ProdSide' /\ EnqSide'
  BY <1>1, <1>2, KeepProdSide, KeepEnqSide
<1>7. Bytes'
  BY <1>1, <1>2, KeepBytes DEF Written
<1>8. Kinds'
  BY <1>1 DEF Kinds
<1> QED
  BY <1>4, <1>5, <1>6, <1>7, <1>8 DEF JInv

\* The producer's steps that leave the list.
LEMMA ProdKeeps ==
  ASSUME IInv, IInv', JInv, SameList,
         UNCHANGED <<role, others, head, headC, oooDeq, deqTree, closed, cons, wrong>>,
         Pending',
         prod'.pc \in {"copy", "store"} => prod'.off + prod'.len <= Reach,
         \A k \in Int : Covered(ooo', tail, k) => k < Reach,
         ProdSide', EnqSide', Bytes', data' \in [Chunks -> [0 .. Length - 1 -> Pos \cup {Nil}]]
  PROVE  JInv'
<1>1. Geometry /\ ConsSide /\ DeqSide /\ Calls /\ Kinds
  BY DEF JInv
<1>2. UNCHANGED <<tail, startC>>
  BY DEF SameList
<1>3. Kept' = Kept /\ Held' = Held
  BY <1>2 DEF Kept, Held, Moved
<1>4. Geometry'
  <2>1. Place[startC] <= Kept /\ Kept <= Place[startC] + Length
    BY <1>1 DEF Geometry
  <2>2. cons'.pc = "unlink" => Diff(cons'.end, tail) >= Place[startC] + Length
    BY <1>1 DEF Geometry
  <2>3. Free(head, tail) <= Free(head', tail)
    BY FillIs
  <2> QED
    BY <1>1, <1>3, <2>1, <2>2, <2>3, KeepGeometry
<1>5. ConsSide' /\ DeqSide'
  BY <1>1, <1>3, KeepConsSide, KeepDeqSide
<1>6. Calls'
  BY <1>1, <1>2, Zenon DEF Calls
<1>7. Kinds'
  BY <1>1 DEF Kinds
<1> QED
  BY <1>4, <1>5, <1>6, <1>7 DEF JInv

\* Whether head leaves the first chunk when it moves to the position at k.
LEMMA LeavesIs ==
  ASSUME IInv, Geometry, NEW k, InRange(k), k <= 0
  PROVE  LeavesStart(Plus(tail, k)) <=> k >= Place[startC] + Length
<1> DEFINE s == Place[startC]
           fill == Diff(tail, head)
<1>1. k \in Int /\ -fill <= k
  BY DEF InRange
<1>2. /\ s \in Int /\ start[startC] = Plus(tail, s) /\ -(fill + Length) <= s
      /\ s <= Kept /\ Kept \in Int /\ Kept <= 0
  BY ListIs, HeadIs DEF Geometry
<1>3. tail \in Pos /\ tail \in Int /\ fill \in Nat /\ fill <= Size
  BY FillIs
<1>4. Length \in Int
  BY Bounds
<1> HIDE DEF s, fill
<1>5. ChunkEnd(startC) = Plus(tail, s + Length)
  BY <1>2, <1>3, <1>4, PlusPlus DEF ChunkEnd
<1>6. s + Length \in Int /\ -W <= 2 * (k - (s + Length)) /\ 2 * (k - (s + Length)) < W
  BY <1>1, <1>2, <1>3, Bounds
<1>7. f_pos_lt(Plus(tail, k), Plus(tail, s + Length)) <=> k < s + Length
  BY <1>1, <1>3, <1>6, Near
<1>8. k < s + Length <=> ~(k >= s + Length)
  BY <1>1, <1>6
<1> QED
  BY <1>5, <1>7, <1>8 DEF LeavesStart, s

-----------------------------------------------------------------------------
(* The steps of the consumer.                                              *)

\* Where the consumer's call ends, before and after a step.
LEMMA EndIs ==
  ASSUME IInv, cons.pc # "idle"
  PROVE  /\ Diff(cons.end, tail) \in Int /\ Diff(cons.end, tail) <= 0
         /\ -Diff(tail, head) <= Diff(cons.end, tail) /\ InRange(Diff(cons.end, tail))
         /\ cons.end = Plus(tail, Diff(cons.end, tail))
<1> DEFINE k == Diff(cons.end, tail)
           m == Diff(cons.end, head)
           fill == Diff(tail, head)
<1>1. k \in Int /\ k <= 0 /\ k = m - fill /\ m \in Nat /\ cons.end = Plus(tail, k)
  BY HeadIs
<1>2. fill \in Nat /\ Free(head, tail) \in Nat
  BY FillIs
<1> HIDE DEF k, m, fill
<1>3. -fill <= k /\ k <= Free(head, tail)
  BY <1>1, <1>2
<1> QED
  BY <1>1, <1>3 DEF k, fill, InRange

\* The same after a step that leaves the indices.
LEMMA NextEndIs ==
  ASSUME IInv', cons'.pc # "idle", UNCHANGED <<head, tail>>
  PROVE  /\ Diff(cons'.end, tail) \in Int /\ Diff(cons'.end, tail) <= 0
         /\ -Diff(tail, head) <= Diff(cons'.end, tail) /\ InRange(Diff(cons'.end, tail))
         /\ cons'.end = Plus(tail, Diff(cons'.end, tail))
<1>1. (cons.pc # "idle")'
  OBVIOUS
<1>2. ( /\ Diff(cons.end, tail) \in Int /\ Diff(cons.end, tail) <= 0
        /\ -Diff(tail, head) <= Diff(cons.end, tail) /\ InRange(Diff(cons.end, tail))
        /\ cons.end = Plus(tail, Diff(cons.end, tail)))'
  BY <1>1, EndIs, PTL
<1> QED
  BY <1>2 DEF InRange

\* Moving head keeps everything: the consumer had left those positions before.
LEMMA StoreKeeps == IInv /\ IInv' /\ JInv /\ ConsStore => JInv'
<1> SUFFICES ASSUME IInv, IInv', JInv, ConsStore PROVE JInv'
  OBVIOUS
<1>1. /\ cons.pc = "store" /\ head' = cons.end /\ cons' = Rest
      /\ UNCHANGED <<role, others, tail, start, next, data, free, endC, tailC, ooo, oooEnq,
                     enqTree, prod, startC, headC, oooDeq, deqTree, closed, wrong>>
  BY DEF ConsStore, setup, prodVars
<1>2. Geometry /\ ConsSide /\ DeqSide /\ Calls /\ wrong = {} /\ closed \in BOOLEAN
  BY DEF JInv, Kinds
<1>3. SameList
  BY <1>1, SameIs
<1>4. cons'.pc = "idle" /\ cons'.op = "none"
  BY <1>1 DEF Rest
<1>5. Kept = Diff(cons.end, tail) /\ Held = Diff(cons.end, tail)
  BY <1>1 DEF Kept, Held, Moved
<1>6. Kept' = Diff(cons.end, tail) /\ Held' = Diff(cons.end, tail)
  BY <1>1, <1>4 DEF Kept, Held, Moved
<1>7. Kept <= Kept' /\ Kept' <= Place[startC] + Length
  <2>1. Kept \in Int /\ Kept <= Place[startC] + Length
    BY <1>2, HeadIs DEF Geometry
  <2> QED
    BY <1>5, <1>6, <2>1
<1>8. Free(head, tail) <= Free(head', tail)
  <2>1. PICK m \in Nat : Free(head', tail) = Free(head, tail) + m
    BY HeadMoves
  <2> QED
    BY <2>1, FillIs
<1>9. ConsSide' /\ DeqSide'
  BY <1>1, <1>2, <1>3, <1>5, <1>6, KeepConsSide, KeepDeqSide
<1>10. Calls'
  BY <1>1, <1>2, <1>4, Zenon DEF Calls
<1>11. cons'.pc # "unlink"
  BY <1>4
<1> QED
  BY <1>1, <1>2, <1>7, <1>8, <1>9, <1>10, <1>11, ConsKeeps

\* A call of the consumer begins.
LEMMA LoadKeeps == IInv /\ IInv' /\ JInv /\ ConsLoad => JInv'
<1> SUFFICES ASSUME IInv, IInv', JInv, ConsLoad PROVE JInv'
  OBVIOUS
<1> DEFINE fill == Diff(tail, head)
           s == Place[startC]
           k == Diff(cons'.end, tail)
<1>1. /\ cons.pc = "idle"
      /\ UNCHANGED <<role, others, head, tail, start, next, data, free, endC, tailC, ooo,
                     oooEnq, enqTree, prod, startC, headC, oooDeq, deqTree, closed, wrong>>
  BY DEF ConsLoad, setup, prodVars, shared
<1>2. PICK op \in ConsOps, off \in 0 .. MaxLen, want \in 1 .. MaxLen :
        LET n == IF fill - off < want THEN fill - off ELSE want
            h == Plus(head, IF op = "dropall" THEN fill ELSE n)
        IN /\ off > 0 => op \in {"peek", "segments"}
           /\ op # "dropall" => off < fill
           /\ cons' = [cons EXCEPT
                         !.pc = IF op # "drop" THEN "read"
                                ELSE IF LeavesStart(h) THEN "unlink" ELSE "store",
                         !.op = op, !.off = off, !.len = n, !.end = h]
  BY DEF ConsLoad
<1> DEFINE n == IF fill - off < want THEN fill - off ELSE want
           h == Plus(head, IF op = "dropall" THEN fill ELSE n)
<1>3. /\ cons'.pc = IF op # "drop" THEN "read" ELSE IF LeavesStart(h) THEN "unlink" ELSE "store"
      /\ cons'.op = op /\ cons'.off = off /\ cons'.len = n /\ cons'.end = h
  BY <1>2 DEF IInv, Types
<1>4. /\ off > 0 => op \in {"peek", "segments"}
      /\ op # "dropall" => off < fill
      /\ off \in Int /\ want \in Int /\ want >= 1 /\ off >= 0
  BY <1>2, Sizes
<1>5. /\ op = "deq" => role = "rx"
      /\ op = "dropall" => role # "rx"
      /\ closed = TRUE => role = "rx" \/ op = "dropall"
  BY DEF ConsOps
<1>6. Geometry /\ ConsSide /\ DeqSide /\ Calls /\ wrong = {} /\ closed \in BOOLEAN
  BY DEF JInv, Kinds
<1>7. SameList
  BY <1>1, SameIs
<1>8. fill \in Nat /\ head \in Pos
  BY FillIs
<1>9. cons'.pc # "idle"
  BY <1>3
<1>10. k \in Int /\ k <= 0 /\ -fill <= k /\ InRange(k) /\ cons'.end = Plus(tail, k)
  BY <1>1, <1>9, NextEndIs
<1>11. LeavesStart(h) <=> k >= s + Length
  BY <1>3, <1>6, <1>10, LeavesIs
<1>12. /\ Kept = -fill /\ Held = -fill /\ Diff(head, tail) = -fill
       /\ s \in Int /\ s <= -fill /\ -fill <= s + Length /\ Length \in Nat
  <2>1. Kept = Diff(head, tail) /\ Held = Diff(head, tail) /\ Diff(head, tail) = -fill
    BY <1>1, HeadIs DEF Kept, Held, Moved
  <2> QED
    BY <1>6, <2>1, ListIs, Bounds DEF Geometry
<1>13. /\ cons'.pc \in {"read", "unlink"} => Kept' = -fill
       /\ cons'.pc \in {"read", "unlink"} => Held' = -fill
       /\ cons'.pc = "store" => Kept' = k /\ Held' = k
  <2>1. cons'.pc = "unlink" => cons'.op = "drop"
    BY <1>3
  <2> HIDE DEF fill
  <2> QED
    BY <1>1, <1>12, <2>1 DEF Kept, Held, Moved
<1>14. cons'.pc \in {"read", "unlink", "store"}
  BY <1>3
<1>15. cons'.pc = "unlink" => k >= s + Length
  BY <1>3, <1>11
<1>16. cons'.pc = "store" => k < s + Length
  <2>1. cons'.pc = "store" => ~(k >= s + Length)
    BY <1>3, <1>11
  <2> HIDE DEF k, s
  <2> QED
    BY <1>10, <1>12, <2>1
<1>17. Kept <= Kept' /\ Kept' <= s + Length
  <2> HIDE DEF k, s, fill
  <2> QED
    BY <1>8, <1>10, <1>12, <1>13, <1>14, <1>16
<1>18. ConsSide'
  <2>1. headC # Nil => Holds(Place, headC, Held)
    BY <1>6 DEF ConsSide
  <2>2. cons'.pc \in {"read", "unlink"} => Held' = Held
    BY <1>12, <1>13
  <2>3. ASSUME headC # Nil, cons'.pc = "store" PROVE Holds(Place, headC, Held')
    <3>1. Holds(Place, headC, -fill)
      BY <1>12, <2>1, <2>3
    <3>2. startC \in DOMAIN Place
      BY <1>6, ListIs
    <3>3. -fill < s + Length /\ -fill \in Int /\ s <= k
      <4> HIDE DEF k, s, fill
      <4> QED
        BY <1>8, <1>10, <1>12, <1>16, <2>3
    <3>4. Holds(Place, startC, -fill) /\ Holds(Place, startC, k)
      <4> HIDE DEF k, fill
      <4> QED
        BY <1>12, <1>16, <2>3, <3>2, <3>3 DEF Holds
    <3>5. headC = startC
      <4> HIDE DEF fill
      <4> QED
        BY <1>6, <3>1, <3>3, <3>4, OneHolder
    <3> QED
      BY <1>13, <2>3, <3>4, <3>5
  <2>4. headC # Nil => Holds(Place, headC, Held')
    BY <1>14, <2>1, <2>2, <2>3
  <2>5. oooDeq # Nil => oooDeq \in DOMAIN Place
    BY <1>6 DEF ConsSide
  <2> QED
    BY <1>1, <1>7, <2>4, <2>5 DEF ConsSide, SameList
<1>19. DeqSide'
  BY <1>1, <1>6, <1>7, KeepDeqSide
<1>20. Calls'
  <2>1. op # "dropall" => n >= 1 /\ off + n <= fill
    <3> HIDE DEF fill
    <3> QED
      BY <1>4, <1>8
  <2>2. op = "deq" => off = 0 /\ h = Plus(head, n)
    BY <1>4
  <2>3. op = "deq" => cons'.off = 0 /\ cons'.end = Plus(head, cons'.len)
    BY <1>3, <2>2
  <2>4. op # "dropall" => cons'.len >= 1 /\ cons'.off + cons'.len <= Diff(tail, head)
    BY <1>3, <2>1
  <2>5. cons'.pc \in {"unlink", "collect", "store"} => op = "drop"
    BY <1>3
  <2>6. /\ role = "rx" => deqTree = {} /\ closed = FALSE
    BY <1>6 DEF Calls
  <2>7. cons'.op = op
    BY <1>3
  <2>8. closed = TRUE => op = "dropall"
    BY <1>5, <2>6
  <2>9. op = "drop" => op # "dropall"
    OBVIOUS
  <2> HIDE DEF n, h
  <2> QED
    BY <1>1, <1>5, <2>3, <2>4, <2>5, <2>6, <2>7, <2>8, <2>9, Zenon DEF Calls
<1>21. Free(head, tail) <= Free(head', tail)
  BY <1>1, FillIs
<1> QED
  BY <1>1, <1>6, <1>15, <1>17, <1>18, <1>19, <1>20, <1>21, ConsKeeps

\* What the consumer knows before it reads: the bytes it was admitted with lie
\* before tail, and head_chunk holds the first of the fifo.
LEMMA ReadAt ==
  ASSUME IInv, JInv, cons.pc = "read", cons.op # "dropall"
  PROVE  LET fill == Diff(tail, head)
             k == cons.off - fill
             y == k + cons.len
         IN /\ Kept = -fill /\ Held = -fill /\ Place[startC] <= -fill /\ closed = FALSE
            /\ fill \in Nat /\ cons.len \in Nat /\ k \in Int /\ y \in Int
            /\ -fill <= k /\ k < y /\ y <= 0 /\ InRange(k) /\ InRange(y)
            /\ Plus(head, cons.off) = Plus(tail, k)
            /\ Plus(Plus(head, cons.off), cons.len) = Plus(tail, y)
            /\ Holds(Place, HeadChunk, -fill)
<1> DEFINE fill == Diff(tail, head)
           off == cons.off
           len == cons.len
           k == off - fill
           y == k + len
<1>1. Geometry /\ ConsSide /\ Calls /\ closed \in BOOLEAN
  BY DEF JInv, Kinds
<1>2. off \in Nat /\ len \in Int
  BY DEF IInv, Types
<1>3. len >= 1 /\ off + len <= fill
  BY <1>1 DEF Calls
<1>4. fill \in Nat /\ tail \in Int /\ Free(head, tail) \in Nat /\ head = Plus(tail, -fill)
      /\ Diff(head, tail) = -fill
  BY FillIs, HeadIs
<1>5. Kept = -fill /\ Held = -fill
  BY <1>4 DEF Kept, Held, Moved
<1>6. Place[startC] <= -fill /\ startC \in DOMAIN Place /\ Nil \notin DOMAIN Place
      /\ Reach \in Int /\ 0 <= Reach /\ Place[startC] \in Int
  BY <1>1, <1>5, ListIs DEF Geometry
<1>7. closed = FALSE
  <2>1. closed # TRUE
    BY <1>1 DEF Calls
  <2> QED
    BY <1>1, <2>1, Zenon
<1> HIDE DEF fill, off, len
<1>8. /\ len \in Nat /\ k \in Int /\ y \in Int /\ -fill <= k /\ k < y /\ y <= 0 /\ -fill \in Int
      /\ k <= Free(head, tail) /\ -fill <= y /\ y <= Free(head, tail) /\ -fill < 0
      /\ -fill + off = k /\ k + len = y /\ -fill <= -fill /\ -fill <= Free(head, tail)
  BY <1>2, <1>3, <1>4
<1>9. InRange(k) /\ InRange(y) /\ InRange(-fill)
  BY <1>8 DEF InRange, fill
<1>10. Plus(head, off) = Plus(tail, k)
  BY <1>2, <1>4, <1>8, PlusPlus
<1>11. Plus(Plus(tail, k), len) = Plus(tail, y)
  BY <1>2, <1>4, <1>8, PlusPlus
<1>12. Holds(Place, HeadChunk, -fill)
  <2>1. CASE headC # Nil
    BY <1>1, <1>5, <2>1 DEF ConsSide, HeadChunk
  <2>2. CASE headC = Nil
    <3> DEFINE d == FindChunk(startC, Plus(tail, -fill))
    <3>1. /\ d # Nil => Holds(Place, d, -fill)
          /\ d = Nil => -fill < Place[startC] \/ Reach <= -fill
      BY <1>1, <1>6, <1>9, FindIs
    <3>2. ~(-fill < Place[startC]) /\ ~(Reach <= -fill)
      <4> HIDE DEF Place, Reach
      <4> QED
        BY <1>4, <1>6, <1>8
    <3> QED
      BY <1>4, <2>2, <3>1, <3>2 DEF HeadChunk
  <2> QED
    BY <2>1, <2>2
<1>13. Plus(Plus(head, off), len) = Plus(tail, y)
  BY <1>10, <1>11
<1> QED
  BY <1>4, <1>5, <1>6, <1>7, <1>8, <1>9, <1>10, <1>12, <1>13 DEF fill, off, len

\* A dequeue gets the bytes that were enqueued.
LEMMA DequeueKeeps == IInv /\ IInv' /\ JInv /\ ConsDequeue => JInv'
<1> SUFFICES ASSUME IInv, IInv', JInv, ConsDequeue PROVE JInv'
  OBVIOUS
<1> DEFINE fill == Diff(tail, head)
           s == Place[startC]
           k == Diff(cons.end, tail)
           c == HeadChunk
<1>1. /\ cons.pc = "read" /\ cons.op = "deq" /\ headC' = FindChunk(c, cons.end)
      /\ wrong' = Misread(c, head, cons.len)
      /\ cons' = [cons EXCEPT !.pc = IF LeavesStart(cons.end) THEN "unlink" ELSE "store"]
      /\ UNCHANGED <<role, others, head, tail, start, next, data, free, endC, tailC, ooo,
                     oooEnq, enqTree, prod, startC, oooDeq, deqTree, closed>>
  BY DEF ConsDequeue, setup, prodVars, shared
<1>2. /\ cons'.pc = IF LeavesStart(cons.end) THEN "unlink" ELSE "store"
      /\ cons'.op = "deq" /\ cons'.end = cons.end
  BY <1>1 DEF IInv, Types
<1>3. Geometry /\ ConsSide /\ DeqSide /\ Calls /\ Bytes /\ closed \in BOOLEAN
  BY DEF JInv, Kinds
<1>4. SameList
  BY <1>1, SameIs
<1>5. cons.off = 0 /\ cons.end = Plus(head, cons.len)
  BY <1>1, <1>3 DEF Calls
<1>6. /\ Kept = -fill /\ s <= -fill /\ closed = FALSE /\ fill \in Nat /\ cons.len \in Nat
      /\ cons.off - fill \in Int /\ cons.off - fill + cons.len <= 0
      /\ Holds(Place, c, -fill) /\ InRange(cons.off - fill)
      /\ Plus(head, cons.off) = Plus(tail, cons.off - fill)
  BY <1>1, ReadAt
<1>7. k \in Int /\ k <= 0 /\ -fill <= k /\ InRange(k) /\ cons.end = Plus(tail, k)
  BY <1>1, EndIs
<1>8. LeavesStart(cons.end) <=> k >= s + Length
  BY <1>3, <1>7, LeavesIs
<1>9. s \in Int /\ Length \in Nat /\ -fill <= s + Length
  BY <1>3, <1>6, ListIs, Bounds DEF Geometry
<1>10. wrong' = {}
  <2>1. cons.off - fill = -fill /\ head = Plus(head, cons.off)
    <3>1. head \in Pos
      BY FillIs
    <3> HIDE DEF fill
    <3> QED
      BY <1>5, <1>6, <3>1, PlusZero
  <2>2. Misread(c, Plus(tail, -fill), cons.len) = {}
    <3> DEFINE j == -fill
    <3>1. /\ Holds(Place, c, j) /\ InRange(j) /\ cons.len \in Nat
          /\ Kept <= j /\ j + cons.len <= 0
      BY <1>6, <2>1
    <3> HIDE DEF j
    <3>2. Misread(c, Plus(tail, j), cons.len) = {}
      BY <1>3, <3>1, ReadIs
    <3> QED
      BY <3>2 DEF j
  <2> QED
    BY <1>1, <1>6, <2>1, <2>2
<1>11. Kept' = IF cons'.pc = "store" THEN k ELSE -fill
  BY <1>1, <1>2, HeadIs DEF Kept, Moved
<1>12. Held' = k
  BY <1>1, <1>2 DEF Held, Moved
<1>13. /\ cons'.pc = "unlink" => k >= s + Length
       /\ cons'.pc = "store" => k <= s + Length
  <2>1. /\ cons'.pc = "unlink" => k >= s + Length
        /\ cons'.pc = "store" => ~(k >= s + Length)
    BY <1>2, <1>8
  <2> HIDE DEF k, s
  <2> QED
    BY <1>7, <1>9, <2>1
<1>14. Kept <= Kept' /\ Kept' <= s + Length
  <2> HIDE DEF k, s, fill
  <2> QED
    BY <1>6, <1>7, <1>9, <1>11, <1>13
<1>15. ConsSide'
  <2>1. headC' # Nil => Holds(Place, headC', k)
    <3>1. c \in DOMAIN Place
      BY <1>6 DEF Holds
    <3> HIDE DEF c, k
    <3> QED
      BY <1>1, <1>3, <1>7, <3>1, FindIs
  <2> QED
    BY <1>1, <1>3, <1>4, <1>12, <2>1 DEF ConsSide, SameList
<1>16. DeqSide'
  BY <1>1, <1>3, <1>4, KeepDeqSide
<1>17. Calls'
  <2>1. cons'.pc # "read"
    BY <1>2
  <2> QED
    BY <1>1, <1>2, <1>3, <2>1, Zenon DEF Calls
<1>18. Free(head, tail) <= Free(head', tail)
  BY <1>1, FillIs
<1>19. cons'.pc = "unlink" => Diff(cons'.end, tail) >= Place[startC] + Length
  BY <1>2, <1>13
<1>20. closed' \in BOOLEAN
  BY <1>1, <1>3
<1> QED
  BY <1>1, <1>10, <1>14, <1>15, <1>16, <1>17, <1>18, <1>19, <1>20, ConsKeeps

\* A reading call that is over leaves head where it is.
LEMMA ReadEnds ==
  ASSUME IInv, IInv', JInv, cons.pc = "read", cons.op # "dropall", cons' = Rest,
         UNCHANGED <<role, others, head, tail, start, next, data, free, endC, tailC, ooo,
                     oooEnq, enqTree, prod, startC, closed>>,
         headC' # Nil => Holds(Place, headC', -Diff(tail, head)),
         oooDeq' # Nil => oooDeq' \in DOMAIN Place,
         DeqSide', role = "rx" => deqTree' = {}, wrong' = {}
  PROVE  JInv'
<1>1. Geometry /\ Calls /\ closed \in BOOLEAN
  BY DEF JInv, Kinds
<1>2. SameList
  BY SameIs
<1>3. cons'.pc = "idle" /\ cons'.op = "none"
  BY DEF Rest
<1>4. Kept = -Diff(tail, head) /\ closed = FALSE
  BY ReadAt
<1>5. Kept' = -Diff(tail, head) /\ Held' = -Diff(tail, head)
  BY <1>3, HeadIs DEF Kept, Held, Moved
<1>6. Kept <= Kept' /\ Kept' <= Place[startC] + Length
  <2>1. Kept \in Int /\ Kept <= Place[startC] + Length
    BY <1>1, HeadIs DEF Geometry
  <2> QED
    BY <1>4, <1>5, <2>1
<1>7. ConsSide'
  BY <1>2, <1>5 DEF ConsSide, SameList
<1>8. Calls'
  BY <1>1, <1>3, <1>4, Zenon DEF Calls
<1>9. Free(head, tail) <= Free(head', tail)
  BY FillIs
<1>10. cons'.pc # "unlink" /\ closed' \in BOOLEAN
  BY <1>1, <1>3
<1> QED
  BY <1>6, <1>7, <1>8, <1>9, <1>10, ConsKeeps

\* svm_fifo_segments describes the bytes that were enqueued.
LEMMA SegmentsKeeps == IInv /\ IInv' /\ JInv /\ ConsSegments => JInv'
<1> SUFFICES ASSUME IInv, IInv', JInv, ConsSegments PROVE JInv'
  OBVIOUS
<1> DEFINE fill == Diff(tail, head)
           k == cons.off - fill
           n == cons.len
           p == Plus(head, cons.off)
           c == HeadChunk
           d == FindChunk(c, p)
<1>1. /\ cons.pc = "read" /\ cons.op = "segments" /\ headC' = c /\ cons' = Rest
      /\ wrong' = Misread(d, p, n)
      /\ UNCHANGED <<role, others, head, tail, start, next, data, free, endC, tailC, ooo,
                     oooEnq, enqTree, prod, startC, oooDeq, deqTree, closed>>
  BY DEF ConsSegments, setup, prodVars, shared
<1>2. Geometry /\ ConsSide /\ DeqSide /\ Calls /\ Bytes
  BY DEF JInv
<1>3. /\ Kept = -fill /\ n \in Nat /\ k \in Int /\ fill \in Nat
      /\ -fill <= k /\ k < k + n /\ k + n <= 0 /\ InRange(k)
      /\ p = Plus(tail, k) /\ Holds(Place, c, -fill)
  BY <1>1, ReadAt
<1>4. c \in DOMAIN Place /\ Place[c] <= -fill
  BY <1>3 DEF Holds
<1>5. Place[c] \in Int /\ Reach \in Int /\ 0 <= Reach
  BY <1>2, <1>4, ListIs
<1>6. /\ d # Nil => Holds(Place, d, k)
      /\ d = Nil => k < Place[c] \/ Reach <= k
  <2> HIDE DEF c, k, p
  <2> QED
    BY <1>2, <1>3, <1>4, FindIs
<1>7. ~(k < Place[c]) /\ ~(Reach <= k)
  <2> HIDE DEF Place, Reach, c, k, n, fill
  <2> QED
    BY <1>3, <1>4, <1>5
<1>8. Holds(Place, d, k)
  BY <1>6, <1>7
<1>9. wrong' = {}
  <2> HIDE DEF d, k, n, p, fill
  <2> QED
    BY <1>1, <1>2, <1>3, <1>8, ReadIs
<1>10. DeqSide'
  <2>1. SameList
    BY <1>1, SameIs
  <2> QED
    BY <1>1, <1>2, <2>1, KeepDeqSide
<1>11. role = "rx" => deqTree' = {}
  BY <1>1, <1>2 DEF Calls
<1>12. oooDeq' # Nil => oooDeq' \in DOMAIN Place
  BY <1>1, <1>2 DEF ConsSide
<1>13. headC' # Nil => Holds(Place, headC', -Diff(tail, head))
  BY <1>1, <1>3
<1>14. cons.op # "dropall"
  BY <1>1
<1> QED
  BY <1>1, <1>9, <1>10, <1>11, <1>12, <1>13, <1>14, ReadEnds

\* A peek at an offset gets the bytes that were enqueued, through the cached
\* chunk, the list or the tree.
LEMMA PeekKeeps == IInv /\ IInv' /\ JInv /\ ConsPeek => JInv'
<1> SUFFICES ASSUME IInv, IInv', JInv, ConsPeek PROVE JInv'
  OBVIOUS
<1> DEFINE fill == Diff(tail, head)
           k == cons.off - fill
           n == cons.len
           y == k + n
           p == Plus(head, cons.off)
           end == Plus(p, n)
           known == oooDeq # Nil /\ Includes(oooDeq, p)
           l == Lookup(deqTree, startC, p, end)
           c == IF known THEN oooDeq
                ELSE IF role = "rx" THEN FindChunk(startC, p)
                ELSE IF l.found = Nil THEN oooDeq ELSE l.found
<1>1. /\ cons.pc = "read" /\ cons.op = "peek" /\ cons' = Rest
      /\ wrong' = Misread(c, p, n) /\ oooDeq' = FindChunk(c, end)
      /\ deqTree' = IF known \/ role = "rx" THEN deqTree ELSE l.tree
      /\ UNCHANGED <<role, others, head, tail, start, next, data, free, endC, tailC, ooo,
                     oooEnq, enqTree, prod, startC, headC, closed>>
  BY DEF ConsPeek, setup, prodVars, shared
<1>2. Geometry /\ ConsSide /\ DeqSide /\ Calls /\ Bytes
  BY DEF JInv
<1>3. /\ Kept = -fill /\ Held = -fill /\ n \in Nat /\ k \in Int /\ fill \in Nat /\ y \in Int
      /\ closed = FALSE /\ Place[startC] <= -fill
      /\ -fill <= k /\ k < y /\ y <= 0 /\ InRange(k) /\ InRange(y)
      /\ p = Plus(tail, k) /\ end = Plus(tail, y)
  BY <1>1, ReadAt
<1>4. /\ startC \in DOMAIN Place /\ Place[startC] \in Int /\ Reach \in Int /\ 0 <= Reach
      /\ Nil \notin DOMAIN Place /\ Length \in Nat /\ Length > 0
  BY <1>2, ListIs, Bounds
<1>5. Place[startC] <= k /\ ~(k < Place[startC]) /\ ~(Reach <= k) /\ y <= Reach
      /\ Place[startC] <= Place[startC] /\ Place[startC] < Place[startC] + Length
  <2> HIDE DEF Place, Reach, k, y, fill
  <2> QED
    BY <1>3, <1>4
<1>6. /\ deqTree = TreeOf(Tracked(deqTree)) /\ Dense(Tracked(deqTree), Place, Place[startC])
      /\ deqTree \in SUBSET (Pos \X Chunks)
  BY <1>2, <1>3 DEF DeqSide
<1>7. Found(l, Tracked(deqTree), Place[startC], k, y)
  <2> DEFINE T == Tracked(deqTree)
             lo == Place[startC]
  <2>1. Holds(Place, startC, lo)
    BY <1>4, <1>5 DEF Holds
  <2>2. /\ deqTree = TreeOf(T) /\ Dense(T, Place, lo) /\ lo \in Int /\ lo <= k
        /\ Place[startC] <= lo
    BY <1>4, <1>5, <1>6
  <2> HIDE DEF T, lo, k, y, p, end
  <2>3. Found(Lookup(TreeOf(T), startC, Plus(tail, k), Plus(tail, y)), T, lo, k, y)
    BY <1>2, <1>3, <1>5, <2>1, <2>2, LookupIs
  <2>4. l = Lookup(TreeOf(T), startC, Plus(tail, k), Plus(tail, y))
    BY <1>3, <2>2
  <2> HIDE DEF l
  <2> QED
    BY <2>3, <2>4 DEF T, lo
<1>8. Holds(Place, c, k)
  <2>1. CASE known
    <3>1. oooDeq \in DOMAIN Place
      BY <1>2, <2>1 DEF ConsSide
    <3>2. Includes(oooDeq, Plus(tail, k))
      BY <1>3, <2>1
    <3>3. Holds(Place, oooDeq, k)
      <4> HIDE DEF k
      <4> QED
        BY <1>2, <1>3, <3>1, <3>2, IncludesIs
    <3> QED
      BY <2>1, <3>3
  <2>2. CASE ~known /\ role = "rx"
    <3> DEFINE d == FindChunk(startC, p)
    <3>1. /\ d # Nil => Holds(Place, d, k)
          /\ d = Nil => k < Place[startC] \/ Reach <= k
      <4> HIDE DEF k, p
      <4> QED
        BY <1>2, <1>3, <1>4, FindIs
    <3>2. Holds(Place, d, k)
      BY <1>5, <3>1
    <3>3. c = d
      BY <2>2
    <3> QED
      BY <3>2, <3>3
  <2>3. CASE ~known /\ role # "rx"
    <3>1. Holds(Place, l.found, k)
      BY <1>7 DEF Found
    <3>2. l.found # Nil
      BY <1>4, <3>1 DEF Holds
    <3>3. c = l.found
      BY <2>3, <3>2
    <3> QED
      BY <3>1, <3>3
  <2> QED
    BY <2>1, <2>2, <2>3
<1>9. wrong' = {}
  <2> HIDE DEF c, k, n, p, fill
  <2> QED
    BY <1>1, <1>2, <1>3, <1>8, ReadIs
<1>10. oooDeq' # Nil => oooDeq' \in DOMAIN Place
  <2>1. c \in DOMAIN Place
    BY <1>8 DEF Holds
  <2>2. oooDeq' # Nil => Holds(Place, oooDeq', y)
    <3> HIDE DEF c, y, end
    <3> QED
      BY <1>1, <1>2, <1>3, <2>1, FindIs
  <2> QED
    BY <2>2 DEF Holds
<1>11. DeqSide'
  <2>1. /\ deqTree' = TreeOf(Tracked(deqTree')) /\ Dense(Tracked(deqTree'), Place, Place[startC])
    <3>1. CASE deqTree' = deqTree
      BY <1>6, <3>1
    <3>2. CASE deqTree' = l.tree
      BY <1>7, <3>2 DEF Found
    <3> QED
      BY <1>1, <3>1, <3>2
  <2>2. deqTree' \in SUBSET (Pos \X Chunks)
    <3> DEFINE T == Tracked(deqTree')
    <3>1. T \subseteq DOMAIN Place /\ deqTree' = TreeOf(T)
      BY <2>1 DEF Dense
    <3> HIDE DEF T
    <3>2. \A e \in TreeOf(T) : e \in Pos \X Chunks
      BY <1>2, <3>1, TreeIs
    <3> QED
      BY <3>1, <3>2
  <2>3. SameList
    BY <1>1, SameIs
  <2>4. Tracked(deqTree)' = Tracked(deqTree')
    BY DEF Tracked
  <2>5. TreeOf(Tracked(deqTree))' = TreeOf(Tracked(deqTree'))
    BY <1>1, <2>4 DEF TreeOf
  <2> QED
    BY <1>1, <2>1, <2>2, <2>3, <2>4, <2>5 DEF DeqSide, SameList
<1>12. role = "rx" => deqTree' = {}
  BY <1>1, <1>2 DEF Calls
<1>13. headC' # Nil => Holds(Place, headC', -Diff(tail, head))
  BY <1>1, <1>2, <1>3 DEF ConsSide
<1>14. cons.op # "dropall"
  BY <1>1
<1> QED
  BY <1>1, <1>9, <1>10, <1>11, <1>12, <1>13, <1>14, ReadEnds

\* svm_fifo_dequeue_drop_all leaves head_chunk at the chunk of its new head.
LEMMA DropAllKeeps == IInv /\ IInv' /\ JInv /\ ConsDropAll => JInv'
<1> SUFFICES ASSUME IInv, IInv', JInv, ConsDropAll PROVE JInv'
  OBVIOUS
<1> DEFINE fill == Diff(tail, head)
           s == Place[startC]
           k == Diff(cons.end, tail)
           c == IF headC # Nil /\ Includes(headC, head) THEN headC ELSE FindChunk(startC, head)
<1>1. /\ cons.pc = "read" /\ cons.op = "dropall" /\ headC' = FindChunk(c, cons.end)
      /\ deqTree' = Untrack(deqTree, Before(c, cons.end)) /\ closed' = TRUE
      /\ cons' = [cons EXCEPT !.pc = IF LeavesStart(cons.end) THEN "unlink" ELSE "store"]
      /\ UNCHANGED <<role, others, head, tail, start, next, data, free, endC, tailC, ooo,
                     oooEnq, enqTree, prod, startC, oooDeq, wrong>>
  BY DEF ConsDropAll, setup, prodVars, shared
<1>2. /\ cons'.pc = IF LeavesStart(cons.end) THEN "unlink" ELSE "store"
      /\ cons'.op = "dropall" /\ cons'.end = cons.end
  BY <1>1 DEF IInv, Types
<1>3. Geometry /\ ConsSide /\ DeqSide /\ Calls /\ wrong = {}
  BY DEF JInv, Kinds
<1>4. SameList
  BY <1>1, SameIs
<1>5. Kept = -fill /\ fill \in Nat /\ head = Plus(tail, -fill) /\ Diff(head, tail) = -fill
  BY <1>1, HeadIs, FillIs DEF Kept, Moved
<1>6. k \in Int /\ k <= 0 /\ -fill <= k /\ InRange(k) /\ cons.end = Plus(tail, k)
  BY <1>1, EndIs
<1>7. LeavesStart(cons.end) <=> k >= s + Length
  BY <1>3, <1>6, LeavesIs
<1>8. s \in Int /\ Length \in Nat /\ s <= -fill /\ -fill <= s + Length
  BY <1>3, <1>5, ListIs, Bounds DEF Geometry
<1>9. Kept' = IF cons'.pc = "store" THEN k ELSE -fill
  BY <1>1, <1>2, <1>5 DEF Kept, Moved
<1>10. Held' = k
  BY <1>1, <1>2 DEF Held, Moved
<1>11. /\ cons'.pc = "unlink" => k >= s + Length
       /\ cons'.pc = "store" => k <= s + Length
  <2>1. /\ cons'.pc = "unlink" => k >= s + Length
        /\ cons'.pc = "store" => ~(k >= s + Length)
    BY <1>2, <1>7
  <2> HIDE DEF k, s
  <2> QED
    BY <1>6, <1>8, <2>1
<1>12. Kept <= Kept' /\ Kept' <= s + Length
  <2> HIDE DEF k, s, fill
  <2> QED
    BY <1>5, <1>6, <1>8, <1>9, <1>11
<1>13. c = Nil \/ c \in DOMAIN Place
  <2>1. headC # Nil => headC \in DOMAIN Place
    BY <1>3 DEF ConsSide, Holds
  <2>2. FindChunk(startC, head) # Nil => FindChunk(startC, head) \in DOMAIN Place
    <3> DEFINE j == -fill
    <3>1. startC \in DOMAIN Place
      BY <1>3, ListIs
    <3>2. InRange(j) /\ head = Plus(tail, j)
      <4>1. j \in Int /\ j <= 0 /\ -fill <= j /\ Free(head, tail) \in Nat
        BY <1>5, FillIs
      <4> QED
        BY <1>5, <4>1 DEF InRange
    <3> HIDE DEF j
    <3>3. FindChunk(startC, head) # Nil => Holds(Place, FindChunk(startC, head), j)
      BY <1>3, <3>1, <3>2, FindIs
    <3> QED
      BY <3>3 DEF Holds
  <2> QED
    BY <2>1, <2>2
<1>14. headC' # Nil => Holds(Place, headC', k)
  <2> HIDE DEF c, k
  <2>1. CASE c = Nil
    BY <1>1, <2>1, NothingAfterNil
  <2>2. CASE c \in DOMAIN Place
    BY <1>1, <1>3, <1>6, <2>2, FindIs
  <2> QED
    BY <1>13, <2>1, <2>2
<1>15. ConsSide'
  BY <1>1, <1>3, <1>4, <1>10, <1>14 DEF ConsSide, SameList
<1>16. DeqSide'
  <2>1. closed' # FALSE
    BY <1>1, Zenon
  <2>2. deqTree' \in SUBSET (Pos \X Chunks)
    BY <1>1, <1>3 DEF DeqSide, Untrack
  <2> QED
    BY <2>1, <2>2 DEF DeqSide
<1>17. Calls'
  <2>1. cons'.pc # "read" /\ role # "rx" /\ cons'.op # "deq"
    BY <1>1, <1>2, <1>3 DEF Calls
  <2> QED
    BY <1>1, <1>2, <2>1, Zenon DEF Calls
<1>18. Free(head, tail) <= Free(head', tail)
  BY <1>1, FillIs
<1>19. cons'.pc = "unlink" => Diff(cons'.end, tail) >= Place[startC] + Length
  BY <1>2, <1>11
<1>20. closed' \in BOOLEAN /\ wrong' = {}
  BY <1>1, <1>3
<1> QED
  BY <1>1, <1>12, <1>15, <1>16, <1>17, <1>18, <1>19, <1>20, ConsKeeps

\* A chunk that is given back is neither in the list nor about to be.
LEMMA CollectKeeps == IInv /\ IInv' /\ JInv /\ ConsCollect => JInv'
<1> SUFFICES ASSUME IInv, IInv', JInv, ConsCollect PROVE JInv'
  OBVIOUS
<1> DEFINE c == Head(cons.freed)
<1>1. /\ cons.pc = "collect"
      /\ next' = [next EXCEPT ![c] = Nil] /\ start' = [start EXCEPT ![c] = 0]
      /\ data' = [data EXCEPT ![c] = [i \in 0 .. Length - 1 |-> Nil]]
      /\ cons' = [cons EXCEPT !.freed = Tail(@),
                              !.pc = IF Len(cons.freed) = 1 THEN "store" ELSE "collect"]
      /\ UNCHANGED <<role, others, head, tail, endC, tailC, ooo, oooEnq, enqTree, prod, startC,
                     headC, oooDeq, deqTree, closed, wrong>>
  BY DEF ConsCollect, setup, prodVars
<1>2. /\ cons'.pc \in {"collect", "store"} /\ cons'.op = cons.op /\ cons'.end = cons.end
      /\ cons'.len = cons.len /\ cons'.off = cons.off
  BY <1>1 DEF IInv, Types
<1>3. /\ Geometry /\ Pending /\ ProdSide /\ EnqSide /\ ConsSide /\ DeqSide /\ Calls /\ Bytes
      /\ Kinds
  BY DEF JInv
<1>4. /\ cons.freed \in Seq(Chunks) /\ Len(cons.freed) > 0
      /\ ToSet(Linked) \cap ToSet(cons.freed) = {}
      /\ ToSet(cons.freed) \cap ToSet(prod.new) = {}
      /\ next \in [Chunks -> Opt] /\ start \in [Chunks -> Pos]
  BY <1>1 DEF IInv, Lists, Types
<1>5. c \in ToSet(cons.freed) /\ c \in Chunks
  <2>1. c = cons.freed[1] /\ 1 \in 1 .. Len(cons.freed) /\ 1 \in DOMAIN cons.freed
    BY <1>4, LenProperties
  <2> QED
    BY <1>4, <2>1, ElementOfSeq DEF ToSet
<1>6. c \notin ToSet(Linked) /\ c \notin ToSet(prod.new)
  BY <1>4, <1>5
<1>7. ToSet(Linked) \subseteq Chunks /\ DOMAIN Place = ToSet(Linked)
  BY <1>3, ListIs
<1>8. data \in [Chunks -> [0 .. Length - 1 -> Pos \cup {Nil}]]
  BY <1>3 DEF Kinds
<1> HIDE DEF c
<1>9. SameList
  <2>1. \A x \in ToSet(Linked) : next'[x] = next[x] /\ start'[x] = start[x]
    BY <1>1, <1>4, <1>6, <1>7
  <2> QED
    BY <1>1, <2>1, SameOutside
<1>10. Kept' = Kept /\ Held' = Held /\ Written' = Written
  BY <1>1, <1>2 DEF Kept, Held, Moved, Written
<1>11. Free(head, tail) <= Free(head', tail) /\ Kept <= Kept'
  <2>1. Kept \in Int /\ Free(head, tail) \in Nat
    BY HeadIs, FillIs
  <2> QED
    BY <1>1, <1>10, <2>1
<1>12. Geometry'
  <2>1. /\ Place[startC] <= Kept' /\ Kept' <= Place[startC] + Length
        /\ prod'.pc \in {"copy", "store"} => prod'.off + prod'.len <= Reach
        /\ \A k \in Int : Covered(ooo', tail, k) => k < Reach
    BY <1>1, <1>3, <1>10 DEF Geometry
  <2>2. cons'.pc # "unlink"
    BY <1>2
  <2> QED
    BY <1>3, <1>9, <1>11, <2>1, <2>2, KeepGeometry
<1>13. Pending'
  <2>1. ToSet(prod.new) \subseteq Chunks
    <3>1. prod.new \in Seq(Chunks)
      BY DEF IInv, Types
    <3> QED
      BY <3>1, ElementOfSeq, LenProperties DEF ToSet
  <2>2. \A x \in ToSet(prod.new) : start'[x] = start[x]
    BY <1>1, <1>4, <1>6, <2>1
  <2> QED
    BY <1>1, <1>3, <1>9, <1>11, <2>2, KeepPending
<1>14. ProdSide' /\ EnqSide'
  BY <1>1, <1>3, <1>9, KeepProdSide, KeepEnqSide
<1>15. ConsSide' /\ DeqSide'
  BY <1>1, <1>3, <1>9, <1>10, KeepConsSide, KeepDeqSide
<1>16. Calls'
  <2>1. cons'.pc # "read" /\ cons.pc \in {"unlink", "collect", "store"}
        /\ cons'.pc \in {"unlink", "collect", "store"} /\ cons.pc # "idle"
    BY <1>1, <1>2
  <2> QED
    BY <1>1, <1>2, <1>3, <2>1, Zenon DEF Calls
<1>17. Bytes'
  <2>1. \A d \in DOMAIN Place : data'[d] = data[d]
    BY <1>1, <1>6, <1>7, <1>8
  <2> QED
    BY <1>1, <1>3, <1>9, <1>10, <1>11, <2>1, KeepBytes
<1>18. Kinds'
  <2>1. data' \in [Chunks -> [0 .. Length - 1 -> Pos \cup {Nil}]]
    BY <1>1, <1>8
  <2> QED
    BY <1>1, <1>3, <2>1 DEF Kinds
<1> QED
  BY <1>12, <1>13, <1>14, <1>15, <1>16, <1>17, <1>18 DEF JInv

\* The list from chunk c on, where position k is the first still to be read.
CutAt(l, c, k, n) ==
  /\ n \in 0 .. Len(l) - 1 /\ c = l[n + 1] /\ c \in DOMAIN Place
  /\ Place[c] <= k /\ k <= Place[c] + Length
  /\ Includes(c, cons.end) <=> Holds(Place, c, k)
  /\ ~Holds(Place, c, k) => c = endC

\* f_unlink_chunks stops at the chunk of the new head, or at the last one when
\* the new head is just behind it.
LEMMA UnlinkAt ==
  ASSUME IInv, Geometry, cons.pc = "unlink"
  PROVE  LET n == NUnlinked(Linked, cons.end)
         IN CutAt(Linked, Linked[n + 1], Diff(cons.end, tail), n)
<1> DEFINE l == Linked
           r == Tail(l)
           h == cons.end
           k == Diff(h, tail)
           I == {j \in 1 .. Len(r) : Includes(r[j], h)}
           i == FirstOf(I)
           n == NUnlinked(l, h)
           c == l[n + 1]
<1>1. Chain(next, l, startC, endC)
  BY DEF IInv, Lists
<1>2. /\ l \in Seq(Chunks) /\ Len(l) \in Nat /\ Len(l) > 0
      /\ \A j \in 1 .. Len(l) : l[j] \in ToSet(l)
      /\ l[Len(l)] = endC
  BY <1>1, ChainParts DEF Chain
<1>3. startC \in DOMAIN Place /\ endC \in DOMAIN Place /\ DOMAIN Place = ToSet(l)
      /\ Reach \in Int /\ 0 <= Reach /\ Place[startC] \in Int /\ Length \in Nat /\ Length > 0
      /\ (\A d \in DOMAIN Place : Place[d] \in Int /\ Place[startC] <= Place[d])
      /\ Apart(Place)
  BY ListIs, Bounds
<1>4. After(r, startC)
  BY <1>3, AfterIs DEF Linked
<1>5. k \in Int /\ k <= 0 /\ InRange(k) /\ h = Plus(tail, k)
  BY EndIs
<1>6. k >= Place[startC] + Length
  BY DEF Geometry
<1>7. n = IF i = 0 THEN Len(l) - 1 ELSE i
  BY DEF NUnlinked, SelectInSeq, FirstOf
<1>8. n \in 0 .. Len(l) - 1
  <2> HIDE DEF l
  <2> QED
    BY <1>2, UnlinkCount
<1>9. Len(r) = Len(l) - 1 /\ \A j \in 1 .. Len(r) : r[j] = l[j + 1]
  BY <1>2, HeadTailProperties
<1>10. Reach = Place[endC] + Length
  BY DEF Reach
<1> HIDE DEF l, r, h, k, n
<1>11. I \in SUBSET (1 .. Len(r)) /\ Len(r) \in Nat
  BY <1>2, <1>9
<1>12. /\ I = {} => i = 0
       /\ I # {} => i \in I /\ i \in 1 .. Len(r) /\ i # 0
  BY <1>11, FirstIs
<1>13. n + 1 \in 1 .. Len(l) /\ c \in DOMAIN Place
  BY <1>2, <1>3, <1>8
<1>14. Includes(c, h) <=> Holds(Place, c, k)
  <2> HIDE DEF c
  <2> QED
    BY <1>5, <1>13, IncludesIs
<1>15. CASE I # {}
  <2>1. n = i /\ Includes(r[i], h) /\ i \in 1 .. Len(r)
    BY <1>7, <1>12, <1>15
  <2>2. c = r[i]
    BY <1>9, <2>1
  <2>3. Holds(Place, c, k)
    BY <1>14, <2>1, <2>2
  <2>4. Place[c] <= k /\ k < Place[c] + Length /\ Place[c] \in Int
    BY <1>3, <2>3 DEF Holds
  <2>5. k <= Place[c] + Length
    <3> HIDE DEF Place, c
    <3> QED
      BY <1>3, <1>5, <2>4
  <2> QED
    BY <1>8, <1>13, <1>14, <2>3, <2>4, <2>5 DEF CutAt, l, h, k, n
<1>16. CASE I = {}
  <2>1. n = Len(l) - 1 /\ c = endC
    <3>1. n = Len(l) - 1
      BY <1>7, <1>12, <1>16
    <3>2. n + 1 = Len(l)
      BY <1>2, <3>1
    <3> QED
      BY <1>2, <3>1, <3>2
  <2>2. k >= Reach
    <3> SUFFICES ASSUME k < Reach PROVE FALSE
      <4> HIDE DEF Reach
      <4> QED
        BY <1>3, <1>5
    <3>1. Place[startC] <= k
      <4> HIDE DEF Place
      <4> QED
        BY <1>3, <1>5, <1>6
    <3>2. PICK x \in DOMAIN Place : Holds(Place, x, k)
      BY <1>5, <3>1, HolderIs
    <3>3. Place[x] <= k /\ k < Place[x] + Length /\ Place[x] \in Int /\ Place[startC] <= Place[x]
      BY <1>3, <3>2 DEF Holds
    <3>4. Place[startC] < Place[x]
      <4> HIDE DEF Place
      <4> QED
        BY <1>3, <1>5, <1>6, <3>3
    <3>5. PICK j \in 1 .. Len(r) : x = r[j]
      BY <1>4, <3>2, <3>4 DEF After
    <3>6. Includes(x, h)
      BY <1>5, <3>2, IncludesIs
    <3> QED
      BY <1>16, <3>5, <3>6
  <2>3. Place[c] <= k /\ k <= Place[c] + Length
    <3>1. Place[c] \in Int /\ Reach = Place[c] + Length
      BY <1>3, <1>10, <2>1
    <3> HIDE DEF Place, Reach, c
    <3> QED
      BY <1>3, <1>5, <2>2, <3>1
  <2> QED
    BY <1>8, <1>13, <1>14, <2>1, <2>3 DEF CutAt, l, h, k, n
<1> QED
  BY <1>15, <1>16

\* The list after f_unlink_chunks: the chunks from c on, where they were.
Remains(c) ==
  /\ \A x : x \in DOMAIN Place' <=> x \in DOMAIN Place /\ Place[c] <= Place[x]
  /\ \A x \in DOMAIN Place' : Place'[x] = Place[x]
  /\ Laid(Linked', Place') /\ startC' = c /\ Reach' = Reach
  /\ UNCHANGED <<tail, endC>> /\ endC \in DOMAIN Place'

\* f_unlink_chunks leaves such a list, and takes out the chunks before c.
LEMMA UnlinkLeaves ==
  ASSUME IInv, Geometry, ConsUnlink
  PROVE  LET n == NUnlinked(Linked, cons.end)
         IN /\ Remains(Linked[n + 1])
            /\ \A x : x \in ToSet(SubSeq(Linked, 1, n)) <=>
                 x \in DOMAIN Place /\ Place[x] < Place[Linked[n + 1]]
<1> DEFINE l == Linked
           n == NUnlinked(l, cons.end)
           c == l[n + 1]
           a == SubSeq(l, 1, n)
           u == SubSeq(l, n + 1, Len(l))
<1>1. Chain(next, l, startC, endC)
  BY DEF IInv, Lists
<1>2. /\ l \in Seq(Chunks) /\ Len(l) \in Nat /\ Len(l) > 0 /\ Once(l)
      /\ \A i \in 1 .. Len(l) : l[i] \in ToSet(l) /\ l[i] \in Chunks
  BY <1>1, ChainParts
<1>3. /\ startC' = c
      /\ next' = IF n = 0 THEN next ELSE [next EXCEPT ![l[n]] = Nil]
  BY DEF ConsUnlink, Linked
<1>4. endC' = endC /\ tail' = tail /\ start' = start /\ next \in [Chunks -> Opt]
  BY DEF ConsUnlink, prodVars, IInv, Types
<1>5. Place = [x \in ToSet(l) |-> Diff(start[x], tail)]
  BY DEF Place
<1>6. /\ \A i \in 1 .. Len(l) - 1 : Place[l[i + 1]] = Place[l[i]] + Length
      /\ \A i, j \in 1 .. Len(l) : i < j => Place[l[i]] + Length <= Place[l[j]]
  BY DEF Geometry, Laid
<1>7. (\A x \in ToSet(l) : Place[x] \in Int) /\ Length \in Nat /\ Length > 0 /\ DOMAIN Place = ToSet(l)
  BY ListIs, Bounds
<1> HIDE DEF l
<1>8. n \in 0 .. Len(l) - 1
  BY <1>2, UnlinkCount
<1> HIDE DEF n
<1>9. n \in Nat /\ n < Len(l) /\ n \in 0 .. Len(l) /\ n + 1 \in 1 .. Len(l)
      /\ (n # 0 => n \in 1 .. Len(l) /\ n \in 1 .. n)
  BY <1>2, <1>8
<1>10. /\ a \in Seq(Chunks) /\ Len(a) = n /\ \A i \in 1 .. n : a[i] = l[i]
       /\ Len(u) = Len(l) - n /\ u \in Seq(Chunks)
       /\ \A i \in 1 .. Len(l) - n : u[i] = l[n + i]
       /\ ToSet(a) \cup ToSet(u) = ToSet(l) /\ ToSet(a) \cap ToSet(u) = {}
  BY <1>2, <1>9, SplitOnce
<1>11. Chain(next, u, c, endC)
  BY <1>1, <1>4, <1>8, ChainCut
<1> HIDE DEF a, u
<1>12. DOMAIN a = 1 .. n /\ DOMAIN u = 1 .. Len(l) - n
  BY <1>10, LenProperties
<1>13. \A x \in ToSet(u) : next'[x] = next[x]
  <2>1. n # 0 => l[n] \in ToSet(a)
    <3>1. n # 0 => n \in DOMAIN a /\ a[n] = l[n]
      BY <1>9, <1>10, <1>12
    <3> QED
      BY <3>1 DEF ToSet
  <2>2. ToSet(u) \subseteq Chunks
    BY <1>11, ChainParts
  <2> QED
    BY <1>3, <1>4, <1>10, <2>1, <2>2
<1>14. Chain(next', u, startC', endC')
  <2>1. Chain(next', u, c, endC)
    <3> HIDE DEF c
    <3> QED
      BY <1>11, <1>13, ChainSame
  <2> QED
    BY <1>3, <1>4, <2>1
<1>15. Linked' = u
  BY <1>14, LinkedIs, ListOfChain
<1>16. Place' = [x \in ToSet(u) |-> Diff(start[x], tail)]
  BY <1>4, <1>15 DEF Place
<1>17. DOMAIN Place' = ToSet(u) /\ \A x \in ToSet(u) : Place'[x] = Place[x]
  <2>1. ToSet(u) \subseteq ToSet(l)
    BY <1>10
  <2> QED
    BY <1>5, <1>16, <2>1
<1>18. endC \in ToSet(u)
  BY <1>11, ChainParts
<1>19. \A x \in ToSet(l) : \E i \in 1 .. Len(l) : x = l[i]
  BY <1>2, LenProperties DEF ToSet
<1>20. ASSUME NEW x \in ToSet(a) PROVE Place[x] < Place[c]
  <2>1. PICK i \in 1 .. n : x = l[i]
    <3>1. PICK i \in DOMAIN a : x = a[i]
      BY DEF ToSet
    <3> QED
      BY <1>10, <1>12, <3>1
  <2>2. i \in 1 .. Len(l) /\ i < n + 1
    BY <1>2, <1>9, <2>1
  <2>3. Place[x] + Length <= Place[c]
    BY <1>6, <1>9, <2>1, <2>2
  <2>4. Place[x] \in Int /\ Place[c] \in Int
    BY <1>2, <1>7, <1>9, <1>10
  <2> HIDE DEF c
  <2> QED
    BY <1>7, <2>3, <2>4
<1>21. ASSUME NEW x \in ToSet(u) PROVE Place[c] <= Place[x]
  <2>1. PICK i \in 1 .. Len(l) - n : x = l[n + i]
    <3>1. PICK i \in DOMAIN u : x = u[i]
      BY DEF ToSet
    <3> QED
      BY <1>10, <1>12, <3>1
  <2>2. n + i \in 1 .. Len(l) /\ (i = 1 \/ n + 1 < n + i)
    BY <1>2, <1>9, <2>1
  <2>3. Place[x] \in Int /\ Place[c] \in Int
    BY <1>2, <1>7, <1>9, <1>10
  <2>4. CASE i = 1
    <3>1. x = c
      BY <2>1, <2>4
    <3> QED
      BY <2>3, <3>1
  <2>5. CASE n + 1 < n + i
    <3>1. Place[c] + Length <= Place[x]
      BY <1>6, <1>9, <2>1, <2>2, <2>5
    <3> HIDE DEF c
    <3> QED
      BY <1>7, <2>3, <3>1
  <2> QED
    BY <2>2, <2>4, <2>5
<1>22. \A x \in ToSet(l) : Place[x] \in Int /\ Place[c] \in Int
  BY <1>2, <1>7, <1>9
<1>23. \A x \in ToSet(l) : Place[x] < Place[c] <=> ~(Place[c] <= Place[x])
  <2> HIDE DEF c
  <2> QED
    BY <1>22
<1>24. \A x : x \in ToSet(u) <=> x \in ToSet(l) /\ Place[c] <= Place[x]
  BY <1>10, <1>20, <1>21, <1>23
<1>25. \A x : x \in ToSet(a) <=> x \in ToSet(l) /\ Place[x] < Place[c]
  BY <1>10, <1>20, <1>21, <1>23
<1>26. Laid(u, Place)
  <2>1. \A i \in 1 .. Len(l) - n : n + i \in 1 .. Len(l)
    BY <1>2, <1>9
  <2>2. ASSUME NEW i \in 1 .. Len(u) - 1 PROVE Place[u[i + 1]] = Place[u[i]] + Length
    <3>1. i \in 1 .. Len(l) - n /\ i + 1 \in 1 .. Len(l) - n /\ n + i \in 1 .. Len(l) - 1
          /\ n + (i + 1) = (n + i) + 1
      BY <1>2, <1>9, <1>10
    <3>2. u[i] = l[n + i] /\ u[i + 1] = l[n + (i + 1)]
      BY <1>10, <3>1
    <3>3. Place[l[(n + i) + 1]] = Place[l[n + i]] + Length
      BY <1>6, <3>1
    <3> QED
      BY <3>1, <3>2, <3>3
  <2>3. ASSUME NEW i \in 1 .. Len(u), NEW j \in 1 .. Len(u), i < j
        PROVE  Place[u[i]] + Length <= Place[u[j]]
    <3>1. i \in 1 .. Len(l) - n /\ j \in 1 .. Len(l) - n /\ n + i < n + j
      BY <1>2, <1>9, <1>10, <2>3
    <3> QED
      BY <1>6, <1>10, <2>1, <3>1
  <2> QED
    BY <2>2, <2>3 DEF Laid
<1>27. Laid(u, Place')
  <2>1. \A i \in 1 .. Len(u) : u[i] \in ToSet(u)
    BY <1>10, <1>12 DEF ToSet
  <2>2. \A i \in 1 .. Len(u) : Place'[u[i]] = Place[u[i]]
    BY <1>17, <2>1
  <2>3. \A i \in 1 .. Len(u) - 1 : i \in 1 .. Len(u) /\ i + 1 \in 1 .. Len(u)
    BY <1>2, <1>9, <1>10
  <2> QED
    BY <1>26, <2>2, <2>3 DEF Laid
<1>28. Reach' = Reach
  BY <1>4, <1>17, <1>18 DEF Reach
<1>29. Remains(c)
  BY <1>3, <1>4, <1>7, <1>15, <1>17, <1>18, <1>24, <1>27, <1>28 DEF Remains
<1> QED
  BY <1>7, <1>25, <1>29 DEF l, n, a

\* The chunks that an unlinking drop forgets.
LEMMA GoneIs ==
  ASSUME IInv, Geometry, ConsUnlink
  PROVE  LET n == NUnlinked(Linked, cons.end)
             c == Linked[n + 1]
             gone == ToSet(SubSeq(Linked, 1, IF Includes(c, cons.end) THEN n ELSE n + 1))
         IN \A x : x \in gone <=>
              \/ x \in DOMAIN Place /\ Place[x] < Place[c]
              \/ ~Includes(c, cons.end) /\ x = c
<1> DEFINE l == Linked
           n == NUnlinked(l, cons.end)
           c == l[n + 1]
<1>1. Chain(next, l, startC, endC)
  BY DEF IInv, Lists
<1>2. \A x : x \in ToSet(SubSeq(l, 1, n)) <=> x \in DOMAIN Place /\ Place[x] < Place[c]
  BY UnlinkLeaves
<1> HIDE DEF l
<1>3. l \in Seq(Chunks) /\ Len(l) \in Nat /\ Len(l) > 0 /\ Once(l)
  BY <1>1, ChainParts
<1>4. n \in 0 .. Len(l) - 1
  BY <1>3, UnlinkCount
<1> HIDE DEF n
<1>5. n \in 0 .. Len(l) /\ n + 1 \in 0 .. Len(l) /\ n \in Nat
  BY <1>3, <1>4
<1>6. \A x : x \in ToSet(SubSeq(l, 1, n)) <=> \E i \in 1 .. n : x = l[i]
  BY <1>3, <1>5, FirstPart
<1>7. \A x : x \in ToSet(SubSeq(l, 1, n + 1)) <=> \E i \in 1 .. n + 1 : x = l[i]
  BY <1>3, <1>5, FirstPart
<1>8. \A x : (\E i \in 1 .. n + 1 : x = l[i]) <=> (\E i \in 1 .. n : x = l[i]) \/ x = c
  <2>1. \A i : i \in 1 .. n + 1 <=> i \in 1 .. n \/ i = n + 1
    BY <1>5
  <2> QED
    BY <2>1
<1>9. \A x : x \in ToSet(SubSeq(l, 1, n + 1)) <=>
        (x \in DOMAIN Place /\ Place[x] < Place[c]) \/ x = c
  BY <1>2, <1>6, <1>7, <1>8
<1>10. CASE Includes(c, cons.end)
  BY <1>2, <1>10 DEF l, n
<1>11. CASE ~Includes(c, cons.end)
  BY <1>9, <1>11 DEF l, n
<1> QED
  BY <1>10, <1>11

\* Unlinking forgets every chunk that leaves the list, and none of the others.
LEMMA UnlinkKeeps == IInv /\ IInv' /\ JInv /\ ConsUnlink => JInv'
<1> SUFFICES ASSUME IInv, IInv', JInv, ConsUnlink PROVE JInv'
  OBVIOUS
<1> DEFINE l == Linked
           n == NUnlinked(l, cons.end)
           c == l[n + 1]
           k == Diff(cons.end, tail)
           drop == cons.op = "drop"
           gone == ToSet(SubSeq(l, 1, IF Includes(c, cons.end) THEN n ELSE n + 1))
           fill == Diff(tail, head)
<1>1. /\ cons.pc = "unlink"
      /\ deqTree' = IF drop THEN Untrack(deqTree, gone) ELSE deqTree
      /\ oooDeq' = IF oooDeq # Nil /\ drop /\ ~f_pos_lt(start[oooDeq], ChunkEnd(c))
                   THEN oooDeq ELSE Nil
      /\ cons' = [cons EXCEPT !.pc = IF n = 0 THEN "store" ELSE "collect",
                              !.freed = SubSeq(l, 1, n)]
      /\ headC' = IF ~drop THEN headC ELSE IF Includes(c, cons.end) THEN c ELSE Nil
      /\ UNCHANGED <<role, others, head, tail, start, data, free, endC, tailC, ooo, oooEnq,
                     enqTree, prod, closed, wrong>>
  BY DEF ConsUnlink, Linked, setup, prodVars
<1>2. /\ cons'.pc \in {"collect", "store"} /\ cons'.op = cons.op /\ cons'.end = cons.end
  <2> HIDE DEF n
  <2> QED
    BY <1>1 DEF IInv, Types
<1>3. /\ Geometry /\ Pending /\ ProdSide /\ EnqSide /\ ConsSide /\ DeqSide /\ Calls /\ Bytes
      /\ Kinds
  BY DEF JInv
<1>4. CutAt(l, c, k, n)
  BY <1>1, <1>3, UnlinkAt
<1>5. Remains(c)
  BY <1>3, UnlinkLeaves
<1>6. \A x : x \in gone <=> \/ x \in DOMAIN Place /\ Place[x] < Place[c]
                            \/ ~Includes(c, cons.end) /\ x = c
  BY <1>3, GoneIs
<1> HIDE DEF l, n, c, gone
<1>7. k \in Int /\ k <= 0 /\ -fill <= k
  BY <1>1, EndIs
<1>8. /\ c \in DOMAIN Place /\ Place[c] <= k /\ k <= Place[c] + Length
      /\ Includes(c, cons.end) <=> Holds(Place, c, k)
      /\ ~Holds(Place, c, k) => c = endC
  BY <1>4 DEF CutAt
<1>9. /\ \A x \in DOMAIN Place : /\ Place[x] \in Int /\ start[x] = Plus(tail, Place[x])
                                 /\ Place[startC] <= Place[x] /\ Place[x] + Length <= Reach
                                 /\ -(fill + Length) <= Place[x]
      /\ Reach \in Int /\ Length \in Nat /\ Length > 0 /\ Apart(Place) /\ 0 <= Reach
      /\ Reach < Free(head, tail) + MinAlloc + Length /\ DOMAIN Place = ToSet(Linked)
      /\ Nil \notin DOMAIN Place
  BY <1>3, ListIs, Bounds
<1>10. /\ \A x : x \in DOMAIN Place' <=> x \in DOMAIN Place /\ Place[c] <= Place[x]
       /\ \A x \in DOMAIN Place' : Place'[x] = Place[x]
       /\ Laid(Linked', Place') /\ startC' = c /\ Reach' = Reach
  BY <1>5 DEF Remains
<1>11. \A x \in DOMAIN Place : Place[x] + Length > k => x \in DOMAIN Place'
  <2> SUFFICES ASSUME NEW x \in DOMAIN Place, Place[x] + Length > k, x \notin DOMAIN Place'
               PROVE  FALSE
    OBVIOUS
  <2>1. ~(Place[c] <= Place[x])
    BY <1>10
  <2>2. x # c
    BY <1>9, <2>1
  <2>3. Place[c] + Length <= Place[x] \/ Place[x] + Length <= Place[c]
    BY <1>8, <1>9, <2>2 DEF Apart
  <2>4. Place[c] \in Int /\ Place[x] \in Int
    BY <1>8, <1>9
  <2> HIDE DEF Place, k
  <2> QED
    BY <1>7, <1>8, <1>9, <2>1, <2>3, <2>4
<1>12. Kept = -fill /\ Kept' = k /\ Held' = k /\ Written' = Written
  BY <1>1, <1>2, HeadIs DEF Kept, Held, Moved, Written
<1> HIDE DEF Place, Reach, k, fill
<1>13. Geometry'
  <2>1. c \in DOMAIN Place' /\ Place'[c] = Place[c]
    <3>1. Place[c] <= Place[c]
      BY <1>8, <1>9
    <3> QED
      BY <1>8, <1>10, <3>1
  <2>2. cons'.pc # "unlink"
    BY <1>2
  <2>3. /\ prod.pc \in {"copy", "store"} => prod.off + prod.len <= Reach
        /\ \A j \in Int : Covered(ooo, tail, j) => j < Reach
    BY <1>3 DEF Geometry
  <2>4. Place'[startC'] <= Kept' /\ Kept' <= Place'[startC'] + Length
    BY <1>8, <1>10, <1>12, <2>1
  <2>5. Free(head, tail)' = Free(head, tail)
    BY <1>1
  <2> QED
    BY <1>1, <1>9, <1>10, <2>2, <2>3, <2>4 DEF Geometry
<1>14. Pending'
  <2>1. Coming' = Coming
    BY <1>1 DEF Coming
  <2> QED
    BY <1>1, <1>3, <1>10, <2>1 DEF Pending
<1>15. ASSUME NEW x, NEW j \in Int, Holds(Place, x, j), j >= k PROVE Holds(Place', x, j)
  <2>1. x \in DOMAIN Place /\ Place[x] <= j /\ j < Place[x] + Length /\ Place[x] \in Int
    BY <1>9, <1>15 DEF Holds
  <2>2. Place[x] + Length > k
    BY <1>7, <1>9, <1>15, <2>1
  <2> QED
    BY <1>10, <1>11, <2>1, <2>2 DEF Holds
<1>16. ProdSide'
  <2>1. Written \in Int /\ Written >= k /\ 0 >= k /\ 0 \in Int
    <3>1. Written \in Nat
      BY DEF Written, IInv, Types
    <3> QED
      BY <1>7, <3>1
  <2>2. tailC # Nil => Holds(Place', tailC, Written)
    BY <1>3, <1>15, <2>1 DEF ProdSide
  <2>3. prod.pc # "idle" => IF prod.old = Nil THEN ooo = <<>> ELSE Holds(Place', prod.old, 0)
    BY <1>3, <1>15, <2>1 DEF ProdSide
  <2>4. oooEnq # Nil => oooEnq \in DOMAIN Place' /\ Place'[oooEnq] + Length > 0 /\ ooo # <<>>
    <3> SUFFICES ASSUME oooEnq # Nil
                 PROVE  oooEnq \in DOMAIN Place' /\ Place'[oooEnq] + Length > 0 /\ ooo # <<>>
      OBVIOUS
    <3>1. oooEnq \in DOMAIN Place /\ Place[oooEnq] + Length > 0 /\ ooo # <<>>
      BY <1>3 DEF ProdSide
    <3>2. Place[oooEnq] \in Int
      BY <1>9, <3>1
    <3>3. Place[oooEnq] + Length > k
      BY <1>7, <1>9, <3>1, <3>2
    <3> QED
      BY <1>10, <1>11, <3>1, <3>3
  <2>5. tailC = Nil => Written = Reach
    BY <1>3 DEF ProdSide
  <2> QED
    BY <1>1, <1>10, <1>12, <2>2, <2>3, <2>4, <2>5 DEF ProdSide
<1>17. EnqSide'
  <2> DEFINE T == Tracked(enqTree)
  <2>1. /\ enqTree = TreeOf(T) /\ T \subseteq DOMAIN Place
        /\ \A d \in T : Place[d] + Length > 0
        /\ \A x \in DOMAIN Place, d \in T :
             Place[x] <= Place[d] /\ Place[x] + Length > 0 => x \in T
        /\ \A d \in T : \E j \in Int : Covered(ooo, tail, j) /\ Place[d] <= j + 1
    BY <1>3 DEF EnqSide, Dense
  <2>2. T' = T
    BY <1>1 DEF Tracked
  <2> HIDE DEF T
  <2>3. TreeOf(T)' = TreeOf(T)
    BY <1>1, <2>2 DEF TreeOf
  <2>4. \A d \in T : Place[d] + Length > k
    <3> SUFFICES ASSUME NEW d \in T PROVE Place[d] + Length > k
      OBVIOUS
    <3>1. Place[d] \in Int /\ Place[d] + Length > 0
      BY <1>9, <2>1
    <3> QED
      BY <1>7, <1>9, <3>1
  <2>5. T \subseteq DOMAIN Place'
    BY <1>11, <2>1, <2>4
  <2>6. Dense(T, Place', 0)
    BY <1>10, <2>1, <2>5 DEF Dense
  <2>7. \A d \in T : \E j \in Int : Covered(ooo, tail, j) /\ Place'[d] <= j + 1
    BY <1>10, <2>1, <2>5
  <2> QED
    BY <1>1, <2>1, <2>2, <2>3, <2>6, <2>7 DEF EnqSide, T
<1>18. ConsSide'
  <2>1. headC' # Nil => Holds(Place, headC', k)
    <3>1. CASE drop
      BY <1>1, <1>8, <3>1
    <3>2. CASE ~drop
      <4>1. Held = k
        BY <1>1, <3>2 DEF Held, k
      <4> QED
        BY <1>1, <1>3, <3>2, <4>1 DEF ConsSide
    <3> QED
      BY <3>1, <3>2
  <2>2. headC' # Nil => Holds(Place', headC', k)
    <3>1. k >= k
      BY <1>7
    <3> QED
      BY <1>7, <1>15, <2>1, <3>1
  <2>3. oooDeq' # Nil => oooDeq' \in DOMAIN Place'
    <3> SUFFICES ASSUME oooDeq' # Nil PROVE oooDeq' \in DOMAIN Place'
      OBVIOUS
    <3> DEFINE o == oooDeq
               a == Place[o]
               b == Place[c] + Length
    <3>1. oooDeq' = o /\ ~f_pos_lt(start[o], ChunkEnd(c)) /\ o \in DOMAIN Place
      BY <1>1, <1>3 DEF ConsSide
    <3>2. /\ a \in Int /\ Place[c] \in Int /\ start[o] = Plus(tail, a)
          /\ start[c] = Plus(tail, Place[c]) /\ a + Length <= Reach /\ -(fill + Length) <= a
          /\ -(fill + Length) <= Place[c]
      BY <1>8, <1>9, <3>1
    <3>3. tail \in Pos /\ tail \in Int /\ fill \in Nat /\ fill <= Size
          /\ Free(head, tail) = Size - fill
      BY FillIs DEF fill
    <3>4. ChunkEnd(c) = Plus(tail, b)
      <4>1. Length \in Int
        BY Bounds
      <4>2. Plus(Plus(tail, Place[c]), Length) = Plus(tail, Place[c] + Length)
        BY <3>2, <3>3, <4>1, PlusPlus
      <4> QED
        BY <3>2, <4>2 DEF ChunkEnd
    <3>5. b \in Int /\ -W <= 2 * (a - b) /\ 2 * (a - b) < W
      BY <1>7, <1>8, <1>9, <3>2, <3>3, Bounds
    <3>6. f_pos_lt(Plus(tail, a), Plus(tail, b)) <=> a < b
      <4> HIDE DEF a, b
      <4> QED
        BY <3>2, <3>3, <3>5, Near
    <3>7. ~(a < b)
      BY <3>1, <3>2, <3>4, <3>6
    <3>8. Place[c] <= Place[o]
      BY <1>9, <3>2, <3>7
    <3> QED
      BY <1>10, <3>1, <3>8
  <2> QED
    BY <1>12, <2>2, <2>3 DEF ConsSide
<1>19. DeqSide'
  <2> DEFINE T == Tracked(deqTree)
             T2 == Tracked(deqTree')
  <2>1. deqTree' \in SUBSET (Pos \X Chunks)
    BY <1>1, <1>3 DEF DeqSide, Untrack
  <2>2. ASSUME closed = FALSE
        PROVE  deqTree' = {<<start[d], d>> : d \in T2} /\ Dense(T2, Place', Place[c])
    <3>1. drop \/ cons.op = "deq"
      BY <1>1, <1>3, <2>2, Zenon DEF Calls
    <3>2. CASE ~drop
      <4>1. deqTree' = {}
        <5>1. role = "rx"
          BY <1>3, <3>1, <3>2 DEF Calls
        <5> QED
          BY <1>1, <1>3, <3>2, <5>1 DEF Calls
      <4>2. T2 = {}
        BY <4>1 DEF Tracked
      <4> QED
        BY <4>1, <4>2 DEF Dense
    <3>3. CASE drop
      <4>1. /\ deqTree = TreeOf(T) /\ T \subseteq DOMAIN Place
            /\ \A x \in DOMAIN Place, d \in T :
                 Place[x] <= Place[d] /\ Place[x] + Length > Place[startC] => x \in T
        BY <1>3, <2>2 DEF DeqSide, Dense
      <4>2. deqTree' = {e \in deqTree : e[2] \notin gone}
        BY <1>1, <3>3 DEF Untrack
      <4> HIDE DEF T
      <4>3. \A d : d \in T2 <=> d \in T /\ d \notin gone
        <5>1. ASSUME NEW d \in T2 PROVE d \in T /\ d \notin gone
          <6>1. PICK e \in deqTree' : d = e[2]
            BY DEF Tracked
          <6>2. PICK x \in T : e = <<start[x], x>>
            BY <4>1, <4>2, <6>1 DEF TreeOf
          <6> QED
            BY <4>2, <6>1, <6>2
        <5>2. ASSUME NEW d \in T, d \notin gone PROVE d \in T2
          <6>1. <<start[d], d>> \in deqTree /\ <<start[d], d>>[2] = d
            BY <4>1 DEF TreeOf
          <6>2. <<start[d], d>> \in deqTree'
            BY <4>2, <5>2, <6>1
          <6> QED
            BY <6>1, <6>2 DEF Tracked
        <5> QED
          BY <5>1, <5>2
      <4> HIDE DEF T2
      <4>4. deqTree' = {<<start[d], d>> : d \in T2}
        BY <4>1, <4>2, <4>3 DEF TreeOf
      <4>5. \A d \in T2 : d \in DOMAIN Place' /\ Place'[d] = Place[d] /\ Place[c] <= Place[d]
                          /\ Place[d] \in Int /\ d \in T /\ d \in DOMAIN Place
        <5> SUFFICES ASSUME NEW d \in T2
                     PROVE  d \in DOMAIN Place' /\ Place'[d] = Place[d] /\ Place[c] <= Place[d]
                            /\ Place[d] \in Int /\ d \in T /\ d \in DOMAIN Place
          OBVIOUS
        <5>1. d \in T /\ d \in DOMAIN Place /\ ~(Place[d] < Place[c])
          BY <1>6, <4>1, <4>3
        <5>2. Place[d] \in Int /\ Place[c] \in Int
          BY <1>8, <1>9, <5>1
        <5>3. Place[c] <= Place[d]
          BY <5>1, <5>2
        <5> QED
          BY <1>10, <5>1, <5>2, <5>3
      <4>6. \A d \in T2 : Place[d] + Length > Place[c]
        <5>1. Place[c] \in Int
          BY <1>8, <1>9
        <5> QED
          BY <1>9, <4>5, <5>1
      <4>7. ASSUME NEW x \in DOMAIN Place', NEW d \in T2, Place[x] <= Place[d]
            PROVE  x \in T2
        <5>1. /\ x \in DOMAIN Place /\ Place[c] <= Place[x] /\ Place[x] \in Int
              /\ Place[startC] <= Place[x] /\ Place[c] \in Int
              /\ Place[startC] \in Int
          <6>1. x \in DOMAIN Place /\ startC \in DOMAIN Place
            BY <1>3, <1>10, ListIs
          <6> QED
            BY <1>8, <1>9, <1>10, <6>1
        <5>2. x \in T
          <6>1. Place[x] + Length > Place[startC]
            BY <1>9, <5>1
          <6> QED
            BY <4>1, <4>5, <4>7, <5>1, <6>1
        <5>3. ~(Place[x] < Place[c])
          BY <5>1
        <5>4. ASSUME ~Includes(c, cons.end), x = c PROVE FALSE
          <6>1. c = endC
            BY <1>8, <5>4
          <6>2. d \notin gone /\ d # c /\ d \in DOMAIN Place
            BY <1>6, <4>3, <4>5, <5>4
          <6>3. Place[c] + Length <= Place[d] \/ Place[d] + Length <= Place[c]
            BY <1>8, <1>9, <6>2 DEF Apart
          <6>4. Place[d] + Length <= Reach /\ Reach = Place[c] + Length
            BY <1>9, <6>1, <6>2 DEF Reach
          <6>5. Place[d] \in Int /\ Place[c] <= Place[d]
            BY <4>5
          <6> QED
            BY <1>9, <5>1, <6>3, <6>4, <6>5
        <5>5. x \notin gone
          BY <1>6, <5>3, <5>4
        <5> QED
          BY <4>3, <5>2, <5>5
      <4>8. Dense(T2, Place', Place[c])
        <5>1. T2 \subseteq DOMAIN Place'
          BY <4>5
        <5>2. \A d \in T2 : Place'[d] + Length > Place[c]
          BY <4>5, <4>6
        <5>3. \A x \in DOMAIN Place', d \in T2 : Place'[x] <= Place'[d] => x \in T2
          BY <1>10, <4>5, <4>7
        <5> QED
          BY <5>1, <5>2, <5>3 DEF Dense
      <4> QED
        BY <4>4, <4>8
    <3> QED
      BY <3>2, <3>3
  <2>3. Tracked(deqTree)' = T2
    BY DEF Tracked
  <2>4. TreeOf(Tracked(deqTree))' = {<<start[d], d>> : d \in T2}
    BY <1>1, <2>3 DEF TreeOf
  <2>5. Place'[startC'] = Place[c]
    <3>1. Place[c] <= Place[c]
      BY <1>8, <1>9
    <3> QED
      BY <1>8, <1>10, <3>1
  <2> HIDE DEF T2
  <2> QED
    BY <1>1, <2>1, <2>2, <2>3, <2>4, <2>5 DEF DeqSide
<1>20. Calls'
  <2>1. cons'.pc # "read" /\ cons.pc # "idle" /\ cons'.pc \in {"unlink", "collect", "store"}
        /\ cons.pc \in {"unlink", "collect", "store"}
    BY <1>1, <1>2
  <2>2. deqTree = {} => deqTree' = {}
    BY <1>1 DEF Untrack
  <2> QED
    BY <1>1, <1>2, <1>3, <2>1, <2>2, Zenon DEF Calls
<1>21. Bytes'
  <2> SUFFICES ASSUME NEW d \in DOMAIN Place', NEW i \in 0 .. Length - 1, Arrived(Place[d] + i)'
               PROVE  data[d][i] = Plus(start[d], i)
    BY <1>1 DEF Bytes
  <2>1. d \in DOMAIN Place /\ Place'[d] = Place[d] /\ Place[d] + i \in Int
    BY <1>9, <1>10
  <2>2. (k <= Place[d] + i /\ Place[d] + i < Written) \/ Covered(ooo, tail, Place[d] + i)
    BY <1>1, <1>12, <2>1 DEF Arrived
  <2>3. (Kept <= Place[d] + i /\ Place[d] + i < Written) \/ Covered(ooo, tail, Place[d] + i)
    <3>1. fill \in Nat
      BY FillIs DEF fill
    <3> QED
      BY <1>7, <1>12, <2>1, <2>2, <3>1
  <2>4. Arrived(Place[d] + i)
    BY <2>3 DEF Arrived
  <2> QED
    BY <1>3, <2>1, <2>4 DEF Bytes
<1>22. Kinds'
  BY <1>1, <1>3 DEF Kinds
<1> QED
  BY <1>13, <1>14, <1>16, <1>17, <1>18, <1>19, <1>20, <1>21, <1>22 DEF JInv

-----------------------------------------------------------------------------
(* The steps of the producer.                                              *)

\* Where the last chunk ends, and when it is not enough for a call.
LEMMA ReachIs ==
  ASSUME IInv, Geometry
  PROVE  /\ ChunkEnd(endC) = Plus(tail, Reach) /\ Diff(ChunkEnd(endC), tail) = Reach
         /\ \A off, n \in Nat : off + n <= Free(head, tail) =>
              (NeedsChunk(off, n) <=> Reach < off + n)
<1> DEFINE b == Place[endC]
           room == Free(head, tail)
<1>1. /\ b \in Int /\ start[endC] = Plus(tail, b) /\ Reach = b + Length
      /\ Reach \in Int /\ 0 <= Reach /\ Reach < room + MinAlloc + Length
  BY ListIs DEF Reach
<1>2. tail \in Pos /\ tail \in Int /\ room \in Nat /\ room <= Size
  BY FillIs
<1>3. Length \in Int /\ 0 \in Int
  BY Bounds
<1> HIDE DEF b, room, Reach
<1>4. Plus(Plus(tail, b), Length) = Plus(tail, b + Length)
  BY <1>1, <1>2, <1>3, PlusPlus
<1>5. ChunkEnd(endC) = Plus(tail, Reach)
  BY <1>1, <1>4 DEF ChunkEnd
<1>6. Diff(ChunkEnd(endC), tail) = Reach
  <2>1. -W <= 2 * (Reach - 0) /\ 2 * (Reach - 0) < W /\ Reach - 0 = Reach
    BY <1>1, <1>2, Bounds
  <2>2. Diff(Plus(tail, Reach), Plus(tail, 0)) = Reach - 0
    BY <1>1, <1>2, <1>3, <2>1, Near
  <2> QED
    BY <1>2, <1>5, <2>1, <2>2, PlusZero
<1>7. ASSUME NEW off \in Nat, NEW n \in Nat, off + n <= room
      PROVE  NeedsChunk(off, n) <=> Reach < off + n
  <2>1. off + n \in Int /\ -W <= 2 * (Reach - (off + n)) /\ 2 * (Reach - (off + n)) < W
    BY <1>1, <1>2, <1>7, Bounds
  <2>2. f_pos_lt(Plus(tail, Reach), Plus(tail, off + n)) <=> Reach < off + n
    <3> DEFINE m == off + n
    <3> HIDE DEF m
    <3>1. f_pos_lt(Plus(tail, Reach), Plus(tail, m)) <=> Reach < m
      BY <1>1, <1>2, <2>1, Near DEF m
    <3> QED
      BY <3>1 DEF m
  <2> QED
    BY <1>5, <2>2 DEF NeedsChunk
<1> QED
  BY <1>5, <1>6, <1>7 DEF room

\* Segments that cover nothing are none.
LEMMA NoSegments ==
  ASSUME IInv, \A k \in Int : ~Covered(ooo, tail, k)
  PROVE  ooo = <<>>
<1> DEFINE room == Free(head, tail)
<1>1. tail \in Pos /\ room \in Nat /\ room <= Size /\ Canonical(ooo, tail, room)
  BY FillIs DEF IInv
<1>2. ooo \in Seq(Segment)
  BY <1>1 DEF Canonical
<1> HIDE DEF room
<1>3. ASSUME Len(ooo) # 0 PROVE FALSE
  <2>1. Len(ooo) \in Nat
    BY <1>2, LenProperties
  <2>2. 1 \in 1 .. Len(ooo)
    BY <1>3, <2>1
  <2> DEFINE x == From(ooo[1], tail)
             y == Upto(ooo[1], tail)
  <2>3. x \in Int /\ y \in Int /\ x < y
    BY <1>1, <2>2, SegmentIs
  <2> HIDE DEF x, y
  <2>4. x <= x
    BY <2>3
  <2>5. Covered(ooo, tail, x)
    BY <2>2, <2>3, <2>4 DEF Covered, x, y
  <2> QED
    BY <2>3, <2>5
<1> QED
  BY <1>2, <1>3, EmptySeq

\* When the list is full, nothing has arrived ahead of tail.
LEMMA FullIs ==
  ASSUME IInv, Geometry, Reach = 0
  PROVE  ooo = <<>>
<1>1. tail \in Pos /\ Free(head, tail) \in Nat /\ Free(head, tail) <= Size
      /\ Canonical(ooo, tail, Free(head, tail))
  BY FillIs DEF IInv
<1>2. ASSUME NEW k \in Int, Covered(ooo, tail, k) PROVE FALSE
  <2>1. k < Reach
    BY <1>2 DEF Geometry
  <2>2. 1 <= k
    BY <1>1, <1>2, CoveredRange
  <2> QED
    BY <2>1, <2>2
<1> QED
  BY <1>2, NoSegments

\* A call of the producer begins.
LEMMA ProdLoadKeeps == IInv /\ IInv' /\ JInv /\ ProdLoad => JInv'
<1> SUFFICES ASSUME IInv, IInv', JInv, ProdLoad PROVE JInv'
  OBVIOUS
<1> DEFINE room == Free(head, tail)
<1>1. /\ prod.pc = "idle"
      /\ UNCHANGED <<role, others, head, tail, start, next, data, free, endC, tailC, ooo,
                     oooEnq, enqTree, startC, headC, oooDeq, deqTree, closed, cons, wrong>>
  BY DEF ProdLoad, setup, shared, consVars
<1>2. PICK op \in ProdOps, off \in 0 .. MaxLen, want \in 1 .. MaxLen :
        LET n == IF op = "enq" THEN IF want < room THEN want ELSE room ELSE want
        IN /\ (off > 0) = (op = "ooo")
           /\ n > 0 /\ off + n <= room
           /\ prod' = [prod EXCEPT
                         !.pc = IF NeedsChunk(off, n) THEN "alloc" ELSE "copy",
                         !.op = op, !.off = off, !.len = n,
                         !.head = head, !.old = tailC]
  BY DEF ProdLoad
<1> DEFINE n == IF op = "enq" THEN IF want < room THEN want ELSE room ELSE want
<1>3. off \in 0 .. MaxLen /\ want \in 1 .. MaxLen
  OBVIOUS
<1>4. /\ n > 0 /\ off + n <= room
      /\ prod' = [prod EXCEPT
                    !.pc = IF NeedsChunk(off, n) THEN "alloc" ELSE "copy",
                    !.op = op, !.off = off, !.len = n,
                    !.head = head, !.old = tailC]
  BY <1>2
<1>5. room \in Nat
  BY FillIs
<1>6. off \in Nat /\ n \in Nat
  <2> HIDE DEF room
  <2> QED
    BY <1>3, <1>4, <1>5, Sizes
<1> HIDE DEF n
<1>7. /\ prod'.pc = IF NeedsChunk(off, n) THEN "alloc" ELSE "copy"
      /\ prod'.off = off /\ prod'.len = n /\ prod'.old = tailC
  BY <1>4 DEF IInv, Types
<1>8. /\ Geometry /\ ProdSide /\ EnqSide /\ Bytes
      /\ data \in [Chunks -> [0 .. Length - 1 -> Pos \cup {Nil}]]
  BY DEF JInv, Kinds
<1>9. SameList
  BY <1>1, SameIs
<1>10. NeedsChunk(off, n) <=> Reach < off + n
  BY <1>4, <1>6, <1>8, ReachIs
<1>11. Reach \in Int
  BY <1>8, ListIs
<1>12. prod'.pc \in {"copy", "store"} => prod'.off + prod'.len <= Reach
  <2>1. prod'.pc \in {"copy", "store"} => ~(Reach < off + n)
    BY <1>7, <1>10
  <2> HIDE DEF Reach
  <2> QED
    BY <1>6, <1>7, <1>11, <2>1
<1>13. Written = 0 /\ Written' = 0 /\ prod'.pc # "link"
  BY <1>1, <1>7 DEF Written
<1>14. ProdSide'
  <2>1. /\ tailC # Nil => Holds(Place, tailC, 0)
        /\ tailC = Nil => 0 = Reach
        /\ oooEnq # Nil => oooEnq \in DOMAIN Place /\ Place[oooEnq] + Length > 0 /\ ooo # <<>>
    BY <1>8, <1>13 DEF ProdSide
  <2>2. tailC = Nil => ooo = <<>>
    BY <1>8, <2>1, FullIs
  <2>3. Place' = Place /\ Reach' = Reach
    BY <1>9 DEF SameList, Reach
  <2> QED
    BY <1>1, <1>7, <1>13, <2>1, <2>2, <2>3 DEF ProdSide
<1>15. EnqSide'
  BY <1>1, <1>8, <1>9, KeepEnqSide
<1>16. Bytes'
  <2>1. Kept' = Kept /\ Kept \in Int
    BY <1>1, HeadIs DEF Kept, Moved
  <2>2. Kept <= Kept'
    BY <2>1
  <2> QED
    BY <1>1, <1>8, <1>9, <1>13, <2>2, KeepBytes
<1>17. Pending'
  BY <1>13 DEF Pending
<1>18. \A k \in Int : Covered(ooo', tail, k) => k < Reach
  BY <1>1, <1>8 DEF Geometry
<1> QED
  BY <1>1, <1>8, <1>9, <1>12, <1>14, <1>15, <1>16, <1>17, <1>18, ProdKeeps

\* A call that gets no memory takes what is left of the last chunk.
LEMMA ProdGrowFailsKeeps == IInv /\ IInv' /\ JInv /\ ProdGrowFails => JInv'
<1> SUFFICES ASSUME IInv, IInv', JInv, ProdGrowFails PROVE JInv'
  OBVIOUS
<1> DEFINE n == Diff(ChunkEnd(endC), tail)
<1>1. /\ prod.pc = "alloc"
      /\ prod' = IF prod.op = "enq" /\ n > 0 THEN [prod EXCEPT !.pc = "copy", !.len = n] ELSE Idle
      /\ UNCHANGED <<role, others, head, tail, start, next, data, free, endC, tailC, ooo,
                     oooEnq, enqTree, startC, headC, oooDeq, deqTree, closed, cons, wrong>>
  BY DEF ProdGrowFails, setup, shared, consVars
<1>2. /\ Geometry /\ ProdSide /\ EnqSide /\ Bytes
      /\ data \in [Chunks -> [0 .. Length - 1 -> Pos \cup {Nil}]]
  BY DEF JInv, Kinds
<1>3. n = Reach /\ Reach \in Int
  BY <1>2, ReachIs, ListIs
<1>4. prod.off \in Nat /\ (prod.op # "ooo" => prod.off = 0)
  <2>1. prod.off \in Nat /\ (prod.off > 0 <=> prod.op = "ooo")
    BY <1>1 DEF IInv, Types, Window
  <2> QED
    BY <2>1
<1>5. \/ /\ prod'.pc = "copy" /\ prod'.len = n /\ prod'.off = 0 /\ prod'.old = prod.old
      \/ prod'.pc = "idle"
  <2>1. CASE prod.op = "enq" /\ n > 0
    <3>1. prod'.pc = "copy" /\ prod'.len = n /\ prod'.off = prod.off /\ prod'.old = prod.old
      BY <1>1, <2>1 DEF IInv, Types
    <3>2. prod.op # "ooo"
      BY <2>1
    <3> QED
      BY <1>4, <3>1, <3>2
  <2>2. CASE ~(prod.op = "enq" /\ n > 0)
    BY <1>1, <2>2 DEF Idle
  <2> QED
    BY <2>1, <2>2
<1>6. SameList
  BY <1>1, SameIs
<1>7. prod'.pc \in {"copy", "store"} => prod'.off + prod'.len <= Reach
  <2> HIDE DEF n, Reach
  <2> QED
    BY <1>3, <1>5
<1>8. Written = 0 /\ Written' = 0 /\ prod'.pc # "link"
  BY <1>1, <1>5 DEF Written
<1>9. ProdSide'
  <2>1. Place' = Place /\ Reach' = Reach
    BY <1>6 DEF SameList, Reach
  <2>2. prod.pc # "idle"
    BY <1>1
  <2> QED
    BY <1>1, <1>2, <1>5, <1>8, <2>1, <2>2 DEF ProdSide
<1>10. EnqSide'
  BY <1>1, <1>2, <1>6, KeepEnqSide
<1>11. Bytes'
  <2>1. Kept' = Kept /\ Kept \in Int
    BY <1>1, HeadIs DEF Kept, Moved
  <2>2. Kept <= Kept'
    BY <2>1
  <2> QED
    BY <1>1, <1>2, <1>6, <1>8, <2>2, KeepBytes
<1>12. Pending'
  BY <1>8 DEF Pending
<1>13. \A k \in Int : Covered(ooo', tail, k) => k < Reach
  BY <1>1, <1>2 DEF Geometry
<1> QED
  BY <1>1, <1>2, <1>6, <1>7, <1>9, <1>10, <1>11, <1>12, <1>13, ProdKeeps

\* What the producer knows before it copies: the bytes fit in the list, and
\* tail_chunk holds tail.
LEMMA CopyAt ==
  ASSUME IInv, JInv, prod.pc = "copy"
  PROVE  /\ prod.off \in Nat /\ prod.len \in Nat /\ prod.len >= 1
         /\ prod.off + prod.len \in Int /\ InRange(prod.off) /\ InRange(prod.off + prod.len)
         /\ prod.off + prod.len <= Reach /\ (prod.op # "ooo" => prod.off = 0)
         /\ (prod.op = "ooo" => prod.off > 0)
         /\ Written = 0 /\ tailC # Nil /\ Holds(Place, tailC, 0) /\ InRange(0)
<1> DEFINE off == prod.off
           len == prod.len
           room == Free(head, tail)
           fill == Diff(tail, head)
<1>1. /\ off \in Nat /\ len \in Nat /\ len >= 1 /\ off + len <= room
      /\ (off > 0 <=> prod.op = "ooo")
  BY DEF IInv, Types, Window
<1>2. Geometry /\ ProdSide
  BY DEF JInv
<1>3. off + len <= Reach /\ Reach \in Int
  BY <1>2, ListIs DEF Geometry
<1>4. room \in Nat /\ fill \in Nat
  BY FillIs
<1>5. Written = 0
  BY DEF Written
<1> HIDE DEF off, len, room, fill
<1>6. /\ -fill <= off /\ off <= room /\ -fill <= off + len /\ off + len <= room
      /\ -fill <= 0 /\ 0 <= room /\ off + len \in Int /\ off \in Int /\ 0 \in Int
  BY <1>1, <1>4
<1>7. InRange(off) /\ InRange(off + len) /\ InRange(0)
  BY <1>6 DEF InRange, room, fill
<1>8. Reach # 0
  <2> HIDE DEF Reach
  <2> QED
    BY <1>1, <1>3
<1>9. tailC # Nil /\ Holds(Place, tailC, 0)
  BY <1>2, <1>5, <1>8 DEF ProdSide
<1>10. (prod.op # "ooo" => off = 0) /\ (prod.op = "ooo" => off > 0)
  BY <1>1
<1> QED
  BY <1>1, <1>3, <1>5, <1>6, <1>7, <1>9, <1>10 DEF off, len

\* Bytes copied in order are where they belong, and tail_chunk follows them.
LEMMA ProdCopyKeeps == IInv /\ IInv' /\ JInv /\ ProdCopy => JInv'
<1> SUFFICES ASSUME IInv, IInv', JInv, ProdCopy PROVE JInv'
  OBVIOUS
<1> DEFINE n == prod.len
<1>1. /\ prod.pc = "copy" /\ prod.op # "ooo" /\ data' = CopyTo(tailC, tail, n)
      /\ tailC' = FindChunk(tailC, Plus(tail, n)) /\ prod' = [prod EXCEPT !.pc = "store"]
      /\ UNCHANGED <<role, others, head, tail, start, next, free, endC, ooo,
                     oooEnq, enqTree, startC, headC, oooDeq, deqTree, closed, cons, wrong>>
  BY DEF ProdCopy, setup, consVars
<1>2. /\ Geometry /\ ProdSide /\ EnqSide /\ Bytes
      /\ data \in [Chunks -> [0 .. Length - 1 -> Pos \cup {Nil}]]
  BY DEF JInv, Kinds
<1>3. /\ prod.off = 0 /\ n \in Nat /\ n >= 1 /\ InRange(prod.off + n) /\ prod.off + n <= Reach
      /\ Written = 0 /\ tailC # Nil /\ Holds(Place, tailC, 0) /\ InRange(0)
  BY <1>1, CopyAt
<1>4. InRange(n) /\ n <= Reach /\ n \in Int
  <2>1. prod.off + n = n
    BY <1>3
  <2> QED
    BY <1>3, <2>1
<1>5. prod'.pc = "store" /\ prod'.off = 0 /\ prod'.len = n /\ prod'.old = prod.old
  BY <1>1, <1>3 DEF IInv, Types
<1>6. SameList
  BY <1>1, SameIs
<1>7. Written' = n
  BY <1>5 DEF Written
<1>8. Place' = Place /\ Reach' = Reach
  BY <1>6 DEF SameList, Reach
<1>9. tailC \in DOMAIN Place /\ Place[tailC] <= 0 /\ Place[tailC] \in Int /\ Reach \in Int
  BY <1>2, <1>3, ListIs DEF Holds
<1> HIDE DEF n
<1>10. /\ tailC' # Nil => Holds(Place, tailC', n)
       /\ tailC' = Nil => n < Place[tailC] \/ Reach <= n
  BY <1>1, <1>2, <1>4, <1>9, FindIs
<1>11. tailC' = Nil => n = Reach
  <2> HIDE DEF Place, Reach
  <2> QED
    BY <1>3, <1>4, <1>9, <1>10
<1>12. ProdSide'
  <2>1. prod.pc # "idle"
    BY <1>1
  <2> QED
    BY <1>1, <1>2, <1>5, <1>7, <1>8, <1>10, <1>11, <2>1 DEF ProdSide
<1>13. EnqSide'
  BY <1>1, <1>2, <1>6, KeepEnqSide
<1>14. Bytes'
  <2>1. Kept' = Kept /\ Kept \in Int
    BY <1>1, HeadIs DEF Kept, Moved
  <2> SUFFICES ASSUME NEW d \in DOMAIN Place, NEW i \in 0 .. Length - 1, Arrived(Place[d] + i)'
               PROVE  data'[d][i] = Plus(start[d], i)
    BY <1>1, <1>8 DEF Bytes
  <2> DEFINE x == Place[d] + i
  <2>2. d \in Chunks /\ Place[d] \in Int
    BY <1>2, ListIs
  <2>3. x \in Int
    BY <2>2
  <2>4. (Kept <= x /\ x < n) \/ Covered(ooo, tail, x)
    BY <1>1, <1>7, <1>8, <2>1 DEF Arrived
  <2>5. data'[d][i] = IF 0 <= x /\ x < 0 + n THEN Plus(start[d], i) ELSE data[d][i]
    <3>1. tail \in Pos /\ Plus(tail, 0) = tail
      BY FillIs, PlusZero
    <3>2. CopyTo(tailC, Plus(tail, 0), n)[d][i] =
            IF d \in DOMAIN Place /\ 0 <= Place[d] + i /\ Place[d] + i < 0 + n
            THEN Plus(start[d], i) ELSE data[d][i]
      BY <1>2, <1>3, <2>2, CopyToIs
    <3> QED
      BY <1>1, <3>1, <3>2
  <2> HIDE DEF x
  <2>6. (0 <= x /\ x < 0 + n) \/ Arrived(x)
    <3>1. (0 <= x /\ x < 0 + n) \/ (Kept <= x /\ x < 0) \/ Covered(ooo, tail, x)
      BY <1>4, <2>1, <2>3, <2>4
    <3> QED
      BY <1>3, <3>1 DEF Arrived
  <2>7. Arrived(x) => data[d][i] = Plus(start[d], i)
    BY <1>2 DEF Bytes, x
  <2> QED
    BY <2>5, <2>6, <2>7
<1>15. Pending'
  BY <1>5 DEF Pending
<1>16. data' \in [Chunks -> [0 .. Length - 1 -> Pos \cup {Nil}]]
  BY <1>1, <1>2, CopyToType
<1>17. prod'.off + prod'.len <= Reach
  <2> HIDE DEF Reach
  <2> QED
    BY <1>4, <1>5
<1>18. \A k \in Int : Covered(ooo', tail, k) => k < Reach
  BY <1>1, <1>2 DEF Geometry
<1> QED
  BY <1>1, <1>6, <1>12, <1>13, <1>14, <1>15, <1>16, <1>17, <1>18, ProdKeeps

\* Bytes copied ahead of tail are where they belong, and the chunks up to theirs
\* are in the tree.
LEMMA ProdCopyOooKeeps == IInv /\ IInv' /\ JInv /\ ProdCopyOoo => JInv'
<1> SUFFICES ASSUME IInv, IInv', JInv, ProdCopyOoo PROVE JInv'
  OBVIOUS
<1> DEFINE k == prod.off
           n == prod.len
           y == k + n
           a == Plus(tail, k)
           b == Plus(a, n)
           known == oooEnq # Nil /\ Includes(oooEnq, a)
           l == Lookup(enqTree, tailC, a, b)
           c == IF known THEN oooEnq ELSE IF l.found = Nil THEN oooEnq ELSE l.found
           T == Tracked(enqTree)
<1>1. /\ prod.pc = "copy" /\ prod.op = "ooo" /\ prod' = Idle
      /\ enqTree' = IF known THEN enqTree ELSE l.tree
      /\ data' = CopyTo(c, a, n) /\ oooEnq' = FindChunk(c, b)
      /\ UNCHANGED <<role, others, head, tail, start, next, free, endC, tailC,
                     startC, headC, oooDeq, deqTree, closed, cons, wrong>>
  BY DEF ProdCopyOoo, setup, consVars
<1>2. /\ Geometry /\ ProdSide /\ EnqSide /\ Bytes
      /\ data \in [Chunks -> [0 .. Length - 1 -> Pos \cup {Nil}]]
  BY DEF JInv, Kinds
<1>3. /\ k \in Nat /\ n \in Nat /\ n >= 1 /\ y \in Int /\ InRange(k) /\ InRange(y) /\ y <= Reach
      /\ k > 0 /\ Written = 0 /\ tailC # Nil /\ Holds(Place, tailC, 0)
  BY <1>1, CopyAt
<1>4. \A j \in Int : Covered(ooo', tail, j) <=> Covered(ooo, tail, j) \/ (k <= j /\ j < y)
  BY SegmentsGrow
<1>5. prod'.pc = "idle"
  BY <1>1 DEF Idle
<1>6. SameList
  BY <1>1, SameIs
<1>7. Written' = 0
  BY <1>5 DEF Written
<1>8. Place' = Place /\ Reach' = Reach
  BY <1>6 DEF SameList, Reach
<1>9. /\ Nil \notin DOMAIN Place /\ Reach \in Int /\ Place[startC] \in Int
      /\ (\A d \in DOMAIN Place : Place[d] \in Int) /\ Length \in Nat /\ Length > 0
  BY <1>2, ListIs, Bounds
<1>10. b = Plus(tail, y)
  <2>1. tail \in Int
    BY FillIs
  <2> HIDE DEF k, n
  <2> QED
    BY <1>3, <2>1, PlusPlus
<1>11. enqTree = TreeOf(T) /\ Dense(T, Place, 0)
       /\ \A d \in T : \E j \in Int : Covered(ooo, tail, j) /\ Place[d] <= j + 1
  BY <1>2 DEF EnqSide
<1>12. Found(l, T, 0, k, y)
  <2>1. Place[startC] <= 0 /\ 0 \in Int
    <3>1. Place[startC] <= Kept /\ Kept \in Int /\ Kept <= 0
      BY <1>2, HeadIs DEF Geometry
    <3> HIDE DEF Place
    <3> QED
      BY <1>9, <3>1
  <2>2. 0 <= k /\ k < y
    <3> HIDE DEF k, n
    <3> QED
      BY <1>3
  <2>3. l = Lookup(TreeOf(T), tailC, Plus(tail, k), Plus(tail, y))
    BY <1>10, <1>11
  <2> HIDE DEF l, T, k, y
  <2>4. Found(Lookup(TreeOf(T), tailC, Plus(tail, k), Plus(tail, y)), T, 0, k, y)
    BY <1>2, <1>3, <1>11, <2>1, <2>2, LookupIs
  <2> QED
    BY <2>3, <2>4
<1>13. Holds(Place, c, k)
  <2>1. CASE known
    <3>1. oooEnq \in DOMAIN Place
      BY <1>2, <2>1 DEF ProdSide
    <3>2. Includes(oooEnq, Plus(tail, k))
      BY <2>1
    <3>3. Holds(Place, oooEnq, k)
      <4> HIDE DEF k
      <4> QED
        BY <1>2, <1>3, <3>1, <3>2, IncludesIs
    <3> QED
      BY <2>1, <3>3
  <2>2. CASE ~known
    <3>1. Holds(Place, l.found, k)
      BY <1>12 DEF Found
    <3>2. l.found # Nil
      BY <1>9, <3>1 DEF Holds
    <3>3. c = l.found
      BY <2>2, <3>2
    <3> QED
      BY <3>1, <3>3
  <2> QED
    BY <2>1, <2>2
<1> HIDE DEF k, n, a, b, known, l, c
<1>14. k \in Int /\ k <= k /\ k < y /\ y > 0 /\ y - 1 \in Int /\ k <= y - 1 /\ y - 1 < y
       /\ (y - 1) + 1 = y
  BY <1>3
<1>15. ooo' # <<>> /\ Covered(ooo', tail, k) /\ Covered(ooo', tail, y - 1)
  <2>1. Covered(ooo', tail, k) /\ Covered(ooo', tail, y - 1)
    BY <1>4, <1>14
  <2>2. ooo' = <<>> => ~Covered(ooo', tail, k)
    BY DEF Covered
  <2> QED
    BY <2>1, <2>2
<1>16. ProdSide'
  <2>1. oooEnq' # Nil => oooEnq' \in DOMAIN Place /\ Place[oooEnq'] + Length > 0
    <3> SUFFICES ASSUME oooEnq' # Nil PROVE oooEnq' \in DOMAIN Place /\ Place[oooEnq'] + Length > 0
      OBVIOUS
    <3>1. c \in DOMAIN Place
      BY <1>13 DEF Holds
    <3>2. Holds(Place, oooEnq', y)
      <4> HIDE DEF y
      <4> QED
        BY <1>1, <1>2, <1>3, <1>10, <3>1, FindIs
    <3>3. oooEnq' \in DOMAIN Place /\ y < Place[oooEnq'] + Length
      BY <3>2 DEF Holds
    <3>4. Place[oooEnq'] \in Int
      BY <1>9, <3>3
    <3> HIDE DEF Place, y
    <3> QED
      BY <1>3, <1>9, <1>14, <3>3, <3>4
  <2>2. (tailC # Nil => Holds(Place, tailC, 0)) /\ (tailC = Nil => 0 = Reach)
    BY <1>3
  <2> QED
    BY <1>1, <1>5, <1>7, <1>8, <1>15, <2>1, <2>2 DEF ProdSide
<1>17. EnqSide'
  <2> DEFINE T2 == Tracked(enqTree')
  <2>1. /\ enqTree' = TreeOf(T2) /\ Dense(T2, Place, 0)
        /\ \A d \in T2 : d \in T \/ Place[d] <= y
    <3>1. CASE known
      <4>1. enqTree' = enqTree
        BY <1>1, <3>1
      <4> QED
        BY <1>11, <4>1
    <3>2. CASE ~known
      <4>1. enqTree' = l.tree
        BY <1>1, <3>2
      <4> QED
        BY <1>12, <4>1 DEF Found
    <3> QED
      BY <3>1, <3>2
  <2>2. Tracked(enqTree)' = T2
    BY DEF Tracked
  <2>3. TreeOf(Tracked(enqTree))' = TreeOf(T2)
    BY <1>1, <2>2 DEF TreeOf
  <2> HIDE DEF T2, T
  <2>4. ASSUME NEW d \in T2
        PROVE  \E j \in Int : Covered(ooo', tail, j) /\ Place[d] <= j + 1
    <3>1. CASE d \in T
      <4>1. PICK j \in Int : Covered(ooo, tail, j) /\ Place[d] <= j + 1
        BY <1>11, <3>1
      <4> QED
        BY <1>4, <4>1
    <3>2. CASE Place[d] <= y
      BY <1>14, <1>15, <3>2
    <3> QED
      BY <2>1, <3>1, <3>2
  <2> QED
    BY <1>1, <1>8, <2>1, <2>2, <2>3, <2>4 DEF EnqSide
<1>18. Bytes'
  <2>1. Kept' = Kept /\ Kept \in Int
    BY <1>1, HeadIs DEF Kept, Moved
  <2> SUFFICES ASSUME NEW d \in DOMAIN Place, NEW i \in 0 .. Length - 1, Arrived(Place[d] + i)'
               PROVE  data'[d][i] = Plus(start[d], i)
    BY <1>1, <1>8 DEF Bytes
  <2> DEFINE x == Place[d] + i
  <2>2. d \in Chunks /\ Place[d] \in Int
    BY <1>2, ListIs
  <2>3. x \in Int
    BY <2>2
  <2>4. (Kept <= x /\ x < 0) \/ Covered(ooo', tail, x)
    BY <1>1, <1>7, <1>8, <2>1 DEF Arrived
  <2>5. data'[d][i] = IF k <= x /\ x < k + n THEN Plus(start[d], i) ELSE data[d][i]
    <3>1. CopyTo(c, Plus(tail, k), n)[d][i] =
            IF d \in DOMAIN Place /\ k <= Place[d] + i /\ Place[d] + i < k + n
            THEN Plus(start[d], i) ELSE data[d][i]
      BY <1>2, <1>3, <1>13, <2>2, CopyToIs
    <3> QED
      BY <1>1, <3>1 DEF a
  <2> HIDE DEF x
  <2>6. (k <= x /\ x < k + n) \/ Arrived(x)
    BY <1>3, <1>4, <2>3, <2>4 DEF Arrived
  <2>7. Arrived(x) => data[d][i] = Plus(start[d], i)
    BY <1>2 DEF Bytes, x
  <2> QED
    BY <2>5, <2>6, <2>7
<1>19. Pending'
  BY <1>5 DEF Pending
<1>20. data' \in [Chunks -> [0 .. Length - 1 -> Pos \cup {Nil}]]
  BY <1>1, <1>2, CopyToType
<1>21. \A j \in Int : Covered(ooo', tail, j) => j < Reach
  <2>1. \A j \in Int : Covered(ooo, tail, j) => j < Reach
    BY <1>2 DEF Geometry
  <2> HIDE DEF Reach
  <2> QED
    BY <1>3, <1>4, <1>9, <2>1
<1>22. prod'.pc \notin {"copy", "store"}
  BY <1>5
<1> QED
  BY <1>1, <1>6, <1>16, <1>17, <1>18, <1>19, <1>20, <1>21, <1>22, ProdKeeps

\* Multiples of the length of a chunk.
LEMMA Multiples ==
  /\ \A i, j \in Int : i <= j => Length * i <= Length * j
  /\ \A i \in Int : Length * i \in Int /\ Length * (i + 1) = Length * i + Length
                    /\ Length * 0 = 0
<1>1. Length \in Nat
  BY Bounds
<1>2. \A i, j \in Int : i <= j => Length * i <= Length * j
  BY <1>1
<1>3. \A i \in Int : Length * i \in Int /\ Length * (i + 1) = Length * i + Length
                     /\ Length * 0 = 0
  BY <1>1
<1> QED
  BY <1>2, <1>3

\* How much f_try_chunk_alloc asks for: what is missing, in whole chunks, and
\* less than a chunk more than that or than min_alloc.
LEMMA AllocIs ==
  ASSUME IInv, Geometry, prod.pc = "alloc"
  PROVE  /\ NChunks \in Int /\ NChunks >= 1
         /\ prod.off + prod.len <= Reach + Length * NChunks
         /\ Reach + Length * (NChunks - 1) < Free(head, tail) + MinAlloc
         /\ prod.off + prod.len \in Nat
<1> DEFINE m == AllocSize
           need == prod.off + prod.len
           room == Free(head, tail)
           seen == Free(prod.head, tail)
           L == Length
           q == (m + L - 1) \div L
<1>1. need \in Nat /\ need <= room /\ NeedsChunk(prod.off, prod.len)
      /\ prod.off \in Nat /\ prod.len \in Nat
  BY DEF IInv, Types, Window
<1>2. Reach \in Int /\ Diff(ChunkEnd(endC), tail) = Reach /\ Reach < need
  BY <1>1, ReachIs, ListIs
<1>3. NChunks \in Int /\ NChunks >= 1
  BY SomeChunks DEF IInv
<1>4. seen \in Int /\ MinAlloc \in Nat /\ room \in Nat /\ L \in Nat /\ L > 0
  <2>1. prod.head \in Int /\ tail \in Int
    BY Sizes DEF IInv, Types, Pos
  <2>2. Diff(tail, prod.head) \in Int
    BY <2>1, DiffIs
  <2> QED
    BY <2>2, FillIs, Bounds DEF Free
<1> DEFINE least == IF MinAlloc < seen THEN MinAlloc ELSE seen
           missing == prod.off + prod.len - Diff(ChunkEnd(endC), tail)
<1>5. m = IF least < missing THEN missing ELSE least
  BY DEF AllocSize
<1>6. m \in Int /\ need - Reach <= m /\ (m <= need - Reach \/ m <= MinAlloc)
  <2> HIDE DEF m, Reach, seen
  <2>1. missing = need - Reach
    BY <1>1, <1>2
  <2> HIDE DEF missing, need
  <2> QED
    BY <1>1, <1>2, <1>4, <1>5, <2>1
<1> HIDE DEF m, need, room, seen, Reach
<1>7. NChunks = q
  BY DEF NChunks, m
<1>8. m + L - 1 = q * L + ((m + L - 1) % L) /\ q \in Int /\ (m + L - 1) % L \in 0 .. L - 1
  <2> DEFINE z == m + L - 1
  <2>1. z \in Int
    BY <1>4, <1>6
  <2> HIDE DEF z, L
  <2>2. z = (z \div L) * L + (z % L) /\ z \div L \in Int
    BY <1>4, <2>1, Z3
  <2>3. z % L \in 0 .. L - 1
    BY <1>4, <2>1, Z3
  <2> QED
    BY <2>2, <2>3 DEF z
<1> DEFINE r == (m + L - 1) % L
<1> HIDE DEF q, L, r
<1>9. r \in Int /\ 0 <= r /\ r <= L - 1 /\ m + L - 1 = q * L + r
  BY <1>4, <1>8 DEF r
<1>10. q * L \in Int /\ m <= q * L /\ q * L <= m + L - 1
  <2>1. q * L \in Int
    BY <1>4, <1>8
  <2> QED
    BY <1>4, <1>6, <1>9, <2>1
<1>11. L * q = q * L /\ L * (q - 1) = q * L - L
  BY <1>4, <1>8
<1>12. need <= Reach + L * q
  BY <1>1, <1>2, <1>6, <1>10, <1>11
<1>13. Reach + L * (q - 1) < room + MinAlloc
  BY <1>1, <1>2, <1>4, <1>6, <1>10, <1>11
<1> QED
  BY <1>1, <1>3, <1>7, <1>12, <1>13 DEF need, room, L

\* The chunks that are allocated continue the list.
LEMMA ProdAllocKeeps == IInv /\ IInv' /\ JInv /\ ProdAlloc => JInv'
<1> SUFFICES ASSUME IInv, IInv', JInv, ProdAlloc PROVE JInv'
  OBVIOUS
<1> DEFINE new == Reverse(SubSeq(free, 1, NChunks))
           N == NChunks
           room == Free(head, tail)
<1>1. /\ prod.pc = "alloc" /\ NChunks <= Len(free)
      /\ UNCHANGED <<role, others, head, tail, data, endC, tailC, ooo,
                     oooEnq, enqTree, startC, headC, oooDeq, deqTree, closed, cons, wrong>>
  BY DEF ProdAlloc, setup, consVars
<1>2. /\ prod' = [prod EXCEPT !.pc = "link", !.new = new]
      /\ new \in Seq(Chunks) /\ Len(new) \in Nat /\ Len(new) > 0 /\ Once(new)
      /\ ToSet(free') \cup ToSet(new) = ToSet(free)
      /\ \A c \in Chunks \ ToSet(new) : next'[c] = next[c] /\ start'[c] = start[c]
      /\ \A i \in 1 .. Len(new) :
           start'[new[i]] = Plus(ChunkEnd(endC), Length * (i - 1))
  BY AllocParts
<1>3. /\ Geometry /\ ProdSide /\ EnqSide /\ Bytes
      /\ data \in [Chunks -> [0 .. Length - 1 -> Pos \cup {Nil}]]
  BY DEF JInv, Kinds
<1>4. /\ N \in Int /\ N >= 1 /\ prod.off + prod.len <= Reach + Length * N
      /\ Reach + Length * (N - 1) < room + MinAlloc /\ prod.off + prod.len \in Nat
  BY <1>1, <1>3, AllocIs
<1>5. Len(new) = N
  <2>1. free \in Seq(Chunks) /\ Once(free) /\ Len(free) \in Nat
    BY LenProperties DEF IInv, Types, Lists
  <2>2. N \in 0 .. Len(free)
    BY <1>1, <1>4, <2>1
  <2> HIDE DEF N
  <2>3. SubSeq(free, 1, N) \in Seq(Chunks) /\ Len(SubSeq(free, 1, N)) = N /\ Once(SubSeq(free, 1, N))
    BY <2>1, <2>2, SplitOnce
  <2>4. Len(Reverse(SubSeq(free, 1, N))) = N
    BY <2>3, ReverseOnce
  <2> QED
    BY <2>4 DEF N
<1>6. /\ prod'.pc = "link" /\ prod'.new = new /\ prod'.off = prod.off /\ prod'.len = prod.len
      /\ prod'.old = prod.old
  <2> HIDE DEF new
  <2> QED
    BY <1>2 DEF IInv, Types
<1> HIDE DEF new, N
<1>7. SameList
  <2>1. ToSet(Linked) \cap ToSet(free) = {} /\ ToSet(Linked) \subseteq Chunks
    BY <1>3, ListIs DEF IInv, Lists
  <2>2. \A c \in ToSet(Linked) : next'[c] = next[c] /\ start'[c] = start[c]
    BY <1>2, <2>1
  <2> QED
    BY <1>1, <2>2, SameOutside
<1>8. Place' = Place /\ Reach' = Reach
  BY <1>7 DEF SameList, Reach
<1>9. Written = 0 /\ Written' = 0
  BY <1>1, <1>6 DEF Written
<1>10. ProdSide'
  <2>1. prod.pc # "idle"
    BY <1>1
  <2> QED
    BY <1>1, <1>3, <1>6, <1>8, <1>9, <2>1 DEF ProdSide
<1>11. EnqSide'
  BY <1>1, <1>3, <1>7, KeepEnqSide
<1>12. Bytes'
  <2>1. Kept' = Kept /\ Kept \in Int
    BY <1>1, HeadIs DEF Kept, Moved
  <2>2. Kept <= Kept'
    BY <2>1
  <2> QED
    BY <1>1, <1>3, <1>7, <1>9, <2>2, KeepBytes
<1>13. /\ Reach \in Int /\ 0 <= Reach /\ ChunkEnd(endC) = Plus(tail, Reach)
       /\ tail \in Pos /\ tail \in Int /\ room \in Nat /\ room <= Size
       /\ Length \in Nat /\ Length > 0
  BY <1>3, ListIs, ReachIs, FillIs, Bounds
<1>14. ToSet(new) = {new[i] : i \in 1 .. N}
  BY <1>2, <1>5, LenProperties DEF ToSet
<1> DEFINE g == [c \in ToSet(new) |-> Diff(start'[c], tail)]
<1>15. Coming' = g
  BY <1>1, <1>6 DEF Coming
<1> HIDE DEF Reach, Place, room
<1>16. ASSUME NEW i \in 1 .. N PROVE new[i] \in ToSet(new) /\ g[new[i]] = Reach + Length * (i - 1)
  <2> DEFINE o == Length * (i - 1)
  <2>1. i - 1 \in Int /\ 0 <= i - 1 /\ i - 1 <= N - 1 /\ N - 1 \in Int /\ 0 \in Int
    BY <1>4, <1>16
  <2>2. o \in Int /\ Length * 0 <= o /\ Length * 0 = 0 /\ o <= Length * (N - 1)
        /\ Length * (N - 1) \in Int
    BY <2>1, Multiples
  <2>3. start'[new[i]] = Plus(Plus(tail, Reach), o) /\ new[i] \in ToSet(new)
    BY <1>2, <1>5, <1>13, <1>14
  <2> HIDE DEF o
  <2>4. Reach + o \in Int /\ Plus(Plus(tail, Reach), o) = Plus(tail, Reach + o)
    BY <1>13, <2>2, PlusPlus
  <2>5. -W <= 2 * ((Reach + o) - 0) /\ 2 * ((Reach + o) - 0) < W /\ (Reach + o) - 0 = Reach + o
    <3>1. 0 <= Reach + o /\ Reach + o < room + MinAlloc
      BY <1>4, <1>13, <2>2, Bounds
    <3> HIDE DEF N
    <3> QED
      BY <1>13, <2>4, <3>1, Bounds
  <2>6. Diff(Plus(tail, Reach + o), Plus(tail, 0)) = Reach + o
    <3> DEFINE z == Reach + o
    <3> HIDE DEF z
    <3>1. Diff(Plus(tail, z), Plus(tail, 0)) = z - 0
      BY <1>13, <2>1, <2>4, <2>5, Near DEF z
    <3> QED
      BY <2>4, <3>1 DEF z
  <2>7. Diff(start'[new[i]], tail) = Reach + o
    BY <1>13, <2>3, <2>4, <2>6, PlusZero
  <2> QED
    BY <2>3, <2>7 DEF o
<1> HIDE DEF g
<1>17. Laid(new, g)
  <2>1. ASSUME NEW i \in 1 .. Len(new) - 1 PROVE g[new[i + 1]] = g[new[i]] + Length
    <3>1. i \in 1 .. N /\ i + 1 \in 1 .. N /\ (i + 1) - 1 = (i - 1) + 1 /\ i - 1 \in Int
      BY <1>4, <1>5
    <3>2. Length * ((i - 1) + 1) = Length * (i - 1) + Length /\ Length * (i - 1) \in Int
      BY <3>1, Multiples
    <3>3. g[new[i + 1]] = Reach + Length * ((i - 1) + 1) /\ g[new[i]] = Reach + Length * (i - 1)
      BY <1>16, <3>1
    <3> DEFINE o == Length * (i - 1)
    <3> HIDE DEF o
    <3> QED
      BY <1>13, <3>2, <3>3 DEF o
  <2>2. ASSUME NEW i \in 1 .. Len(new), NEW j \in 1 .. Len(new), i < j
        PROVE  g[new[i]] + Length <= g[new[j]]
    <3>1. /\ i \in 1 .. N /\ j \in 1 .. N /\ i - 1 \in Int /\ j - 1 \in Int
          /\ (i - 1) + 1 <= j - 1 /\ (i - 1) + 1 \in Int
      BY <1>4, <1>5, <2>2
    <3> DEFINE o == Length * (i - 1)
               p == Length * (j - 1)
    <3>2. /\ Length * ((i - 1) + 1) = o + Length /\ o \in Int /\ p \in Int
          /\ Length * ((i - 1) + 1) <= p
      BY <3>1, Multiples
    <3>3. g[new[j]] = Reach + p /\ g[new[i]] = Reach + o
      BY <1>16, <3>1
    <3> HIDE DEF o, p
    <3> QED
      BY <1>13, <3>2, <3>3
  <2> QED
    BY <2>1, <2>2 DEF Laid
<1>18. /\ g[new[1]] = Reach /\ g[Last(new)] = Reach + Length * (N - 1)
  <2>1. 1 \in 1 .. N /\ N \in 1 .. N /\ 1 - 1 = 0 /\ 0 \in Int
    BY <1>4
  <2>2. Length * 0 = 0
    BY <2>1, Multiples
  <2>3. g[new[1]] = Reach + 0
    BY <1>16, <2>1, <2>2
  <2>4. Last(new) = new[N]
    BY <1>5 DEF Last
  <2> QED
    BY <1>13, <1>16, <2>1, <2>3, <2>4
<1>19. prod.off + prod.len <= g[Last(new)] + Length /\ g[Last(new)] < room + MinAlloc
  <2>1. N - 1 \in Int /\ (N - 1) + 1 = N
    BY <1>4
  <2>2. Length * ((N - 1) + 1) = Length * (N - 1) + Length /\ Length * (N - 1) \in Int
    BY <2>1, Multiples
  <2> DEFINE o == Length * (N - 1)
  <2>3. prod.off + prod.len <= Reach + (o + Length) /\ g[Last(new)] = Reach + o
        /\ o \in Int /\ Reach + o < room + MinAlloc
    BY <1>4, <1>18, <2>1, <2>2
  <2> HIDE DEF o
  <2> QED
    BY <1>4, <1>13, <2>3
<1>20. Pending'
  <2>1. Free(head, tail)' = room
    BY <1>1 DEF room
  <2> QED
    BY <1>6, <1>8, <1>15, <1>17, <1>18, <1>19, <2>1 DEF Pending
<1>21. \A k \in Int : Covered(ooo', tail, k) => k < Reach
  BY <1>1, <1>3 DEF Geometry
<1>22. prod'.pc \notin {"copy", "store"} /\ data' \in [Chunks -> [0 .. Length - 1 -> Pos \cup {Nil}]]
  BY <1>1, <1>3, <1>6
<1> QED
  BY <1>1, <1>7, <1>10, <1>11, <1>12, <1>20, <1>21, <1>22, ProdKeeps

\* The list after new chunks are linked behind it.
Grown ==
  /\ DOMAIN Place' = DOMAIN Place \cup ToSet(prod.new)
  /\ \A x \in DOMAIN Place : Place'[x] = Place[x] /\ Place[x] < Reach
  /\ \A x \in ToSet(prod.new) : Place'[x] \in Int /\ Reach <= Place'[x]
  /\ Place'[prod.new[1]] = Reach /\ prod.new[1] \in ToSet(prod.new)
  /\ Laid(Linked', Place') /\ UNCHANGED <<tail, startC>>
  /\ Reach' \in Int /\ Reach < Reach' /\ Reach' < Free(head, tail) + MinAlloc + Length
  /\ prod.off + prod.len <= Reach'

\* f_try_chunk_alloc makes the list grow so.
LEMMA LinkGrows ==
  ASSUME IInv, Geometry, Pending, ProdLink
  PROVE  Grown
<1> DEFINE l == Linked
           m == prod.new
           n == Len(l)
           q == Len(m)
           u == l \o m
           e == Place
           g == Coming
           d == Last(m)
<1>1. /\ prod.pc = "link" /\ next' = [next EXCEPT ![endC] = m[1]] /\ endC' = d
      /\ UNCHANGED <<tail, start, startC>>
  BY DEF ProdLink, consVars
<1>2. /\ Chain(next, l, startC, endC) /\ Chain(next, m, m[1], d)
      /\ ToSet(l) \cap ToSet(m) = {} /\ next \in [Chunks -> Opt]
  BY <1>1 DEF IInv, Lists, Types
<1>3. /\ Laid(m, g) /\ g[m[1]] = Reach /\ prod.off + prod.len <= g[d] + Length
      /\ g[d] < Free(head, tail) + MinAlloc
  BY <1>1 DEF Pending
<1>4. /\ DOMAIN e = ToSet(l) /\ (\A x \in ToSet(l) : e[x] \in Int /\ e[x] + Length <= Reach)
      /\ Reach \in Int /\ Laid(l, e)
  BY ListIs DEF Geometry
<1>5. prod.off + prod.len \in Int /\ tail \in Int /\ Length \in Nat /\ Length > 0
      /\ Free(head, tail) \in Nat /\ MinAlloc \in Nat
  BY FillIs, Bounds DEF IInv, Types
<1>6. e = [x \in ToSet(l) |-> Diff(start[x], tail)]
  BY DEF Place
<1>7. g = [x \in ToSet(m) |-> Diff(start[x], tail)]
  BY DEF Coming
<1>8. l[n] = endC /\ m[q] = d /\ Reach = e[endC] + Length
  BY <1>2 DEF Chain, Reach
<1> HIDE DEF l, m, d
<1>9. /\ l \in Seq(Chunks) /\ n \in Nat /\ n > 0 /\ \A i \in 1 .. n : l[i] \in ToSet(l)
      /\ m \in Seq(Chunks) /\ q \in Nat /\ q > 0 /\ \A i \in 1 .. q : m[i] \in ToSet(m)
      /\ d \in ToSet(m) /\ ToSet(m) \subseteq Chunks /\ m[1] \in ToSet(m)
  BY <1>2, ChainParts
<1>10. Chain(next', u, startC, d) /\ ToSet(u) = ToSet(l) \cup ToSet(m)
  <2>1. \A x \in Chunks : next'[x] = IF x = endC THEN m[1] ELSE next[x]
    BY <1>1, <1>2
  <2> QED
    BY <1>2, <2>1, ChainJoin
<1>11. Linked' = u
  BY <1>1, <1>10, LinkedIs, ListOfChain
<1>12. Place' = [x \in ToSet(l) \cup ToSet(m) |-> Diff(start[x], tail)]
  BY <1>1, <1>10, <1>11 DEF Place
<1> DEFINE f == Place'
<1>13. /\ DOMAIN f = ToSet(l) \cup ToSet(m)
       /\ \A x \in ToSet(l) : f[x] = e[x]
       /\ \A x \in ToSet(m) : f[x] = g[x]
  BY <1>6, <1>7, <1>12
<1>14. \A x \in ToSet(m) : g[x] \in Int
  <2> SUFFICES ASSUME NEW x \in ToSet(m) PROVE g[x] \in Int
    OBVIOUS
  <2>1. x \in Chunks
    BY <1>9
  <2>2. start[x] \in Int
    BY <2>1, Sizes DEF IInv, Types, Pos
  <2> QED
    BY <1>5, <1>7, <2>2, DiffIs
<1>15. Reach' = f[d] + Length
  BY <1>1 DEF Reach
<1> HIDE DEF e, f, g, Reach, n, q
<1>16. ASSUME NEW j \in 1 .. q PROVE Reach <= g[m[j]]
  <2>1. g[m[j]] \in Int
    BY <1>9, <1>14
  <2>2. CASE j = 1
    BY <1>3, <1>4, <2>2
  <2>3. CASE j # 1
    <3>1. 1 \in 1 .. q /\ 1 < j
      BY <1>9, <2>3
    <3>2. g[m[1]] + Length <= g[m[j]]
      BY <1>3, <3>1 DEF Laid, q
    <3> QED
      BY <1>3, <1>4, <1>5, <2>1, <3>2
  <2> QED
    BY <2>2, <2>3
<1>17. \A x \in ToSet(m) : Reach <= g[x]
  <2>1. \A x \in ToSet(m) : \E j \in 1 .. q : x = m[j]
    BY <1>9, LenProperties DEF ToSet, q
  <2> QED
    BY <1>16, <2>1
<1>18. /\ Len(u) = n + q
       /\ \A i \in 1 .. n : u[i] = l[i]
       /\ \A i \in 1 .. q : u[n + i] = m[i]
  BY <1>9 DEF n, q
<1>19. /\ \A i \in 1 .. n : f[u[i]] = e[l[i]] /\ e[l[i]] \in Int /\ e[l[i]] + Length <= Reach
       /\ \A i \in 1 .. q : f[u[n + i]] = g[m[i]] /\ g[m[i]] \in Int
  BY <1>4, <1>9, <1>13, <1>14, <1>18
<1> HIDE DEF u
<1>20. ASSUME NEW i \in 1 .. Len(u) - 1 PROVE f[u[i + 1]] = f[u[i]] + Length
  <2>1. CASE i < n
    <3>1. i \in 1 .. n - 1 /\ i \in 1 .. n /\ i + 1 \in 1 .. n
      BY <1>9, <1>18, <2>1
    <3>2. e[l[i + 1]] = e[l[i]] + Length
      BY <1>4, <3>1 DEF Laid, n
    <3> QED
      BY <1>19, <3>1, <3>2
  <2>2. CASE i = n
    <3>1. n \in 1 .. n /\ 1 \in 1 .. q
      BY <1>9
    <3>2. f[u[n]] = e[endC] /\ f[u[n + 1]] = g[m[1]]
      BY <1>8, <1>19, <3>1
    <3> QED
      BY <1>3, <1>8, <2>2, <3>2
  <2>3. CASE i > n
    <3> DEFINE j == i - n
    <3>1. j \in 1 .. q - 1 /\ j \in 1 .. q /\ j + 1 \in 1 .. q /\ n + j = i /\ n + (j + 1) = i + 1
      BY <1>9, <1>18, <2>3
    <3> HIDE DEF j
    <3>2. g[m[j + 1]] = g[m[j]] + Length
      BY <1>3, <3>1 DEF Laid, q
    <3>3. f[u[n + j]] = g[m[j]] /\ f[u[n + (j + 1)]] = g[m[j + 1]]
      BY <1>19, <3>1
    <3> QED
      BY <3>1, <3>2, <3>3
  <2> QED
    BY <1>9, <2>1, <2>2, <2>3
<1>21. ASSUME NEW i \in 1 .. Len(u), NEW j \in 1 .. Len(u), i < j
       PROVE  f[u[i]] + Length <= f[u[j]]
  <2>1. CASE j <= n
    <3>1. i \in 1 .. n /\ j \in 1 .. n
      BY <1>9, <1>18, <1>21, <2>1
    <3>2. e[l[i]] + Length <= e[l[j]]
      BY <1>4, <1>21, <3>1 DEF Laid, n
    <3> QED
      BY <1>19, <3>1, <3>2
  <2>2. CASE i <= n /\ j > n
    <3> DEFINE b == j - n
    <3>1. i \in 1 .. n /\ b \in 1 .. q /\ n + b = j
      BY <1>9, <1>18, <2>2
    <3> HIDE DEF b
    <3>2. e[l[i]] + Length <= Reach /\ Reach <= g[m[b]] /\ e[l[i]] \in Int /\ g[m[b]] \in Int
      BY <1>16, <1>19, <3>1
    <3>3. f[u[i]] = e[l[i]] /\ f[u[n + b]] = g[m[b]]
      BY <1>19, <3>1
    <3>4. e[l[i]] + Length <= g[m[b]]
      BY <1>4, <1>5, <3>2
    <3> QED
      BY <3>1, <3>3, <3>4
  <2>3. CASE i > n
    <3> DEFINE a == i - n
               b == j - n
    <3>1. a \in 1 .. q /\ b \in 1 .. q /\ n + a = i /\ n + b = j /\ a < b
      BY <1>9, <1>18, <1>21, <2>3
    <3> HIDE DEF a, b
    <3>2. g[m[a]] + Length <= g[m[b]]
      BY <1>3, <3>1 DEF Laid, q
    <3>3. f[u[n + a]] = g[m[a]] /\ f[u[n + b]] = g[m[b]]
      BY <1>19, <3>1
    <3> QED
      BY <3>1, <3>2, <3>3
  <2> QED
    BY <1>9, <1>18, <2>1, <2>2, <2>3
<1>22. Laid(u, f)
  BY <1>20, <1>21 DEF Laid
<1>23. /\ Reach' \in Int /\ Reach < Reach' /\ Reach' < Free(head, tail) + MinAlloc + Length
       /\ prod.off + prod.len <= Reach'
  <2>1. f[d] = g[d] /\ g[d] \in Int /\ Reach <= g[d]
    BY <1>9, <1>13, <1>14, <1>17
  <2> QED
    BY <1>3, <1>4, <1>5, <1>15, <2>1
<1>24. \A x \in DOMAIN e : f[x] = e[x] /\ e[x] < Reach
  <2>1. \A x \in ToSet(l) : e[x] < Reach
    BY <1>4, <1>5
  <2> QED
    BY <1>4, <1>13, <2>1
<1>25. \A x \in ToSet(m) : f[x] \in Int /\ Reach <= f[x]
  BY <1>13, <1>14, <1>17
<1>26. f[m[1]] = Reach /\ m[1] \in ToSet(m)
  BY <1>3, <1>9, <1>13
<1>27. DOMAIN f = DOMAIN e \cup ToSet(m)
  BY <1>4, <1>13
<1> QED
  BY <1>1, <1>11, <1>22, <1>23, <1>24, <1>25, <1>26, <1>27 DEF Grown, e, f, m

\* Linking keeps everything: the new chunks lie beyond all that has arrived.
LEMMA ProdLinkKeeps == IInv /\ IInv' /\ JInv /\ ProdLink => JInv'
<1> SUFFICES ASSUME IInv, IInv', JInv, ProdLink PROVE JInv'
  OBVIOUS
<1> DEFINE m == prod.new
<1>1. /\ prod.pc = "link" /\ tailC' = IF tailC = Nil THEN m[1] ELSE tailC
      /\ prod' = [prod EXCEPT !.pc = "copy", !.new = <<>>,
                              !.old = IF prod.op = "segs" THEN @ ELSE tailC']
      /\ UNCHANGED <<role, others, head, tail, start, data, free, ooo, oooEnq, enqTree,
                     startC, headC, oooDeq, deqTree, closed, cons, wrong>>
  BY DEF ProdLink, setup, consVars
<1>2. /\ prod'.pc = "copy" /\ prod'.off = prod.off /\ prod'.len = prod.len
      /\ prod'.old = IF prod.op = "segs" THEN prod.old ELSE tailC'
  BY <1>1 DEF IInv, Types
<1>3. /\ Geometry /\ Pending /\ ProdSide /\ EnqSide /\ ConsSide /\ DeqSide /\ Calls /\ Bytes
      /\ Kinds
  BY DEF JInv
<1>4. Grown
  BY <1>3, LinkGrows
<1> HIDE DEF m
<1>5. /\ DOMAIN Place' = DOMAIN Place \cup ToSet(m)
      /\ \A x \in DOMAIN Place : Place'[x] = Place[x] /\ Place[x] < Reach
      /\ \A x \in ToSet(m) : Place'[x] \in Int /\ Reach <= Place'[x]
      /\ Place'[m[1]] = Reach /\ m[1] \in ToSet(m)
      /\ Laid(Linked', Place')
      /\ Reach' \in Int /\ Reach < Reach' /\ Reach' < Free(head, tail) + MinAlloc + Length
      /\ prod.off + prod.len <= Reach'
  BY <1>4 DEF Grown, m
<1>6. /\ (\A x \in DOMAIN Place : Place[x] \in Int) /\ startC \in DOMAIN Place
      /\ Reach \in Int /\ 0 <= Reach /\ Length \in Nat /\ Length > 0 /\ Nil \notin DOMAIN Place
  BY <1>3, ListIs, Bounds
<1>7. Kept' = Kept /\ Held' = Held /\ Written = 0 /\ Written' = 0
  BY <1>1, <1>2 DEF Kept, Held, Moved, Written
<1>8. Nil \notin ToSet(m)
  <2>1. Chain(next, prod.new, prod.new[1], Last(prod.new))
    BY <1>1 DEF IInv, Lists
  <2>2. ToSet(m) \subseteq Chunks
    BY <2>1, ChainParts DEF m
  <2> QED
    BY <2>2, Sizes
<1> HIDE DEF Place, Reach
<1>9. \A x, k : Holds(Place, x, k) => Holds(Place', x, k)
  BY <1>5 DEF Holds
<1>10. \A x \in DOMAIN Place', d \in DOMAIN Place : Place'[x] <= Place[d] => x \in DOMAIN Place
  <2> SUFFICES ASSUME NEW x \in ToSet(m), NEW d \in DOMAIN Place, Place'[x] <= Place[d]
               PROVE  FALSE
    BY <1>5
  <2>1. Place'[x] \in Int /\ Reach <= Place'[x] /\ Place[d] \in Int /\ Place[d] < Reach
    BY <1>5, <1>6
  <2> QED
    BY <1>6, <2>1
<1>11. \A T, lo : T \subseteq DOMAIN Place /\ Dense(T, Place, lo) => Dense(T, Place', lo)
  BY <1>5, <1>10 DEF Dense
<1>12. Geometry'
  <2>1. Place'[startC] = Place[startC]
    BY <1>5, <1>6
  <2>2. /\ Place[startC] <= Kept /\ Kept <= Place[startC] + Length
        /\ \A k \in Int : Covered(ooo, tail, k) => k < Reach
        /\ cons.pc = "unlink" => Diff(cons.end, tail) >= Place[startC] + Length
    BY <1>3 DEF Geometry
  <2>3. \A k \in Int : Covered(ooo, tail, k) => k < Reach'
    BY <1>5, <1>6, <2>2
  <2>4. 0 <= Reach'
    BY <1>5, <1>6
  <2>5. Free(head, tail)' = Free(head, tail)
    BY <1>1
  <2> QED
    BY <1>1, <1>2, <1>5, <1>7, <2>1, <2>2, <2>3, <2>4, <2>5 DEF Geometry
<1>13. Pending'
  BY <1>2 DEF Pending
<1>14. ProdSide'
  <2>1. tailC' # Nil /\ Holds(Place', tailC', 0)
    <3>1. CASE tailC = Nil
      <4>1. Reach = 0
        BY <1>3, <1>7, <3>1 DEF ProdSide
      <4>2. tailC' = m[1] /\ m[1] # Nil /\ m[1] \in DOMAIN Place' /\ Place'[m[1]] = 0
        BY <1>1, <1>5, <1>8, <3>1, <4>1
      <4> QED
        BY <1>6, <4>2 DEF Holds
    <3>2. CASE tailC # Nil
      <4>1. Holds(Place, tailC, 0)
        BY <1>3, <1>7, <3>2 DEF ProdSide
      <4> QED
        BY <1>1, <1>9, <3>2, <4>1
    <3> QED
      BY <3>1, <3>2
  <2>2. IF prod'.old = Nil THEN ooo = <<>> ELSE Holds(Place', prod'.old, 0)
    <3>1. prod.pc # "idle"
      BY <1>1
    <3>2. IF prod.old = Nil THEN ooo = <<>> ELSE Holds(Place', prod.old, 0)
      BY <1>3, <1>9, <3>1 DEF ProdSide
    <3> QED
      BY <1>2, <2>1, <3>2
  <2>3. oooEnq # Nil => oooEnq \in DOMAIN Place' /\ Place'[oooEnq] + Length > 0 /\ ooo # <<>>
    BY <1>3, <1>5 DEF ProdSide
  <2> QED
    BY <1>1, <1>2, <1>7, <2>1, <2>2, <2>3 DEF ProdSide
<1>15. EnqSide'
  <2> DEFINE T == Tracked(enqTree)
  <2>1. /\ enqTree = TreeOf(T) /\ Dense(T, Place, 0) /\ T \subseteq DOMAIN Place
        /\ \A d \in T : \E k \in Int : Covered(ooo, tail, k) /\ Place[d] <= k + 1
    BY <1>3 DEF EnqSide, Dense
  <2>2. T' = T
    BY <1>1 DEF Tracked
  <2> HIDE DEF T
  <2>3. TreeOf(T)' = TreeOf(T)
    BY <1>1, <2>2 DEF TreeOf
  <2>4. Dense(T, Place', 0)
    BY <1>11, <2>1
  <2>5. \A d \in T : \E k \in Int : Covered(ooo, tail, k) /\ Place'[d] <= k + 1
    BY <1>5, <2>1
  <2> QED
    BY <1>1, <2>1, <2>2, <2>3, <2>4, <2>5 DEF EnqSide, T
<1>16. ConsSide'
  BY <1>1, <1>3, <1>5, <1>7, <1>9 DEF ConsSide
<1>17. DeqSide'
  <2> DEFINE T == Tracked(deqTree)
  <2>1. /\ closed = FALSE => /\ deqTree = TreeOf(T) /\ Dense(T, Place, Place[startC])
                             /\ T \subseteq DOMAIN Place
        /\ deqTree \in SUBSET (Pos \X Chunks)
    BY <1>3 DEF DeqSide, Dense
  <2>2. T' = T
    BY <1>1 DEF Tracked
  <2> HIDE DEF T
  <2>3. TreeOf(T)' = TreeOf(T)
    BY <1>1, <2>2 DEF TreeOf
  <2>4. closed = FALSE => Dense(T, Place', Place[startC])
    BY <1>11, <2>1
  <2>5. Place'[startC'] = Place[startC]
    BY <1>1, <1>5, <1>6
  <2> QED
    BY <1>1, <2>1, <2>2, <2>3, <2>4, <2>5 DEF DeqSide, T
<1>18. Calls'
  BY <1>1, <1>3, Zenon DEF Calls
<1>19. Bytes'
  <2> SUFFICES ASSUME NEW d \in DOMAIN Place', NEW i \in 0 .. Length - 1,
                      NEW x, x = Place'[d] + i,
                      (Kept <= x /\ x < 0) \/ Covered(ooo, tail, x)
               PROVE  data[d][i] = Plus(start[d], i)
    BY <1>1, <1>7 DEF Bytes, Arrived
  <2>1. CASE d \in DOMAIN Place
    <3>1. x = Place[d] + i
      BY <1>5, <2>1
    <3>2. Arrived(Place[d] + i)
      BY <1>7, <3>1 DEF Arrived
    <3> QED
      BY <1>3, <2>1, <3>2 DEF Bytes
  <2>2. CASE d \in ToSet(m)
    <3>1. x \in Int /\ Reach <= x
      BY <1>5, <1>6, <2>2
    <3>2. Covered(ooo, tail, x) => x < Reach
      BY <1>3, <3>1 DEF Geometry
    <3> QED
      BY <1>6, <3>1, <3>2
  <2> QED
    BY <1>5, <2>1, <2>2
<1>20. Kinds'
  BY <1>1, <1>3 DEF Kinds
<1> QED
  BY <1>12, <1>13, <1>14, <1>15, <1>16, <1>17, <1>18, <1>19, <1>20 DEF JInv

\* Taking chunks out of a tree.
LEMMA UntrackIs ==
  ASSUME NEW T, NEW S
  PROVE  LET u == Untrack(TreeOf(T), S)
         IN u = TreeOf(Tracked(u)) /\ \A d : d \in Tracked(u) <=> d \in T /\ d \notin S
<1> DEFINE t == TreeOf(T)
           u == Untrack(t, S)
<1>1. u = {e \in t : e[2] \notin S}
  BY DEF Untrack
<1>2. ASSUME NEW d \in Tracked(u) PROVE d \in T /\ d \notin S
  <2>1. PICK e \in u : d = e[2]
    BY DEF Tracked
  <2>2. PICK x \in T : e = <<start[x], x>>
    BY <1>1, <2>1 DEF TreeOf
  <2> QED
    BY <1>1, <2>1, <2>2
<1>3. ASSUME NEW d \in T, d \notin S PROVE d \in Tracked(u)
  <2>1. <<start[d], d>> \in t /\ <<start[d], d>>[2] = d
    BY DEF TreeOf
  <2>2. <<start[d], d>> \in u
    BY <1>1, <1>3, <2>1
  <2> QED
    BY <2>1, <2>2 DEF Tracked
<1>4. u = TreeOf(Tracked(u))
  <2> DEFINE V == Tracked(u)
  <2>1. \A d : d \in V <=> d \in T /\ d \notin S
    BY <1>2, <1>3
  <2> HIDE DEF V
  <2>2. u = {<<start[d], d>> : d \in V}
    BY <1>1, <2>1 DEF TreeOf
  <2> QED
    BY <2>2 DEF TreeOf, V
<1> QED
  BY <1>2, <1>3, <1>4

\* Tail moves by r: every distance from it becomes r less.
Shifted(r) ==
  /\ r \in Nat /\ prod.len <= r /\ r <= Reach /\ r <= Free(head, tail)
  /\ tail' = Plus(tail, r) /\ Linked' = Linked /\ DOMAIN Place' = DOMAIN Place
  /\ \A x \in DOMAIN Place : Place'[x] = Place[x] - r
  /\ Reach' = Reach - r /\ Kept' = Kept - r /\ Held' = Held - r /\ Held \in Int
  /\ Free(head', tail') = Free(head, tail) - r /\ Diff(tail', head') = Diff(tail, head) + r
  /\ cons.pc # "idle" => Diff(cons.end, tail') = Diff(cons.end, tail) - r

\* Storing tail does that.
LEMMA StoreShifts ==
  ASSUME IInv, Geometry, ProdStore, NEW r,
         Advances(prod.len, r, Free(head, tail), ooo', tail')
  PROVE  Shifted(r)
<1> DEFINE fill == Diff(tail, head)
           room == Free(head, tail)
<1>1. /\ prod.pc = "store" /\ UNCHANGED <<head, start, next, startC, endC, cons>>
  BY DEF ProdStore, consVars
<1>2. r \in Nat /\ prod.len <= r /\ r <= room /\ tail' = Plus(tail, r)
      /\ \A k \in Int : prod.len <= k /\ k < r => Covered(ooo, tail, k)
  BY DEF Advances
<1>3. /\ head \in Pos /\ tail \in Pos /\ fill \in Nat /\ fill <= Size /\ room \in Nat
      /\ room = Size - fill /\ head \in Int /\ tail \in Int
  BY FillIs
<1>4. /\ DOMAIN Place = ToSet(Linked) /\ endC \in DOMAIN Place /\ ToSet(Linked) \subseteq Chunks
      /\ Reach \in Int /\ Reach < room + MinAlloc + Length
      /\ \A x \in DOMAIN Place : /\ Place[x] \in Int /\ Place[x] = Diff(start[x], tail)
                                 /\ Place[x] + Length <= Reach /\ -(fill + Length) <= Place[x]
  BY ListIs
<1>5. prod.len \in Nat /\ prod.len >= 1
  BY <1>1 DEF IInv, Types, Window
<1>6. prod.len <= Reach
  <2>1. prod.off + prod.len <= Reach /\ prod.off \in Nat
    BY <1>1 DEF Geometry, IInv, Types
  <2> HIDE DEF Reach
  <2> QED
    BY <1>4, <1>5, <2>1
<1>7. r <= Reach
  <2>1. CASE r = prod.len
    BY <1>6, <2>1
  <2>2. CASE r # prod.len
    <3>1. r - 1 \in Int /\ prod.len <= r - 1 /\ r - 1 < r
      BY <1>2, <1>5, <2>2
    <3>2. Covered(ooo, tail, r - 1)
      BY <1>2, <3>1
    <3>3. r - 1 < Reach
      BY <3>1, <3>2 DEF Geometry
    <3> HIDE DEF Reach
    <3> QED
      BY <1>2, <1>4, <3>3
  <2> QED
    BY <2>1, <2>2
<1>8. Linked' = Linked
  BY <1>1, LinkedIs
<1>9. Place' = [x \in ToSet(Linked) |-> Diff(start[x], Plus(tail, r))]
  BY <1>1, <1>2, <1>8 DEF Place
<1>10. r \in Int
  BY <1>2
<1>11. ASSUME NEW x \in Pos, -W <= 2 * (Diff(x, tail) - r), 2 * (Diff(x, tail) - r) < W
       PROVE  Diff(x, Plus(tail, r)) = Diff(x, tail) - r
  BY <1>3, <1>10, <1>11, DiffShift
<1>12. ASSUME NEW x \in DOMAIN Place PROVE Place'[x] = Place[x] - r
  <2>1. start[x] \in Pos
    BY <1>4 DEF IInv, Types
  <2>2. /\ Place[x] \in Int /\ Place[x] = Diff(start[x], tail)
        /\ Place[x] + Length <= Reach /\ -(fill + Length) <= Place[x]
    BY <1>4
  <2>3. -W <= 2 * (Place[x] - r) /\ 2 * (Place[x] - r) < W
    <3> HIDE DEF Place, Reach, fill, room
    <3> QED
      BY <1>2, <1>3, <1>4, <2>2, Bounds
  <2> QED
    BY <1>4, <1>9, <1>11, <2>1, <2>2, <2>3
<1>13. Reach' = Reach - r
  <2>1. Reach' = Place'[endC] + Length /\ Reach = Place[endC] + Length
    BY <1>1 DEF Reach
  <2>2. Place'[endC] = Place[endC] - r /\ Place[endC] \in Int /\ Length \in Nat
    BY <1>4, <1>12, Bounds
  <2> HIDE DEF Place, Reach
  <2> QED
    BY <1>2, <2>1, <2>2
<1>14. Diff(head, tail') = Diff(head, tail) - r /\ Diff(head, tail) \in Int
  <2>1. Diff(head, tail) = -fill
    BY HeadIs
  <2>2. -W <= 2 * (-fill - r) /\ 2 * (-fill - r) < W /\ -fill \in Int
    <3> HIDE DEF fill, room
    <3> QED
      BY <1>2, <1>3, Bounds
  <2> QED
    BY <1>2, <1>3, <1>11, <2>1, <2>2
<1>15. cons.pc # "idle" => Diff(cons.end, tail') = Diff(cons.end, tail) - r
                           /\ Diff(cons.end, tail) \in Int
  <2> SUFFICES ASSUME cons.pc # "idle"
               PROVE  Diff(cons.end, tail') = Diff(cons.end, tail) - r
                      /\ Diff(cons.end, tail) \in Int
    OBVIOUS
  <2> DEFINE k == Diff(cons.end, tail)
  <2>1. k \in Int /\ k <= 0 /\ -fill <= k
    BY EndIs
  <2>2. cons.end \in Pos
    BY DEF IInv, Types
  <2>3. -W <= 2 * (k - r) /\ 2 * (k - r) < W
    <3> HIDE DEF fill, room, k
    <3> QED
      BY <1>2, <1>3, <2>1, Bounds
  <2> QED
    BY <1>2, <1>11, <2>1, <2>2, <2>3
<1>16. Kept' = Kept - r
  BY <1>1, <1>14, <1>15 DEF Kept, Moved
<1>17. Held' = Held - r /\ Held \in Int
  BY <1>1, <1>14, <1>15 DEF Held, Moved
<1>18. Diff(tail', head) = fill + r
  <2>1. -W <= 2 * (fill + r) /\ 2 * (fill + r) < W
    <3> HIDE DEF fill, room
    <3> QED
      BY <1>2, <1>3, Sizes
  <2> QED
    BY <1>2, <1>3, <1>10, <2>1, DiffShift
<1>19. Free(head, tail') = room - r
  <2>1. Free(head, tail') = Size - (fill + r)
    BY <1>18 DEF Free
  <2> HIDE DEF fill, room
  <2> QED
    BY <1>2, <1>3, <2>1, Sizes
<1>20. DOMAIN Place' = DOMAIN Place
  BY <1>4, <1>9
<1> QED
  BY <1>1, <1>2, <1>7, <1>8, <1>12, <1>13, <1>15, <1>16, <1>17, <1>18, <1>19, <1>20 DEF Shifted

\* What is still ahead of tail after it moved was ahead of it before.
LEMMA StillAhead ==
  ASSUME IInv, NEW n, NEW r, Advances(n, r, Free(head, tail), ooo', tail')
  PROVE  \A k \in Int : Covered(ooo', tail', k) => 1 <= k /\ Covered(ooo, tail, k + r)
<1> DEFINE room == Free(head, tail)
           l == ooo'
           t == tail'
<1>1. tail \in Int /\ room \in Nat /\ room <= Size
  BY FillIs
<1>2. /\ r \in Nat /\ r <= room /\ t = Plus(tail, r) /\ Canonical(l, t, room - r)
      /\ \A k \in Int : k >= r => (Covered(ooo, tail, k) <=> Covered(l, t, k - r))
  BY DEF Advances
<1> DEFINE left == room - r
<1> HIDE DEF room, l, t
<1>3. left \in Nat /\ left <= Size /\ r \in Int
  BY <1>1, <1>2, Sizes
<1>4. t \in Pos
  BY <1>1, <1>2, <1>3, PlusIs
<1> HIDE DEF left
<1>5. Canonical(l, t, left)
  BY <1>2 DEF left
<1>6. ASSUME NEW k \in Int, Covered(l, t, k) PROVE 1 <= k /\ Covered(ooo, tail, k + r)
  <2>1. 1 <= k
    BY <1>3, <1>4, <1>5, <1>6, CoveredRange
  <2>2. k + r \in Int /\ k + r >= r /\ (k + r) - r = k
    BY <1>2, <2>1
  <2> QED
    BY <1>2, <1>6, <2>1, <2>2
<1> QED
  BY <1>6 DEF l, t

\* The list after tail has moved.
LEMMA StoreGeometry ==
  ASSUME IInv, IInv', Geometry, ProdStore, NEW r, Shifted(r),
         \A k \in Int : Covered(ooo', tail', k) => 1 <= k /\ Covered(ooo, tail, k + r)
  PROVE  Geometry'
<1> DEFINE l == Linked
           n == Len(l)
           room == Free(head, tail)
           e == Place
           f == Place'
<1>1. prod' = Idle /\ UNCHANGED <<head, startC, cons>>
  BY DEF ProdStore, consVars
<1>2. /\ r \in Nat /\ r <= Reach /\ Linked' = Linked /\ \A x \in DOMAIN e : f[x] = e[x] - r
      /\ Reach' = Reach - r /\ Kept' = Kept - r /\ Free(head', tail') = room - r
      /\ cons.pc # "idle" => Diff(cons.end, tail') = Diff(cons.end, tail) - r
  BY DEF Shifted
<1>3. /\ DOMAIN e = ToSet(l) /\ startC \in DOMAIN e /\ Reach \in Int
      /\ \A x \in DOMAIN e : e[x] \in Int
      /\ Reach < room + MinAlloc + Length
  BY ListIs
<1>4. /\ Laid(l, e) /\ e[startC] <= Kept /\ Kept <= e[startC] + Length
      /\ \A k \in Int : Covered(ooo, tail, k) => k < Reach
      /\ cons.pc = "unlink" => Diff(cons.end, tail) >= e[startC] + Length
  BY DEF Geometry
<1>5. n \in Nat /\ \A i \in 1 .. n : l[i] \in ToSet(l)
  BY ChainParts DEF IInv, Lists
<1>6. Kept \in Int /\ room \in Nat /\ Length \in Nat /\ MinAlloc \in Nat
  BY HeadIs, FillIs, Bounds
<1>7. cons.pc # "idle" => Diff(cons.end, tail) \in Int
  BY HeadIs
<1>8. prod'.pc = "idle"
  BY <1>1 DEF Idle
<1>9. startC' = startC /\ cons' = cons
  BY <1>1
<1>10. f[startC] = e[startC] - r /\ e[startC] \in Int
  BY <1>2, <1>3
<1> HIDE DEF l, n, room, e, f, Reach, Kept
<1>11. Laid(l, f)
  <2>1. \A i \in 1 .. n : f[l[i]] = e[l[i]] - r /\ e[l[i]] \in Int
    BY <1>2, <1>3, <1>5
  <2>2. ASSUME NEW i \in 1 .. n - 1 PROVE f[l[i + 1]] = f[l[i]] + Length
    <3>1. i \in 1 .. n /\ i + 1 \in 1 .. n
      BY <1>5
    <3>2. e[l[i + 1]] = e[l[i]] + Length
      BY <1>4 DEF Laid, n
    <3>3. /\ f[l[i]] = e[l[i]] - r /\ e[l[i]] \in Int
          /\ f[l[i + 1]] = e[l[i + 1]] - r /\ e[l[i + 1]] \in Int
      BY <2>1, <3>1
    <3> QED
      BY <1>2, <1>6, <3>2, <3>3
  <2>3. ASSUME NEW i \in 1 .. n, NEW j \in 1 .. n, i < j PROVE f[l[i]] + Length <= f[l[j]]
    <3>1. e[l[i]] + Length <= e[l[j]]
      BY <1>4, <2>3 DEF Laid, n
    <3>2. /\ f[l[i]] = e[l[i]] - r /\ e[l[i]] \in Int
          /\ f[l[j]] = e[l[j]] - r /\ e[l[j]] \in Int
      BY <2>1
    <3> QED
      BY <1>2, <1>6, <3>1, <3>2
  <2> QED
    BY <2>2, <2>3 DEF Laid, n
<1>12. f[startC] <= Kept' /\ Kept' <= f[startC] + Length
  BY <1>2, <1>4, <1>6, <1>10
<1>13. 0 <= Reach' /\ Reach' < (room - r) + MinAlloc + Length
  BY <1>2, <1>3, <1>6
<1>14. ASSUME NEW k \in Int, Covered(ooo', tail', k) PROVE k < Reach'
  <2>1. Covered(ooo, tail, k + r) /\ k + r \in Int
    BY <1>2, <1>14
  <2>2. k + r < Reach
    BY <1>4, <2>1
  <2> QED
    BY <1>2, <1>3, <2>2
<1>15. cons.pc = "unlink" => Diff(cons.end, tail') >= f[startC] + Length
  <2> SUFFICES ASSUME cons.pc = "unlink" PROVE Diff(cons.end, tail') >= f[startC] + Length
    OBVIOUS
  <2> DEFINE x == Diff(cons.end, tail)
             y == Diff(cons.end, tail')
  <2>1. x \in Int /\ y = x - r /\ x >= e[startC] + Length
    BY <1>2, <1>4, <1>7
  <2> HIDE DEF x, y
  <2>2. y >= f[startC] + Length
    BY <1>2, <1>6, <1>10, <2>1
  <2> QED
    BY <2>2 DEF y
<1> QED
  BY <1>2, <1>8, <1>9, <1>11, <1>12, <1>13, <1>14, <1>15 DEF Geometry, l, f, room

\* A chunk that held the position tail moved to holds tail.
LEMMA HoldsShifts ==
  ASSUME IInv, Geometry, NEW r, Shifted(r), NEW k \in Int, NEW m, m = k - r, NEW c,
         Holds(Place, c, k)
  PROVE  Holds(Place', c, m)
<1>1. c \in DOMAIN Place /\ Place[c] <= k /\ k < Place[c] + Length
  BY DEF Holds
<1>2. Place[c] \in Int
  BY <1>1, ListIs
<1>3. r \in Nat /\ DOMAIN Place' = DOMAIN Place /\ Place'[c] = Place[c] - r
  BY <1>1 DEF Shifted
<1>4. Length \in Nat
  BY Bounds
<1> DEFINE x == Place[c]
           y == Place'[c]
<1>5. x \in Int /\ y = x - r /\ x <= k /\ k < x + Length
  BY <1>1, <1>2, <1>3
<1> HIDE DEF x, y
<1>6. y <= m /\ m < y + Length
  BY <1>3, <1>4, <1>5
<1> QED
  BY <1>1, <1>3, <1>6 DEF Holds, y

\* Without segments tail moves over the new bytes and no chunk is tracked.
LEMMA StoreInOrder ==
  ASSUME IInv, EnqSide, ooo = <<>>, NEW r, Shifted(r),
         Advances(prod.len, r, Free(head, tail), ooo', tail'), prod.len \in Nat
  PROVE  r = prod.len /\ Tracked(enqTree) = {} /\ enqTree = {}
<1>1. Len(ooo) = 0
  OBVIOUS
<1>2. \A k : ~Covered(ooo, tail, k)
  BY <1>1 DEF Covered
<1>3. r \in Nat /\ prod.len <= r
      /\ \A k \in Int : prod.len <= k /\ k < r => Covered(ooo, tail, k)
  BY DEF Advances
<1>4. ~(prod.len < r)
  <2>1. prod.len \in Int /\ prod.len <= prod.len
    OBVIOUS
  <2> QED
    BY <1>2, <1>3, <2>1
<1>5. Tracked(enqTree) = {}
  BY <1>2 DEF EnqSide
<1>6. enqTree = {}
  BY <1>5 DEF EnqSide, TreeOf
<1> QED
  BY <1>3, <1>4, <1>5, <1>6

\* The chunks the producer remembers after tail has moved.
LEMMA StoreProdSide ==
  ASSUME IInv, IInv', Geometry, ProdSide, EnqSide, ProdStore, NEW r, Shifted(r),
         Advances(prod.len, r, Free(head, tail), ooo', tail')
  PROVE  ProdSide'
<1>1. prod.pc = "store" /\ prod'.pc = "idle"
  BY DEF ProdStore, Idle
<1>2. Written = prod.len /\ Written' = 0 /\ prod.len \in Nat
  BY <1>1 DEF Written, IInv, Types
<1>3. r \in Nat /\ r <= Reach /\ Reach' = Reach - r /\ Reach \in Int /\ tail' = Plus(tail, r)
  BY ListIs DEF Shifted
<1>4. CASE ooo = <<>>
  <2>1. UNCHANGED <<tailC, oooEnq>>
    BY <1>4 DEF ProdStore
  <2>2. r = prod.len
    BY <1>2, <1>4, StoreInOrder
  <2>3. /\ tailC # Nil => Holds(Place, tailC, r)
        /\ tailC = Nil => r = Reach
        /\ oooEnq = Nil
    BY <1>2, <1>4, <2>2 DEF ProdSide
  <2>4. r \in Int /\ 0 = r - r
    BY <1>3
  <2>5. tailC # Nil => Holds(Place', tailC, 0)
    BY <2>3, <2>4, HoldsShifts
  <2>6. tailC = Nil => 0 = Reach'
    BY <1>3, <2>3, <2>4
  <2> QED
    BY <1>1, <1>2, <2>1, <2>3, <2>5, <2>6 DEF ProdSide
<1>5. CASE ooo # <<>>
  <2>1. oooEnq' = Nil /\ tailC' = FindChunk(prod.old, tail')
    BY <1>5 DEF ProdStore
  <2>2. Holds(Place, prod.old, 0)
    BY <1>1, <1>5 DEF ProdSide
  <2> DEFINE c == prod.old
             d == FindChunk(c, Plus(tail, r))
  <2>3. c \in DOMAIN Place /\ Place[c] <= 0 /\ Place[c] \in Int
    BY <2>2, ListIs DEF Holds
  <2>4. InRange(r)
    <3>1. Diff(tail, head) \in Nat
      BY FillIs
    <3>2. r <= Free(head, tail)
      BY DEF Shifted
    <3>3. -Diff(tail, head) <= r
      BY <1>3, <3>1
    <3> QED
      BY <1>3, <3>2, <3>3 DEF InRange
  <2>5. /\ d # Nil => Holds(Place, d, r)
        /\ d = Nil => r < Place[c] \/ Reach <= r
    <3> HIDE DEF c
    <3> QED
      BY <2>3, <2>4, FindIs
  <2>6. tailC' = d
    BY <1>3, <2>1
  <2>7. r \in Int /\ 0 = r - r
    BY <1>3
  <2> HIDE DEF d
  <2>8. d # Nil => Holds(Place', d, 0)
    BY <2>5, <2>7, HoldsShifts
  <2>9. d = Nil => 0 = Reach'
    <3> HIDE DEF Place, Reach, c
    <3> QED
      BY <1>3, <2>3, <2>5
  <2> QED
    BY <1>1, <1>2, <2>1, <2>6, <2>8, <2>9 DEF ProdSide
<1> QED
  BY <1>4, <1>5

\* Segments that are left cover something.
LEMMA SomeSegments ==
  ASSUME IInv', ooo' # <<>>
  PROVE  \E k \in Int : Covered(ooo', tail', k)
<1>1. ((\A k \in Int : ~Covered(ooo, tail, k)) => ooo = <<>>)'
  BY NoSegments, PTL
<1> QED
  BY <1>1

\* Of the tracked chunks, those that tail has passed are forgotten, and all of
\* them when no segment is left.
LEMMA StoreUntracks ==
  ASSUME IInv, IInv', Geometry, ProdSide, EnqSide, ProdStore, ooo # <<>>, NEW r, Shifted(r),
         Advances(prod.len, r, Free(head, tail), ooo', tail')
  PROVE  /\ enqTree' = TreeOf(Tracked(enqTree'))
         /\ \A d \in Tracked(enqTree') : d \in Tracked(enqTree) /\ Place[d] + Length > r
         /\ ooo' = <<>> => Tracked(enqTree') = {}
         /\ ooo' # <<>> => \A d \in Tracked(enqTree) :
                             Place[d] + Length > r => d \in Tracked(enqTree')
<1> DEFINE c == prod.old
           T == Tracked(enqTree)
           t == Plus(tail, r)
           S == Passed(c, t, ooo')
           B == Before(c, t)
           f == FindChunk(c, t)
           U == Tracked(enqTree')
<1>1. prod.pc = "store"
  BY DEF ProdStore
<1>2. r \in Nat /\ r <= Reach /\ Reach \in Int /\ tail' = t /\ r <= Free(head, tail)
  BY ListIs DEF Shifted
<1>3. enqTree' = Untrack(enqTree, S)
  BY <1>2 DEF ProdStore
<1>4. Holds(Place, c, 0)
  BY <1>1 DEF ProdSide
<1>5. c \in DOMAIN Place /\ Place[c] <= 0 /\ 0 < Place[c] + Length /\ Place[c] \in Int
  BY <1>4, ListIs DEF Holds
<1>6. InRange(r)
  <2>1. Diff(tail, head) \in Nat
    BY FillIs
  <2>2. -Diff(tail, head) <= r
    BY <1>2, <2>1
  <2> QED
    BY <1>2, <2>2 DEF InRange
<1>7. Place[c] <= r
  <2> HIDE DEF Place, c
  <2> QED
    BY <1>2, <1>5
<1>8. enqTree = TreeOf(T) /\ T \subseteq DOMAIN Place
      /\ \A d \in T : /\ Place[d] + Length > 0 /\ Place[d] \in Int
                      /\ \E k \in Int : Covered(ooo, tail, k) /\ Place[d] <= k + 1
  BY ListIs DEF EnqSide, Dense
<1>9. Apart(Place) /\ Length \in Nat
  BY ListIs, Bounds
<1>10. \A x : x \in B <=> x \in DOMAIN Place /\ Place[c] <= Place[x] /\ Place[x] + Length <= r
  <2> HIDE DEF c
  <2> QED
    BY <1>5, <1>6, <1>7, BeforeIs
<1>11. /\ f # Nil => Holds(Place, f, r)
       /\ f = Nil => r < Place[c] \/ Reach <= r
  <2> HIDE DEF c
  <2> QED
    BY <1>5, <1>6, FindIs
<1>12. S = B \cup IF ooo' = <<>> THEN {f} ELSE {}
  BY DEF Passed
<1>13. enqTree' = TreeOf(U) /\ \A d : d \in U <=> d \in T /\ d \notin S
  <2> DEFINE u == Untrack(TreeOf(T), S)
  <2>1. u = enqTree'
    BY <1>3, <1>8
  <2> HIDE DEF T, S
  <2>2. u = TreeOf(Tracked(u)) /\ \A d : d \in Tracked(u) <=> d \in T /\ d \notin S
    BY UntrackIs
  <2> HIDE DEF u
  <2> QED
    BY <2>1, <2>2
<1> HIDE DEF T, S, B, f, U, c
<1>14. ASSUME NEW d \in T, Place[d] + Length <= r PROVE d \in B
  <2>1. d \in DOMAIN Place /\ Place[d] + Length > 0 /\ Place[d] \in Int
    BY <1>8
  <2>2. c # d => Place[c] + Length <= Place[d] \/ Place[d] + Length <= Place[c]
    BY <1>5, <1>9, <2>1 DEF Apart
  <2>3. Place[c] <= Place[d]
    <3> HIDE DEF Place
    <3> QED
      BY <1>5, <1>9, <2>1, <2>2
  <2> QED
    BY <1>10, <1>14, <2>1, <2>3
<1>15. ASSUME NEW d \in U PROVE d \in T /\ Place[d] + Length > r
  <2>1. d \in T /\ d \notin B
    BY <1>12, <1>13, <1>15
  <2>2. Place[d] \in Int
    BY <1>8, <2>1
  <2>3. ~(Place[d] + Length <= r)
    BY <1>14, <2>1
  <2> HIDE DEF Place
  <2> QED
    BY <1>2, <1>9, <2>1, <2>2, <2>3
<1>16. ASSUME ooo' = <<>>, NEW d \in U PROVE FALSE
  <2>1. d \in T /\ Place[d] + Length > r /\ d # f
    BY <1>12, <1>13, <1>15, <1>16
  <2>2. d \in DOMAIN Place /\ Place[d] \in Int
    BY <1>8, <2>1
  <2>3. PICK k \in Int : Covered(ooo, tail, k) /\ Place[d] <= k + 1
    BY <1>8, <2>1
  <2>4. k < r
    <3>1. k >= r => (Covered(ooo, tail, k) <=> Covered(ooo', tail', k - r))
      BY DEF Advances
    <3>2. Len(ooo') = 0
      BY <1>16
    <3>3. ~Covered(ooo', tail', k - r)
      BY <3>2 DEF Covered
    <3>4. ~(k >= r)
      BY <2>3, <3>1, <3>3
    <3> QED
      BY <1>2, <3>4
  <2>5. Place[d] <= r /\ r < Place[d] + Length
    <3> HIDE DEF Place
    <3> QED
      BY <1>2, <1>9, <2>1, <2>2, <2>3, <2>4
  <2>6. Holds(Place, d, r)
    BY <2>2, <2>5 DEF Holds
  <2>7. Place[d] + Length <= Reach
    BY <2>2, ListIs
  <2>8. f # Nil
    <3> HIDE DEF Place, Reach
    <3> QED
      BY <1>2, <1>5, <1>7, <1>9, <1>11, <2>1, <2>2, <2>7
  <2>9. r \in Int
    BY <1>2
  <2> QED
    BY <1>11, <2>1, <2>6, <2>8, <2>9, OneHolder
<1>17. ASSUME ooo' # <<>>, NEW d \in T, Place[d] + Length > r PROVE d \in U
  <2>1. Place[d] \in Int
    BY <1>8
  <2>2. ~(Place[d] + Length <= r)
    <3> HIDE DEF Place
    <3> QED
      BY <1>2, <1>9, <1>17, <2>1
  <2> QED
    BY <1>10, <1>12, <1>13, <1>17, <2>2
<1> QED
  BY <1>13, <1>15, <1>16, <1>17 DEF T, U

\* The enqueue tree after tail has moved.
LEMMA StoreEnqSide ==
  ASSUME IInv, IInv', Geometry, ProdSide, EnqSide, ProdStore, NEW r, Shifted(r),
         Advances(prod.len, r, Free(head, tail), ooo', tail')
  PROVE  EnqSide'
<1> DEFINE T == Tracked(enqTree)
           U == Tracked(enqTree')
           e == Place
           f == Place'
<1>1. start' = start /\ prod.pc = "store"
  BY DEF ProdStore
<1>2. CASE ooo = <<>>
  <2>1. prod.len \in Nat
    BY DEF IInv, Types
  <2>2. enqTree = {} /\ enqTree' = enqTree
    BY <1>2, <2>1, StoreInOrder DEF ProdStore
  <2>3. U = {}
    BY <2>2 DEF Tracked
  <2>4. TreeOf(Tracked(enqTree))' = {}
    BY <2>3 DEF TreeOf
  <2> QED
    BY <2>2, <2>3, <2>4 DEF EnqSide, Dense
<1>3. CASE ooo # <<>>
  <2>1. /\ enqTree' = TreeOf(U)
        /\ \A d \in U : d \in T /\ e[d] + Length > r
        /\ ooo' = <<>> => U = {}
        /\ ooo' # <<>> => \A d \in T : e[d] + Length > r => d \in U
    BY <1>3, StoreUntracks
  <2>2. /\ r \in Nat /\ DOMAIN f = DOMAIN e /\ \A x \in DOMAIN e : f[x] = e[x] - r
    BY DEF Shifted
  <2>3. /\ Dense(T, e, 0)
        /\ \A d \in T : \E k \in Int : Covered(ooo, tail, k) /\ e[d] <= k + 1
    BY DEF EnqSide
  <2>4. \A x \in DOMAIN e : e[x] \in Int
    BY ListIs
  <2>5. Length \in Nat
    BY Bounds
  <2>6. ooo' # <<>> => \E k \in Int : Covered(ooo', tail', k)
    BY SomeSegments
  <2>7. \A k \in Int : k >= r => (Covered(ooo, tail, k) <=> Covered(ooo', tail', k - r))
    BY DEF Advances
  <2>8. \A k \in Int : Covered(ooo', tail', k) => 1 <= k
    BY StillAhead
  <2>9. TreeOf(Tracked(enqTree))' = TreeOf(U)
    BY <1>1 DEF TreeOf
  <2> HIDE DEF T, U, e, f
  <2>10. U \subseteq DOMAIN e /\ \A d \in U : f[d] = e[d] - r /\ e[d] \in Int
    BY <2>1, <2>2, <2>3, <2>4 DEF Dense
  <2>11. Dense(U, f, 0)
    <3>1. ASSUME NEW d \in U PROVE f[d] + Length > 0
      <4>1. e[d] + Length > r /\ f[d] = e[d] - r /\ e[d] \in Int
        BY <2>1, <2>10
      <4> QED
        BY <2>2, <2>5, <4>1
    <3>2. ASSUME NEW c \in DOMAIN f, NEW d \in U, f[c] <= f[d], f[c] + Length > 0
          PROVE  c \in U
      <4>1. c \in DOMAIN e /\ f[c] = e[c] - r /\ e[c] \in Int /\ f[d] = e[d] - r /\ e[d] \in Int
        BY <2>2, <2>4, <2>10
      <4>2. e[c] <= e[d] /\ e[c] + Length > r /\ e[c] + Length > 0
        BY <2>2, <2>5, <3>2, <4>1
      <4>3. d \in T /\ ooo' # <<>>
        BY <2>1, <3>2
      <4>4. c \in T
        BY <2>3, <4>1, <4>2, <4>3 DEF Dense
      <4> QED
        BY <2>1, <4>2, <4>3, <4>4
    <3> QED
      BY <2>2, <2>10, <3>1, <3>2 DEF Dense
  <2>12. ASSUME NEW d \in U PROVE \E k \in Int : Covered(ooo', tail', k) /\ f[d] <= k + 1
    <3>1. d \in T /\ ooo' # <<>> /\ f[d] = e[d] - r /\ e[d] \in Int
      BY <2>1, <2>10, <2>12
    <3>2. PICK k \in Int : Covered(ooo, tail, k) /\ e[d] <= k + 1
      BY <2>3, <3>1
    <3>3. CASE k >= r
      <4>1. Covered(ooo', tail', k - r) /\ k - r \in Int
        BY <2>2, <2>7, <3>2, <3>3
      <4>2. f[d] <= (k - r) + 1
        BY <2>2, <3>1, <3>2
      <4> QED
        BY <4>1, <4>2
    <3>4. CASE ~(k >= r)
      <4>1. PICK j \in Int : Covered(ooo', tail', j)
        BY <2>6, <3>1
      <4>2. 1 <= j
        BY <2>8, <4>1
      <4>3. f[d] <= j + 1
        BY <2>2, <3>1, <3>2, <3>4, <4>2
      <4> QED
        BY <4>1, <4>3
    <3> QED
      BY <3>3, <3>4
  <2> QED
    BY <2>1, <2>9, <2>11, <2>12 DEF EnqSide, U, f
<1> QED
  BY <1>2, <1>3

\* The dequeue tree after tail has moved.
LEMMA StoreDeqSide ==
  ASSUME IInv, Geometry, DeqSide, ProdStore, NEW r, Shifted(r)
  PROVE  DeqSide'
<1> DEFINE T == Tracked(deqTree)
           e == Place
           f == Place'
           s == Place[startC]
           q == Place'[startC]
<1>1. UNCHANGED <<start, startC, deqTree, closed>>
  BY DEF ProdStore, consVars
<1>2. r \in Nat /\ DOMAIN f = DOMAIN e /\ \A x \in DOMAIN e : f[x] = e[x] - r
  BY DEF Shifted
<1>3. startC \in DOMAIN e /\ Length \in Nat /\ \A x \in DOMAIN e : e[x] \in Int
  BY ListIs, Bounds
<1>4. TreeOf(Tracked(deqTree))' = TreeOf(T) /\ Tracked(deqTree)' = T
  BY <1>1 DEF TreeOf, Tracked
<1>5. q = s - r /\ s \in Int
  BY <1>2, <1>3
<1>6. Place'[startC'] = q
  BY <1>1
<1> HIDE DEF T, e, f, s, q
<1>7. ASSUME Dense(T, e, s) PROVE Dense(T, f, q)
  <2>1. \A d \in T : d \in DOMAIN e /\ e[d] \in Int /\ f[d] = e[d] - r
    BY <1>2, <1>3, <1>7 DEF Dense
  <2>2. ASSUME NEW d \in T PROVE f[d] + Length > q
    <3>1. e[d] + Length > s /\ e[d] \in Int /\ f[d] = e[d] - r
      BY <1>7, <2>1 DEF Dense
    <3> QED
      BY <1>2, <1>3, <1>5, <3>1
  <2>3. ASSUME NEW c \in DOMAIN f, NEW d \in T, f[c] <= f[d], f[c] + Length > q
        PROVE  c \in T
    <3>1. /\ c \in DOMAIN e /\ f[c] = e[c] - r /\ e[c] \in Int
          /\ f[d] = e[d] - r /\ e[d] \in Int
      BY <1>2, <1>3, <2>1
    <3>2. e[c] <= e[d] /\ e[c] + Length > s
      BY <1>2, <1>3, <1>5, <2>3, <3>1
    <3> QED
      BY <1>7, <3>1, <3>2 DEF Dense
  <2>4. T \subseteq DOMAIN f
    BY <1>2, <2>1
  <2> QED
    BY <2>2, <2>3, <2>4 DEF Dense
<1>8. closed = FALSE => deqTree = TreeOf(T) /\ Dense(T, e, s)
  BY DEF DeqSide, T, e, s
<1>9. deqTree \in SUBSET (Pos \X Chunks)
  BY DEF DeqSide
<1> QED
  BY <1>1, <1>4, <1>6, <1>7, <1>8, <1>9 DEF DeqSide, f

\* What had arrived ahead of tail and was reached by it is still in its place.
LEMMA StoreBytes ==
  ASSUME IInv, Geometry, Bytes, ProdStore, NEW r, Shifted(r),
         Advances(prod.len, r, Free(head, tail), ooo', tail'),
         \A k \in Int : Covered(ooo', tail', k) => 1 <= k /\ Covered(ooo, tail, k + r)
  PROVE  Bytes'
<1>1. /\ prod.pc = "store" /\ prod'.pc = "idle" /\ UNCHANGED <<start, data>>
  BY DEF ProdStore, Idle
<1>2. Written = prod.len /\ Written' = 0 /\ prod.len \in Nat
  BY <1>1 DEF Written, IInv, Types
<1>3. /\ r \in Nat /\ DOMAIN Place' = DOMAIN Place /\ Kept' = Kept - r
      /\ \A x \in DOMAIN Place : Place'[x] = Place[x] - r
  BY DEF Shifted
<1>4. \A k \in Int : prod.len <= k /\ k < r => Covered(ooo, tail, k)
  BY DEF Advances
<1>5. Kept \in Int /\ \A x \in DOMAIN Place : Place[x] \in Int
  BY HeadIs, ListIs
<1> SUFFICES ASSUME NEW d \in DOMAIN Place', NEW i \in 0 .. Length - 1,
                    NEW y, y = Place'[d] + i,
                    (Kept' <= y /\ y < 0) \/ Covered(ooo', tail', y)
             PROVE  data[d][i] = Plus(start[d], i)
  BY <1>1, <1>2 DEF Bytes, Arrived
<1> DEFINE x == Place[d] + i
<1>6. d \in DOMAIN Place /\ Place[d] \in Int /\ Place'[d] = Place[d] - r
  BY <1>3, <1>5
<1>7. x \in Int /\ y = x - r /\ y \in Int /\ y + r = x
  <2> DEFINE a == Place[d]
             b == Place'[d]
  <2>1. a \in Int /\ b = a - r /\ y = b + i /\ x = a + i /\ i \in Int
    BY <1>6
  <2> HIDE DEF a, b, x
  <2> QED
    BY <1>3, <2>1
<1> HIDE DEF x
<1>8. Arrived(x)
  <2>1. CASE Kept' <= y /\ y < 0
    <3>1. Kept <= x /\ x < r
      BY <1>3, <1>5, <1>7, <2>1
    <3>2. x < prod.len \/ (prod.len <= x /\ x < r)
      BY <1>2, <1>7, <3>1
    <3> QED
      BY <1>2, <1>4, <1>7, <3>1, <3>2 DEF Arrived
  <2>2. CASE Covered(ooo', tail', y)
    BY <1>7, <2>2 DEF Arrived
  <2> QED
    BY <2>1, <2>2
<1> QED
  BY <1>6, <1>8 DEF Bytes, x

\* Publishing tail keeps everything, one distance less.
LEMMA ProdStoreKeeps == IInv /\ IInv' /\ JInv /\ ProdStore => JInv'
<1> SUFFICES ASSUME IInv, IInv', JInv, ProdStore PROVE JInv'
  OBVIOUS
<1>1. /\ prod'.pc = "idle"
      /\ UNCHANGED <<role, others, head, data, startC, headC, oooDeq, deqTree, closed, cons,
                     wrong>>
  BY DEF ProdStore, Idle, setup, consVars
<1>2. /\ Geometry /\ ProdSide /\ EnqSide /\ ConsSide /\ DeqSide /\ Calls /\ Bytes /\ Kinds
  BY DEF JInv
<1>3. PICK r \in Nat : Advances(prod.len, r, Free(head, tail), ooo', tail')
  BY TailMoves
<1>4. Shifted(r)
  BY <1>2, <1>3, StoreShifts
<1>5. \A k \in Int : Covered(ooo', tail', k) => 1 <= k /\ Covered(ooo, tail, k + r)
  BY <1>3, StillAhead
<1>6. Geometry'
  BY <1>2, <1>4, <1>5, StoreGeometry
<1>7. Pending'
  BY <1>1 DEF Pending
<1>8. ProdSide'
  BY <1>2, <1>3, <1>4, StoreProdSide
<1>9. EnqSide'
  BY <1>2, <1>3, <1>4, StoreEnqSide
<1>10. ConsSide'
  <2>1. DOMAIN Place' = DOMAIN Place /\ Held' = Held - r /\ Held \in Int
    BY <1>4 DEF Shifted
  <2>2. headC # Nil => Holds(Place', headC, Held')
    BY <1>2, <1>4, <2>1, HoldsShifts DEF ConsSide
  <2>3. oooDeq # Nil => oooDeq \in DOMAIN Place'
    BY <1>2, <2>1 DEF ConsSide
  <2> QED
    BY <1>1, <2>2, <2>3 DEF ConsSide
<1>11. DeqSide'
  BY <1>2, <1>4, StoreDeqSide
<1>12. Calls'
  <2>1. Diff(tail', head') = Diff(tail, head) + r
    BY <1>4 DEF Shifted
  <2>2. cons.pc = "read" /\ cons.op # "dropall" => cons.off + cons.len <= Diff(tail', head')
    <3> SUFFICES ASSUME cons.pc = "read", cons.op # "dropall"
                 PROVE  cons.off + cons.len <= Diff(tail', head')
      OBVIOUS
    <3> DEFINE fill == Diff(tail, head)
               a == cons.off
               b == cons.len
    <3>1. a + b <= fill
      BY <1>2 DEF Calls
    <3>2. a \in Nat /\ b \in Int /\ fill \in Nat
      BY FillIs DEF IInv, Types
    <3> HIDE DEF fill, a, b
    <3>3. a + b <= fill + r
      BY <3>1, <3>2
    <3> QED
      BY <2>1, <3>3 DEF fill, a, b
  <2> QED
    BY <1>1, <1>2, <2>2, Zenon DEF Calls
<1>13. Bytes'
  BY <1>2, <1>3, <1>4, <1>5, StoreBytes
<1>14. Kinds'
  BY <1>1, <1>2 DEF Kinds
<1> QED
  BY <1>6, <1>7, <1>8, <1>9, <1>10, <1>11, <1>12, <1>13, <1>14 DEF JInv

-----------------------------------------------------------------------------
(* The theorems.                                                           *)

\* The invariant of a fifo of one chunk.
LEMMA InitData == Init => JInv
<1> SUFFICES ASSUME Init PROVE JInv
  OBVIOUS
<1>1. PICK c \in Chunks : /\ startC = c /\ endC = c /\ headC = c /\ tailC = c
                          /\ others \in SUBSET (Chunks \ {c})
  BY DEF Init
<1>2. /\ role \in Roles /\ head = 0 /\ tail = 0 /\ start = [d \in Chunks |-> 0]
      /\ data = [d \in Chunks |-> [i \in 0 .. Length - 1 |-> Nil]]
      /\ ooo = <<>> /\ oooEnq = Nil /\ oooDeq = Nil /\ enqTree = {} /\ deqTree = {}
      /\ closed = FALSE /\ wrong = {}
  BY DEF Init
<1>3. prod.pc = "idle" /\ cons.pc = "idle" /\ cons.op = "none"
  BY DEF Init, Idle, Rest
<1>4. IInv
  BY InitHolds
<1>5. Len(Linked) = 1 /\ ToSet(Linked) = {c}
  <2> DEFINE l == Linked
  <2>1. Chain(next, l, c, c)
    BY <1>1, <1>4 DEF IInv, Lists
  <2> HIDE DEF l
  <2>2. l \in Seq(Chunks) /\ Len(l) \in Nat /\ Len(l) > 0 /\ Once(l) /\ l[1] = l[Len(l)] /\ l[1] = c
    BY <2>1, ChainParts DEF Chain
  <2>3. 1 \in 1 .. Len(l) /\ Len(l) \in 1 .. Len(l)
    BY <2>2
  <2>4. Len(l) = 1
    BY <2>2, <2>3 DEF Once
  <2>5. DOMAIN l = 1 .. 1
    BY <2>2, <2>4, LenProperties
  <2>6. \A i \in 1 .. 1 : i = 1
    OBVIOUS
  <2>7. ToSet(l) = {c}
    BY <2>2, <2>5, <2>6 DEF ToSet
  <2> QED
    BY <2>4, <2>7 DEF l
<1>6. Diff(0, 0) = 0
  <2>1. 0 - 0 = 0 /\ 2 * 0 < W /\ W \in Nat /\ W > 0
    BY Sizes
  <2>2. 0 % W = 0
    BY <2>1
  <2> QED
    BY <2>1, <2>2 DEF Diff
<1>7. DOMAIN Place = {c} /\ Place[c] = 0 /\ Place[startC] = 0
  BY <1>1, <1>2, <1>5, <1>6 DEF Place
<1>8. Length \in Nat /\ Length > 0 /\ MinAlloc \in Nat /\ Size \in Nat /\ Size > 0 /\ Nil \notin Chunks
  BY Sizes
<1>9. Reach = Length /\ Kept = 0 /\ Held = 0 /\ Written = 0 /\ Free(head, tail) = Size
  BY <1>1, <1>2, <1>3, <1>6, <1>7, <1>8 DEF Reach, Kept, Held, Moved, Written, Free
<1>10. \A k : ~Covered(ooo, tail, k)
  <2>1. Len(ooo) = 0
    BY <1>2
  <2> QED
    BY <2>1 DEF Covered
<1>11. Holds(Place, c, 0) /\ c # Nil
  BY <1>7, <1>8 DEF Holds
<1> HIDE DEF Place, Reach, Kept, Held, Written
<1>12. Geometry
  <2>1. Laid(Linked, Place)
    <3>1. 1 .. Len(Linked) - 1 = {} /\ \A i, j \in 1 .. Len(Linked) : ~(i < j)
      BY <1>5
    <3> QED
      BY <3>1 DEF Laid
  <2>2. /\ Place[startC] <= Kept /\ Kept <= Place[startC] + Length
        /\ 0 <= Reach /\ Reach < Free(head, tail) + MinAlloc + Length
    BY <1>7, <1>8, <1>9
  <2> QED
    BY <1>3, <1>10, <2>1, <2>2 DEF Geometry
<1>13. Pending
  BY <1>3 DEF Pending
<1>14. ProdSide
  BY <1>1, <1>2, <1>3, <1>9, <1>11 DEF ProdSide
<1>15. EnqSide /\ DeqSide
  <2>1. Tracked({}) = {} /\ TreeOf({}) = {}
    BY DEF Tracked, TreeOf
  <2>2. \A lo : Dense({}, Place, lo)
    BY DEF Dense
  <2> QED
    BY <1>2, <2>1, <2>2 DEF EnqSide, DeqSide
<1>16. ConsSide
  BY <1>1, <1>2, <1>9, <1>11 DEF ConsSide
<1>17. Calls
  BY <1>2, <1>3 DEF Calls
<1>18. Bytes
  <2> SUFFICES ASSUME NEW d \in DOMAIN Place, NEW i \in 0 .. Length - 1, Arrived(Place[d] + i)
               PROVE  FALSE
    BY DEF Bytes
  <2>1. Place[d] = 0
    BY <1>7
  <2>2. 0 <= Place[d] + i /\ Place[d] + i < 0
    BY <1>9, <1>10 DEF Arrived
  <2> QED
    BY <1>8, <2>1, <2>2
<1>19. Kinds
  BY <1>1, <1>2 DEF Kinds
<1> QED
  BY <1>12, <1>13, <1>14, <1>15, <1>16, <1>17, <1>18, <1>19 DEF JInv

\* A step of something else leaves everything.
LEMMA StutterKeeps == IInv /\ IInv' /\ JInv /\ UNCHANGED vars => JInv'
<1> SUFFICES ASSUME IInv, IInv', JInv, UNCHANGED vars PROVE JInv'
  OBVIOUS
<1>1. UNCHANGED <<role, others, head, tail, start, next, data, free, endC, tailC, ooo, oooEnq,
                  enqTree, prod, startC, headC, oooDeq, deqTree, closed, cons, wrong>>
  BY DEF vars, setup, shared, prodVars, consVars
<1>2. /\ Geometry /\ ConsSide /\ DeqSide /\ Calls /\ wrong = {} /\ closed \in BOOLEAN
  BY DEF JInv, Kinds
<1>3. SameList
  BY <1>1, SameIs
<1>4. Kept' = Kept /\ Held' = Held /\ Kept \in Int
  BY <1>1, HeadIs DEF Kept, Held, Moved
<1>5. ConsSide' /\ DeqSide'
  BY <1>1, <1>2, <1>3, <1>4, KeepConsSide, KeepDeqSide
<1>6. Calls'
  BY <1>1, <1>2, Zenon DEF Calls
<1>7. Kept <= Kept' /\ Kept' <= Place[startC] + Length
  BY <1>2, <1>4 DEF Geometry
<1>8. Free(head, tail) <= Free(head', tail)
  BY <1>1, FillIs
<1>9. cons'.pc = "unlink" => Diff(cons'.end, tail) >= Place[startC] + Length
  BY <1>1, <1>2 DEF Geometry
<1>10. wrong' = {} /\ closed' \in BOOLEAN
  BY <1>1, <1>2
<1> QED
  BY <1>1, <1>5, <1>6, <1>7, <1>8, <1>9, <1>10, ConsKeeps

\* Every step keeps the invariant.
LEMMA StepData == IInv /\ JInv /\ [Next]_vars => IInv' /\ JInv'
<1> SUFFICES ASSUME IInv, JInv, [Next]_vars PROVE IInv' /\ JInv'
  OBVIOUS
<1>1. IInv'
  BY StepHolds
<1>2. CASE UNCHANGED vars
  BY <1>1, <1>2, StutterKeeps
<1>3. CASE Next
  BY <1>1, <1>3, ProdLoadKeeps, ProdAllocKeeps, ProdGrowFailsKeeps, ProdLinkKeeps,
     ProdCopyKeeps, ProdStoreKeeps, ProdCopyOooKeeps, LoadKeeps, DequeueKeeps, SegmentsKeeps,
     PeekKeeps, DropAllKeeps, UnlinkKeeps, CollectKeeps, StoreKeeps DEF Next
<1> QED
  BY <1>1, <1>2, <1>3

\* Both inductive invariants hold in every reachable state of the fifo.
THEOREM DataInvariance == Spec => [](IInv /\ JInv)
<1>1. Init => IInv /\ JInv
  BY InitHolds, InitData
<1>2. (IInv /\ JInv) /\ [Next]_vars => (IInv /\ JInv)'
  BY StepData
<1> QED
  BY <1>1, <1>2, PTL DEF Spec

\* Every byte that svm_fifo_dequeue, svm_fifo_peek or svm_fifo_segments returns
\* is the one that was enqueued for its position, whether it came in order or
\* ahead, while the other side goes on and chunks come and go.
THEOREM ReadsAreExact == Spec => []ReadExact
<1>1. JInv => ReadExact
  BY DEF JInv, Kinds, ReadExact
<1> QED
  BY <1>1, DataInvariance, PTL

\* No pointer to a chunk and no node of a lookup tree outlives the chunk's place
\* in the list (f_unlink_chunks, f_lookup_clear_enq_chunks, svm_fifo_enqueue).
THEOREM NoChunkIsStale == Spec => []NoStaleChunk
<1>1. IInv /\ JInv => NoStaleChunk
  <2> SUFFICES ASSUME IInv, JInv PROVE NoStaleChunk
    OBVIOUS
  <2>1. Geometry /\ ProdSide /\ EnqSide /\ ConsSide /\ DeqSide /\ closed \in BOOLEAN
    BY DEF JInv, Kinds
  <2>2. DOMAIN Place = ToSet(Linked) /\ endC \in ToSet(Linked)
    BY <2>1, ListIs
  <2>3. /\ headC # Nil => headC \in ToSet(Linked)
        /\ tailC # Nil => tailC \in ToSet(Linked)
        /\ oooEnq # Nil => oooEnq \in ToSet(Linked)
        /\ oooDeq # Nil => oooDeq \in ToSet(Linked)
    BY <2>1, <2>2 DEF ProdSide, ConsSide, Holds
  <2>4. ASSUME NEW T, T \subseteq DOMAIN Place, NEW e \in TreeOf(T)
        PROVE  e[2] \in ToSet(Linked) /\ e[1] = start[e[2]]
    <3>1. e[2] \in T /\ e[1] = start[e[2]]
      BY <2>1, <2>4, TreeIs
    <3> QED
      BY <2>2, <2>4, <3>1
  <2>5. \A e \in enqTree : e[2] \in ToSet(Linked) /\ e[1] = start[e[2]]
    <3>1. enqTree = TreeOf(Tracked(enqTree)) /\ Tracked(enqTree) \subseteq DOMAIN Place
      BY <2>1 DEF EnqSide, Dense
    <3> QED
      BY <2>4, <3>1
  <2>6. closed = FALSE => \A e \in deqTree : e[2] \in ToSet(Linked) /\ e[1] = start[e[2]]
    <3> SUFFICES ASSUME closed = FALSE
                 PROVE  \A e \in deqTree : e[2] \in ToSet(Linked) /\ e[1] = start[e[2]]
      OBVIOUS
    <3>1. deqTree = TreeOf(Tracked(deqTree)) /\ Tracked(deqTree) \subseteq DOMAIN Place
      BY <2>1 DEF DeqSide, Dense
    <3> QED
      BY <2>4, <3>1
  <2>7. \A e \in (IF closed THEN {} ELSE deqTree) :
          e[2] \in ToSet(Linked) /\ e[1] = start[e[2]]
    BY <2>1, <2>6
  <2> QED
    BY <2>2, <2>3, <2>5, <2>7 DEF NoStaleChunk
<1> QED
  BY <1>1, DataInvariance, PTL

\* Every variable has its type; the fields of the ooo segments, the chunk
\* pointers and the nodes of the trees included.
THEOREM TypesHold == Spec => []TypeOK
<1>1. IInv /\ JInv => TypeOK
  <2> SUFFICES ASSUME IInv, JInv PROVE TypeOK
    OBVIOUS
  <2>1. Geometry /\ ProdSide /\ EnqSide /\ ConsSide /\ DeqSide /\ Kinds
    BY DEF JInv
  <2>2. DOMAIN Place \subseteq Chunks
    BY <2>1, ListIs
  <2>3. headC \in Opt /\ tailC \in Opt /\ oooEnq \in Opt /\ oooDeq \in Opt
    BY <2>1, <2>2 DEF ProdSide, ConsSide, Holds, Opt
  <2>4. ToSet(free) \subseteq Chunks
    <3>1. free \in Seq(Chunks)
      BY DEF IInv, Types
    <3>2. DOMAIN free = 1 .. Len(free) /\ \A i \in 1 .. Len(free) : free[i] \in Chunks
      BY <3>1, LenProperties, ElementOfSeq
    <3> QED
      BY <3>2 DEF ToSet
  <2>5. ASSUME NEW i \in 1 .. Len(ooo) PROVE ooo[i].start \in Pos /\ ooo[i].length \in 1 .. Size
    <3> DEFINE room == Free(head, tail)
               f == From(ooo[i], tail)
               g == Upto(ooo[i], tail)
               n == ooo[i].length
    <3>1. tail \in Pos /\ room \in Nat /\ room <= Size /\ Canonical(ooo, tail, room)
      BY FillIs DEF IInv
    <3>2. ooo[i] \in Segment /\ f \in Int /\ g \in Int /\ 1 <= f /\ f < g /\ g <= room /\ n = g - f
      <4> HIDE DEF room
      <4> QED
        BY <3>1, SegmentIs
    <3>3. Size \in Nat
      BY Sizes
    <3>4. ooo[i].start \in Pos
      BY <3>2 DEF Segment
    <3> HIDE DEF room, f, g, n
    <3>5. n \in 1 .. Size
      BY <3>1, <3>2, <3>3
    <3> QED
      BY <3>4, <3>5 DEF n
  <2>6. enqTree \in SUBSET (Pos \X Chunks)
    <3> DEFINE T == Tracked(enqTree)
    <3>1. enqTree = TreeOf(T) /\ T \subseteq DOMAIN Place
      BY <2>1 DEF EnqSide, Dense
    <3> HIDE DEF T
    <3>2. \A e \in TreeOf(T) : e \in Pos \X Chunks
      BY <2>1, <3>1, TreeIs
    <3> QED
      BY <3>1, <3>2
  <2>7. /\ head \in Pos /\ tail \in Pos /\ start \in [Chunks -> Pos] /\ next \in [Chunks -> Opt]
        /\ startC \in Chunks /\ endC \in Chunks
        /\ prod.pc \in {"idle", "alloc", "link", "copy", "store"}
        /\ cons.pc \in {"idle", "read", "unlink", "collect", "store"}
        /\ Diff(tail, head) \in 0 .. Size
    BY DEF IInv, Types, Window
  <2>8. /\ role \in Roles /\ others \subseteq Chunks /\ closed \in BOOLEAN /\ wrong = {}
        /\ data \in [Chunks -> [0 .. Length - 1 -> Pos \cup {Nil}]]
        /\ deqTree \in SUBSET (Pos \X Chunks)
    BY <2>1 DEF Kinds, DeqSide
  <2> QED
    BY <2>3, <2>4, <2>5, <2>6, <2>7, <2>8, Zenon DEF TypeOK
<1> QED
  BY <1>1, DataInvariance, PTL
=============================================================================
