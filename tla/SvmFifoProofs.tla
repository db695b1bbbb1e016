--------------------------- MODULE SvmFifoProofs ---------------------------
(***************************************************************************)
(* Proofs about SvmFifo, for any set of chunks, any length of a chunk, any *)
(* size of the fifo and any modulus of the positions.                      *)
(***************************************************************************)
EXTENDS SvmFifo, NatLemmas, FiniteSetTheorems, SequenceTheorems, TLAPS

Once(s) == \A i, j \in 1 .. Len(s) : s[i] = s[j] => i = j

\* l is the list of chunks along the pointers nx, from chunk a to chunk b.
Chain(nx, l, a, b) ==
  /\ l \in Seq(Chunks) /\ Len(l) > 0 /\ Once(l)
  /\ l[1] = a /\ l[Len(l)] = b /\ nx[b] = Nil
  /\ \A i \in 1 .. Len(l) - 1 : nx[l[i]] = l[i + 1]

\* Types of the indices, of the list and of the two calls.
Types ==
  /\ head \in Pos /\ tail \in Pos
  /\ start \in [Chunks -> Pos] /\ next \in [Chunks -> Opt]
  /\ startC \in Chunks /\ endC \in Chunks
  /\ free \in Seq(Chunks)
  /\ prod \in [pc : {"idle", "alloc", "link", "copy", "store"},
               op : {"none", "enq", "segs", "nocopy", "ooo"}, off : Nat, len : Nat,
               head : Pos, old : {prod.old}, new : Seq(Chunks)]
  /\ cons \in [pc : {"idle", "read", "unlink", "collect", "store"},
               op : {"none", "deq", "peek", "segments", "drop", "dropall"},
               off : Nat, len : Int, end : Pos, freed : Seq(Chunks)]

\* The fifo's list goes from startC to endC; the chunks about to be linked are
\* a list of their own.  The lists have no chunk in common.
Lists ==
  /\ Chain(next, Linked, startC, endC)
  /\ Once(free) /\ Once(cons.freed) /\ Once(prod.new)
  /\ ToSet(Linked) \cap ToSet(free) = {}
  /\ ToSet(Linked) \cap ToSet(cons.freed) = {}
  /\ ToSet(Linked) \cap ToSet(prod.new) = {}
  /\ ToSet(free) \cap ToSet(cons.freed) = {}
  /\ ToSet(free) \cap ToSet(prod.new) = {}
  /\ ToSet(cons.freed) \cap ToSet(prod.new) = {}
  /\ ToSet(Linked) \cup ToSet(free) \cup ToSet(cons.freed) \cup ToSet(prod.new)
       = Chunks \ others
  /\ prod.pc = "link" => Chain(next, prod.new, prod.new[1], Last(prod.new))
  /\ prod.pc # "link" => prod.new = <<>>
  /\ cons.pc = "collect" => Len(cons.freed) > 0
  /\ cons.pc # "collect" => cons.freed = <<>>

\* What a call was admitted with still fits, whatever the other side did since.
Window ==
  /\ Diff(tail, head) \in 0 .. Size
  /\ prod.pc # "idle" =>
       /\ prod.len >= 1 /\ prod.off + prod.len <= Free(head, tail)
       /\ prod.off > 0 <=> prod.op = "ooo"
  /\ prod.pc = "alloc" => NeedsChunk(prod.off, prod.len)
  /\ prod.pc = "store" => prod.op # "ooo"
  /\ cons.pc # "idle" => Diff(cons.end, head) \in 0 .. Diff(tail, head)

\* Where a segment begins and ends, counted from position t.
Segment == [start : Pos, length : Nat]
From(s, t) == Diff(s.start, t)
Upto(s, t) == Diff(s.start, t) + s.length

\* The segments of l lie beyond position t, inside the next room positions, in
\* order and with gaps between them.
Canonical(l, t, room) ==
  /\ l \in Seq(Segment)
  /\ \A i \in 1 .. Len(l) :
       l[i].length >= 1 /\ From(l[i], t) >= 1 /\ Upto(l[i], t) <= room
  /\ \A i, j \in 1 .. Len(l) : i < j => Upto(l[i], t) < From(l[j], t)

IInv == Types /\ Lists /\ Window /\ Canonical(ooo, tail, Free(head, tail))

-----------------------------------------------------------------------------
(* Positions: Plus and Diff are addition and subtraction as long as the    *)
(* numbers are small against W.                                            *)

\* The constants.
LEMMA Sizes ==
  /\ W \in Nat /\ W > 0 /\ Length \in Nat /\ Length > 0 /\ Size \in Nat /\ Size > 0
  /\ 2 * Size < W /\ MinAlloc \in Nat /\ MaxLen \in Nat /\ MaxLen > 0 /\ MaxLen <= Size
  /\ Nil \notin Chunks /\ IsFiniteSet(Chunks)
  BY FifoAssumption

\* The remainder, also of a negative number.
LEMMA Remainder ==
  ASSUME NEW a \in Int
  PROVE  a % W \in Pos /\ \E q \in Int : a = q * W + (a % W)
<1>1. W \in Nat /\ W > 0
  BY Sizes
<1>2. a = (a \div W) * W + (a % W) /\ a \div W \in Int
  BY <1>1, Z3
<1>3. a % W \in 0 .. W - 1
  BY <1>1, Z3
<1> QED
  BY <1>2, <1>3 DEF Pos

\* Two representations of a number modulo W with remainders less than W apart
\* are the same.
LEMMA SameRemainder ==
  ASSUME NEW p \in Int, NEW q \in Int, NEW r \in Int, NEW s \in Int,
         p * W + r = q * W + s, r - s < W, s - r < W
  PROVE  r = s
<1>1. W \in Nat /\ W > 0
  BY Sizes
<1>2. (p - q) * W = s - r
  BY <1>1
<1>3. CASE p - q >= 1
  <2>1. (p - q) * W >= W
    BY <1>1, <1>3
  <2> QED
    BY <1>1, <1>2, <2>1
<1>4. CASE p - q <= -1
  <2>1. (p - q) * W <= -W
    BY <1>1, <1>4
  <2> QED
    BY <1>1, <1>2, <2>1
<1>5. CASE p - q = 0
  BY <1>1, <1>2, <1>5
<1> QED
  BY <1>3, <1>4, <1>5

\* Plus is a position, some multiple of W away from the sum.
LEMMA PlusIs ==
  ASSUME NEW p \in Int, NEW n \in Int
  PROVE  Plus(p, n) \in Pos /\ \E q \in Int : p + n = q * W + Plus(p, n)
  BY Remainder DEF Plus

\* Diff is the signed representative of the difference modulo W.
LEMMA DiffIs ==
  ASSUME NEW a \in Int, NEW b \in Int
  PROVE  /\ Diff(a, b) \in Int /\ -W <= 2 * Diff(a, b) /\ 2 * Diff(a, b) < W
         /\ \E q \in Int : a - b = q * W + Diff(a, b)
<1>1. W \in Nat /\ W > 0
  BY Sizes
<1>2. PICK q \in Int : (a - b) % W \in Pos /\ a - b = q * W + ((a - b) % W)
  BY Remainder
<1> DEFINE d == (a - b) % W
<1>3. d \in Int /\ 0 <= d /\ d < W /\ a - b = q * W + d
  BY <1>1, <1>2 DEF Pos
<1>4. Diff(a, b) = IF 2 * d < W THEN d ELSE d - W
  BY DEF Diff
<1> HIDE DEF d
<1>5. CASE 2 * d < W
  BY <1>1, <1>3, <1>4, <1>5
<1>6. CASE ~(2 * d < W)
  <2>1. a - b = (q + 1) * W + (d - W) /\ q + 1 \in Int
    BY <1>1, <1>3
  <2> QED
    BY <1>1, <1>3, <1>4, <1>6, <2>1
<1> QED
  BY <1>5, <1>6

\* Diff undoes Plus.
LEMMA DiffPlus ==
  ASSUME NEW p \in Int, NEW n \in Int, NEW m \in Int,
         -W <= 2 * (n - m), 2 * (n - m) < W
  PROVE  Diff(Plus(p, n), Plus(p, m)) = n - m
<1>1. W \in Nat /\ W > 0
  BY Sizes
<1> DEFINE a == Plus(p, n)
           b == Plus(p, m)
           d == Diff(a, b)
<1>2. PICK q \in Int : a \in Pos /\ p + n = q * W + a
  BY PlusIs
<1>3. PICK r \in Int : b \in Pos /\ p + m = r * W + b
  BY PlusIs
<1>4. a \in Int /\ b \in Int
  BY <1>1, <1>2, <1>3 DEF Pos
<1> HIDE DEF a, b
<1>5. PICK s \in Int : d \in Int /\ -W <= 2 * d /\ 2 * d < W /\ a - b = s * W + d
  BY <1>4, DiffIs
<1> HIDE DEF d
<1>6. 0 * W + (n - m) = (q - r + s) * W + d
  BY <1>1, <1>2, <1>3, <1>4, <1>5
<1>7. (n - m) - d < W /\ d - (n - m) < W
  BY <1>1, <1>5
<1>8. q - r + s \in Int /\ 0 \in Int /\ n - m \in Int
  OBVIOUS
<1>9. n - m = d
  BY <1>5, <1>6, <1>7, <1>8, SameRemainder
<1> QED
  BY <1>9 DEF a, b, d

\* Plus undoes Diff.
LEMMA PlusDiff ==
  ASSUME NEW a \in Pos, NEW b \in Pos
  PROVE  Plus(b, Diff(a, b)) = a
<1>1. W \in Nat /\ W > 0 /\ a \in Int /\ b \in Int /\ 0 <= a /\ a < W
  BY Sizes DEF Pos
<1> DEFINE d == Diff(a, b)
           c == Plus(b, d)
<1>2. PICK q \in Int : d \in Int /\ a - b = q * W + d
  BY <1>1, DiffIs
<1>3. PICK r \in Int : c \in Pos /\ b + d = r * W + c
  BY <1>1, <1>2, PlusIs
<1>4. c \in Int /\ 0 <= c /\ c < W
  BY <1>1, <1>3 DEF Pos
<1> HIDE DEF c, d
<1>5. 0 * W + a = (q + r) * W + c
  BY <1>1, <1>2, <1>3, <1>4
<1>6. q + r \in Int /\ 0 \in Int /\ a - c < W /\ c - a < W
  BY <1>1, <1>4
<1>7. a = c
  BY <1>1, <1>4, <1>5, <1>6, SameRemainder
<1> QED
  BY <1>7 DEF c, d

\* Plus is associative, and adds nothing with 0.
LEMMA PlusPlus ==
  ASSUME NEW p \in Int, NEW n \in Int, NEW m \in Int
  PROVE  Plus(Plus(p, n), m) = Plus(p, n + m)
<1>1. W \in Nat /\ W > 0
  BY Sizes
<1>2. PICK q \in Int : Plus(p, n) \in Pos /\ p + n = q * W + Plus(p, n)
  BY PlusIs
<1>3. Plus(p, n) \in Int
  BY <1>1, <1>2 DEF Pos
<1> DEFINE a == Plus(p, n)
           b == Plus(a, m)
           c == Plus(p, n + m)
<1>4. PICK r \in Int : b \in Pos /\ a + m = r * W + b
  BY <1>3, PlusIs
<1> n + m \in Int
  OBVIOUS
<1>5. PICK s \in Int : c \in Pos /\ p + (n + m) = s * W + c
  BY PlusIs
<1>6. b \in Int /\ 0 <= b /\ b < W /\ c \in Int /\ 0 <= c /\ c < W
  BY <1>1, <1>4, <1>5 DEF Pos
<1>7. a \in Int /\ p + n = q * W + a
  BY <1>2, <1>3
<1> HIDE DEF a, b, c
<1>8. (q + r) * W + b = s * W + c
  BY <1>1, <1>4, <1>5, <1>6, <1>7
<1>9. q + r \in Int /\ b - c < W /\ c - b < W
  BY <1>1, <1>6
<1>10. b = c
  BY <1>6, <1>8, <1>9, SameRemainder
<1> QED
  BY <1>10 DEF a, b, c

\* Adding nothing to a position.
LEMMA PlusZero ==
  ASSUME NEW p \in Pos
  PROVE  Plus(p, 0) = p
<1>1. W \in Nat /\ W > 0 /\ p \in Int /\ 0 <= p /\ p < W
  BY Sizes DEF Pos
<1> DEFINE c == Plus(p, 0)
<1> 0 \in Int
  OBVIOUS
<1>2. PICK r \in Int : c \in Pos /\ p + 0 = r * W + c
  BY <1>1, PlusIs
<1>3. c \in Int /\ 0 <= c /\ c < W
  BY <1>1, <1>2 DEF Pos
<1> HIDE DEF c
<1>4. 0 * W + p = r * W + c
  BY <1>1, <1>2, <1>3
<1>5. p - c < W /\ c - p < W
  BY <1>1, <1>3
<1>6. p = c
  BY <1>1, <1>2, <1>3, <1>4, <1>5, SameRemainder
<1> QED
  BY <1>6 DEF c

-----------------------------------------------------------------------------
(* The list of chunks.                                                     *)

\* What the walk of ListFrom satisfies.
Walk(nx, c, h) ==
  h = [k \in 0 .. Cardinality(Chunks) |->
         IF k = 0 THEN c ELSE IF h[k - 1] = Nil THEN Nil ELSE nx[h[k - 1]]]

\* A list in which no chunk is twice is no longer than the number of chunks.
LEMMA OnceBound ==
  ASSUME NEW l \in Seq(Chunks), Once(l)
  PROVE  Len(l) <= Cardinality(Chunks) /\ Cardinality(Chunks) \in Nat
<1>1. Len(l) \in Nat /\ l \in [1 .. Len(l) -> Chunks]
  BY LenProperties
<1>2. l \in Injection(1 .. Len(l), Chunks)
  BY <1>1 DEF Once, Injection, IsInjective
<1>3. Cardinality(1 .. Len(l)) <= Cardinality(Chunks)
  BY <1>2, Sizes, FS_Injection
<1>4. Cardinality(1 .. Len(l)) = Len(l)
  BY <1>1, FS_Interval
<1>5. Cardinality(Chunks) \in Nat
  BY Sizes, FS_CardinalityType
<1> QED
  BY <1>3, <1>4, <1>5

\* The walk along a chain meets the chunks of the chain, then Nil.
LEMMA WalkOfChain ==
  ASSUME NEW nx, NEW l, NEW a, NEW b, Chain(nx, l, a, b)
  PROVE  LET N == Cardinality(Chunks)
             h == [k \in 0 .. N |-> IF k < Len(l) THEN l[k + 1] ELSE Nil]
         IN Walk(nx, a, h) /\ \A g : Walk(nx, a, g) => g = h
<1> DEFINE N == Cardinality(Chunks)
           h == [k \in 0 .. N |-> IF k < Len(l) THEN l[k + 1] ELSE Nil]
           next1(f, k) == IF k = 0 THEN a ELSE IF f[k - 1] = Nil THEN Nil ELSE nx[f[k - 1]]
<1>1. N \in Nat /\ Len(l) <= N /\ Len(l) \in Nat /\ Len(l) > 0
  BY OnceBound, LenProperties DEF Chain
<1>2. \A i \in 1 .. Len(l) : l[i] \in Chunks /\ l[i] # Nil
  BY Sizes, ElementOfSeq DEF Chain
<1> HIDE DEF N
<1>3. ASSUME NEW k \in 0 .. N PROVE h[k] = next1(h, k)
  <2>1. h[k] = IF k < Len(l) THEN l[k + 1] ELSE Nil
    BY <1>3
  <2>2. CASE k = 0
    BY <1>1, <2>1, <2>2 DEF Chain
  <2>3. CASE k > 0
    <3>1. k - 1 \in 0 .. N /\ h[k - 1] = IF k - 1 < Len(l) THEN l[k] ELSE Nil
      BY <1>1, <2>3
    <3>2. CASE k < Len(l)
      <4>1. k \in 1 .. Len(l) - 1 /\ k \in 1 .. Len(l)
        BY <1>1, <2>3, <3>2
      <4>2. nx[l[k]] = l[k + 1] /\ l[k] # Nil
        BY <4>1, <1>2 DEF Chain
      <4> QED
        BY <1>1, <2>1, <2>3, <3>1, <3>2, <4>2
    <3>3. CASE k = Len(l)
      <4>1. k \in 1 .. Len(l)
        BY <1>1, <3>3
      <4>2. nx[l[k]] = Nil /\ l[k] # Nil
        BY <3>3, <4>1, <1>2 DEF Chain
      <4> QED
        BY <1>1, <2>1, <2>3, <3>1, <3>3, <4>2
    <3>4. CASE k > Len(l)
      BY <1>1, <2>1, <2>3, <3>1, <3>4
    <3> QED
      BY <1>1, <3>2, <3>3, <3>4
  <2> QED
    BY <2>2, <2>3
<1>4. Walk(nx, a, h)
  <2>1. h = [k \in 0 .. N |-> h[k]]
    OBVIOUS
  <2>2. [k \in 0 .. N |-> h[k]] = [k \in 0 .. N |-> next1(h, k)]
    BY <1>3, Zenon
  <2> HIDE DEF h
  <2> QED
    BY <2>1, <2>2 DEF Walk, N
<1>5. ASSUME NEW g, Walk(nx, a, g) PROVE g = h
  <2>1. g = [k \in 0 .. N |-> next1(g, k)]
    BY <1>5, Zenon DEF Walk, N
  <2>2. DOMAIN g = 0 .. N /\ \A k \in 0 .. N : g[k] = next1(g, k)
    <3> DEFINE e(k) == next1(g, k)
    <3>1. g = [k \in 0 .. N |-> e(k)]
      BY <2>1
    <3> HIDE DEF e
    <3>2. DOMAIN g = 0 .. N /\ \A k \in 0 .. N : g[k] = e(k)
      BY <3>1
    <3> QED
      BY <3>2 DEF e
  <2>3. \A k \in 0 .. N : g[k] = h[k]
    <3> DEFINE S == {k \in 0 .. N : g[k] # h[k]}
    <3> SUFFICES ASSUME S # {} PROVE FALSE
      OBVIOUS
    <3>1. S \subseteq Nat
      BY <1>1
    <3> DEFINE m == Min(S)
    <3>2. m \in S /\ \A k \in S : m <= k
      BY <3>1, MinIn
    <3> HIDE DEF m
    <3>3. m \in 0 .. N /\ g[m] # h[m]
      BY <3>2
    <3>4. CASE m = 0
      BY <3>3, <3>4, <2>2, <1>3
    <3>5. CASE m > 0
      <4>1. m - 1 \in 0 .. N /\ m - 1 \notin S
        BY <1>1, <3>2, <3>3, <3>5
      <4>2. g[m - 1] = h[m - 1]
        BY <4>1
      <4> HIDE DEF h
      <4>3. next1(g, m) = next1(h, m)
        BY <4>2
      <4> QED
        BY <4>3, <3>3, <2>2, <1>3
    <3> QED
      BY <1>1, <3>3, <3>4, <3>5
  <2>4. DOMAIN h = 0 .. N /\ h = [k \in 0 .. N |-> h[k]] /\ g = [k \in 0 .. N |-> g[k]]
    BY <2>2, <2>1
  <2> HIDE DEF h
  <2> QED
    BY <2>3, <2>4
<1> QED
  BY <1>4, <1>5 DEF N

\* ListFrom, for any pointers.
ListAlong(nx, c) ==
  LET hop[k \in 0 .. Cardinality(Chunks)] ==
        IF k = 0 THEN c ELSE IF hop[k - 1] = Nil THEN Nil ELSE nx[hop[k - 1]]
  IN [k \in 1 .. Cardinality({j \in DOMAIN hop : hop[j] # Nil}) |-> hop[k - 1]]

\* ListFrom of the first chunk of a chain is the chain.
LEMMA ListOfChain ==
  ASSUME NEW nx, NEW l, NEW a, NEW b, Chain(nx, l, a, b)
  PROVE  ListAlong(nx, a) = l
<1> DEFINE N == Cardinality(Chunks)
           h == [k \in 0 .. N |-> IF k < Len(l) THEN l[k + 1] ELSE Nil]
           g == CHOOSE f : Walk(nx, a, f)
<1>1. Walk(nx, a, h) /\ \A f : Walk(nx, a, f) => f = h
  BY WalkOfChain
<1>2. g = h
  <2> HIDE DEF h
  <2> QED
    BY <1>1, Zenon
<1>3. ListAlong(nx, a) = [k \in 1 .. Cardinality({j \in DOMAIN g : g[j] # Nil}) |-> g[k - 1]]
  BY Zenon DEF ListAlong, Walk
<1>4. N \in Nat /\ Len(l) <= N /\ Len(l) \in Nat /\ Len(l) > 0 /\ l \in [1 .. Len(l) -> Chunks]
  BY OnceBound, LenProperties DEF Chain
<1>5. \A i \in 1 .. Len(l) : l[i] \in Chunks /\ l[i] # Nil
  BY Sizes, ElementOfSeq DEF Chain
<1> HIDE DEF N, g
<1>6. {j \in DOMAIN h : h[j] # Nil} = 0 .. Len(l) - 1
  BY <1>4, <1>5
<1>7. Cardinality(0 .. Len(l) - 1) = Len(l)
  <2>1. 0 \in Int /\ Len(l) - 1 \in Int /\ ~(0 > Len(l) - 1) /\ Len(l) - 1 - 0 + 1 = Len(l)
    BY <1>4
  <2>2. Cardinality(0 .. Len(l) - 1) =
          IF 0 > Len(l) - 1 THEN 0 ELSE Len(l) - 1 - 0 + 1
    BY <2>1, FS_Interval
  <2> QED
    BY <2>1, <2>2
<1>8. ListAlong(nx, a) = [k \in 1 .. Len(l) |-> h[k - 1]]
  <2> HIDE DEF h
  <2> QED
    BY <1>2, <1>3, <1>6, <1>7
<1>9. \A k \in 1 .. Len(l) : h[k - 1] = l[k]
  BY <1>4
<1> HIDE DEF h
<1> QED
  BY <1>4, <1>8, <1>9

\* The elements of a concatenation.
LEMMA ConcatOnce ==
  ASSUME NEW s \in Seq(Chunks), NEW t \in Seq(Chunks)
  PROVE  /\ s \o t \in Seq(Chunks) /\ Len(s \o t) = Len(s) + Len(t)
         /\ ToSet(s \o t) = ToSet(s) \cup ToSet(t)
         /\ Once(s \o t) <=> Once(s) /\ Once(t) /\ ToSet(s) \cap ToSet(t) = {}
<1> DEFINE u == s \o t
<1>1. /\ u \in Seq(Chunks) /\ Len(u) = Len(s) + Len(t)
      /\ \A i \in 1 .. Len(s) + Len(t) : u[i] = IF i <= Len(s) THEN s[i] ELSE t[i - Len(s)]
  BY ConcatProperties
<1>2. /\ Len(s) \in Nat /\ DOMAIN s = 1 .. Len(s) /\ Len(t) \in Nat /\ DOMAIN t = 1 .. Len(t)
      /\ DOMAIN u = 1 .. Len(s) + Len(t)
  BY <1>1, LenProperties
<1> HIDE DEF u
<1>3. \A i \in 1 .. Len(s) : i \in 1 .. Len(u) /\ u[i] = s[i]
  BY <1>1, <1>2
<1>4. \A i \in 1 .. Len(t) : i + Len(s) \in 1 .. Len(u) /\ u[i + Len(s)] = t[i]
  BY <1>1, <1>2
<1>5. \A i \in 1 .. Len(u) : \/ i \in 1 .. Len(s) /\ u[i] = s[i]
                             \/ i - Len(s) \in 1 .. Len(t) /\ u[i] = t[i - Len(s)]
  <2> SUFFICES ASSUME NEW i \in 1 .. Len(u)
               PROVE  \/ i \in 1 .. Len(s) /\ u[i] = s[i]
                      \/ i - Len(s) \in 1 .. Len(t) /\ u[i] = t[i - Len(s)]
    OBVIOUS
  <2>1. i \in 1 .. Len(s) + Len(t)
    BY <1>1
  <2>2. CASE i <= Len(s)
    BY <1>1, <1>2, <2>1, <2>2
  <2>3. CASE ~(i <= Len(s))
    <3>1. i - Len(s) \in 1 .. Len(t)
      BY <1>2, <2>1, <2>3
    <3> QED
      BY <1>1, <2>1, <2>3, <3>1
  <2> QED
    BY <2>2, <2>3
<1>6. ToSet(u) = ToSet(s) \cup ToSet(t)
  <2>1. ToSet(s) \cup ToSet(t) \subseteq ToSet(u)
    <3>1. DOMAIN u = 1 .. Len(u)
      BY <1>1, <1>2
    <3>2. \A i \in DOMAIN s : s[i] \in ToSet(u)
      BY <1>2, <1>3, <3>1 DEF ToSet
    <3>3. \A i \in DOMAIN t : t[i] \in ToSet(u)
      BY <1>2, <1>4, <3>1 DEF ToSet
    <3> QED
      BY <3>2, <3>3 DEF ToSet
  <2>2. ToSet(u) \subseteq ToSet(s) \cup ToSet(t)
    BY <1>1, <1>2, <1>5 DEF ToSet
  <2> QED
    BY <2>1, <2>2
<1>7. ASSUME Once(u) PROVE Once(s) /\ Once(t) /\ ToSet(s) \cap ToSet(t) = {}
  <2>1. Once(s)
    BY <1>3, <1>7 DEF Once
  <2>2. Once(t)
    <3> SUFFICES ASSUME NEW i \in 1 .. Len(t), NEW j \in 1 .. Len(t), t[i] = t[j]
                 PROVE  i = j
      BY DEF Once
    <3>1. i + Len(s) = j + Len(s)
      BY <1>4, <1>7 DEF Once
    <3> QED
      BY <1>2, <3>1
  <2>3. ASSUME NEW i \in 1 .. Len(s), NEW j \in 1 .. Len(t), s[i] = t[j] PROVE FALSE
    <3>1. i = j + Len(s)
      BY <1>3, <1>4, <1>7, <2>3 DEF Once
    <3> QED
      BY <1>2, <3>1
  <2> QED
    BY <1>2, <2>1, <2>2, <2>3 DEF ToSet
<1>8. ASSUME Once(s), Once(t), ToSet(s) \cap ToSet(t) = {} PROVE Once(u)
  <2> SUFFICES ASSUME NEW i \in 1 .. Len(u), NEW j \in 1 .. Len(u), u[i] = u[j]
               PROVE  i = j
    BY DEF Once
  <2>1. \A k \in 1 .. Len(s) : s[k] \in ToSet(s)
    BY <1>2 DEF ToSet
  <2>2. \A k \in 1 .. Len(t) : t[k] \in ToSet(t)
    BY <1>2 DEF ToSet
  <2>3. CASE i \in 1 .. Len(s) /\ j \in 1 .. Len(s)
    BY <1>3, <1>8, <2>3 DEF Once
  <2>4. CASE i - Len(s) \in 1 .. Len(t) /\ j - Len(s) \in 1 .. Len(t)
    <3>1. i - Len(s) = j - Len(s)
      BY <1>1, <1>2, <1>5, <1>8, <2>4 DEF Once
    <3> QED
      BY <1>1, <1>2, <3>1
  <2>5. \A k \in 1 .. Len(u) : \/ k \in 1 .. Len(s) /\ u[k] \in ToSet(s)
                               \/ k - Len(s) \in 1 .. Len(t) /\ u[k] \in ToSet(t)
    <3> SUFFICES ASSUME NEW k \in 1 .. Len(u)
                 PROVE  \/ k \in 1 .. Len(s) /\ u[k] \in ToSet(s)
                        \/ k - Len(s) \in 1 .. Len(t) /\ u[k] \in ToSet(t)
      OBVIOUS
    <3>1. CASE k \in 1 .. Len(s) /\ u[k] = s[k]
      BY <2>1, <3>1
    <3>2. CASE k - Len(s) \in 1 .. Len(t) /\ u[k] = t[k - Len(s)]
      BY <2>2, <3>2
    <3> QED
      BY <1>5, <3>1, <3>2
  <2> QED
    BY <1>8, <2>3, <2>4, <2>5
<1> QED
  BY <1>1, <1>6, <1>7, <1>8 DEF u

\* A sequence split in two.
LEMMA SplitOnce ==
  ASSUME NEW s \in Seq(Chunks), Once(s), NEW n \in 0 .. Len(s)
  PROVE  LET a == SubSeq(s, 1, n)
             b == SubSeq(s, n + 1, Len(s))
         IN /\ a \in Seq(Chunks) /\ Len(a) = n /\ Once(a)
            /\ b \in Seq(Chunks) /\ Len(b) = Len(s) - n /\ Once(b)
            /\ \A i \in 1 .. n : a[i] = s[i]
            /\ \A i \in 1 .. Len(s) - n : b[i] = s[n + i]
            /\ ToSet(a) \cup ToSet(b) = ToSet(s) /\ ToSet(a) \cap ToSet(b) = {}
<1> DEFINE a == SubSeq(s, 1, n)
           b == SubSeq(s, n + 1, Len(s))
<1>1. Len(s) \in Nat /\ n \in Nat /\ n <= Len(s) /\ \A i \in 1 .. Len(s) : s[i] \in Chunks
  BY LenProperties, ElementOfSeq
<1>2. a \in Seq(Chunks) /\ Len(a) = n /\ \A i \in 1 .. n : a[i] = s[i]
  <2>1. \A i \in 1 .. n : s[i] \in Chunks
    BY <1>1
  <2>2. 1 \in Int /\ n \in Int /\ n - 1 + 1 = n
    BY <1>1
  <2>3. /\ a \in Seq(Chunks) /\ Len(a) = IF 1 <= n THEN n - 1 + 1 ELSE 0
        /\ \A i \in 1 .. n - 1 + 1 : a[i] = s[1 + i - 1]
    BY <2>1, <2>2, SubSeqProperties
  <2> HIDE DEF a
  <2> QED
    BY <1>1, <2>2, <2>3
<1>3. b \in Seq(Chunks) /\ Len(b) = Len(s) - n /\ \A i \in 1 .. Len(s) - n : b[i] = s[n + i]
  <2>1. \A i \in n + 1 .. Len(s) : s[i] \in Chunks
    BY <1>1
  <2>2. n + 1 \in Int /\ Len(s) \in Int
    BY <1>1
  <2>3. /\ b \in Seq(Chunks)
        /\ Len(b) = IF n + 1 <= Len(s) THEN Len(s) - (n + 1) + 1 ELSE 0
        /\ \A i \in 1 .. Len(s) - (n + 1) + 1 : b[i] = s[(n + 1) + i - 1]
    BY <2>1, <2>2, SubSeqProperties
  <2> HIDE DEF b
  <2>4. Len(b) = Len(s) - n
    BY <1>1, <2>3
  <2>5. ASSUME NEW i \in 1 .. Len(s) - n PROVE b[i] = s[n + i]
    <3>1. i \in 1 .. Len(s) - (n + 1) + 1 /\ (n + 1) + i - 1 = n + i
      BY <1>1
    <3>2. b[i] = s[(n + 1) + i - 1]
      BY <2>3, <3>1
    <3> QED
      BY <3>1, <3>2
  <2> QED
    BY <2>3, <2>4, <2>5
<1>4. s = a \o b
  <2>1. Len(s) \in Int /\ 1 \in 1 .. Len(s) + 1 /\ n \in 1 - 1 .. Len(s) /\ Len(s) \in n .. Len(s)
    BY <1>1
  <2>2. a \o b = SubSeq(s, 1, Len(s))
    BY <2>1, ConcatAdjacentSubSeq
  <2> QED
    BY <2>2, SubSeqFull
<1> HIDE DEF a, b
<1>5. Once(a) /\ Once(b) /\ ToSet(a) \cap ToSet(b) = {} /\ ToSet(s) = ToSet(a) \cup ToSet(b)
  BY <1>2, <1>3, <1>4, ConcatOnce
<1> QED
  BY <1>2, <1>3, <1>5 DEF a, b

\* A sequence reversed.
LEMMA ReverseOnce ==
  ASSUME NEW s \in Seq(Chunks), Once(s)
  PROVE  /\ Reverse(s) \in Seq(Chunks) /\ Len(Reverse(s)) = Len(s) /\ Once(Reverse(s))
         /\ ToSet(Reverse(s)) = ToSet(s)
<1> DEFINE r == Reverse(s)
<1>1. Len(s) \in Nat /\ DOMAIN s = 1 .. Len(s) /\ \A i \in 1 .. Len(s) : s[i] \in Chunks
  BY LenProperties, ElementOfSeq
<1>2. \A i \in 1 .. Len(s) : Len(s) - i + 1 \in 1 .. Len(s)
  BY <1>1
<1>3. r \in [1 .. Len(s) -> Chunks] /\ \A i \in 1 .. Len(s) : r[i] = s[Len(s) - i + 1]
  BY <1>1, <1>2 DEF Reverse
<1> HIDE DEF r
<1>4. r \in Seq(Chunks) /\ Len(r) = Len(s) /\ DOMAIN r = 1 .. Len(s)
  BY <1>1, <1>3
<1>5. Once(r)
  <2> SUFFICES ASSUME NEW i \in 1 .. Len(r), NEW j \in 1 .. Len(r), r[i] = r[j]
               PROVE  i = j
    BY DEF Once
  <2>1. Len(s) - i + 1 = Len(s) - j + 1
    BY <1>2, <1>3, <1>4 DEF Once
  <2> QED
    BY <1>1, <1>4, <2>1
<1>6. ToSet(r) = ToSet(s)
  <2>1. ToSet(r) \subseteq ToSet(s)
    BY <1>1, <1>2, <1>3, <1>4 DEF ToSet
  <2>2. \A i \in 1 .. Len(s) : r[Len(s) - i + 1] = s[i]
    BY <1>1, <1>2, <1>3
  <2>3. ToSet(s) \subseteq ToSet(r)
    BY <1>1, <1>2, <1>4, <2>2 DEF ToSet
  <2> QED
    BY <2>1, <2>3
<1> QED
  BY <1>4, <1>5, <1>6 DEF r

\* A sequence in which nothing is twice is as long as its set is large.
LEMMA OnceCard ==
  ASSUME NEW s \in Seq(Chunks), Once(s)
  PROVE  Len(s) = Cardinality(ToSet(s))
<1>1. Len(s) \in Nat /\ DOMAIN s = 1 .. Len(s) /\ s \in [1 .. Len(s) -> Chunks]
  BY LenProperties
<1>2. s \in Bijection(1 .. Len(s), ToSet(s))
  <2>1. s \in [1 .. Len(s) -> ToSet(s)]
    BY <1>1 DEF ToSet
  <2>2. s \in Injection(1 .. Len(s), ToSet(s))
    BY <2>1 DEF Injection, IsInjective, Once
  <2>3. s \in Surjection(1 .. Len(s), ToSet(s))
    BY <1>1, <2>1 DEF Surjection, ToSet
  <2> QED
    BY <2>2, <2>3 DEF Bijection
<1> QED
  BY <1>1, <1>2, FS_CountingElements DEF ExistsBijection

\* What a chain contains.
LEMMA ChainParts ==
  ASSUME NEW nx, NEW l, NEW a, NEW b, Chain(nx, l, a, b)
  PROVE  /\ l \in Seq(Chunks) /\ Len(l) \in Nat /\ Len(l) > 0 /\ Once(l)
         /\ ToSet(l) \subseteq Chunks /\ a \in ToSet(l) /\ b \in ToSet(l)
         /\ \A i \in 1 .. Len(l) : l[i] \in ToSet(l) /\ l[i] \in Chunks
<1>1. l \in Seq(Chunks) /\ Len(l) \in Nat /\ Len(l) > 0 /\ Once(l) /\ DOMAIN l = 1 .. Len(l)
  BY LenProperties DEF Chain
<1>2. \A i \in 1 .. Len(l) : l[i] \in ToSet(l) /\ l[i] \in Chunks
  BY <1>1, ElementOfSeq DEF ToSet
<1>3. ToSet(l) \subseteq Chunks
  BY <1>1, <1>2 DEF ToSet
<1>4. 1 \in 1 .. Len(l) /\ Len(l) \in 1 .. Len(l) /\ l[1] = a /\ l[Len(l)] = b
  BY <1>1 DEF Chain
<1> QED
  BY <1>1, <1>2, <1>3, <1>4

\* A chain stays one while the pointers of its chunks do.
LEMMA ChainSame ==
  ASSUME NEW nx, NEW l, NEW a, NEW b, Chain(nx, l, a, b),
         NEW nx2, \A c \in ToSet(l) : nx2[c] = nx[c]
  PROVE  Chain(nx2, l, a, b)
<1>1. Len(l) \in Nat /\ b \in ToSet(l) /\ \A i \in 1 .. Len(l) : l[i] \in ToSet(l)
  BY ChainParts
<1>2. \A i \in 1 .. Len(l) - 1 : l[i] \in ToSet(l)
  BY <1>1
<1> QED
  BY <1>1, <1>2 DEF Chain

\* Two chains linked.
LEMMA ChainJoin ==
  ASSUME NEW nx \in [Chunks -> Opt], NEW l, NEW a, NEW b, Chain(nx, l, a, b),
         NEW m, NEW c, NEW d, Chain(nx, m, c, d),
         ToSet(l) \cap ToSet(m) = {},
         NEW n2, \A x \in Chunks : n2[x] = IF x = b THEN c ELSE nx[x]
  PROVE  /\ Chain(n2, l \o m, a, d)
         /\ ToSet(l \o m) = ToSet(l) \cup ToSet(m)
<1> DEFINE u == l \o m
<1>1. /\ l \in Seq(Chunks) /\ Len(l) \in Nat /\ Len(l) > 0 /\ Once(l)
      /\ b \in ToSet(l) /\ ToSet(l) \subseteq Chunks
      /\ \A i \in 1 .. Len(l) : l[i] \in ToSet(l) /\ l[i] \in Chunks
  BY ChainParts
<1>2. /\ m \in Seq(Chunks) /\ Len(m) \in Nat /\ Len(m) > 0 /\ Once(m)
      /\ d \in ToSet(m) /\ ToSet(m) \subseteq Chunks
      /\ \A i \in 1 .. Len(m) : m[i] \in ToSet(m) /\ m[i] \in Chunks
  BY ChainParts
<1>3. /\ u \in Seq(Chunks) /\ Len(u) = Len(l) + Len(m) /\ Once(u)
      /\ ToSet(u) = ToSet(l) \cup ToSet(m)
  BY <1>1, <1>2, ConcatOnce
<1>4. \A i \in 1 .. Len(l) + Len(m) : u[i] = IF i <= Len(l) THEN l[i] ELSE m[i - Len(l)]
  BY <1>1, <1>2, ConcatProperties
<1>5. \A x \in Chunks : n2[x] = IF x = b THEN c ELSE nx[x]
  OBVIOUS
<1> HIDE DEF u
<1>6. u[1] = a /\ u[Len(u)] = d
  <2>1. 1 \in 1 .. Len(l) + Len(m) /\ Len(u) \in 1 .. Len(l) + Len(m)
        /\ 1 <= Len(l) /\ ~(Len(u) <= Len(l)) /\ Len(u) - Len(l) = Len(m)
    BY <1>1, <1>2, <1>3
  <2> QED
    BY <1>4, <2>1 DEF Chain
<1>7. n2[d] = Nil
  <2>1. d # b /\ d \in Chunks /\ nx[d] = Nil
    BY <1>1, <1>2 DEF Chain
  <2> QED
    BY <1>5, <2>1
<1>8. ASSUME NEW i \in 1 .. Len(u) - 1 PROVE n2[u[i]] = u[i + 1]
  <2>1. i \in 1 .. Len(l) + Len(m) /\ i + 1 \in 1 .. Len(l) + Len(m)
    BY <1>1, <1>2, <1>3
  <2>2. CASE i < Len(l)
    <3>1. i \in 1 .. Len(l) - 1 /\ i \in 1 .. Len(l) /\ Len(l) \in 1 .. Len(l)
          /\ i <= Len(l) /\ i + 1 <= Len(l) /\ i # Len(l)
      BY <1>1, <2>2
    <3>2. l[i] # b /\ l[i] \in Chunks /\ nx[l[i]] = l[i + 1]
      BY <1>1, <3>1 DEF Chain, Once
    <3> QED
      BY <1>4, <1>5, <2>1, <3>1, <3>2
  <2>3. CASE i = Len(l)
    <3>1. i <= Len(l) /\ ~(i + 1 <= Len(l)) /\ (i + 1) - Len(l) = 1
      BY <1>1, <2>3
    <3>2. u[i] = b /\ u[i + 1] = c /\ b \in Chunks
      BY <1>1, <1>4, <2>1, <2>3, <3>1 DEF Chain
    <3> QED
      BY <1>5, <3>2
  <2>4. CASE i > Len(l)
    <3> DEFINE j == i - Len(l)
    <3>1. j \in 1 .. Len(m) - 1 /\ j \in 1 .. Len(m) /\ ~(i <= Len(l)) /\ ~(i + 1 <= Len(l))
          /\ (i + 1) - Len(l) = j + 1
      BY <1>1, <1>2, <1>3, <2>4
    <3>2. u[i] = m[j] /\ u[i + 1] = m[j + 1]
      BY <1>4, <2>1, <3>1
    <3> HIDE DEF j
    <3>3. m[j] # b /\ m[j] \in Chunks /\ nx[m[j]] = m[j + 1]
      BY <1>1, <1>2, <3>1 DEF Chain
    <3> QED
      BY <1>5, <3>2, <3>3
  <2> QED
    BY <1>1, <2>2, <2>3, <2>4
<1> QED
  BY <1>1, <1>2, <1>3, <1>6, <1>7, <1>8 DEF Chain, u

\* A chain without its first n chunks.
LEMMA ChainCut ==
  ASSUME NEW nx \in [Chunks -> Opt], NEW l, NEW a, NEW b, Chain(nx, l, a, b),
         NEW n \in 0 .. Len(l) - 1
  PROVE  Chain(nx, SubSeq(l, n + 1, Len(l)), l[n + 1], b)
<1> DEFINE u == SubSeq(l, n + 1, Len(l))
<1>1. /\ l \in Seq(Chunks) /\ Len(l) \in Nat /\ Len(l) > 0 /\ Once(l)
      /\ \A i \in 1 .. Len(l) : l[i] \in ToSet(l) /\ l[i] \in Chunks
  BY ChainParts
<1>2. n \in 0 .. Len(l) /\ n \in Nat /\ n < Len(l)
  BY <1>1
<1>3. /\ u \in Seq(Chunks) /\ Len(u) = Len(l) - n /\ Once(u)
      /\ \A i \in 1 .. Len(l) - n : u[i] = l[n + i]
  BY <1>1, <1>2, SplitOnce
<1> HIDE DEF u
<1>4. u[1] = l[n + 1] /\ u[Len(u)] = b
  <2>1. 1 \in 1 .. Len(l) - n /\ Len(u) \in 1 .. Len(l) - n /\ n + Len(u) = Len(l)
    BY <1>1, <1>2, <1>3
  <2> QED
    BY <1>3, <2>1 DEF Chain
<1>5. ASSUME NEW i \in 1 .. Len(u) - 1 PROVE nx[u[i]] = u[i + 1]
  <2>1. i \in 1 .. Len(l) - n /\ i + 1 \in 1 .. Len(l) - n /\ n + i \in 1 .. Len(l) - 1
        /\ n + (i + 1) = (n + i) + 1
    BY <1>1, <1>2, <1>3
  <2> QED
    BY <1>3, <2>1 DEF Chain
<1>6. Len(u) > 0 /\ nx[b] = Nil
  BY <1>1, <1>2, <1>3 DEF Chain
<1> QED
  BY <1>3, <1>4, <1>5, <1>6 DEF Chain, u

-----------------------------------------------------------------------------
(* The steps and the lists.                                                *)

\* The list of the fifo, as a function of the pointers.
LEMMA LinkedIs == Linked = ListAlong(next, startC) /\ Linked' = ListAlong(next', startC')
  BY Zenon DEF Linked, ListFrom, ListAlong

\* Where a chunk is in a list that has it once.
LEMMA IndexOf ==
  ASSUME NEW s \in Seq(Chunks), Once(s), NEW i \in 1 .. Len(s)
  PROVE  SelectInSeq(s, LAMBDA d : d = s[i]) = i
<1> DEFINE I == {k \in 1 .. Len(s) : s[k] = s[i]}
<1>1. I = {i}
  BY DEF Once
<1>2. SelectInSeq(s, LAMBDA d : d = s[i]) = IF I # {} THEN Min(I) ELSE 0
  BY DEF SelectInSeq
<1>3. Len(s) \in Nat
  BY LenProperties
<1>4. I \subseteq Nat /\ I # {}
  BY <1>3
<1>5. Min(I) \in I
  BY <1>4, MinIn
<1> HIDE DEF I
<1> QED
  BY <1>1, <1>2, <1>4, <1>5

\* A producer that allocates lacks at least one byte.
LEMMA Missing ==
  ASSUME Types, Window, prod.pc = "alloc"
  PROVE  /\ Diff(ChunkEnd(endC), tail) \in Int
         /\ Diff(ChunkEnd(endC), tail) < prod.off + prod.len
<1> DEFINE x == ChunkEnd(endC)
           k == prod.off + prod.len
           d == Diff(x, tail)
<1>1. prod.off \in Nat /\ prod.len \in Nat /\ tail \in Pos /\ tail \in Int /\ W \in Nat
  BY Sizes DEF Types, Pos
<1>2. x \in Pos
  <2>1. start[endC] \in Int /\ Length \in Int
    BY Sizes DEF Types, Pos
  <2> QED
    BY <2>1, PlusIs DEF ChunkEnd
<1>3. x \in Int
  BY <1>2, Sizes DEF Pos
<1>4. Diff(x, Plus(tail, k)) < 0
  BY DEF Window, NeedsChunk, f_pos_lt
<1>5. d \in Int /\ -W <= 2 * d /\ 2 * d < W
  BY <1>1, <1>3, DiffIs
<1>6. x = Plus(tail, d)
  BY <1>1, <1>2, PlusDiff
<1>7. k \in Nat
  BY <1>1
<1> HIDE DEF x, k, d
<1>8. ASSUME d >= k PROVE FALSE
  <2>1. -W <= 2 * (d - k) /\ 2 * (d - k) < W
    BY <1>1, <1>5, <1>7, <1>8
  <2>2. Diff(Plus(tail, d), Plus(tail, k)) = d - k
    BY <1>1, <1>5, <1>7, <2>1, DiffPlus
  <2> QED
    BY <1>4, <1>5, <1>6, <1>7, <1>8, <2>2
<1>9. d < k
  BY <1>5, <1>7, <1>8
<1> QED
  BY <1>5, <1>9 DEF x, k, d

\* It takes at least one chunk.
LEMMA SomeChunks ==
  ASSUME Types, Window, prod.pc = "alloc"
  PROVE  NChunks \in Int /\ NChunks >= 1
<1> DEFINE room == Free(prod.head, tail)
           least == IF MinAlloc < room THEN MinAlloc ELSE room
           missing == prod.off + prod.len - Diff(ChunkEnd(endC), tail)
<1>1. room \in Int
  <2>1. tail \in Int /\ prod.head \in Int
    BY Sizes DEF Types, Pos
  <2>2. Diff(tail, prod.head) \in Int
    BY <2>1, DiffIs, Zenon
  <2> QED
    BY <2>2, Sizes DEF Free
<1>2. missing \in Int /\ missing >= 1
  <2>1. prod.off \in Nat /\ prod.len \in Nat
    BY DEF Types
  <2> QED
    BY <2>1, Missing
<1>3. least \in Int
  BY <1>1, Sizes
<1>4. AllocSize = IF least < missing THEN missing ELSE least
  BY DEF AllocSize
<1> HIDE DEF room, least, missing
<1>5. AllocSize \in Int /\ AllocSize >= 1
  BY <1>2, <1>3, <1>4
<1> DEFINE x == AllocSize + Length - 1
           q == x \div Length
<1>6. x \in Nat /\ x >= Length /\ Length \in Nat /\ Length > 0
  BY <1>5, Sizes
<1>7. x = q * Length + (x % Length) /\ q \in Int /\ x % Length \in 0 .. Length - 1
  BY <1>6, Division
<1>8. NChunks = q
  BY DEF NChunks
<1> HIDE DEF x, q
<1>9. ASSUME q <= 0 PROVE FALSE
  <2>1. q * Length <= 0
    BY <1>6, <1>7, <1>9
  <2> QED
    BY <1>6, <1>7, <2>1
<1> QED
  BY <1>7, <1>8, <1>9

\* What ProdAlloc pops, and the pointers it sets.
LEMMA AllocParts ==
  ASSUME IInv, ProdAlloc
  PROVE  LET new == Reverse(SubSeq(free, 1, NChunks))
         IN /\ prod' = [prod EXCEPT !.pc = "link", !.new = new]
            /\ new \in Seq(Chunks) /\ Len(new) \in Nat /\ Len(new) > 0 /\ Once(new)
            /\ free' \in Seq(Chunks) /\ Once(free')
            /\ ToSet(free') \cup ToSet(new) = ToSet(free)
            /\ ToSet(free') \cap ToSet(new) = {}
            /\ start' \in [Chunks -> Pos] /\ next' \in [Chunks -> Opt]
            /\ \A c \in Chunks \ ToSet(new) : next'[c] = next[c] /\ start'[c] = start[c]
            /\ \A i \in 1 .. Len(new) - 1 : next'[new[i]] = new[i + 1]
            /\ next'[new[Len(new)]] = Nil
            /\ \A i \in 1 .. Len(new) :
                 start'[new[i]] = Plus(ChunkEnd(endC), Length * (i - 1))
<1> DEFINE a == SubSeq(free, 1, NChunks)
           new == Reverse(a)
           at(c) == SelectInSeq(new, LAMBDA d : d = c)
<1> USE DEF IInv
<1>1. NChunks \in Int /\ NChunks >= 1 /\ NChunks <= Len(free)
  BY SomeChunks DEF ProdAlloc
<1>2. Len(free) \in Nat /\ free \in Seq(Chunks) /\ Once(free)
  BY LenProperties DEF Types, Lists
<1>3. NChunks \in 0 .. Len(free) /\ NChunks \in Nat
  BY <1>1, <1>2
<1>4. /\ free' = SubSeq(free, NChunks + 1, Len(free))
      /\ prod' = [prod EXCEPT !.pc = "link", !.new = new]
  BY DEF ProdAlloc
<1>5. /\ a \in Seq(Chunks) /\ Len(a) = NChunks /\ Once(a)
      /\ free' \in Seq(Chunks) /\ Once(free')
      /\ ToSet(a) \cup ToSet(free') = ToSet(free) /\ ToSet(a) \cap ToSet(free') = {}
  BY <1>2, <1>3, <1>4, SplitOnce
<1> HIDE DEF a
<1>6. new \in Seq(Chunks) /\ Len(new) = NChunks /\ Once(new) /\ ToSet(new) = ToSet(a)
  BY <1>5, ReverseOnce
<1>7. /\ start' = [c \in Chunks |->
                     IF Contains(new, c) THEN Plus(ChunkEnd(endC), Length * (at(c) - 1))
                     ELSE start[c]]
      /\ next' = [c \in Chunks |->
                    IF Contains(new, c)
                    THEN IF at(c) = Len(new) THEN Nil ELSE new[at(c) + 1]
                    ELSE next[c]]
  BY DEF ProdAlloc, a
<1> HIDE DEF new, at
<1>8. \A i \in 1 .. Len(new) : at(new[i]) = i
  BY <1>6, IndexOf DEF at
<1>9. DOMAIN new = 1 .. Len(new) /\ \A i \in 1 .. Len(new) : new[i] \in Chunks
  BY <1>6, LenProperties, ElementOfSeq
<1>10. \A c : Contains(new, c) <=> c \in ToSet(new)
  BY <1>9 DEF Contains, ToSet
<1>11. \A i \in 1 .. Len(new) : new[i] \in Chunks /\ Contains(new, new[i])
  BY <1>9 DEF Contains
<1>12. \A i \in 1 .. Len(new) :
         start'[new[i]] = Plus(ChunkEnd(endC), Length * (i - 1))
  BY <1>7, <1>8, <1>11
<1>13. \A i \in 1 .. Len(new) :
         next'[new[i]] = IF i = Len(new) THEN Nil ELSE new[i + 1]
  BY <1>7, <1>8, <1>11
<1>14. \A c \in Chunks \ ToSet(new) : next'[c] = next[c] /\ start'[c] = start[c]
  BY <1>7, <1>10
<1>15. \A c \in ToSet(new) : \E i \in 1 .. Len(new) : c = new[i]
  BY <1>9 DEF ToSet
<1>16. start' \in [Chunks -> Pos]
  <2>1. ASSUME NEW c \in Chunks PROVE start'[c] \in Pos
    <3>1. CASE c \in ToSet(new)
      <4>1. PICK i \in 1 .. Len(new) : c = new[i]
        BY <1>15, <3>1
      <4>2. ChunkEnd(endC) \in Int
        <5>1. start[endC] \in Int /\ Length \in Int
          BY Sizes DEF Types, Pos
        <5>2. ChunkEnd(endC) \in Pos
          BY <5>1, PlusIs DEF ChunkEnd
        <5> QED
          BY <5>2, Sizes DEF Pos
      <4>3. Length * (i - 1) \in Int
        BY <1>3, <1>6, Sizes
      <4> QED
        BY <1>12, <4>1, <4>2, <4>3, PlusIs
    <3>2. CASE c \notin ToSet(new)
      BY <1>14, <3>2 DEF Types
    <3> QED
      BY <3>1, <3>2
  <2> QED
    BY <1>7, <2>1
<1>17. next' \in [Chunks -> Opt]
  <2>1. ASSUME NEW c \in Chunks PROVE next'[c] \in Opt
    <3>1. CASE c \in ToSet(new)
      <4>1. PICK i \in 1 .. Len(new) : c = new[i]
        BY <1>15, <3>1
      <4>2. next'[c] = IF i = Len(new) THEN Nil ELSE new[i + 1]
        BY <1>13, <4>1
      <4>3. i # Len(new) => i + 1 \in 1 .. Len(new)
        BY <1>3, <1>6
      <4> QED
        BY <1>9, <4>2, <4>3 DEF Opt
    <3>2. CASE c \notin ToSet(new)
      BY <1>14, <3>2 DEF Types
    <3> QED
      BY <3>1, <3>2
  <2> QED
    BY <1>7, <2>1
<1>18. \A i \in 1 .. Len(new) - 1 : next'[new[i]] = new[i + 1]
  <2> SUFFICES ASSUME NEW i \in 1 .. Len(new) - 1 PROVE next'[new[i]] = new[i + 1]
    OBVIOUS
  <2>1. i \in 1 .. Len(new) /\ i # Len(new)
    BY <1>3, <1>6
  <2> QED
    BY <1>13, <2>1
<1>19. next'[new[Len(new)]] = Nil
  <2>1. Len(new) \in 1 .. Len(new)
    BY <1>1, <1>3, <1>6
  <2> QED
    BY <1>13, <2>1
<1>20. Len(new) \in Nat /\ Len(new) > 0
  BY <1>1, <1>6
<1>21. ToSet(free') \cup ToSet(new) = ToSet(free) /\ ToSet(free') \cap ToSet(new) = {}
  BY <1>5, <1>6
<1> QED
  BY <1>4, <1>5, <1>6, <1>12, <1>14, <1>16, <1>17, <1>18, <1>19, <1>20, <1>21 DEF new, a

\* ProdAlloc moves chunks from the free list to those about to be linked.
LEMMA AllocLists == IInv /\ ProdAlloc => Lists'
<1> SUFFICES ASSUME IInv, ProdAlloc PROVE Lists'
  OBVIOUS
<1> USE DEF IInv
<1> DEFINE new == Reverse(SubSeq(free, 1, NChunks))
           l == Linked
<1>1. /\ prod' = [prod EXCEPT !.pc = "link", !.new = new]
      /\ new \in Seq(Chunks) /\ Len(new) \in Nat /\ Len(new) > 0 /\ Once(new)
      /\ free' \in Seq(Chunks) /\ Once(free')
      /\ ToSet(free') \cup ToSet(new) = ToSet(free)
      /\ ToSet(free') \cap ToSet(new) = {}
      /\ \A c \in Chunks \ ToSet(new) : next'[c] = next[c] /\ start'[c] = start[c]
      /\ \A i \in 1 .. Len(new) - 1 : next'[new[i]] = new[i + 1]
      /\ next'[new[Len(new)]] = Nil
  BY AllocParts
<1> HIDE DEF new
<1>2. prod.pc = "alloc" /\ prod.new = <<>> /\ prod'.new = new /\ prod'.pc = "link"
  BY <1>1 DEF ProdAlloc, Types, Lists
<1>3. startC' = startC /\ endC' = endC /\ others' = others /\ cons' = cons
  BY DEF ProdAlloc, consVars, setup
<1>4. Chain(next, l, startC, endC) /\ ToSet(l) \subseteq Chunks
  BY ChainParts DEF Lists
<1>5. Chain(next', l, startC, endC)
  <2>1. \A c \in ToSet(l) : next'[c] = next[c]
    BY <1>1, <1>4 DEF Lists
  <2> QED
    BY <1>4, <2>1, ChainSame
<1>6. Linked' = l
  BY <1>3, <1>5, LinkedIs, ListOfChain
<1> HIDE DEF l
<1>7. Chain(next', new, new[1], Last(new))
  BY <1>1 DEF Chain, Last
<1>8. ToSet(<<>>) = {}
  BY DEF ToSet
<1>9. /\ ToSet(l) \cap ToSet(free) = {} /\ ToSet(l) \cap ToSet(cons.freed) = {}
      /\ ToSet(free) \cap ToSet(cons.freed) = {}
      /\ ToSet(l) \cup ToSet(free) \cup ToSet(cons.freed) = Chunks \ others
      /\ Once(cons.freed)
  BY <1>2, <1>8 DEF Lists, l
<1>10. Chain(next, Linked, startC, endC)' /\ Once(free)' /\ Once(cons.freed)' /\ Once(prod.new)'
  BY <1>1, <1>2, <1>3, <1>5, <1>6, <1>9
<1>11. /\ ToSet(l) \cap ToSet(free') = {} /\ ToSet(l) \cap ToSet(new) = {}
       /\ ToSet(free') \cap ToSet(cons.freed) = {} /\ ToSet(cons.freed) \cap ToSet(new) = {}
       /\ ToSet(l) \cup ToSet(free') \cup ToSet(cons.freed) \cup ToSet(new) = Chunks \ others
  BY <1>1, <1>9
<1>12. /\ cons'.pc = "collect" => Len(cons'.freed) > 0
       /\ cons'.pc # "collect" => cons'.freed = <<>>
  BY <1>3 DEF Lists
<1> QED
  BY <1>1, <1>2, <1>3, <1>6, <1>7, <1>9, <1>10, <1>11, <1>12 DEF Lists

\* ProdLink joins the two lists.
LEMMA LinkLists == IInv /\ ProdLink => Lists' /\ endC' \in Chunks /\ next' \in [Chunks -> Opt]
<1> SUFFICES ASSUME IInv, ProdLink PROVE Lists' /\ endC' \in Chunks /\ next' \in [Chunks -> Opt]
  OBVIOUS
<1> USE DEF IInv
<1> DEFINE new == prod.new
           l == Linked
           u == l \o new
<1>1. Chain(next, l, startC, endC) /\ Chain(next, new, new[1], Last(new))
      /\ ToSet(l) \cap ToSet(new) = {}
  BY DEF Lists, ProdLink
<1>2. /\ next' = [next EXCEPT ![endC] = new[1]] /\ endC' = Last(new)
      /\ free' = free /\ cons' = cons /\ startC' = startC /\ others' = others
      /\ prod'.pc = "copy" /\ prod'.new = <<>>
  BY DEF ProdLink, Types, consVars, setup
<1>3. next \in [Chunks -> Opt]
  BY DEF Types
<1> HIDE DEF l, new
<1>4. Chain(next', u, startC, Last(new)) /\ ToSet(u) = ToSet(l) \cup ToSet(new)
  <2> DEFINE c == new[1]
             d == Last(new)
  <2>1. Chain(next, l, startC, endC) /\ Chain(next, new, c, d)
    BY <1>1
  <2> HIDE DEF c, d
  <2>2. \A x \in Chunks : next'[x] = IF x = endC THEN c ELSE next[x]
    BY <1>2, <1>3 DEF c
  <2>3. /\ Chain(next', l \o new, startC, d)
        /\ ToSet(l \o new) = ToSet(l) \cup ToSet(new)
    BY <1>1, <1>3, <2>1, <2>2, ChainJoin
  <2> QED
    BY <2>3 DEF c, d
<1>5. new[1] \in Chunks /\ Last(new) \in Chunks
  BY <1>1, ChainParts
<1>6. next' \in [Chunks -> Opt]
  BY <1>2, <1>3, <1>5 DEF Opt
<1> HIDE DEF u
<1>7. Linked' = u
  BY <1>2, <1>4, LinkedIs, ListOfChain
<1>8. ToSet(<<>>) = {} /\ Once(<<>>)
  BY DEF ToSet, Once
<1>9. /\ Once(free) /\ Once(cons.freed)
      /\ ToSet(l) \cap ToSet(free) = {} /\ ToSet(l) \cap ToSet(cons.freed) = {}
      /\ ToSet(free) \cap ToSet(cons.freed) = {} /\ ToSet(free) \cap ToSet(new) = {}
      /\ ToSet(cons.freed) \cap ToSet(new) = {}
      /\ ToSet(l) \cup ToSet(free) \cup ToSet(cons.freed) \cup ToSet(new) = Chunks \ others
      /\ cons.pc = "collect" => Len(cons.freed) > 0
      /\ cons.pc # "collect" => cons.freed = <<>>
  BY DEF Lists, l, new
<1>10. /\ ToSet(u) \cap ToSet(free) = {} /\ ToSet(u) \cap ToSet(cons.freed) = {}
       /\ ToSet(u) \cup ToSet(free) \cup ToSet(cons.freed) \cup {} = Chunks \ others
  BY <1>4, <1>9
<1>11. Chain(next, Linked, startC, endC)'
  BY <1>2, <1>4, <1>7
<1>12. Lists'
  BY <1>2, <1>7, <1>8, <1>9, <1>10, <1>11 DEF Lists
<1> QED
  BY <1>2, <1>5, <1>6, <1>12

\* ConsUnlink cuts off chunks at the start, but not the last one.
LEMMA UnlinkCount ==
  ASSUME NEW l \in Seq(Chunks), Len(l) > 0, NEW h
  PROVE  NUnlinked(l, h) \in 0 .. Len(l) - 1
<1> DEFINE I == {i \in 1 .. Len(Tail(l)) : Includes(Tail(l)[i], h)}
           i == IF I # {} THEN Min(I) ELSE 0
<1>1. Len(l) \in Nat /\ l # <<>>
  BY LenProperties
<1>2. Len(Tail(l)) = Len(l) - 1
  BY <1>1, HeadTailProperties
<1>3. NUnlinked(l, h) = IF i = 0 THEN Len(l) - 1 ELSE i
  BY DEF NUnlinked, SelectInSeq
<1>4. I \subseteq 1 .. Len(l) - 1
  BY <1>2
<1> HIDE DEF I
<1>5. CASE I = {}
  BY <1>1, <1>3, <1>5
<1>6. CASE I # {}
  <2>1. I \subseteq Nat
    BY <1>1, <1>4
  <2>2. Min(I) \in I
    BY <1>6, <2>1, MinIn
  <2>3. Min(I) \in 1 .. Len(l) - 1
    BY <1>4, <2>2
  <2> QED
    BY <1>1, <1>3, <1>6, <2>3
<1> QED
  BY <1>5, <1>6

\* ConsUnlink moves the front of the list to the chunks to give back.
LEMMA UnlinkLists ==
  IInv /\ ConsUnlink => Lists' /\ startC' \in Chunks /\ next' \in [Chunks -> Opt] /\ Types'
<1> SUFFICES ASSUME IInv, ConsUnlink
             PROVE  Lists' /\ startC' \in Chunks /\ next' \in [Chunks -> Opt] /\ Types'
  OBVIOUS
<1> USE DEF IInv
<1> DEFINE l == Linked
           n == NUnlinked(l, cons.end)
           a == SubSeq(l, 1, n)
           u == SubSeq(l, n + 1, Len(l))
<1>1. Chain(next, l, startC, endC)
  BY DEF Lists
<1>2. /\ l \in Seq(Chunks) /\ Len(l) \in Nat /\ Len(l) > 0 /\ Once(l)
      /\ \A i \in 1 .. Len(l) : l[i] \in ToSet(l) /\ l[i] \in Chunks
  BY <1>1, ChainParts
<1>3. /\ startC' = l[n + 1]
      /\ next' = IF n = 0 THEN next ELSE [next EXCEPT ![l[n]] = Nil]
      /\ cons' = [cons EXCEPT !.pc = IF n = 0 THEN "store" ELSE "collect", !.freed = a]
  BY DEF ConsUnlink, Linked
<1>4. /\ endC' = endC /\ free' = free /\ prod' = prod /\ others' = others
      /\ head' = head /\ tail' = tail /\ start' = start /\ cons.pc = "unlink"
  BY DEF ConsUnlink, prodVars, setup
<1>5. cons.freed = <<>> /\ ToSet(<<>>) = {}
  BY <1>4 DEF Lists, ToSet
<1> HIDE DEF l
<1>6. n \in 0 .. Len(l) - 1
  BY <1>2, UnlinkCount
<1> HIDE DEF n
<1>7. n \in Nat /\ n < Len(l) /\ n \in 0 .. Len(l) /\ n + 1 \in 1 .. Len(l)
      /\ (n # 0 => n \in 1 .. Len(l) /\ n \in 1 .. n)
  BY <1>2, <1>6
<1>8. /\ a \in Seq(Chunks) /\ Len(a) = n /\ Once(a) /\ \A i \in 1 .. n : a[i] = l[i]
      /\ ToSet(a) \cup ToSet(u) = ToSet(l) /\ ToSet(a) \cap ToSet(u) = {}
  BY <1>2, <1>7, SplitOnce
<1>9. Chain(next, u, l[n + 1], endC)
  <2>1. next \in [Chunks -> Opt]
    BY DEF Types
  <2> QED
    BY <1>1, <1>6, <2>1, ChainCut
<1> HIDE DEF a, u
<1>10. n # 0 => l[n] \in ToSet(a)
  <2> SUFFICES ASSUME n # 0 PROVE l[n] \in ToSet(a)
    OBVIOUS
  <2>1. DOMAIN a = 1 .. n
    BY <1>8, LenProperties
  <2> QED
    BY <1>7, <1>8, <2>1 DEF ToSet
<1>11. \A c \in Chunks : c \notin ToSet(a) => next'[c] = next[c]
  BY <1>3, <1>10 DEF Types
<1>12. Chain(next', u, startC', endC')
  <2>1. ToSet(u) \subseteq Chunks
    BY <1>9, ChainParts
  <2>2. \A c \in ToSet(u) : next'[c] = next[c]
    BY <1>8, <1>11, <2>1
  <2>3. Chain(next', u, l[n + 1], endC)
    BY <1>9, <2>2, ChainSame
  <2> QED
    BY <1>3, <1>4, <2>3
<1>13. Linked' = u
  BY <1>12, LinkedIs, ListOfChain
<1>14. next' \in [Chunks -> Opt] /\ startC' \in Chunks
  <2>1. CASE n = 0
    BY <1>2, <1>3, <1>7, <2>1 DEF Types
  <2>2. CASE n # 0
    BY <1>2, <1>3, <1>7, <2>2 DEF Types, Opt
  <2> QED
    BY <2>1, <2>2
<1>15. /\ cons' \in [pc : {"idle", "read", "unlink", "collect", "store"},
               op : {"none", "deq", "peek", "segments", "drop", "dropall"},
               off : Nat, len : Int, end : Pos, freed : Seq(Chunks)]
       /\ cons'.freed = a /\ cons'.pc = IF n = 0 THEN "store" ELSE "collect"
  BY <1>3, <1>8 DEF Types
<1>16. Types'
  BY <1>4, <1>14, <1>15 DEF Types
<1>17. n = 0 => a = <<>>
  BY <1>8, LenProperties, EmptySeq
<1>18. /\ cons'.pc = "collect" => Len(cons'.freed) > 0
       /\ cons'.pc # "collect" => cons'.freed = <<>>
  BY <1>7, <1>8, <1>15, <1>17
<1>19. /\ Once(free) /\ Once(prod.new)
       /\ ToSet(l) \cap ToSet(free) = {} /\ ToSet(l) \cap ToSet(prod.new) = {}
       /\ ToSet(free) \cap ToSet(prod.new) = {}
       /\ ToSet(l) \cup ToSet(free) \cup {} \cup ToSet(prod.new) = Chunks \ others
       /\ prod.pc # "link" => prod.new = <<>>
  BY <1>5 DEF Lists, l
<1>20. /\ ToSet(u) \cap ToSet(free) = {} /\ ToSet(u) \cap ToSet(prod.new) = {}
       /\ ToSet(a) \cap ToSet(free) = {} /\ ToSet(a) \cap ToSet(prod.new) = {}
       /\ ToSet(u) \cap ToSet(a) = {}
       /\ ToSet(u) \cup ToSet(free) \cup ToSet(a) \cup ToSet(prod.new) = Chunks \ others
  BY <1>8, <1>19
<1>21. prod.pc = "link" => Chain(next', prod.new, prod.new[1], Last(prod.new))
  <2> SUFFICES ASSUME prod.pc = "link" PROVE Chain(next', prod.new, prod.new[1], Last(prod.new))
    OBVIOUS
  <2> DEFINE m == prod.new
             c == m[1]
             d == Last(m)
  <2>1. Chain(next, m, c, d)
    BY DEF Lists
  <2>2. ToSet(m) \subseteq Chunks
    BY <2>1, ChainParts
  <2>3. \A x \in ToSet(m) : next'[x] = next[x]
    BY <1>11, <1>20, <2>2
  <2> HIDE DEF m, c, d
  <2>4. Chain(next', m, c, d)
    BY <2>1, <2>3, ChainSame
  <2> QED
    BY <2>4 DEF m, c, d
<1>22. Lists'
  BY <1>4, <1>8, <1>12, <1>13, <1>15, <1>18, <1>19, <1>20, <1>21 DEF Lists
<1> QED
  BY <1>14, <1>16, <1>22

\* ConsCollect gives one chunk back.
LEMMA CollectLists == IInv /\ ConsCollect => Lists' /\ Types'
<1> SUFFICES ASSUME IInv, ConsCollect PROVE Lists' /\ Types'
  OBVIOUS
<1> USE DEF IInv
<1> DEFINE f == cons.freed
           c == Head(f)
           r == Tail(f)
           l == Linked
<1>1. cons.pc = "collect" /\ f \in Seq(Chunks) /\ Once(f) /\ Len(f) > 0
  BY DEF ConsCollect, Lists, Types
<1>2. /\ free' = <<c>> \o free /\ next' = [next EXCEPT ![c] = Nil]
      /\ start' = [start EXCEPT ![c] = 0]
      /\ cons' = [cons EXCEPT !.freed = r,
                              !.pc = IF Len(f) = 1 THEN "store" ELSE "collect"]
  BY DEF ConsCollect, Types
<1>3. /\ endC' = endC /\ startC' = startC /\ prod' = prod /\ others' = others
      /\ head' = head /\ tail' = tail
  BY DEF ConsCollect, prodVars, setup
<1>4. free \in Seq(Chunks) /\ Once(free) /\ next \in [Chunks -> Opt] /\ start \in [Chunks -> Pos]
  BY DEF Types, Lists
<1>5. /\ f # <<>> /\ c \in Chunks /\ r \in Seq(Chunks) /\ Len(r) = Len(f) - 1 /\ Len(f) \in Nat
      /\ <<c>> \in Seq(Chunks) /\ f = <<c>> \o r
  <2>1. Len(f) \in Nat
    BY <1>1, LenProperties
  <2>2. f # <<>>
    BY <1>1
  <2>3. c \in Chunks /\ r \in Seq(Chunks) /\ Len(r) = Len(f) - 1
    BY <1>1, <2>2, HeadTailProperties
  <2>4. <<c>> \in Seq(Chunks)
    BY <2>3
  <2>5. f = <<c>> \o r
    BY <1>1, <2>2, <2>3, <2>4
  <2> QED
    BY <2>1, <2>2, <2>3, <2>4, <2>5
<1>6. /\ ToSet(f) \cap ToSet(free) = {} /\ ToSet(f) \cap ToSet(prod.new) = {}
      /\ ToSet(f) \cap ToSet(l) = {}
      /\ ToSet(l) \cap ToSet(free) = {} /\ ToSet(l) \cap ToSet(prod.new) = {}
      /\ ToSet(free) \cap ToSet(prod.new) = {} /\ Once(prod.new)
      /\ ToSet(l) \cup ToSet(free) \cup ToSet(f) \cup ToSet(prod.new) = Chunks \ others
      /\ prod.pc # "link" => prod.new = <<>>
      /\ Chain(next, l, startC, endC)
  BY DEF Lists
<1> HIDE DEF f, c, r, l
<1>7. ToSet(<<c>>) = {c} /\ Once(<<c>>)
  BY DEF ToSet, Once
<1>8. Once(r) /\ ToSet(f) = {c} \cup ToSet(r) /\ {c} \cap ToSet(r) = {}
  BY <1>1, <1>5, <1>7, ConcatOnce
<1>9. free' \in Seq(Chunks) /\ Once(free') /\ ToSet(free') = {c} \cup ToSet(free)
  <2>1. ToSet(<<c>>) \cap ToSet(free) = {}
    BY <1>6, <1>7, <1>8
  <2> QED
    BY <1>2, <1>4, <1>5, <1>7, <2>1, ConcatOnce
<1>10. \A x \in Chunks \ {c} : next'[x] = next[x]
  BY <1>2, <1>4
<1>11. Chain(next', l, startC', endC')
  <2>1. ToSet(l) \subseteq Chunks /\ c \notin ToSet(l)
    BY <1>6, <1>8, ChainParts
  <2>2. \A x \in ToSet(l) : next'[x] = next[x]
    BY <1>10, <2>1
  <2> QED
    BY <1>3, <1>6, <2>2, ChainSame
<1>12. Linked' = l
  BY <1>11, LinkedIs, ListOfChain
<1>13. prod.pc = "link" => Chain(next', prod.new, prod.new[1], Last(prod.new))
  <2> SUFFICES ASSUME prod.pc = "link" PROVE Chain(next', prod.new, prod.new[1], Last(prod.new))
    OBVIOUS
  <2> DEFINE m == prod.new
             a == m[1]
             d == Last(m)
  <2>1. Chain(next, m, a, d)
    BY DEF Lists
  <2>2. ToSet(m) \subseteq Chunks
    BY <2>1, ChainParts
  <2>3. \A x \in ToSet(m) : next'[x] = next[x]
    BY <1>6, <1>8, <1>10, <2>2
  <2> HIDE DEF m, a, d
  <2>4. Chain(next', m, a, d)
    BY <2>1, <2>3, ChainSame
  <2> QED
    BY <2>4 DEF m, a, d
<1>14. /\ cons' \in [pc : {"idle", "read", "unlink", "collect", "store"},
               op : {"none", "deq", "peek", "segments", "drop", "dropall"},
               off : Nat, len : Int, end : Pos, freed : Seq(Chunks)]
       /\ cons'.freed = r /\ cons'.pc = IF Len(f) = 1 THEN "store" ELSE "collect"
  BY <1>2, <1>5 DEF Types
<1>15. 0 \in Pos
  BY Sizes DEF Pos
<1>16. next' \in [Chunks -> Opt] /\ start' \in [Chunks -> Pos]
  BY <1>2, <1>4, <1>15 DEF Opt
<1>17. Types'
  BY <1>3, <1>9, <1>14, <1>16 DEF Types
<1>18. Len(f) = 1 => r = <<>>
  BY <1>5, EmptySeq
<1>19. /\ cons'.pc = "collect" => Len(cons'.freed) > 0
       /\ cons'.pc # "collect" => cons'.freed = <<>>
  BY <1>1, <1>5, <1>14, <1>18
<1>20. /\ ToSet(l) \cap ToSet(free') = {} /\ ToSet(l) \cap ToSet(r) = {}
       /\ ToSet(free') \cap ToSet(r) = {} /\ ToSet(free') \cap ToSet(prod.new) = {}
       /\ ToSet(r) \cap ToSet(prod.new) = {}
       /\ ToSet(l) \cup ToSet(free') \cup ToSet(r) \cup ToSet(prod.new) = Chunks \ others
  BY <1>6, <1>8, <1>9
<1>21. Lists'
  BY <1>3, <1>6, <1>8, <1>9, <1>11, <1>12, <1>13, <1>14, <1>19, <1>20 DEF Lists
<1> QED
  BY <1>17, <1>21

\* The other steps touch no list.
LEMMA QuietLists ==
  ASSUME IInv, UNCHANGED <<next, startC, endC, free, others>>,
         cons'.freed = cons.freed, prod'.new = prod.new,
         cons.pc = "collect" <=> cons'.pc = "collect",
         prod.pc = "link" <=> prod'.pc = "link"
  PROVE  Lists'
<1>1. Linked' = Linked
  BY LinkedIs
<1>2. Chain(next, Linked, startC, endC)'
  BY <1>1 DEF IInv, Lists
<1> QED
  BY <1>1, <1>2 DEF IInv, Lists

-----------------------------------------------------------------------------
(* The out-of-order segments.                                              *)

\* Diff from a position that moved, and of one that moved.
LEMMA DiffShift ==
  ASSUME NEW x \in Pos, NEW t \in Pos, NEW n \in Int
  PROVE  /\ -W <= 2 * (Diff(x, t) - n) /\ 2 * (Diff(x, t) - n) < W
              => Diff(x, Plus(t, n)) = Diff(x, t) - n
         /\ -W <= 2 * (Diff(x, t) + n) /\ 2 * (Diff(x, t) + n) < W
              => Diff(Plus(x, n), t) = Diff(x, t) + n
<1> DEFINE d == Diff(x, t)
<1>1. x \in Int /\ t \in Int /\ W \in Nat
  BY Sizes DEF Pos
<1>2. d \in Int /\ x = Plus(t, d)
  BY <1>1, DiffIs, PlusDiff
<1> HIDE DEF d
<1>3. ASSUME -W <= 2 * (d - n), 2 * (d - n) < W PROVE Diff(x, Plus(t, n)) = d - n
  BY <1>1, <1>2, <1>3, DiffPlus
<1>4. ASSUME -W <= 2 * (d + n), 2 * (d + n) < W PROVE Diff(Plus(x, n), t) = d + n
  <2>1. d + n \in Int /\ 0 \in Int /\ (d + n) - 0 = d + n
    BY <1>2
  <2>2. Plus(x, n) = Plus(t, d + n) /\ t = Plus(t, 0)
    BY <1>1, <1>2, PlusPlus, PlusZero
  <2>3. Diff(Plus(t, d + n), Plus(t, 0)) = (d + n) - 0
    BY <1>1, <1>4, <2>1, DiffPlus
  <2> QED
    BY <2>1, <2>2, <2>3
<1> QED
  BY <1>3, <1>4 DEF d

\* Some segment covers the position k after t.
Covered(l, t, k) == \E i \in 1 .. Len(l) : From(l[i], t) <= k /\ k < Upto(l[i], t)

\* The numbers of a segment of a canonical list.
LEMMA SegmentIs ==
  ASSUME NEW t \in Pos, NEW room \in Nat, room <= Size,
         NEW l, Canonical(l, t, room), NEW i \in 1 .. Len(l)
  PROVE  /\ l[i] \in Segment /\ From(l[i], t) \in Int /\ Upto(l[i], t) \in Int
         /\ 1 <= From(l[i], t) /\ From(l[i], t) < Upto(l[i], t) /\ Upto(l[i], t) <= room
         /\ l[i].start = Plus(t, From(l[i], t)) /\ SegEnd(l[i]) = Plus(t, Upto(l[i], t))
         /\ l[i].length = Upto(l[i], t) - From(l[i], t)
<1> DEFINE s == l[i]
           d == Diff(s.start, t)
           n == s.length
<1>1. s \in Segment
  BY ElementOfSeq DEF Canonical
<1>2. s.start \in Pos /\ n \in Nat
  BY <1>1 DEF Segment
<1>3. s.start \in Int /\ t \in Int
  BY <1>2, Sizes DEF Pos
<1>4. d \in Int /\ s.start = Plus(t, d)
  BY <1>2, <1>3, DiffIs, PlusDiff, Zenon
<1>5. n >= 1 /\ d >= 1 /\ d + n <= room
  BY DEF Canonical, From, Upto
<1>6. SegEnd(s) = Plus(s.start, n)
  BY DEF SegEnd
<1>7. From(s, t) = d /\ Upto(s, t) = d + n
  BY DEF From, Upto
<1> HIDE DEF s, d, n
<1>8. SegEnd(s) = Plus(t, d + n)
  BY <1>2, <1>3, <1>4, <1>6, PlusPlus
<1>9. d < d + n /\ d + n \in Int /\ n = (d + n) - d
  BY <1>2, <1>4, <1>5
<1> QED
  BY <1>1, <1>4, <1>5, <1>7, <1>8, <1>9 DEF s, n

\* Positions near t compare as their distances do.
LEMMA Compare ==
  ASSUME NEW t \in Pos, NEW a \in 0 .. Size, NEW b \in 0 .. Size
  PROVE  /\ Diff(Plus(t, a), Plus(t, b)) = a - b
         /\ f_pos_lt(Plus(t, a), Plus(t, b)) <=> a < b
         /\ f_pos_leq(Plus(t, a), Plus(t, b)) <=> a <= b
<1>1. t \in Int /\ W \in Nat /\ Size \in Nat /\ 2 * Size < W
  BY Sizes DEF Pos
<1>2. a \in Int /\ b \in Int /\ -W <= 2 * (a - b) /\ 2 * (a - b) < W
  BY <1>1
<1>3. Diff(Plus(t, a), Plus(t, b)) = a - b
  BY <1>1, <1>2, DiffPlus
<1> QED
  BY <1>2, <1>3 DEF f_pos_lt, f_pos_leq

\* The segment from t + a to t + b.
LEMMA SegIs ==
  ASSUME NEW t \in Pos, NEW a \in 0 .. Size, NEW b \in 0 .. Size, a < b
  PROVE  LET s == Seg(Plus(t, a), Plus(t, b))
         IN s \in Segment /\ From(s, t) = a /\ Upto(s, t) = b
            /\ s.start = Plus(t, a) /\ s.length = b - a
<1> DEFINE s == Seg(Plus(t, a), Plus(t, b))
<1>1. t \in Int /\ a \in Int /\ b \in Int /\ Size \in Nat
  BY Sizes DEF Pos
<1>2. s = [start |-> Plus(t, a), length |-> b - a]
  BY Compare DEF Seg
<1>3. Plus(t, a) \in Pos
  BY <1>1, PlusIs
<1>4. b - a \in Nat
  BY <1>1
<1>5. Diff(Plus(t, a), t) = a
  <2>1. Plus(t, 0) = t /\ 0 \in 0 .. Size /\ a - 0 = a
    BY <1>1, PlusZero
  <2>2. Diff(Plus(t, a), Plus(t, 0)) = a - 0
    BY <2>1, Compare
  <2> QED
    BY <2>1, <2>2
<1>6. a + (b - a) = b
  BY <1>1
<1> HIDE DEF s
<1>7. s \in Segment /\ s.start = Plus(t, a) /\ s.length = b - a
  BY <1>2, <1>3, <1>4 DEF Segment
<1>8. From(s, t) = a /\ Upto(s, t) = b
  BY <1>5, <1>6, <1>7 DEF From, Upto
<1> QED
  BY <1>7, <1>8 DEF s

\* A list in which the elements from i to j - 1 are replaced by s.
Splice(l, i, j, s) == SubSeq(l, 1, i - 1) \o <<s>> \o SubSeq(l, j, Len(l))
IsSplice(u, l, i, j, s) ==
  /\ u \in Seq(Segment) /\ Len(u) = i + Len(l) - j + 1
  /\ \A p \in 1 .. i - 1 : u[p] = l[p]
  /\ u[i] = s
  /\ \A p \in i + 1 .. i + Len(l) - j + 1 : u[p] = l[p - i - 1 + j]

\* The elements of a spliced list.
LEMMA SpliceIs ==
  ASSUME NEW l \in Seq(Segment), NEW i \in Nat, NEW j \in Nat, 1 <= i, i <= j, j <= Len(l) + 1,
         NEW s \in Segment
  PROVE  IsSplice(Splice(l, i, j, s), l, i, j, s)
<1> DEFINE a == SubSeq(l, 1, i - 1)
           b == SubSeq(l, j, Len(l))
           v == a \o <<s>>
           u == v \o b
           n == Len(l)
<1>1. n \in Nat /\ \A p \in 1 .. n : l[p] \in Segment
  BY LenProperties, ElementOfSeq
<1> HIDE DEF n
<1>2. a \in Seq(Segment) /\ Len(a) = i - 1 /\ \A p \in 1 .. i - 1 : a[p] = l[p]
  <2>1. \A p \in 1 .. i - 1 : l[p] \in Segment
    BY <1>1 DEF n
  <2>2. 1 \in Int /\ i - 1 \in Int
    OBVIOUS
  <2>3. /\ a \in Seq(Segment) /\ Len(a) = IF 1 <= i - 1 THEN (i - 1) - 1 + 1 ELSE 0
        /\ \A p \in 1 .. (i - 1) - 1 + 1 : a[p] = l[1 + p - 1]
    BY <2>1, <2>2, SubSeqProperties
  <2> HIDE DEF a
  <2> QED
    BY <2>3
<1>3. b \in Seq(Segment) /\ Len(b) = n - j + 1 /\ \A p \in 1 .. n - j + 1 : b[p] = l[j + p - 1]
  <2>1. \A p \in j .. n : l[p] \in Segment
    BY <1>1
  <2>2. j \in Int /\ n \in Int
    BY <1>1
  <2>3. /\ b \in Seq(Segment) /\ Len(b) = IF j <= n THEN n - j + 1 ELSE 0
        /\ \A p \in 1 .. n - j + 1 : b[p] = l[j + p - 1]
    BY <2>1, <2>2, SubSeqProperties DEF n
  <2> HIDE DEF b
  <2> QED
    BY <1>1, <2>3 DEF n
<1> HIDE DEF a, b
<1>4. <<s>> \in Seq(Segment) /\ Len(<<s>>) = 1 /\ <<s>>[1] = s
  OBVIOUS
<1> DEFINE w == <<s>>
<1> HIDE DEF w
<1>5. /\ v \in Seq(Segment) /\ Len(v) = Len(a) + Len(w)
      /\ \A p \in 1 .. Len(a) + Len(w) : v[p] = IF p <= Len(a) THEN a[p] ELSE w[p - Len(a)]
  BY <1>2, <1>4, ConcatProperties DEF w
<1> HIDE DEF v
<1>6. /\ Len(v) = i /\ v[i] = s /\ \A p \in 1 .. i - 1 : v[p] = l[p]
  <2>1. Len(w) = 1 /\ w[1] = s
    BY <1>4 DEF w
  <2>2. Len(v) = i
    BY <1>2, <1>5, <2>1
  <2>3. v[i] = s
    <3>1. i \in 1 .. Len(a) + Len(w) /\ ~(i <= Len(a)) /\ i - Len(a) = 1
      BY <1>2, <2>1
    <3> QED
      BY <1>5, <2>1, <3>1
  <2>4. ASSUME NEW p \in 1 .. i - 1 PROVE v[p] = l[p]
    <3>1. p \in 1 .. Len(a) + Len(w) /\ p <= Len(a)
      BY <1>2, <2>1
    <3> QED
      BY <1>2, <1>5, <3>1
  <2> QED
    BY <2>2, <2>3, <2>4
<1>7. /\ u \in Seq(Segment) /\ Len(u) = Len(v) + Len(b)
      /\ \A p \in 1 .. Len(v) + Len(b) : u[p] = IF p <= Len(v) THEN v[p] ELSE b[p - Len(v)]
  BY <1>3, <1>5, ConcatProperties
<1> HIDE DEF u
<1>8. Len(u) = i + n - j + 1
  BY <1>1, <1>3, <1>6, <1>7
<1>9. ASSUME NEW p \in 1 .. i PROVE u[p] = v[p]
  <2>1. p \in 1 .. Len(v) + Len(b) /\ p <= Len(v)
    BY <1>1, <1>3, <1>6 DEF n
  <2> QED
    BY <1>7, <2>1
<1>10. \A p \in 1 .. i - 1 : u[p] = l[p]
  BY <1>6, <1>9
<1>11. u[i] = s
  BY <1>6, <1>9
<1>12. ASSUME NEW p \in i + 1 .. i + n - j + 1 PROVE u[p] = l[p - i - 1 + j]
  <2>1. p \in 1 .. Len(v) + Len(b) /\ ~(p <= Len(v)) /\ p - Len(v) \in 1 .. n - j + 1
        /\ j + (p - Len(v)) - 1 = p - i - 1 + j
    BY <1>1, <1>3, <1>6 DEF n
  <2> QED
    BY <1>3, <1>7, <2>1
<1>13. Splice(l, i, j, s) = u
  BY DEF Splice, u, v, a, b, n
<1> QED
  BY <1>7, <1>8, <1>10, <1>11, <1>12, <1>13 DEF n, IsSplice

\* A segment that is apart from those before i and from those from j on.
Fits(l, t, room, i, j, s) ==
  /\ t \in Pos /\ room \in Nat /\ room <= Size /\ Canonical(l, t, room)
  /\ i \in Nat /\ j \in Nat /\ 1 <= i /\ i <= j /\ j <= Len(l) + 1
  /\ s \in Segment /\ s.length >= 1 /\ From(s, t) \in Nat /\ Upto(s, t) \in Nat
  /\ 1 <= From(s, t) /\ Upto(s, t) <= room
  /\ \A p \in 1 .. i - 1 : Upto(l[p], t) < From(s, t)
  /\ \A p \in j .. Len(l) : Upto(s, t) < From(l[p], t)
SpliceCovers(l, t, i, j, s, u) ==
  \A k \in Int : Covered(u, t, k) <=>
    \/ From(s, t) <= k /\ k < Upto(s, t)
    \/ \E p \in 1 .. i - 1 : From(l[p], t) <= k /\ k < Upto(l[p], t)
    \/ \E p \in j .. Len(l) : From(l[p], t) <= k /\ k < Upto(l[p], t)

\* Putting a segment that fits in place of those it absorbs keeps the list
\* canonical.
LEMMA SpliceCanonical ==
  ASSUME NEW l, NEW t, NEW room, NEW i, NEW j, NEW s, Fits(l, t, room, i, j, s)
  PROVE  /\ Canonical(Splice(l, i, j, s), t, room)
         /\ SpliceCovers(l, t, i, j, s, Splice(l, i, j, s))
<1> /\ t \in Pos /\ room \in Nat /\ room <= Size /\ Canonical(l, t, room)
    /\ i \in Nat /\ j \in Nat /\ 1 <= i /\ i <= j /\ j <= Len(l) + 1
    /\ s \in Segment /\ s.length >= 1 /\ From(s, t) \in Nat /\ Upto(s, t) \in Nat
    /\ 1 <= From(s, t) /\ Upto(s, t) <= room
    /\ \A p \in 1 .. i - 1 : Upto(l[p], t) < From(s, t)
    /\ \A p \in j .. Len(l) : Upto(s, t) < From(l[p], t)
  BY DEF Fits
<1> DEFINE x == From(s, t)
           y == Upto(s, t)
<1>0. x \in Nat /\ y \in Nat /\ 1 <= x /\ y <= room /\ From(s, t) = x /\ Upto(s, t) = y
  OBVIOUS
<1> DEFINE u == Splice(l, i, j, s)
           n == Len(l)
           m == i + n - j + 1
           old(p) == IF p < i THEN p ELSE p - i - 1 + j
<1>1. l \in Seq(Segment) /\ n \in Nat
  BY LenProperties DEF Canonical
<1>2. /\ u \in Seq(Segment) /\ Len(u) = m
      /\ \A p \in 1 .. i - 1 : u[p] = l[p]
      /\ u[i] = s
      /\ \A p \in i + 1 .. m : u[p] = l[p - i - 1 + j]
  <2>1. IsSplice(u, l, i, j, s)
    BY <1>1, SpliceIs
  <2> HIDE DEF u
  <2> QED
    BY <2>1 DEF IsSplice
<1> HIDE DEF u
<1>3. /\ \A p \in 1 .. n : l[p].length >= 1 /\ From(l[p], t) >= 1 /\ Upto(l[p], t) <= room
      /\ \A p \in 1 .. n : From(l[p], t) \in Int /\ Upto(l[p], t) \in Int
      /\ \A p, q \in 1 .. n : p < q => Upto(l[p], t) < From(l[q], t)
  BY SegmentIs DEF Canonical
<1>4. /\ \A p \in 1 .. i - 1 : Upto(l[p], t) < x
      /\ \A p \in j .. n : y < From(l[p], t)
  OBVIOUS
<1> HIDE DEF n, x, y
<1>5. m \in Nat /\ i \in 1 .. m /\ j <= n + 1
  BY <1>1 DEF n
<1>6. ASSUME NEW p \in 1 .. m, p # i
      PROVE  /\ old(p) \in 1 .. n /\ u[p] = l[old(p)]
             /\ p < i => old(p) \in 1 .. i - 1
             /\ p > i => old(p) \in j .. n
  <2>1. CASE p < i
    <3>1. p \in 1 .. i - 1 /\ old(p) = p /\ p \in 1 .. n
      BY <1>1, <1>5, <1>6, <2>1
    <3> QED
      BY <1>2, <2>1, <3>1
  <2>2. CASE p > i
    <3>1. p \in i + 1 .. m /\ old(p) = p - i - 1 + j /\ old(p) \in j .. n /\ old(p) \in 1 .. n
      <4>1. p \in Int /\ i + 1 <= p /\ p <= m
        BY <1>5, <2>2
      <4>2. old(p) = p - i - 1 + j
        BY <4>1
      <4>3. p - i - 1 + j \in Int /\ j <= p - i - 1 + j
        BY <4>1
      <4>4. p - i - 1 + j <= n
        BY <1>1, <4>1
      <4>5. p \in i + 1 .. m
        BY <1>5, <4>1
      <4> HIDE DEF old, m
      <4> QED
        BY <1>1, <4>2, <4>3, <4>4, <4>5
    <3> QED
      BY <1>2, <2>2, <3>1
  <2> QED
    BY <1>6, <2>1, <2>2
<1>7. \A p \in 1 .. m : u[p].length >= 1 /\ From(u[p], t) >= 1 /\ Upto(u[p], t) <= room
  <2> SUFFICES ASSUME NEW p \in 1 .. m
               PROVE  u[p].length >= 1 /\ From(u[p], t) >= 1 /\ Upto(u[p], t) <= room
    OBVIOUS
  <2>1. CASE p = i
    <3>1. s.length >= 1
      OBVIOUS
    <3> QED
      BY <1>0, <1>2, <2>1, <3>1
  <2>2. CASE p # i
    BY <1>3, <1>6, <2>2
  <2> QED
    BY <2>1, <2>2
<1>8. ASSUME NEW p \in 1 .. m, NEW q \in 1 .. m, p < q
      PROVE  Upto(u[p], t) < From(u[q], t)
  <2>1. CASE p = i
    <3>1. q # i /\ q > i
      BY <1>8, <2>1
    <3>2. u[q] = l[old(q)] /\ old(q) \in j .. n
      BY <1>6, <3>1
    <3> QED
      BY <1>0, <1>2, <1>4, <2>1, <3>2
  <2>2. CASE q = i
    <3>1. p # i /\ p < i
      BY <1>8, <2>2
    <3>2. u[p] = l[old(p)] /\ old(p) \in 1 .. i - 1
      BY <1>6, <3>1
    <3> QED
      BY <1>0, <1>2, <1>4, <2>2, <3>2
  <2>3. CASE p # i /\ q # i
    <3>1. u[p] = l[old(p)] /\ old(p) \in 1 .. n /\ u[q] = l[old(q)] /\ old(q) \in 1 .. n
      BY <1>6, <2>3
    <3>2. old(p) < old(q)
      BY <1>8, <2>3
    <3> HIDE DEF old
    <3> QED
      BY <1>3, <3>1, <3>2
  <2> QED
    BY <2>1, <2>2, <2>3
<1>9. Canonical(u, t, room)
  BY <1>2, <1>7, <1>8 DEF Canonical
<1>10. ASSUME NEW k \in Int
       PROVE  Covered(u, t, k) <=>
                 \/ x <= k /\ k < y
                 \/ \E p \in 1 .. i - 1 : From(l[p], t) <= k /\ k < Upto(l[p], t)
                 \/ \E p \in j .. n : From(l[p], t) <= k /\ k < Upto(l[p], t)
  <2>1. ASSUME NEW p \in 1 .. m, From(u[p], t) <= k, k < Upto(u[p], t)
        PROVE  \/ x <= k /\ k < y
               \/ \E o \in 1 .. i - 1 : From(l[o], t) <= k /\ k < Upto(l[o], t)
               \/ \E o \in j .. n : From(l[o], t) <= k /\ k < Upto(l[o], t)
    <3>1. CASE p = i
      BY <1>0, <1>2, <2>1, <3>1
    <3>2. CASE p # i
      <4>1. u[p] = l[old(p)] /\ (old(p) \in 1 .. i - 1 \/ old(p) \in j .. n)
        BY <1>6, <3>2
      <4> HIDE DEF old
      <4> QED
        BY <2>1, <4>1
    <3> QED
      BY <3>1, <3>2
  <2>2. ASSUME x <= k, k < y PROVE Covered(u, t, k)
    BY <1>0, <1>2, <1>5, <2>2 DEF Covered
  <2>3. ASSUME NEW p \in 1 .. i - 1, From(l[p], t) <= k, k < Upto(l[p], t)
        PROVE  Covered(u, t, k)
    <3>1. p \in 1 .. m /\ u[p] = l[p]
      BY <1>2, <1>5, <2>3
    <3> QED
      BY <1>2, <2>3, <3>1 DEF Covered
  <2>4. ASSUME NEW p \in j .. n, From(l[p], t) <= k, k < Upto(l[p], t)
        PROVE  Covered(u, t, k)
    <3> DEFINE q == p - j + i + 1
    <3>1. q \in i + 1 .. m /\ q \in 1 .. m /\ q - i - 1 + j = p
      <4>1. p \in Int /\ j <= p /\ p <= n
        BY <1>1
      <4>2. q \in Int /\ i + 1 <= q /\ 1 <= q /\ q - i - 1 + j = p
        BY <4>1
      <4>3. q <= m
        BY <1>1, <4>1
      <4> HIDE DEF q
      <4> QED
        BY <1>5, <4>2, <4>3
    <3>2. u[q] = l[p]
      BY <1>2, <3>1
    <3> HIDE DEF q
    <3> QED
      BY <1>2, <2>4, <3>1, <3>2 DEF Covered
  <2> QED
    BY <1>2, <2>1, <2>2, <2>3, <2>4 DEF Covered
<1> QED
  BY <1>9, <1>10 DEF u, n, x, y, SpliceCovers

\* check_tail keeps the list canonical, and adds what it was asked to add.
LEMMA StretchCanonical ==
  ASSUME NEW t \in Pos, NEW room \in Nat, room <= Size, NEW l, Canonical(l, t, room),
         NEW i \in 1 .. Len(l), NEW e \in Nat, e <= room, From(l[i], t) < e
  PROVE  LET u == StretchTail(l, i, Plus(t, e))
         IN /\ Canonical(u, t, room)
            /\ \A k \in Int : Covered(u, t, k) <=>
                 Covered(l, t, k) \/ (From(l[i], t) <= k /\ k < e)
<1> DEFINE f(p) == From(l[p], t)
           g(p) == Upto(l[p], t)
           n == Len(l)
           end == Plus(t, e)
           u == StretchTail(l, i, end)
<1>1. n \in Nat /\ l \in Seq(Segment)
  BY LenProperties DEF Canonical
<1>2. \A p \in 1 .. n : /\ f(p) \in Int /\ g(p) \in Int /\ 1 <= f(p) /\ f(p) < g(p) /\ g(p) <= room
                        /\ l[p].start = Plus(t, f(p)) /\ SegEnd(l[p]) = Plus(t, g(p))
  BY SegmentIs
<1>3. \A p, q \in 1 .. n : p < q => g(p) < f(q)
  BY DEF Canonical
<1>4. \A p \in 1 .. n : /\ f(p) \in 0 .. Size /\ g(p) \in 0 .. Size
                        /\ f_pos_lt(SegEnd(l[p]), end) <=> g(p) < e
                        /\ f_pos_lt(end, SegEnd(l[p])) <=> e < g(p)
                        /\ f_pos_leq(l[p].start, end) <=> f(p) <= e
  <2> SUFFICES ASSUME NEW p \in 1 .. n
               PROVE  /\ f(p) \in 0 .. Size /\ g(p) \in 0 .. Size
                      /\ f_pos_lt(SegEnd(l[p]), end) <=> g(p) < e
                      /\ f_pos_lt(end, SegEnd(l[p])) <=> e < g(p)
                      /\ f_pos_leq(l[p].start, end) <=> f(p) <= e
    OBVIOUS
  <2>1. f(p) \in 0 .. Size /\ g(p) \in 0 .. Size /\ e \in 0 .. Size
    BY <1>2, Sizes
  <2>2. l[p].start = Plus(t, f(p)) /\ SegEnd(l[p]) = Plus(t, g(p))
    BY <1>2
  <2> HIDE DEF f, g
  <2> QED
    BY <2>1, <2>2, Compare
<1>5. i \in 1 .. n /\ i \in Nat /\ 1 <= i /\ i <= n /\ f(i) < e
  BY <1>1
<1>6. \A k \in Int : Covered(l, t, k) <=> \E p \in 1 .. n : f(p) <= k /\ k < g(p)
  BY DEF Covered
<1>7. CASE ~f_pos_lt(SegEnd(l[i]), end)
  <2>1. u = l
    BY <1>7 DEF StretchTail
  <2>2. ~(g(i) < e)
    BY <1>4, <1>5, <1>7
  <2> HIDE DEF f, g, n, u
  <2>3. ASSUME NEW k \in Int, f(i) <= k, k < e PROVE Covered(l, t, k)
    BY <1>2, <1>5, <1>6, <2>2, <2>3
  <2> QED
    BY <2>1, <2>3 DEF f, u
<1>8. CASE f_pos_lt(SegEnd(l[i]), end)
  <2> DEFINE S == {k \in i + 1 .. n : f_pos_lt(end, SegEnd(l[k]))} \cup {n + 1}
             it == Min(S)
             merge == it <= n /\ f_pos_leq(l[it].start, end)
             y == IF merge THEN g(it) ELSE e
             j == IF merge THEN it + 1 ELSE it
             s == Seg(Plus(t, f(i)), Plus(t, y))
  <2>1. S \subseteq Nat /\ S # {}
    BY <1>1
  <2>2. it \in S /\ \A k \in S : it <= k
    BY <2>1, MinIn
  <2>3. it \in i + 1 .. n + 1 /\ it \in Nat
    BY <1>1, <1>5, <2>2
  <2>4. it <= n => e < g(it)
    <3> SUFFICES ASSUME it <= n PROVE e < g(it)
      OBVIOUS
    <3>1. it # n + 1 /\ it \in 1 .. n
      BY <1>1, <1>5, <2>3
    <3>2. f_pos_lt(end, SegEnd(l[it]))
      BY <2>2, <3>1
    <3> HIDE DEF it
    <3> QED
      BY <1>4, <3>1, <3>2
  <2>5. \A p \in i + 1 .. it - 1 : g(p) <= e
    <3> SUFFICES ASSUME NEW p \in i + 1 .. it - 1 PROVE g(p) <= e
      OBVIOUS
    <3>1. p \in 1 .. n /\ p \in i + 1 .. n /\ ~(it <= p)
      BY <1>1, <1>5, <2>3
    <3>2. ~f_pos_lt(end, SegEnd(l[p]))
      BY <2>2, <3>1
    <3> QED
      BY <1>2, <1>4, <3>1, <3>2
  <2>6. u = SubSeq(l, 1, i - 1)
              \o <<Seg(l[i].start, IF merge THEN SegEnd(l[it]) ELSE end)>>
              \o SubSeq(l, j, n)
    BY <1>8 DEF StretchTail
  <2> HIDE DEF S, it
  <2>7. merge <=> it <= n /\ f(it) <= e
    <3>1. it <= n => it \in 1 .. n
      BY <1>1, <1>5, <2>3
    <3> QED
      BY <1>4, <3>1
  <2>8. l[i].start = Plus(t, f(i)) /\ (IF merge THEN SegEnd(l[it]) ELSE end) = Plus(t, y)
    <3>1. it <= n => it \in 1 .. n
      BY <1>1, <1>5, <2>3
    <3> QED
      BY <1>2, <1>5, <3>1
  <2>9. u = Splice(l, i, j, s)
    BY <2>6, <2>8 DEF Splice
  <2> HIDE DEF merge
  <2>10. y \in Nat /\ f(i) < y /\ y <= room /\ y >= e
    <3>1. it <= n => it \in 1 .. n
      BY <1>1, <1>5, <2>3
    <3>2. CASE merge
      BY <1>2, <1>5, <2>4, <2>7, <3>1, <3>2
    <3>3. CASE ~merge
      BY <1>5, <3>3
    <3> QED
      BY <3>2, <3>3
  <2>11. j \in Nat /\ i <= j /\ j <= n + 1 /\ it <= j /\ i < it
    BY <1>1, <1>5, <2>3, <2>7
  <2>12. /\ s \in Segment /\ From(s, t) = f(i) /\ Upto(s, t) = y /\ s.length = y - f(i)
    <3>1. y \in 0 .. Size /\ f(i) \in 0 .. Size
      BY <1>4, <1>5, <2>10, Sizes
    <3> HIDE DEF y, f
    <3> QED
      BY <2>10, <3>1, SegIs
  <2>13. \A p \in 1 .. i - 1 : g(p) < f(i)
    <3> SUFFICES ASSUME NEW p \in 1 .. i - 1 PROVE g(p) < f(i)
      OBVIOUS
    <3>1. p \in 1 .. n /\ p < i
      BY <1>1, <1>5
    <3> QED
      BY <1>3, <1>5, <3>1
  <2>14. \A p \in j .. n : y < f(p)
    <3> SUFFICES ASSUME NEW p \in j .. n PROVE y < f(p)
      OBVIOUS
    <3>1. p \in 1 .. n /\ it <= p /\ it \in 1 .. n /\ it <= n
      BY <1>1, <1>5, <2>3, <2>11
    <3>2. CASE merge
      <4>1. it < p
        BY <2>3, <3>1, <3>2
      <4> QED
        BY <1>3, <3>1, <3>2, <4>1
    <3>3. CASE ~merge
      <4>1. e < f(it) /\ y = e
        BY <1>2, <2>7, <3>1, <3>3
      <4>2. it < p => g(it) < f(p)
        BY <1>3, <3>1
      <4>3. it = p \/ it < p
        BY <2>3, <3>1
      <4>4. f(it) \in Int /\ g(it) \in Int /\ f(p) \in Int /\ f(it) < g(it)
        BY <1>2, <3>1
      <4>5. CASE it = p
        BY <4>1, <4>5
      <4>6. CASE it < p
        <5>1. e < f(it) /\ f(it) < g(it) /\ g(it) < f(p) /\ f(it) \in Int /\ g(it) \in Int /\ f(p) \in Int
          BY <4>1, <4>2, <4>4, <4>6
        <5> HIDE DEF f, g, y
        <5> QED
          BY <4>1, <5>1
      <4> QED
        BY <4>3, <4>5, <4>6
    <3> QED
      BY <3>2, <3>3
  <2>15. f(i) \in Nat /\ 1 <= f(i)
    BY <1>2, <1>5
  <2> HIDE DEF s, y, j, u
  <2>16. /\ Canonical(u, t, room)
         /\ \A k \in Int : Covered(u, t, k) <=>
              \/ f(i) <= k /\ k < y
              \/ \E p \in 1 .. i - 1 : f(p) <= k /\ k < g(p)
              \/ \E p \in j .. n : f(p) <= k /\ k < g(p)
    <3>1. s.length >= 1
      BY <2>10, <2>12, <2>15
    <3>2. From(s, t) \in Nat /\ Upto(s, t) \in Nat /\ 1 <= From(s, t) /\ Upto(s, t) <= room
      BY <2>10, <2>12, <2>15
    <3>3. /\ \A p \in 1 .. i - 1 : Upto(l[p], t) < From(s, t)
          /\ \A p \in j .. Len(l) : Upto(s, t) < From(l[p], t)
      BY <2>12, <2>13, <2>14
    <3>4. s \in Segment /\ i \in Nat /\ j \in Nat /\ 1 <= i /\ i <= j /\ j <= Len(l) + 1
      BY <1>5, <2>11, <2>12
    <3>5. /\ Canonical(Splice(l, i, j, s), t, room)
          /\ \A k \in Int : Covered(Splice(l, i, j, s), t, k) <=>
               \/ From(s, t) <= k /\ k < Upto(s, t)
               \/ \E p \in 1 .. i - 1 : From(l[p], t) <= k /\ k < Upto(l[p], t)
               \/ \E p \in j .. Len(l) : From(l[p], t) <= k /\ k < Upto(l[p], t)
      <4>1. Fits(l, t, room, i, j, s)
        BY <3>1, <3>2, <3>3, <3>4 DEF Fits
      <4> QED
        BY <4>1, SpliceCanonical DEF SpliceCovers
    <3> QED
      BY <2>9, <2>12, <3>5
  <2>17. ASSUME NEW k \in Int
         PROVE  Covered(u, t, k) <=> Covered(l, t, k) \/ (f(i) <= k /\ k < e)
    <3>1. ASSUME NEW p \in 1 .. n, f(p) <= k, k < g(p) PROVE Covered(u, t, k)
      <4>1. p \in 1 .. i - 1 \/ p = i \/ p \in i + 1 .. it - 1 \/ p = it \/ p \in it + 1 .. n
        BY <1>1, <1>5, <2>3
      <4>2. CASE p \in 1 .. i - 1
        BY <2>16, <3>1, <4>2
      <4>3. CASE p = i
        <5>1. g(i) < e
          BY <1>4, <1>5, <1>8
        <5>2. k < y
          BY <1>2, <1>5, <2>10, <3>1, <4>3, <5>1
        <5> QED
          BY <2>16, <3>1, <4>3, <5>2
      <4>4. CASE p \in i + 1 .. it - 1
        <5>1. i < p /\ g(i) < f(p) /\ g(p) <= e /\ f(i) < g(i)
          BY <1>2, <1>3, <1>5, <2>5, <3>1, <4>4
        <5>2. f(i) <= k /\ k < y
          BY <1>2, <1>5, <2>10, <3>1, <5>1
        <5> QED
          BY <2>16, <5>2
      <4>5. CASE p = it
        <5>1. CASE merge
          <6>1. y = g(p) /\ i < p
            BY <2>11, <4>5, <5>1 DEF y
          <6>2. g(i) < f(p) /\ f(i) < g(i)
            BY <1>2, <1>3, <1>5, <3>1, <6>1
          <6>3. f(i) <= k /\ k < y
            BY <1>2, <1>5, <3>1, <6>1, <6>2
          <6> QED
            BY <2>16, <6>3
        <5>2. CASE ~merge
          <6>1. p \in j .. n
            BY <1>1, <2>3, <3>1, <4>5, <5>2 DEF j
          <6> QED
            BY <2>16, <3>1, <6>1
        <5> QED
          BY <5>1, <5>2
      <4>6. CASE p \in it + 1 .. n
        <5>1. p \in j .. n
          BY <1>1, <2>3, <2>11, <3>1, <4>6 DEF j
        <5> QED
          BY <2>16, <3>1, <5>1
      <4> QED
        BY <4>1, <4>2, <4>3, <4>4, <4>5, <4>6
    <3>2. ASSUME f(i) <= k, k < e PROVE Covered(u, t, k)
      BY <2>10, <2>16, <3>2
    <3>3. ASSUME NEW p \in 1 .. i - 1, f(p) <= k, k < g(p) PROVE Covered(l, t, k)
      <4>1. p \in 1 .. n
        BY <1>1, <1>5
      <4> QED
        BY <1>6, <3>3, <4>1
    <3>4. ASSUME NEW p \in j .. n, f(p) <= k, k < g(p) PROVE Covered(l, t, k)
      <4>1. p \in 1 .. n
        BY <1>1, <1>5, <2>11
      <4> QED
        BY <1>6, <3>4, <4>1
    <3>5. ASSUME f(i) <= k, k < y PROVE Covered(l, t, k) \/ k < e
      <4>1. CASE merge
        <5>1. y = g(it) /\ f(it) <= e /\ it \in 1 .. n
          BY <1>1, <1>5, <2>3, <2>7, <4>1 DEF y
        <5>2. k < e \/ f(it) <= k
          BY <1>2, <5>1
        <5> QED
          BY <1>6, <3>5, <5>1, <5>2
      <4>2. CASE ~merge
        BY <3>5, <4>2 DEF y
      <4> QED
        BY <4>1, <4>2
    <3> QED
      BY <1>6, <2>16, <3>1, <3>2, <3>3, <3>4, <3>5
  <2> QED
    BY <2>16, <2>17 DEF u
<1> QED
  BY <1>7, <1>8

\* A segment replaced is a list spliced.
LEMMA ExceptIsSplice ==
  ASSUME NEW l \in Seq(Segment), NEW i \in Nat, NEW j \in Nat, 1 <= i, i <= Len(l),
         j = i + 1, NEW s \in Segment
  PROVE  [l EXCEPT ![i] = s] = Splice(l, i, j, s)
<1> DEFINE e == [l EXCEPT ![i] = s]
           u == Splice(l, i, j, s)
           n == Len(l)
<1>1. n \in Nat /\ i \in Nat /\ 1 <= i /\ i <= n
      /\ j \in Nat /\ i <= j /\ j <= n + 1 /\ j = i + 1
  BY LenProperties
<1>2. e \in Seq(Segment) /\ Len(e) = n /\ \A p \in 1 .. n : e[p] = IF p = i THEN s ELSE l[p]
  <2>1. i \in 1 .. n
    BY <1>1
  <2> QED
    BY <2>1, ExceptSeq
<1>3. /\ u \in Seq(Segment) /\ Len(u) = i + n - j + 1
      /\ \A p \in 1 .. i - 1 : u[p] = l[p]
      /\ u[i] = s
      /\ \A p \in i + 1 .. i + n - j + 1 : u[p] = l[p - i - 1 + j]
  <2>1. IsSplice(u, l, i, j, s)
    BY <1>1, SpliceIs
  <2> HIDE DEF u
  <2> QED
    BY <2>1 DEF IsSplice
<1> HIDE DEF e, u, n
<1>4. Len(u) = n
  BY <1>1, <1>3
<1>5. ASSUME NEW p \in 1 .. n PROVE e[p] = u[p]
  <2>1. CASE p < i
    <3>1. p \in 1 .. i - 1 /\ p # i
      BY <1>1, <2>1
    <3> QED
      BY <1>2, <1>3, <3>1
  <2>2. CASE p = i
    BY <1>2, <1>3, <2>2
  <2>3. CASE p > i
    <3>1. p \in i + 1 .. i + n - j + 1 /\ p - i - 1 + j = p /\ p # i
      BY <1>1, <2>3
    <3> QED
      BY <1>2, <1>3, <3>1
  <2> QED
    BY <1>1, <2>1, <2>2, <2>3
<1>6. e = u
  BY <1>2, <1>3, <1>4, <1>5, SeqEqual
<1> QED
  BY <1>6 DEF e, u

\* ooo_segment_add keeps the list canonical and adds exactly the new positions.
LEMMA AddCanonical ==
  ASSUME tail \in Pos, NEW room \in Nat, room <= Size, Canonical(ooo, tail, room),
         NEW x \in Nat, NEW y \in Nat, 1 <= x, x < y, y <= room
  PROVE  LET u == ooo_segment_add(Plus(tail, x), Plus(tail, y))
         IN /\ Canonical(u, tail, room)
            /\ \A k \in Int : Covered(u, tail, k) <=>
                 Covered(ooo, tail, k) \/ (x <= k /\ k < y)
<1> DEFINE f(p) == From(ooo[p], tail)
           g(p) == Upto(ooo[p], tail)
           n == Len(ooo)
           a == Plus(tail, x)
           b == Plus(tail, y)
           new == Seg(a, b)
           u == ooo_segment_add(a, b)
<1>1. n \in Nat /\ ooo \in Seq(Segment)
  BY LenProperties DEF Canonical
<1>2. \A p \in 1 .. n :
        /\ ooo[p] \in Segment /\ f(p) \in Int /\ g(p) \in Int
        /\ 1 <= f(p) /\ f(p) < g(p) /\ g(p) <= room
        /\ ooo[p].start = Plus(tail, f(p)) /\ SegEnd(ooo[p]) = Plus(tail, g(p))
  BY SegmentIs
<1>3. \A p, q \in 1 .. n : p < q => g(p) < f(q)
  BY DEF Canonical
<1>4. x \in 0 .. Size /\ y \in 0 .. Size /\ tail \in Pos
  BY Sizes
<1>5. \A p \in 1 .. n : /\ f_pos_lt(ooo[p].start, a) <=> f(p) < x
                        /\ f_pos_leq(a, SegEnd(ooo[p])) <=> x <= g(p)
                        /\ f_pos_lt(b, ooo[p].start) <=> y < f(p)
                        /\ f_pos_lt(SegEnd(ooo[p]), a) <=> g(p) < x
                        /\ f_pos_lt(a, ooo[p].start) <=> x < f(p)
  <2> SUFFICES ASSUME NEW p \in 1 .. n
               PROVE  /\ f_pos_lt(ooo[p].start, a) <=> f(p) < x
                      /\ f_pos_leq(a, SegEnd(ooo[p])) <=> x <= g(p)
                      /\ f_pos_lt(b, ooo[p].start) <=> y < f(p)
                      /\ f_pos_lt(SegEnd(ooo[p]), a) <=> g(p) < x
                      /\ f_pos_lt(a, ooo[p].start) <=> x < f(p)
    OBVIOUS
  <2>1. f(p) \in 0 .. Size /\ g(p) \in 0 .. Size
    BY <1>2, Sizes
  <2>2. ooo[p].start = Plus(tail, f(p)) /\ SegEnd(ooo[p]) = Plus(tail, g(p))
    BY <1>2
  <2> HIDE DEF f, g
  <2> QED
    BY <1>4, <2>1, <2>2, Compare
<1>6. /\ new \in Segment /\ From(new, tail) = x /\ Upto(new, tail) = y /\ new.length = y - x
  BY <1>4, SegIs
<1>7. new.length >= 1
  BY <1>6
<1>8. \A k \in Int : Covered(ooo, tail, k) <=> \E p \in 1 .. n : f(p) <= k /\ k < g(p)
  BY DEF Covered
<1>9. CASE ooo = <<>>
  <2>1. u = <<new>> /\ n = 0
    BY <1>9 DEF ooo_segment_add
  <2> HIDE DEF new, u
  <2>2. u \in Seq(Segment) /\ Len(u) = 1 /\ u[1] = new
    BY <1>6, <2>1
  <2>3. Canonical(u, tail, room)
    BY <1>6, <1>7, <2>2 DEF Canonical
  <2>4. \A k \in Int : Covered(u, tail, k) <=> x <= k /\ k < y
    BY <1>6, <2>2 DEF Covered
  <2>5. \A k \in Int : ~Covered(ooo, tail, k)
    BY <1>8, <2>1
  <2> QED
    BY <2>3, <2>4, <2>5 DEF u
<1>10. CASE ooo # <<>>
  <2> DEFINE P(k) == /\ k = n \/ ~f_pos_lt(ooo[k].start, a)
                     /\ \A j \in 1 .. k - 1 : f_pos_lt(ooo[j].start, a)
             i == CHOOSE k \in 1 .. n : P(k)
             s == ooo[i]
             s2 == IF f_pos_lt(a, s.start) THEN Seg(a, SegEnd(s)) ELSE s
             l2 == [ooo EXCEPT ![i] = s2]
  <2>1. n > 0
    BY <1>1, <1>10, EmptySeq
  <2>2. \E k \in 1 .. n : P(k)
    <3> DEFINE S == {k \in 1 .. n : k = n \/ ~f_pos_lt(ooo[k].start, a)}
    <3>1. S \subseteq Nat /\ n \in S
      BY <1>1, <2>1
    <3>2. Min(S) \in S /\ \A k \in S : Min(S) <= k
      BY <3>1, MinIn
    <3> DEFINE m == Min(S)
    <3> HIDE DEF m
    <3>3. m \in S /\ \A k \in S : m <= k
      BY <3>2 DEF m
    <3>4. ASSUME NEW j \in 1 .. m - 1 PROVE f_pos_lt(ooo[j].start, a)
      <4>1. j \in 1 .. n /\ ~(m <= j) /\ j # n
        BY <1>1, <3>3
      <4> QED
        BY <3>3, <4>1
    <3> QED
      BY <3>3, <3>4
  <2>3. i \in 1 .. n /\ P(i)
    BY <2>2, Zenon
  <2>4. u = IF i > 1 /\ f_pos_leq(a, SegEnd(ooo[i - 1])) THEN StretchTail(ooo, i - 1, b)
            ELSE IF f_pos_lt(b, s.start) THEN InsertAt(ooo, i, new)
            ELSE IF f_pos_lt(SegEnd(s), a) THEN InsertAt(ooo, i + 1, new)
            ELSE StretchTail(l2, i, b)
    BY <1>10 DEF ooo_segment_add
  <2>5. (i = n \/ ~f_pos_lt(s.start, a)) /\ \A j \in 1 .. i - 1 : f_pos_lt(ooo[j].start, a)
    BY <2>3
  <2> HIDE DEF P, i
  <2>6. i \in Nat /\ 1 <= i /\ i <= n
    BY <1>1, <2>3
  <2>7. (i = n \/ x <= f(i)) /\ \A j \in 1 .. i - 1 : f(j) < x
    <3>1. \A j \in 1 .. i - 1 : j \in 1 .. n
      BY <1>1, <2>6
    <3> QED
      BY <1>2, <1>5, <2>3, <2>5, <3>1
  <2>8. CASE i > 1 /\ f_pos_leq(a, SegEnd(ooo[i - 1]))
    <3> DEFINE h == i - 1
    <3>1. h \in 1 .. n /\ h \in 1 .. i - 1
      BY <1>1, <2>6, <2>8
    <3>2. x <= g(h) /\ f(h) < x /\ u = StretchTail(ooo, h, b)
      BY <1>5, <2>4, <2>7, <2>8, <3>1
    <3>3. f(h) < y /\ f(h) \in Int
      BY <1>2, <3>1, <3>2
    <3> HIDE DEF h, u
    <3>4. /\ Canonical(u, tail, room)
          /\ \A k \in Int : Covered(u, tail, k) <=> Covered(ooo, tail, k) \/ (f(h) <= k /\ k < y)
      BY <3>1, <3>2, <3>3, StretchCanonical
    <3>5. \A k \in Int : f(h) <= k /\ k < x => Covered(ooo, tail, k)
      BY <1>2, <1>8, <3>1, <3>2
    <3>6. \A k \in Int : (f(h) <= k /\ k < y) => ((f(h) <= k /\ k < x) \/ (x <= k /\ k < y))
      BY <3>3
    <3>7. \A k \in Int : (x <= k /\ k < y) => (f(h) <= k /\ k < y)
      BY <3>2, <3>3
    <3> QED
      BY <3>4, <3>5, <3>6, <3>7 DEF u
  <2>9. CASE ~(i > 1 /\ f_pos_leq(a, SegEnd(ooo[i - 1])))
    <3>1. \A p \in 1 .. i - 1 : g(p) < x
      <4> SUFFICES ASSUME NEW p \in 1 .. i - 1 PROVE g(p) < x
        OBVIOUS
      <4> DEFINE h == i - 1
      <4>1. h \in 1 .. n /\ p \in 1 .. n /\ h \in 1 .. i - 1 /\ i > 1 /\ (p = h \/ p < h)
        BY <1>1, <2>6
      <4> HIDE DEF h
      <4>2. ~f_pos_leq(a, SegEnd(ooo[h]))
        BY <2>9, <4>1 DEF h
      <4>3. g(h) < x /\ f(h) < g(h) /\ f(h) \in Int /\ g(h) \in Int /\ g(p) \in Int
        BY <1>2, <1>5, <4>1, <4>2
      <4>4. p < h => g(p) < f(h)
        BY <1>3, <4>1
      <4> HIDE DEF f, g
      <4> QED
        BY <4>1, <4>3, <4>4
    <3>2. CASE f_pos_lt(b, s.start)
      <4>1. y < f(i)
        BY <1>5, <2>3, <3>2
      <4>2. u = Splice(ooo, i, i, new)
        BY <2>4, <2>9, <3>2 DEF InsertAt, Splice
      <4>3. \A p \in i .. n : y < f(p)
        <5> SUFFICES ASSUME NEW p \in i .. n PROVE y < f(p)
          OBVIOUS
        <5>1. p \in 1 .. n /\ (p = i \/ i < p)
          BY <1>1, <2>6
        <5>2. i < p => g(i) < f(p)
          BY <1>3, <2>3, <5>1
        <5>3. f(i) < g(i) /\ f(i) \in Int /\ g(i) \in Int /\ f(p) \in Int
          BY <1>2, <2>3, <5>1
        <5> HIDE DEF f, g
        <5> QED
          BY <4>1, <5>1, <5>2, <5>3
      <4> HIDE DEF new, u
      <4>4. /\ From(new, tail) \in Nat /\ Upto(new, tail) \in Nat
            /\ 1 <= From(new, tail) /\ Upto(new, tail) <= room
            /\ \A p \in 1 .. i - 1 : Upto(ooo[p], tail) < From(new, tail)
            /\ \A p \in i .. Len(ooo) : Upto(new, tail) < From(ooo[p], tail)
        BY <1>6, <3>1, <4>3
      <4> DEFINE j == i
      <4>5. /\ j \in Nat /\ 1 <= i /\ i <= j /\ j <= Len(ooo) + 1 /\ u = Splice(ooo, i, j, new)
            /\ \A p \in j .. Len(ooo) : Upto(new, tail) < From(ooo[p], tail)
            /\ \A p : p \in 1 .. n <=> p \in 1 .. i - 1 \/ p \in j .. n
        BY <1>1, <2>6, <4>2, <4>4
      <4> HIDE DEF j
      <4>6. /\ Canonical(u, tail, room)
            /\ \A k \in Int : Covered(u, tail, k) <=>
                 \/ From(new, tail) <= k /\ k < Upto(new, tail)
                 \/ \E p \in 1 .. i - 1 : f(p) <= k /\ k < g(p)
                 \/ \E p \in j .. n : f(p) <= k /\ k < g(p)
        <5>1. Fits(ooo, tail, room, i, j, new)
          BY <1>4, <1>6, <1>7, <2>6, <4>4, <4>5 DEF Fits
        <5> QED
          BY <4>5, <5>1, SpliceCanonical DEF SpliceCovers
      <4> QED
        BY <1>6, <1>8, <4>5, <4>6 DEF u
    <3>3. CASE ~f_pos_lt(b, s.start) /\ f_pos_lt(SegEnd(s), a)
      <4>1. g(i) < x
        BY <1>5, <2>3, <3>3
      <4>2. u = Splice(ooo, i + 1, i + 1, new)
        BY <2>4, <2>9, <3>3 DEF InsertAt, Splice
      <4>3. i = n
        BY <1>2, <2>3, <2>7, <4>1
      <4>4. \A p \in 1 .. (i + 1) - 1 : g(p) < x
        <5> SUFFICES ASSUME NEW p \in 1 .. (i + 1) - 1 PROVE g(p) < x
          OBVIOUS
        <5>1. p = i \/ p \in 1 .. i - 1
          BY <2>6
        <5> QED
          BY <3>1, <4>1, <5>1
      <4> HIDE DEF new, u
      <4> DEFINE j == i + 1
      <4>5. j \in Nat /\ 1 <= j /\ j <= j /\ j <= Len(ooo) + 1 /\ j .. n = {}
        BY <1>1, <2>6, <4>3
      <4>6. /\ From(new, tail) \in Nat /\ Upto(new, tail) \in Nat
            /\ 1 <= From(new, tail) /\ Upto(new, tail) <= room
            /\ \A p \in 1 .. j - 1 : Upto(ooo[p], tail) < From(new, tail)
            /\ \A p \in j .. Len(ooo) : Upto(new, tail) < From(ooo[p], tail)
        BY <1>6, <4>4, <4>5
      <4>7. u = Splice(ooo, j, j, new)
        BY <4>2
      <4>8. \A p : p \in 1 .. n <=> p \in 1 .. j - 1
        BY <1>1, <2>6, <4>3
      <4> HIDE DEF j
      <4>9. /\ Canonical(u, tail, room)
            /\ \A k \in Int : Covered(u, tail, k) <=>
                 \/ From(new, tail) <= k /\ k < Upto(new, tail)
                 \/ \E p \in 1 .. j - 1 : f(p) <= k /\ k < g(p)
                 \/ \E p \in j .. n : f(p) <= k /\ k < g(p)
        <5>1. Fits(ooo, tail, room, j, j, new)
          BY <1>4, <1>6, <1>7, <4>5, <4>6 DEF Fits
        <5> QED
          BY <4>7, <5>1, SpliceCanonical DEF SpliceCovers
      <4> QED
        BY <1>6, <1>8, <4>5, <4>8, <4>9 DEF u
    <3>4. CASE ~f_pos_lt(b, s.start) /\ ~f_pos_lt(SegEnd(s), a)
      <4>1. f(i) <= y /\ x <= g(i)
        BY <1>2, <1>5, <2>3, <3>4
      <4>2. u = StretchTail(l2, i, b)
        BY <2>4, <2>9, <3>4
      <4>3. f(i) \in Int /\ g(i) \in Int /\ 1 <= f(i) /\ f(i) < g(i) /\ g(i) <= room
            /\ ooo[i] \in Segment
        BY <1>2, <2>3
      <4> DEFINE z == IF x < f(i) THEN x ELSE f(i)
      <4>4. z \in Nat /\ 1 <= z /\ z < g(i) /\ z <= f(i) /\ z <= x /\ z < y
        BY <4>1, <4>3
      <4>5. s2 \in Segment /\ From(s2, tail) = z /\ Upto(s2, tail) = g(i) /\ s2.length >= 1
        <5>1. CASE x < f(i)
          <6>1. s2 = Seg(a, Plus(tail, g(i))) /\ z = x
            BY <1>2, <1>5, <2>3, <5>1
          <6>2. g(i) \in 0 .. Size /\ x < g(i)
            BY <4>3, <4>4, <5>1, Sizes
          <6> DEFINE e == g(i)
                     w == Seg(a, Plus(tail, e))
          <6> HIDE DEF e
          <6>3. w \in Segment /\ From(w, tail) = x /\ Upto(w, tail) = e /\ w.length = e - x
            BY <1>4, <6>2, SegIs DEF e
          <6>4. e - x >= 1
            BY <4>3, <6>2 DEF e
          <6> QED
            BY <6>1, <6>3, <6>4 DEF e
        <5>2. CASE ~(x < f(i))
          <6>1. s2 = ooo[i] /\ z = f(i)
            BY <1>5, <2>3, <5>2
          <6>2. ooo[i].length >= 1
            BY <2>3 DEF Canonical
          <6> QED
            BY <4>3, <6>1, <6>2
        <5> QED
          BY <5>1, <5>2
      <4> HIDE DEF s2, z
      <4>6. l2 = Splice(ooo, i, i + 1, s2)
        <5>1. PICK q \in Nat, r \in Nat : q = i /\ r = i + 1
          BY <2>6
        <5>2. [ooo EXCEPT ![q] = s2] = Splice(ooo, q, r, s2)
          BY <1>1, <2>6, <4>5, <5>1, ExceptIsSplice
        <5> QED
          BY <5>1, <5>2
      <4>7. \A p \in i + 1 .. n : g(i) < f(p)
        <5> SUFFICES ASSUME NEW p \in i + 1 .. n PROVE g(i) < f(p)
          OBVIOUS
        <5>1. p \in 1 .. n /\ i < p
          BY <1>1, <2>6
        <5> QED
          BY <1>3, <2>3, <5>1
      <4>8. \A p \in 1 .. i - 1 : g(p) < z
        <5> SUFFICES ASSUME NEW p \in 1 .. i - 1 PROVE g(p) < z
          OBVIOUS
        <5>1. p \in 1 .. n /\ p < i
          BY <1>1, <2>6
        <5>2. g(p) < f(i) /\ g(p) < x
          BY <1>3, <2>3, <3>1, <5>1
        <5> QED
          BY <5>2 DEF z
      <4> DEFINE j == i + 1
      <4>9. j \in Nat /\ 1 <= j /\ i <= j /\ j <= Len(ooo) + 1
        BY <1>1, <2>6
      <4>10. /\ From(s2, tail) \in Nat /\ Upto(s2, tail) \in Nat
             /\ 1 <= From(s2, tail) /\ Upto(s2, tail) <= room
             /\ \A p \in 1 .. i - 1 : Upto(ooo[p], tail) < From(s2, tail)
             /\ \A p \in j .. Len(ooo) : Upto(s2, tail) < From(ooo[p], tail)
        BY <4>3, <4>4, <4>5, <4>7, <4>8
      <4>11. l2 = Splice(ooo, i, j, s2)
        BY <4>6
      <4>12. \A p : p \in 1 .. n <=> p \in 1 .. i - 1 \/ p = i \/ p \in j .. n
        BY <1>1, <2>6
      <4> HIDE DEF j, l2
      <4>13. /\ Canonical(l2, tail, room)
             /\ \A k \in Int : Covered(l2, tail, k) <=>
                  \/ From(s2, tail) <= k /\ k < Upto(s2, tail)
                  \/ \E p \in 1 .. i - 1 : f(p) <= k /\ k < g(p)
                  \/ \E p \in j .. n : f(p) <= k /\ k < g(p)
        <5>1. Fits(ooo, tail, room, i, j, s2)
          BY <1>4, <2>6, <4>5, <4>9, <4>10 DEF Fits
        <5> QED
          BY <4>11, <5>1, SpliceCanonical DEF SpliceCovers
      <4>14. Len(l2) = n /\ l2[i] = s2
        BY <1>1, <2>3, <4>5, ExceptSeq DEF l2
      <4>15. i \in 1 .. Len(l2) /\ From(l2[i], tail) = z
        BY <2>3, <4>5, <4>14
      <4> HIDE DEF u
      <4>16. /\ Canonical(u, tail, room)
             /\ \A k \in Int : Covered(u, tail, k) <=> Covered(l2, tail, k) \/ (z <= k /\ k < y)
        <5>1. From(l2[i], tail) < y
          BY <4>4, <4>15
        <5>2. /\ Canonical(u, tail, room)
              /\ \A k \in Int : Covered(u, tail, k) <=>
                   Covered(l2, tail, k) \/ (From(l2[i], tail) <= k /\ k < y)
          BY <1>4, <4>2, <4>13, <4>15, <5>1, StretchCanonical
        <5> QED
          BY <4>15, <5>2
      <4>17. ASSUME NEW k \in Int
             PROVE  Covered(u, tail, k) <=> Covered(ooo, tail, k) \/ (x <= k /\ k < y)
        <5>1. Covered(u, tail, k) <=>
                 \/ (z <= k /\ k < g(i)) \/ (z <= k /\ k < y)
                 \/ \E p \in 1 .. i - 1 : f(p) <= k /\ k < g(p)
                 \/ \E p \in j .. n : f(p) <= k /\ k < g(p)
          BY <4>5, <4>13, <4>16
        <5>2. Covered(ooo, tail, k) <=>
                 \/ f(i) <= k /\ k < g(i)
                 \/ \E p \in 1 .. i - 1 : f(p) <= k /\ k < g(p)
                 \/ \E p \in j .. n : f(p) <= k /\ k < g(p)
          BY <1>8, <4>12
        <5>3. ((z <= k /\ k < g(i)) \/ (z <= k /\ k < y))
                <=> ((f(i) <= k /\ k < g(i)) \/ (x <= k /\ k < y))
          BY <4>1, <4>3, <4>4 DEF z
        <5> QED
          BY <5>1, <5>2, <5>3
      <4> QED
        BY <4>16, <4>17 DEF u
    <3> QED
      BY <3>2, <3>3, <3>4
  <2> QED
    BY <2>8, <2>9
<1> QED
  BY <1>9, <1>10

\* A set of indices that has all smaller ones is an interval.
LEMMA PrefixIs ==
  ASSUME NEW n \in Nat, NEW S, S \subseteq 1 .. n, \A k \in S : \A j \in 1 .. k : j \in S
  PROVE  Cardinality(S) \in Nat /\ Cardinality(S) <= n /\ S = 1 .. Cardinality(S)
<1> DEFINE T == (1 .. n + 1) \ S
           m == Min(T)
<1>1. T \subseteq Nat /\ n + 1 \in T
  OBVIOUS
<1>2. m \in T /\ \A k \in T : m <= k
  BY <1>1, MinIn
<1> HIDE DEF m
<1>3. m \in Nat /\ 1 <= m /\ m <= n + 1 /\ m \notin S
  BY <1>2
<1>4. \A k \in 1 .. m - 1 : k \in S
  <2> SUFFICES ASSUME NEW k \in 1 .. m - 1 PROVE k \in S
    OBVIOUS
  <2>1. k \in 1 .. n + 1 /\ ~(m <= k)
    BY <1>3
  <2> QED
    BY <1>2, <2>1
<1>5. \A k \in S : k \in 1 .. m - 1
  <2> SUFFICES ASSUME NEW k \in S PROVE k \in 1 .. m - 1
    OBVIOUS
  <2>1. k \in 1 .. n
    OBVIOUS
  <2>2. m \in 1 .. k => m \in S
    OBVIOUS
  <2> QED
    BY <1>3, <2>1, <2>2
<1>6. S = 1 .. m - 1
  BY <1>4, <1>5
<1>7. Cardinality(1 .. m - 1) = m - 1
  <2>1. 1 \in Int /\ m - 1 \in Int
    BY <1>3
  <2>2. Cardinality(1 .. m - 1) = IF 1 > m - 1 THEN 0 ELSE (m - 1) - 1 + 1
    BY <2>1, FS_Interval
  <2> QED
    BY <1>3, <2>2
<1> QED
  BY <1>3, <1>6, <1>7

\* tail moves on by r, over the n new bytes and what follows them without a gap,
\* and the segments beyond stay.
Advances(n, r, room, l, t) ==
  /\ r \in Nat /\ n <= r /\ r <= room /\ t = Plus(tail, r)
  /\ Canonical(l, t, room - r)
  /\ \A k \in Int : n <= k /\ k < r => Covered(ooo, tail, k)
  /\ \A k \in Int : k >= r => (Covered(ooo, tail, k) <=> Covered(l, t, k - r))
  /\ ~Covered(ooo, tail, r)

\* ooo_segment_try_collect moves tail to the first position that has not
\* arrived and drops exactly the segments that tail has passed.
LEMMA CollectCanonical ==
  ASSUME tail \in Pos, NEW room \in Nat, room <= Size, Canonical(ooo, tail, room),
         NEW n \in Nat, 1 <= n, n <= room
  PROVE  LET got == ooo_segment_try_collect(n, Plus(tail, n))
         IN \E r \in Nat : Advances(n, r, room, got.ooo, got.tail)
<1> DEFINE f(p) == From(ooo[p], tail)
           g(p) == Upto(ooo[p], tail)
           m == Len(ooo)
           t == Plus(tail, n)
           S == Collects(n, t)
           K == Cardinality(S)
           r == IF K > 0 /\ g(K) > n THEN g(K) ELSE n
           u == SubSeq(ooo, K + 1, m)
           t2 == Plus(tail, r)
           got == ooo_segment_try_collect(n, t)
<1>1. m \in Nat /\ ooo \in Seq(Segment)
  BY LenProperties DEF Canonical
<1>2. \A p \in 1 .. m :
        /\ ooo[p] \in Segment /\ f(p) \in Int /\ g(p) \in Int
        /\ 1 <= f(p) /\ f(p) < g(p) /\ g(p) <= room
        /\ ooo[p].start = Plus(tail, f(p)) /\ SegEnd(ooo[p]) = Plus(tail, g(p))
        /\ ooo[p].length = g(p) - f(p)
  BY SegmentIs
<1>3. \A p, q \in 1 .. m : p < q => g(p) < f(q)
  BY DEF Canonical
<1>4. n \in 0 .. Size /\ tail \in Pos /\ Size \in Nat
  BY Sizes
<1>5. \A p \in 1 .. m : Diff(t, ooo[p].start) = n - f(p)
  <2> SUFFICES ASSUME NEW p \in 1 .. m PROVE Diff(t, ooo[p].start) = n - f(p)
    OBVIOUS
  <2>1. f(p) \in 0 .. Size /\ ooo[p].start = Plus(tail, f(p))
    BY <1>2, <1>4
  <2> HIDE DEF f
  <2> QED
    BY <1>4, <2>1, Compare
<1>6. \A k : k \in S <=> k \in 1 .. m /\ f(k) <= n
  <2>1. ASSUME NEW k \in S PROVE k \in 1 .. m /\ f(k) <= n
    <3>1. k \in 1 .. m /\ \A j \in 1 .. k : Diff(t, ooo[j].start) \in 0 .. n - 1
      BY DEF Collects
    <3>2. k \in 1 .. k
      BY <1>1, <3>1
    <3> QED
      BY <1>2, <1>5, <3>1, <3>2
  <2>2. ASSUME NEW k \in 1 .. m, f(k) <= n PROVE k \in S
    <3>1. ASSUME NEW j \in 1 .. k
          PROVE  /\ Diff(t, ooo[j].start) \in 0 .. n - 1
                 /\ j < k => ooo[j].length <= Diff(t, ooo[j].start)
      <4>1. j \in 1 .. m /\ (j = k \/ j < k)
        BY <1>1
      <4>2. f(j) \in Int /\ g(j) \in Int /\ 1 <= f(j) /\ f(j) < g(j) /\ f(k) \in Int
            /\ ooo[j].length = g(j) - f(j) /\ Diff(t, ooo[j].start) = n - f(j)
        BY <1>2, <1>5, <4>1
      <4>3. j < k => g(j) < f(k)
        BY <1>3, <4>1
      <4> HIDE DEF f, g
      <4>4. f(j) <= n /\ (j < k => g(j) <= n)
        BY <2>2, <4>1, <4>2, <4>3
      <4> QED
        BY <4>2, <4>4
    <3>2. \A j \in 1 .. k - 1 : j \in 1 .. k /\ j < k
      BY <1>1
    <3> QED
      BY <2>2, <3>1, <3>2 DEF Collects
  <2> QED
    BY <2>1, <2>2
<1> HIDE DEF S
<1>7. S \subseteq 1 .. m /\ \A k \in S : \A j \in 1 .. k : j \in S
  <2>1. ASSUME NEW k \in S, NEW j \in 1 .. k PROVE j \in S
    <3>1. k \in 1 .. m /\ f(k) <= n /\ j \in 1 .. m /\ (j = k \/ j < k)
      BY <1>1, <1>6
    <3>2. f(j) \in Int /\ g(j) \in Int /\ f(j) < g(j) /\ f(k) \in Int /\ (j < k => g(j) < f(k))
      BY <1>2, <1>3, <3>1
    <3>3. f(j) <= n
      <4> HIDE DEF f, g
      <4> QED
        BY <3>1, <3>2
    <3> QED
      BY <1>6, <3>1, <3>3
  <2> QED
    BY <1>6, <2>1
<1>8. K \in Nat /\ K <= m /\ S = 1 .. K
  BY <1>1, <1>7, PrefixIs
<1> HIDE DEF K
<1>9. \A p \in 1 .. m : f(p) <= n <=> p <= K
  BY <1>1, <1>6, <1>8
<1>10. \A p \in 1 .. K : p \in 1 .. m
  BY <1>1, <1>8
<1>11. K > 0 => K \in 1 .. m /\ K \in 1 .. K
  BY <1>8, <1>1
<1>12. got = [ooo |-> u, tail |-> IF K > 0 /\ ooo[K].length > Diff(t, ooo[K].start)
                                  THEN SegEnd(ooo[K]) ELSE t]
  BY DEF ooo_segment_try_collect, K, S
<1>13. got.ooo = u /\ got.tail = t2
  <2>1. K > 0 => (ooo[K].length > Diff(t, ooo[K].start) <=> g(K) > n)
    <3> SUFFICES ASSUME K > 0 PROVE ooo[K].length > Diff(t, ooo[K].start) <=> g(K) > n
      OBVIOUS
    <3>1. ooo[K].length = g(K) - f(K) /\ Diff(t, ooo[K].start) = n - f(K)
          /\ f(K) \in Int /\ g(K) \in Int
      BY <1>2, <1>5, <1>11
    <3> HIDE DEF f, g
    <3> QED
      BY <3>1
  <2>2. K > 0 => SegEnd(ooo[K]) = Plus(tail, g(K))
    BY <1>2, <1>11
  <2>3. got.ooo = u
    <3> HIDE DEF got, u, t
    <3> QED
      BY <1>12
  <2>4. got.tail = IF K > 0 /\ ooo[K].length > Diff(t, ooo[K].start)
                   THEN SegEnd(ooo[K]) ELSE t
    BY <1>12
  <2>5. CASE K > 0 /\ g(K) > n
    <3>1. r = g(K)
      BY <2>5
    <3>2. got.tail = SegEnd(ooo[K])
      <4> HIDE DEF got, g
      <4> QED
        BY <2>1, <2>4, <2>5
    <3> QED
      BY <2>2, <2>3, <2>5, <3>1, <3>2
  <2>6. CASE ~(K > 0 /\ g(K) > n)
    <3>1. r = n
      BY <2>6
    <3>2. got.tail = t
      <4> HIDE DEF got, g
      <4> QED
        BY <2>1, <2>4, <2>6
    <3> QED
      BY <2>3, <3>1, <3>2
  <2> QED
    BY <2>5, <2>6
<1>14. r \in Nat /\ n <= r /\ r <= room
  BY <1>2, <1>11
<1>15. \A p \in 1 .. K : g(p) <= r
  <2> SUFFICES ASSUME NEW p \in 1 .. K PROVE g(p) <= r
    OBVIOUS
  <2>1. p \in 1 .. m /\ K \in 1 .. m /\ K > 0 /\ (p = K \/ p < K)
    BY <1>8, <1>10, <1>11
  <2>2. p < K => g(p) < f(K)
    BY <1>3, <2>1
  <2>3. f(K) \in Int /\ g(K) \in Int /\ f(K) < g(K) /\ g(p) \in Int
    BY <1>2, <2>1
  <2>4. g(K) <= r
    BY <2>1, <2>3
  <2> HIDE DEF f, g, r
  <2> QED
    BY <1>14, <2>1, <2>2, <2>3, <2>4
<1>16. \A p \in K + 1 .. m : p \in 1 .. m /\ r < f(p)
  <2> SUFFICES ASSUME NEW p \in K + 1 .. m PROVE p \in 1 .. m /\ r < f(p)
    OBVIOUS
  <2>1. p \in 1 .. m /\ ~(p <= K) /\ K < p
    BY <1>1, <1>8
  <2>2. f(p) \in Int /\ n < f(p)
    BY <1>2, <1>9, <2>1
  <2>3. K > 0 => g(K) < f(p)
    BY <1>3, <1>11, <2>1
  <2> QED
    BY <2>1, <2>2, <2>3
<1> HIDE DEF r, got
<1>17. u \in Seq(Segment) /\ Len(u) = m - K /\ \A p \in 1 .. m - K : u[p] = ooo[K + p]
  <2>1. \A p \in K + 1 .. m : ooo[p] \in Segment
    BY <1>2, <1>16
  <2>2. K + 1 \in Int /\ m \in Int
    BY <1>1, <1>8
  <2>3. /\ u \in Seq(Segment) /\ Len(u) = IF K + 1 <= m THEN m - (K + 1) + 1 ELSE 0
        /\ \A p \in 1 .. m - (K + 1) + 1 : u[p] = ooo[(K + 1) + p - 1]
    BY <2>1, <2>2, SubSeqProperties
  <2> HIDE DEF u, m
  <2>4. Len(u) = m - K
    BY <1>1, <1>8, <2>3
  <2>5. ASSUME NEW p \in 1 .. m - K PROVE u[p] = ooo[K + p]
    <3>1. p \in 1 .. m - (K + 1) + 1 /\ (K + 1) + p - 1 = K + p
      BY <1>1, <1>8
    <3>2. u[p] = ooo[(K + 1) + p - 1]
      BY <2>3, <3>1
    <3> QED
      BY <3>1, <3>2
  <2> QED
    BY <2>3, <2>4, <2>5
<1> HIDE DEF u
<1>18. t2 \in Pos
  <2>1. tail \in Int /\ r \in Int
    BY <1>4, <1>14, Sizes DEF Pos
  <2> QED
    BY <2>1, PlusIs
<1>19. \A p \in K + 1 .. m : From(ooo[p], t2) = f(p) - r /\ Upto(ooo[p], t2) = g(p) - r
  <2> SUFFICES ASSUME NEW p \in K + 1 .. m
               PROVE  From(ooo[p], t2) = f(p) - r /\ Upto(ooo[p], t2) = g(p) - r
    OBVIOUS
  <2> DEFINE x == ooo[p].start
             d == Diff(x, tail)
             y == ooo[p].length
  <2>1. x \in Pos /\ y \in Nat /\ d \in Int /\ r < d /\ d <= room /\ d = f(p) /\ g(p) = d + y
    BY <1>2, <1>16 DEF Segment, From, Upto
  <2> HIDE DEF x, y, d
  <2>2. -W <= 2 * (d - r) /\ 2 * (d - r) < W /\ r \in Int
    BY <1>4, <1>14, <2>1, Sizes
  <2>3. Diff(x, t2) = d - r
    BY <1>4, <2>1, <2>2, DiffShift DEF d
  <2>4. From(ooo[p], t2) = Diff(x, t2) /\ Upto(ooo[p], t2) = Diff(x, t2) + y
    BY DEF From, Upto, x, y
  <2>5. (d - r) + y = (d + y) - r
    BY <1>14, <2>1
  <2> HIDE DEF f, g
  <2> QED
    BY <2>1, <2>3, <2>4, <2>5
<1>20. ASSUME NEW p \in 1 .. Len(u)
       PROVE  /\ K + p \in K + 1 .. m /\ K + p \in 1 .. m /\ u[p] = ooo[K + p]
              /\ From(u[p], t2) = f(K + p) - r /\ Upto(u[p], t2) = g(K + p) - r
  <2>1. p \in 1 .. m - K /\ K + p \in K + 1 .. m /\ K + p \in 1 .. m
    BY <1>1, <1>8, <1>17
  <2> QED
    BY <1>17, <1>19, <2>1
<1> HIDE DEF t2
<1>21. Canonical(u, t2, room - r)
  <2>1. ASSUME NEW p \in 1 .. Len(u)
        PROVE  u[p].length >= 1 /\ From(u[p], t2) >= 1 /\ Upto(u[p], t2) <= room - r
    <3> DEFINE q == K + p
    <3>1. q \in K + 1 .. m /\ q \in 1 .. m /\ u[p] = ooo[q]
          /\ From(u[p], t2) = f(q) - r /\ Upto(u[p], t2) = g(q) - r
      BY <1>20
    <3> HIDE DEF q
    <3>2. r < f(q) /\ f(q) \in Int /\ g(q) \in Int /\ g(q) <= room /\ ooo[q].length >= 1
      BY <1>2, <1>16, <3>1 DEF Canonical
    <3> HIDE DEF f, g
    <3> QED
      BY <1>14, <3>1, <3>2
  <2>2. ASSUME NEW p \in 1 .. Len(u), NEW q \in 1 .. Len(u), p < q
        PROVE  Upto(u[p], t2) < From(u[q], t2)
    <3>1. K + p \in 1 .. m /\ K + q \in 1 .. m /\ K + p < K + q
          /\ Upto(u[p], t2) = g(K + p) - r /\ From(u[q], t2) = f(K + q) - r
      BY <1>8, <1>17, <1>1, <1>20, <2>2
    <3>2. g(K + p) < f(K + q) /\ g(K + p) \in Int /\ f(K + q) \in Int
      BY <1>2, <1>3, <3>1
    <3> HIDE DEF f, g
    <3> QED
      BY <1>14, <3>1, <3>2
  <2> QED
    BY <1>17, <2>1, <2>2 DEF Canonical
<1>22. \A k \in Int : Covered(ooo, tail, k) <=> \E p \in 1 .. m : f(p) <= k /\ k < g(p)
  BY DEF Covered
<1>23. ASSUME NEW k \in Int, n <= k, k < r PROVE Covered(ooo, tail, k)
  <2>1. K > 0 /\ r = g(K)
    BY <1>14, <1>23 DEF r
  <2>2. K \in 1 .. m /\ f(K) <= n /\ f(K) \in Int
    BY <1>2, <1>8, <1>9, <1>11, <2>1
  <2>3. f(K) <= k /\ k < g(K)
    <3> HIDE DEF f, g
    <3> QED
      BY <1>23, <2>1, <2>2
  <2> QED
    BY <1>22, <2>2, <2>3
<1>24. ASSUME NEW k \in Int, k >= r
       PROVE  Covered(ooo, tail, k) <=> \E p \in K + 1 .. m : f(p) <= k /\ k < g(p)
  <2>1. ASSUME NEW p \in 1 .. m, k < g(p) PROVE p \in K + 1 .. m
    <3>1. p \in 1 .. K => g(p) <= r /\ g(p) \in Int
      BY <1>2, <1>10, <1>15
    <3>2. p \notin 1 .. K
      <4> HIDE DEF f, g
      <4> QED
        BY <1>14, <1>24, <2>1, <3>1
    <3> QED
      BY <1>1, <1>8, <3>2
  <2> QED
    BY <1>16, <1>22, <2>1
<1>25. ASSUME NEW k \in Int, k >= r
       PROVE  Covered(ooo, tail, k) <=> Covered(u, t2, k - r)
  <2>1. ASSUME NEW p \in K + 1 .. m, f(p) <= k, k < g(p) PROVE Covered(u, t2, k - r)
    <3> DEFINE q == p - K
    <3>1. q \in 1 .. Len(u) /\ K + q = p
      BY <1>1, <1>8, <1>17
    <3> HIDE DEF q
    <3>2. From(u[q], t2) = f(p) - r /\ Upto(u[q], t2) = g(p) - r
      BY <1>20, <3>1
    <3>3. f(p) \in Int /\ g(p) \in Int
      BY <1>2, <1>16
    <3>4. From(u[q], t2) <= k - r /\ k - r < Upto(u[q], t2)
      <4> HIDE DEF f, g
      <4> QED
        BY <1>14, <2>1, <3>2, <3>3
    <3> QED
      BY <3>1, <3>4 DEF Covered
  <2>2. ASSUME NEW q \in 1 .. Len(u), From(u[q], t2) <= k - r, k - r < Upto(u[q], t2)
        PROVE  \E p \in K + 1 .. m : f(p) <= k /\ k < g(p)
    <3> DEFINE p == K + q
    <3>1. p \in K + 1 .. m /\ p \in 1 .. m /\ From(u[q], t2) = f(p) - r /\ Upto(u[q], t2) = g(p) - r
      BY <1>20
    <3> HIDE DEF p
    <3>2. f(p) \in Int /\ g(p) \in Int
      BY <1>2, <3>1
    <3>3. f(p) <= k /\ k < g(p)
      <4> HIDE DEF f, g
      <4> QED
        BY <1>14, <2>2, <3>1, <3>2
    <3> QED
      BY <3>1, <3>3
  <2> QED
    BY <1>24, <1>25, <2>1, <2>2 DEF Covered
<1>26. ~Covered(ooo, tail, r)
  <2>1. r \in Int /\ r >= r
    BY <1>14
  <2>2. \A p \in K + 1 .. m : f(p) \in Int /\ r < f(p)
    BY <1>2, <1>16
  <2>3. \A p \in K + 1 .. m : ~(f(p) <= r)
    <3> HIDE DEF f
    <3> QED
      BY <2>1, <2>2
  <2> QED
    BY <1>24, <2>1, <2>3
<1>27. Advances(n, r, room, u, t2)
  BY <1>14, <1>21, <1>23, <1>25, <1>26 DEF Advances, t2
<1> QED
  BY <1>13, <1>14, <1>27 DEF got

-----------------------------------------------------------------------------
(* The steps.                                                              *)

ProdType(p) ==
  p \in [pc : {"idle", "alloc", "link", "copy", "store"},
         op : {"none", "enq", "segs", "nocopy", "ooo"}, off : Nat, len : Nat,
         head : Pos, old : {p.old}, new : Seq(Chunks)]
ConsType(c) ==
  c \in [pc : {"idle", "read", "unlink", "collect", "store"},
         op : {"none", "deq", "peek", "segments", "drop", "dropall"},
         off : Nat, len : Int, end : Pos, freed : Seq(Chunks)]

\* A call that is over is well typed.
LEMMA ResetTypes == ProdType(Idle) /\ ConsType(Rest)
<1>1. 0 \in Pos
  BY Sizes DEF Pos
<1>2. <<>> \in Seq(Chunks)
  BY EmptySeq
<1> QED
  BY <1>1, <1>2 DEF ProdType, ConsType, Idle, Rest

\* A step that changes only the producer's call, or what no invariant is about.
LEMMA ProdOnly ==
  ASSUME IInv,
         UNCHANGED <<others, head, tail, start, next, free, startC, endC, ooo, cons>>,
         ProdType(prod'), prod'.new = prod.new, prod.pc # "link", prod'.pc # "link",
         prod'.pc # "idle" =>
           /\ prod'.len >= 1 /\ prod'.off + prod'.len <= Free(head, tail)
           /\ prod'.off > 0 <=> prod'.op = "ooo",
         prod'.pc = "alloc" => NeedsChunk(prod'.off, prod'.len),
         prod'.pc = "store" => prod'.op # "ooo"
  PROVE  IInv'
<1>1. Types'
  BY DEF IInv, Types, ProdType
<1>2. Lists'
  BY QuietLists
<1>3. Window'
  BY DEF IInv, Window, Free, NeedsChunk, ChunkEnd
<1>4. Canonical(ooo, tail, Free(head, tail))'
  BY DEF IInv, Free
<1> QED
  BY <1>1, <1>2, <1>3, <1>4 DEF IInv

\* The same for the consumer.
LEMMA ConsOnly ==
  ASSUME IInv,
         UNCHANGED <<others, head, tail, start, next, free, startC, endC, ooo, prod>>,
         ConsType(cons'), cons'.freed = cons.freed,
         cons.pc # "collect", cons'.pc # "collect",
         cons'.pc # "idle" => Diff(cons'.end, head) \in 0 .. Diff(tail, head)
  PROVE  IInv'
<1>1. Types'
  BY DEF IInv, Types, ConsType
<1>2. Lists'
  BY QuietLists
<1>3. Window'
  BY DEF IInv, Window, Free, NeedsChunk, ChunkEnd
<1>4. Canonical(ooo, tail, Free(head, tail))'
  BY DEF IInv, Free
<1> QED
  BY <1>1, <1>2, <1>3, <1>4 DEF IInv

\* How full the fifo is.
LEMMA FillIs ==
  ASSUME IInv
  PROVE  /\ head \in Pos /\ tail \in Pos /\ head \in Int /\ tail \in Int
         /\ Diff(tail, head) \in Nat /\ Diff(tail, head) <= Size
         /\ Free(head, tail) \in Nat /\ Free(head, tail) <= Size
         /\ Free(head, tail) = Size - Diff(tail, head)
<1>1. head \in Pos /\ tail \in Pos /\ Diff(tail, head) \in 0 .. Size
  BY DEF IInv, Types, Window
<1>2. head \in Int /\ tail \in Int /\ Size \in Nat
  BY <1>1, Sizes DEF Pos
<1> QED
  BY <1>1, <1>2 DEF Free

\* A call is admitted only if it fits between tail and head + Size.
LEMMA ProdLoadStep == IInv /\ ProdLoad => IInv'
<1> SUFFICES ASSUME IInv, ProdLoad PROVE IInv'
  OBVIOUS
<1> DEFINE room == Free(head, tail)
           len(op, want) == IF op = "enq" THEN IF want < room THEN want ELSE room ELSE want
<1>1. PICK op \in ProdOps, off \in 0 .. MaxLen, want \in 1 .. MaxLen :
        /\ (off > 0) = (op = "ooo")
        /\ len(op, want) > 0 /\ off + len(op, want) <= room
        /\ prod' = [prod EXCEPT
                      !.pc = IF NeedsChunk(off, len(op, want)) THEN "alloc" ELSE "copy",
                      !.op = op, !.off = off, !.len = len(op, want),
                      !.head = head, !.old = tailC]
  BY DEF ProdLoad
<1> DEFINE n == len(op, want)
<1>2. room \in Nat /\ head \in Pos /\ off \in Nat /\ want \in Nat
  BY FillIs, Sizes
<1> HIDE DEF room
<1>3. n \in Nat /\ n > 0 /\ off + n <= room /\ (off > 0 <=> op = "ooo")
  BY <1>1, <1>2
<1> HIDE DEF len
<1>4. prod.pc = "idle" /\ ProdType(prod)
      /\ UNCHANGED <<others, head, tail, start, next, free, startC, endC, ooo, cons>>
  BY DEF IInv, Types, ProdType, ProdLoad, setup, shared, consVars
<1>5. op \in {"enq", "segs", "nocopy", "ooo"}
  BY DEF ProdOps
<1>6. /\ prod'.pc = IF NeedsChunk(off, n) THEN "alloc" ELSE "copy"
      /\ prod'.op = op /\ prod'.off = off /\ prod'.len = n /\ prod'.new = prod.new
  BY <1>1, <1>4 DEF ProdType
<1>7. ProdType(prod')
  BY <1>1, <1>2, <1>3, <1>4, <1>5 DEF ProdType
<1> QED
  BY <1>3, <1>4, <1>6, <1>7, ProdOnly DEF room

\* Without memory the call is shortened to what the last chunk can take, which
\* is less than it was admitted with, or given up.
LEMMA ProdGrowFailsStep == IInv /\ ProdGrowFails => IInv'
<1> SUFFICES ASSUME IInv, ProdGrowFails PROVE IInv'
  OBVIOUS
<1> DEFINE n == Diff(ChunkEnd(endC), tail)
<1>1. prod.pc = "alloc" /\ ProdType(prod) /\ prod.new = <<>>
      /\ UNCHANGED <<others, head, tail, start, next, free, startC, endC, ooo, cons>>
      /\ prod' = IF prod.op = "enq" /\ n > 0
                 THEN [prod EXCEPT !.pc = "copy", !.len = n] ELSE Idle
  BY DEF IInv, Types, Lists, ProdType, ProdGrowFails, setup, shared, consVars
<1>2. n \in Int /\ n < prod.off + prod.len
  BY <1>1, Missing DEF IInv
<1>3. prod.len >= 1 /\ prod.off + prod.len <= Free(head, tail) /\ (prod.off > 0 <=> prod.op = "ooo")
  BY <1>1 DEF IInv, Window
<1> HIDE DEF n
<1>4. CASE prod.op = "enq" /\ n > 0
  <2>1. /\ prod'.pc = "copy" /\ prod'.op = "enq" /\ prod'.off = prod.off /\ prod'.len = n
        /\ prod'.new = prod.new
    BY <1>1, <1>4 DEF ProdType
  <2>2. prod.off = 0 /\ prod.off \in Nat /\ prod.len \in Nat
    BY <1>1, <1>3, <1>4 DEF ProdType
  <2>3. n \in Nat /\ Free(head, tail) \in Nat
    BY <1>2, <1>4, FillIs
  <2>4. ProdType(prod')
    BY <1>1, <1>4, <2>3 DEF ProdType
  <2>5. /\ prod'.len >= 1 /\ prod'.off + prod'.len <= Free(head, tail)
        /\ prod'.off > 0 <=> prod'.op = "ooo"
    BY <1>2, <1>3, <1>4, <2>1, <2>2, <2>3
  <2> QED
    BY <1>1, <2>1, <2>4, <2>5, ProdOnly
<1>5. CASE ~(prod.op = "enq" /\ n > 0)
  <2>1. prod' = Idle
    BY <1>1, <1>5
  <2>2. prod'.pc = "idle" /\ prod'.new = <<>> /\ ProdType(prod')
    BY <2>1, ResetTypes DEF Idle
  <2> QED
    BY <1>1, <2>2, ProdOnly
<1> QED
  BY <1>4, <1>5

\* Copying changes no index.
LEMMA ProdCopyStep == IInv /\ ProdCopy => IInv'
<1> SUFFICES ASSUME IInv, ProdCopy PROVE IInv'
  OBVIOUS
<1>1. prod.pc = "copy" /\ prod.op # "ooo" /\ ProdType(prod)
      /\ UNCHANGED <<others, head, tail, start, next, free, startC, endC, ooo, cons>>
      /\ prod' = [prod EXCEPT !.pc = "store"]
  BY DEF IInv, Types, ProdType, ProdCopy, setup, consVars
<1>2. /\ prod'.pc = "store" /\ prod'.op = prod.op /\ prod'.off = prod.off
      /\ prod'.len = prod.len /\ prod'.new = prod.new
  BY <1>1 DEF ProdType
<1>3. ProdType(prod')
  BY <1>1 DEF ProdType
<1>4. /\ prod.len >= 1 /\ prod.off + prod.len <= Free(head, tail)
      /\ (prod.off > 0 <=> prod.op = "ooo")
  BY <1>1 DEF IInv, Window
<1> QED
  BY <1>1, <1>2, <1>3, <1>4, ProdOnly

\* Allocation moves chunks from the free list to the producer.
LEMMA ProdAllocStep == IInv /\ ProdAlloc => IInv'
<1> SUFFICES ASSUME IInv, ProdAlloc PROVE IInv'
  OBVIOUS
<1> DEFINE new == Reverse(SubSeq(free, 1, NChunks))
<1>1. /\ prod' = [prod EXCEPT !.pc = "link", !.new = new]
      /\ new \in Seq(Chunks) /\ free' \in Seq(Chunks)
      /\ start' \in [Chunks -> Pos] /\ next' \in [Chunks -> Opt]
  BY AllocParts
<1> HIDE DEF new
<1>2. prod.pc = "alloc" /\ ProdType(prod)
      /\ UNCHANGED <<others, head, tail, startC, endC, ooo, cons>>
  BY DEF IInv, Types, ProdType, ProdAlloc, setup, consVars
<1>3. /\ prod'.pc = "link" /\ prod'.op = prod.op /\ prod'.off = prod.off
      /\ prod'.len = prod.len
  BY <1>1, <1>2 DEF ProdType
<1>4. ProdType(prod')
  BY <1>1, <1>2 DEF ProdType
<1>5. Types'
  BY <1>1, <1>2, <1>4 DEF IInv, Types, ProdType
<1>6. Window'
  BY <1>2, <1>3 DEF IInv, Window, Free
<1>7. Canonical(ooo, tail, Free(head, tail))'
  BY <1>2 DEF IInv, Free
<1> QED
  BY <1>5, <1>6, <1>7, AllocLists DEF IInv

\* Linking moves them to the end of the list.
LEMMA ProdLinkStep == IInv /\ ProdLink => IInv'
<1> SUFFICES ASSUME IInv, ProdLink PROVE IInv'
  OBVIOUS
<1>1. prod.pc = "link" /\ ProdType(prod)
      /\ UNCHANGED <<others, head, tail, start, free, startC, ooo, cons>>
  BY DEF IInv, Types, ProdType, ProdLink, setup, consVars
<1> DEFINE old == IF prod.op = "segs" THEN prod.old ELSE tailC'
<1>2. prod' = [prod EXCEPT !.pc = "copy", !.new = <<>>, !.old = old]
  BY DEF ProdLink
<1> HIDE DEF old
<1>3. /\ prod'.pc = "copy" /\ prod'.op = prod.op /\ prod'.off = prod.off
      /\ prod'.len = prod.len
  BY <1>1, <1>2 DEF ProdType
<1>4. ProdType(prod')
  <2>1. <<>> \in Seq(Chunks)
    BY EmptySeq
  <2> QED
    BY <1>1, <1>2, <2>1 DEF ProdType
<1>5. Lists' /\ endC' \in Chunks /\ next' \in [Chunks -> Opt]
  BY LinkLists
<1>6. Types'
  BY <1>1, <1>4, <1>5 DEF IInv, Types, ProdType
<1>7. Window'
  BY <1>1, <1>3 DEF IInv, Window, Free
<1>8. Canonical(ooo, tail, Free(head, tail))'
  BY <1>1 DEF IInv, Free
<1> QED
  BY <1>5, <1>6, <1>7, <1>8 DEF IInv

\* Unlinking leaves the last chunk, which the producer may be extending.
LEMMA ConsUnlinkStep == IInv /\ ConsUnlink => IInv'
<1> SUFFICES ASSUME IInv, ConsUnlink PROVE IInv'
  OBVIOUS
<1>1. cons.pc = "unlink" /\ ConsType(cons)
      /\ UNCHANGED <<head, tail, start, endC, ooo, prod>>
  BY DEF IInv, Types, ConsType, ConsUnlink, prodVars
<1>2. cons'.end = cons.end
  BY <1>1 DEF ConsUnlink, ConsType
<1>3. Window'
  BY <1>1, <1>2 DEF IInv, Window, Free, NeedsChunk, ChunkEnd
<1>4. Canonical(ooo, tail, Free(head, tail))'
  BY <1>1 DEF IInv, Free
<1> QED
  BY <1>3, <1>4, UnlinkLists DEF IInv

\* A chunk that is given back is not the last one of the list, so what the
\* producer computed from its start byte still holds.
LEMMA ConsCollectStep == IInv /\ ConsCollect => IInv'
<1> SUFFICES ASSUME IInv, ConsCollect PROVE IInv'
  OBVIOUS
<1>1. cons.pc = "collect" /\ ConsType(cons)
      /\ UNCHANGED <<head, tail, endC, ooo, prod>>
  BY DEF IInv, Types, ConsType, ConsCollect, prodVars
<1>2. cons'.end = cons.end
  BY <1>1 DEF ConsCollect, ConsType
<1>3. start'[endC] = start[endC]
  <2> DEFINE c == Head(cons.freed)
  <2>1. cons.freed \in Seq(Chunks) /\ Len(cons.freed) > 0
    BY <1>1 DEF IInv, Lists, ConsType
  <2>2. c = cons.freed[1] /\ 1 \in 1 .. Len(cons.freed)
    BY <2>1, LenProperties
  <2>3. c \in ToSet(cons.freed)
    BY <2>1, <2>2, LenProperties DEF ToSet
  <2>4. endC \in ToSet(Linked)
    BY ChainParts DEF IInv, Lists
  <2>5. c # endC
    BY <2>3, <2>4 DEF IInv, Lists
  <2>6. start' = [start EXCEPT ![c] = 0] /\ endC \in Chunks /\ start \in [Chunks -> Pos]
    BY DEF ConsCollect, IInv, Types
  <2> HIDE DEF c
  <2> QED
    BY <2>5, <2>6
<1>4. Window'
  BY <1>1, <1>2, <1>3 DEF IInv, Window, Free, NeedsChunk, ChunkEnd
<1>5. Canonical(ooo, tail, Free(head, tail))'
  BY <1>1 DEF IInv, Free
<1> QED
  BY <1>4, <1>5, CollectLists DEF IInv

\* The consumer admits no more than it saw between head and tail.
LEMMA ConsLoadStep == IInv /\ ConsLoad => IInv'
<1> SUFFICES ASSUME IInv, ConsLoad PROVE IInv'
  OBVIOUS
<1> DEFINE size == Diff(tail, head)
           len(off, want) == IF size - off < want THEN size - off ELSE want
           h(op, off, want) == Plus(head, IF op = "dropall" THEN size ELSE len(off, want))
<1>1. PICK op \in ConsOps, off \in 0 .. MaxLen, want \in 1 .. MaxLen :
        /\ off > 0 => op \in {"peek", "segments"}
        /\ op # "dropall" => off < size
        /\ cons' = [cons EXCEPT
                      !.pc = IF op # "drop" THEN "read"
                             ELSE IF LeavesStart(h(op, off, want)) THEN "unlink" ELSE "store",
                      !.op = op, !.off = off, !.len = len(off, want), !.end = h(op, off, want)]
  BY DEF ConsLoad
<1> DEFINE n == IF op = "dropall" THEN size ELSE len(off, want)
           end == Plus(head, n)
<1>2. size \in Nat /\ size <= Size /\ head \in Pos /\ off \in Nat /\ want \in Nat /\ want > 0
  BY FillIs, Sizes
<1> HIDE DEF size
<1>3. n \in Nat /\ n <= size /\ len(off, want) \in Int
  BY <1>1, <1>2
<1> HIDE DEF n
<1>4. end \in Pos /\ Diff(end, head) = n
  <2>1. head \in Int /\ n \in Int /\ 0 \in Int /\ n \in 0 .. Size /\ 0 \in 0 .. Size
    BY <1>2, <1>3, Sizes DEF Pos
  <2>2. Diff(Plus(head, n), Plus(head, 0)) = n - 0
    BY <1>2, <2>1, Compare
  <2> QED
    BY <1>2, <1>3, <2>1, <2>2, PlusIs, PlusZero
<1>5. h(op, off, want) = end
  BY DEF n
<1> HIDE DEF end, len, h
<1>6. cons.pc = "idle" /\ ConsType(cons)
      /\ UNCHANGED <<others, head, tail, start, next, free, startC, endC, ooo, prod>>
  BY DEF IInv, Types, ConsType, ConsLoad, setup, shared, prodVars
<1>7. op \in {"deq", "peek", "segments", "drop", "dropall"}
  BY DEF ConsOps
<1>8. /\ cons'.pc \in {"read", "unlink", "store"} /\ cons'.end = end /\ cons'.freed = cons.freed
  BY <1>1, <1>5, <1>6 DEF ConsType
<1>9. ConsType(cons')
  BY <1>1, <1>2, <1>3, <1>4, <1>5, <1>6, <1>7 DEF ConsType
<1>10. Diff(cons'.end, head) \in 0 .. Diff(tail, head)
  BY <1>2, <1>3, <1>4, <1>8 DEF size
<1> QED
  BY <1>6, <1>8, <1>9, <1>10, ConsOnly

\* The reading steps end the call or go on with the end that was loaded.
LEMMA ConsReadStep == IInv /\ (ConsDequeue \/ ConsSegments \/ ConsPeek \/ ConsDropAll) => IInv'
<1> SUFFICES ASSUME IInv, ConsDequeue \/ ConsSegments \/ ConsPeek \/ ConsDropAll PROVE IInv'
  OBVIOUS
<1>1. cons.pc = "read" /\ ConsType(cons) /\ cons.freed = <<>>
      /\ Diff(cons.end, head) \in 0 .. Diff(tail, head)
  BY DEF IInv, Types, Lists, Window, ConsType, ConsDequeue, ConsSegments, ConsPeek, ConsDropAll
<1>2. UNCHANGED <<others, head, tail, start, next, free, startC, endC, ooo, prod>>
  BY DEF ConsDequeue, ConsSegments, ConsPeek, ConsDropAll, setup, shared, prodVars
<1>3. CASE cons' = Rest
  <2>1. ConsType(cons') /\ cons'.freed = <<>> /\ cons'.pc = "idle"
    BY <1>3, ResetTypes DEF Rest
  <2> QED
    BY <1>1, <1>2, <2>1, ConsOnly
<1>4. CASE cons' = [cons EXCEPT !.pc = IF LeavesStart(cons.end) THEN "unlink" ELSE "store"]
  <2>1. ConsType(cons') /\ cons'.freed = cons.freed /\ cons'.end = cons.end
        /\ cons'.pc \in {"unlink", "store"}
    BY <1>1, <1>4 DEF ConsType
  <2> QED
    BY <1>1, <1>2, <2>1, ConsOnly
<1> QED
  BY <1>3, <1>4 DEF ConsDequeue, ConsSegments, ConsPeek, ConsDropAll

\* ConsStore moves head by what was read, and never past tail.
LEMMA HeadMoves ==
  ASSUME IInv, ConsStore
  PROVE  LET m == Diff(cons.end, head)
         IN /\ m \in Nat /\ m <= Diff(tail, head) /\ head' \in Pos /\ head' = Plus(head, m)
            /\ Diff(tail, head') = Diff(tail, head) - m
            /\ Free(head', tail) = Free(head, tail) + m
<1> DEFINE e == cons.end
           m == Diff(e, head)
           d == Diff(tail, head)
<1>1. cons.pc = "store" /\ head' = e /\ e \in Pos
  BY DEF ConsStore, IInv, Types
<1>2. m \in 0 .. d
  BY <1>1 DEF IInv, Window
<1>3. head \in Pos /\ tail \in Pos /\ d \in Nat /\ d <= Size /\ Size \in Nat /\ 2 * Size < W
      /\ W \in Nat
  BY FillIs, Sizes
<1> HIDE DEF e
<1>4. e = Plus(head, m)
  BY <1>1, <1>3, PlusDiff
<1>5. Diff(tail, Plus(head, m)) = d - m
  <2>1. m \in Int /\ -W <= 2 * (d - m) /\ 2 * (d - m) < W
    BY <1>2, <1>3
  <2> HIDE DEF m
  <2> QED
    BY <1>3, <2>1, DiffShift
<1> HIDE DEF m, d
<1>6. Size - (d - m) = (Size - d) + m
  BY <1>2, <1>3
<1>7. Diff(tail, head') = d - m
  BY <1>1, <1>4, <1>5
<1>8. Free(head', tail) = Size - (d - m) /\ Free(head, tail) = Size - d
  BY <1>7 DEF Free, d
<1>9. m \in Nat /\ m <= d
  BY <1>2, <1>3
<1> QED
  BY <1>1, <1>4, <1>6, <1>7, <1>8, <1>9 DEF m, d, e

\* Moving head makes room, so what the producer was admitted with still fits.
LEMMA ConsStoreStep == IInv /\ ConsStore => IInv'
<1> SUFFICES ASSUME IInv, ConsStore PROVE IInv'
  OBVIOUS
<1> DEFINE m == Diff(cons.end, head)
           room == Free(head, tail)
<1>1. /\ m \in Nat /\ m <= Diff(tail, head) /\ head' \in Pos
      /\ Diff(tail, head') = Diff(tail, head) - m /\ Free(head', tail) = room + m
  BY HeadMoves
<1>2. Diff(tail, head) \in Nat /\ Diff(tail, head) <= Size /\ room \in Nat /\ Size \in Nat
  BY FillIs, Sizes
<1> HIDE DEF m
<1>3. cons.pc = "store" /\ cons.freed = <<>> /\ cons' = Rest
      /\ UNCHANGED <<others, tail, start, next, free, startC, endC, ooo, prod>>
  BY DEF IInv, Lists, ConsStore, setup, prodVars
<1>4. cons'.pc = "idle" /\ cons'.freed = <<>> /\ ConsType(cons')
  BY <1>3, ResetTypes DEF Rest
<1>5. Types'
  BY <1>1, <1>3, <1>4 DEF IInv, Types, ConsType
<1>6. Lists'
  BY <1>3, <1>4, QuietLists
<1>7. Window'
  <2>1. prod.off \in Nat /\ prod.len \in Nat
    BY DEF IInv, Types
  <2>2. prod.pc # "idle" => prod.len >= 1 /\ prod.off + prod.len <= room
                            /\ (prod.off > 0 <=> prod.op = "ooo")
    BY DEF IInv, Window
  <2>3. prod.pc # "idle" => prod.off + prod.len <= room + m
    BY <1>1, <1>2, <2>1, <2>2
  <2>4. Diff(tail, head') \in 0 .. Size
    BY <1>1, <1>2
  <2>5. (prod.pc = "alloc" => NeedsChunk(prod.off, prod.len))'
    BY <1>3 DEF IInv, Window, NeedsChunk, ChunkEnd
  <2> HIDE DEF room
  <2>6. Free(head', tail') = room + m /\ Diff(tail', head') \in 0 .. Size
    BY <1>1, <1>3, <2>4
  <2> QED
    BY <1>3, <1>4, <2>2, <2>3, <2>5, <2>6 DEF IInv, Window
<1>8. Canonical(ooo, tail, room + m)
  <2>1. Canonical(ooo, tail, room) /\ tail \in Pos /\ room <= Size
    BY FillIs DEF IInv
  <2> HIDE DEF room
  <2>2. \A i \in 1 .. Len(ooo) : Upto(ooo[i], tail) \in Int /\ Upto(ooo[i], tail) <= room
    BY <1>2, <2>1, SegmentIs
  <2>3. \A i \in 1 .. Len(ooo) : Upto(ooo[i], tail) <= room + m
    BY <1>1, <1>2, <2>2
  <2> QED
    BY <2>1, <2>3 DEF Canonical
<1>9. Canonical(ooo, tail, Free(head, tail))'
  BY <1>1, <1>3, <1>8
<1> QED
  BY <1>5, <1>6, <1>7, <1>9 DEF IInv

\* ProdStore moves tail over the bytes of the call and what follows them.
LEMMA TailMoves ==
  ASSUME IInv, ProdStore
  PROVE  \E r \in Nat : Advances(prod.len, r, Free(head, tail), ooo', tail')
<1> DEFINE n == prod.len
           room == Free(head, tail)
           t == Plus(tail, n)
<1>1. prod.pc = "store" /\ n \in Nat /\ n >= 1 /\ prod.off \in Nat /\ prod.off + n <= room
      /\ prod.op # "ooo"
  BY DEF IInv, Window, Types, ProdStore
<1>2. room \in Nat /\ room <= Size /\ tail \in Pos /\ tail \in Int
  BY FillIs
<1>3. Canonical(ooo, tail, room)
  BY DEF IInv
<1>4. n <= room
  BY <1>1, <1>2
<1> HIDE DEF n, room
<1>5. CASE ooo = <<>>
  <2>1. tail' = t /\ ooo' = <<>>
    BY <1>5 DEF ProdStore, n
  <2>2. Len(ooo) = 0 /\ Len(ooo') = 0
    BY <1>5, <2>1
  <2>3. t \in Pos
    BY <1>1, <1>2, PlusIs
  <2>4. \A k : ~Covered(ooo, tail, k) /\ ~Covered(ooo', t, k)
    BY <2>2 DEF Covered
  <2>5. <<>> \in Seq(Segment)
    BY EmptySeq
  <2>6. Canonical(ooo', t, room - n)
    BY <2>1, <2>2, <2>5 DEF Canonical
  <2>7. \A k \in Int : ~(n <= k /\ k < n)
    BY <1>1
  <2>8. Advances(n, n, room, ooo', tail')
    BY <1>1, <1>4, <2>1, <2>4, <2>6, <2>7 DEF Advances
  <2> QED
    BY <1>1, <2>8 DEF n, room
<1>6. CASE ooo # <<>>
  <2> DEFINE got == ooo_segment_try_collect(n, t)
  <2>1. tail' = got.tail /\ ooo' = got.ooo
    BY <1>6 DEF ProdStore, n
  <2>2. \E r \in Nat : Advances(n, r, room, got.ooo, got.tail)
    BY <1>1, <1>2, <1>3, <1>4, CollectCanonical
  <2> HIDE DEF got
  <2> QED
    BY <2>1, <2>2 DEF n, room
<1> QED
  BY <1>5, <1>6

\* Moving tail stays within the room, and only adds to what can be read.
LEMMA ProdStoreStep == IInv /\ ProdStore => IInv'
<1> SUFFICES ASSUME IInv, ProdStore PROVE IInv'
  OBVIOUS
<1> DEFINE room == Free(head, tail)
           d == Diff(tail, head)
<1>1. PICK r \in Nat : Advances(prod.len, r, room, ooo', tail')
  BY TailMoves
<1>2. r <= room /\ tail' = Plus(tail, r) /\ Canonical(ooo', tail', room - r)
  BY <1>1 DEF Advances
<1>3. head \in Pos /\ tail \in Pos /\ tail \in Int /\ d \in Nat /\ d <= Size /\ room = Size - d
      /\ Size \in Nat /\ 2 * Size < W /\ W \in Nat
  BY FillIs, Sizes
<1>4. prod.pc = "store" /\ prod.new = <<>> /\ prod' = Idle
      /\ UNCHANGED <<others, head, start, next, free, startC, endC, cons>>
  BY DEF IInv, Lists, ProdStore, setup, consVars
<1>5. prod'.pc = "idle" /\ prod'.new = <<>> /\ ProdType(prod')
  BY <1>4, ResetTypes DEF Idle
<1>6. tail' \in Pos
  <2>1. r \in Int
    OBVIOUS
  <2> QED
    BY <1>2, <1>3, <2>1, PlusIs
<1>7. Diff(tail', head) = d + r
  <2> HIDE DEF room
  <2>1. r \in Int /\ -W <= 2 * (d + r) /\ 2 * (d + r) < W
    BY <1>2, <1>3
  <2> QED
    BY <1>2, <1>3, <2>1, DiffShift
<1>8. Types'
  BY <1>4, <1>5, <1>6 DEF IInv, Types, ProdType
<1>9. Lists'
  BY <1>4, <1>5, QuietLists
<1> HIDE DEF room, d
<1>10. d + r \in 0 .. Size /\ Size - (d + r) = room - r
  BY <1>2, <1>3
<1>11. Diff(tail', head') = d + r
  BY <1>4, <1>7
<1>12. Free(head', tail') = room - r
  BY <1>10, <1>11 DEF Free
<1>13. cons.pc # "idle" => Diff(cons.end, head) \in 0 .. d
  BY DEF IInv, Window, d
<1>14. cons.pc # "idle" => Diff(cons.end, head) \in 0 .. d + r
  BY <1>3, <1>13
<1>15. Window'
  BY <1>4, <1>5, <1>10, <1>11, <1>14 DEF Window
<1>16. Canonical(ooo, tail, Free(head, tail))'
  BY <1>2, <1>12
<1> QED
  BY <1>8, <1>9, <1>15, <1>16 DEF IInv

\* ProdCopyOoo adds the span of the call to what the segments cover.
LEMMA SegmentsGrow ==
  ASSUME IInv, ProdCopyOoo
  PROVE  /\ Canonical(ooo', tail, Free(head, tail))
         /\ \A k \in Int : Covered(ooo', tail, k) <=>
              Covered(ooo, tail, k) \/ (prod.off <= k /\ k < prod.off + prod.len)
<1> DEFINE x == prod.off
           n == prod.len
           y == x + n
           room == Free(head, tail)
<1>1. prod.pc = "copy" /\ x \in Nat /\ n \in Nat /\ n >= 1 /\ x > 0 /\ x + n <= room
  BY DEF IInv, Window, Types, ProdCopyOoo
<1>2. room \in Nat /\ room <= Size /\ tail \in Pos /\ tail \in Int /\ Canonical(ooo, tail, room)
  BY FillIs DEF IInv
<1>3. ooo' = ooo_segment_add(Plus(tail, x), Plus(Plus(tail, x), n))
  BY DEF ProdCopyOoo
<1> HIDE DEF x, n, room
<1>4. Plus(Plus(tail, x), n) = Plus(tail, y)
  BY <1>1, <1>2, PlusPlus
<1>5. y \in Nat /\ 1 <= x /\ x < y /\ y <= room
  BY <1>1
<1> HIDE DEF y
<1>6. ooo' = ooo_segment_add(Plus(tail, x), Plus(tail, y))
  BY <1>3, <1>4
<1> DEFINE u == ooo_segment_add(Plus(tail, x), Plus(tail, y))
<1>7. /\ Canonical(u, tail, room)
      /\ \A k \in Int : Covered(u, tail, k) <=> Covered(ooo, tail, k) \/ (x <= k /\ k < y)
  BY <1>1, <1>2, <1>5, AddCanonical
<1> HIDE DEF u
<1> QED
  BY <1>6, <1>7 DEF x, y, n, room, u

\* Bytes ahead of tail change only the segments.
LEMMA ProdCopyOooStep == IInv /\ ProdCopyOoo => IInv'
<1> SUFFICES ASSUME IInv, ProdCopyOoo PROVE IInv'
  OBVIOUS
<1>1. prod.pc = "copy" /\ prod.new = <<>> /\ prod' = Idle
      /\ UNCHANGED <<others, head, tail, start, next, free, startC, endC, cons>>
  BY DEF IInv, Lists, ProdCopyOoo, setup, consVars
<1>2. prod'.pc = "idle" /\ prod'.new = <<>> /\ ProdType(prod')
  BY <1>1, ResetTypes DEF Idle
<1>3. Types'
  BY <1>1, <1>2 DEF IInv, Types, ProdType
<1>4. Lists'
  BY <1>1, <1>2, QuietLists
<1>5. Window'
  BY <1>1, <1>2 DEF IInv, Window
<1>6. Canonical(ooo', tail', Free(head', tail'))
  BY <1>1, SegmentsGrow
<1> QED
  BY <1>3, <1>4, <1>5, <1>6 DEF IInv

\* The orders of a set of chunks, as lists.
LEMMA OrderOf ==
  ASSUME NEW S \in SUBSET Chunks, NEW l \in SetToSeqs(S)
  PROVE  l \in Seq(Chunks) /\ Once(l) /\ ToSet(l) = S
<1> DEFINE n == Cardinality(S)
<1>1. IsFiniteSet(S) /\ n \in Nat
  BY Sizes, FS_Subset, FS_CardinalityType
<1>2. l \in [1 .. n -> S] /\ \A i, j \in 1 .. n : i # j => l[i] # l[j]
  BY DEF SetToSeqs
<1>3. Cardinality(1 .. n) = n
  BY <1>1, FS_Interval
<1>4. l \in Injection(1 .. n, S)
  BY <1>2 DEF Injection, IsInjective
<1>5. l \in Surjection(1 .. n, S)
  BY <1>1, <1>3, <1>4, FS_Injection
<1> HIDE DEF n
<1>6. l \in Seq(S) /\ Len(l) = n /\ DOMAIN l = 1 .. n
  BY <1>1, <1>2
<1>7. l \in Seq(Chunks)
  BY <1>1, <1>2
<1>8. ToSet(l) = S
  BY <1>2, <1>5, <1>6 DEF ToSet, Surjection
<1> QED
  BY <1>2, <1>6, <1>7, <1>8 DEF Once

\* The invariant of a fifo of one chunk.
LEMMA InitHolds == Init => IInv
<1> SUFFICES ASSUME Init PROVE IInv
  OBVIOUS
<1>1. PICK c \in Chunks :
        /\ startC = c /\ endC = c /\ others \in SUBSET (Chunks \ {c})
        /\ \E l \in SetToSeqs(Chunks \ ({c} \cup others)) : free = l
  BY DEF Init
<1>2. free \in Seq(Chunks) /\ Once(free) /\ ToSet(free) = Chunks \ ({c} \cup others)
  BY <1>1, OrderOf
<1>3. /\ head = 0 /\ tail = 0 /\ start = [d \in Chunks |-> 0] /\ next = [d \in Chunks |-> Nil]
      /\ ooo = <<>> /\ prod = Idle /\ cons = Rest
  BY DEF Init
<1>4. 0 \in Pos /\ Size \in Nat
  BY Sizes DEF Pos
<1>5. prod.pc = "idle" /\ prod.new = <<>> /\ cons.pc = "idle" /\ cons.freed = <<>>
  BY <1>3 DEF Idle, Rest
<1>6. Types
  <2>1. start \in [Chunks -> Pos] /\ next \in [Chunks -> Opt]
    BY <1>3, <1>4 DEF Opt
  <2>2. ProdType(prod) /\ ConsType(cons)
    BY <1>3, ResetTypes
  <2> QED
    BY <1>1, <1>2, <1>3, <1>4, <2>1, <2>2 DEF Types, ProdType, ConsType
<1>7. Chain(next, <<c>>, c, c)
  <2>1. Len(<<c>>) = 1 /\ <<c>>[1] = c /\ <<c>> \in Seq(Chunks)
    OBVIOUS
  <2>2. \A i, j \in 1 .. 1 : i = j
    OBVIOUS
  <2>3. 1 .. 1 - 1 = {}
    OBVIOUS
  <2>4. next[c] = Nil
    BY <1>3
  <2> QED
    BY <2>1, <2>2, <2>3, <2>4 DEF Chain, Once
<1>8. Linked = <<c>>
  BY <1>1, <1>7, LinkedIs, ListOfChain
<1>9. ToSet(<<c>>) = {c} /\ ToSet(<<>>) = {} /\ Once(<<>>)
  BY DEF ToSet, Once
<1>10. Lists
  BY <1>1, <1>2, <1>5, <1>7, <1>8, <1>9 DEF Lists
<1>11. Diff(tail, head) = 0
  <2>1. 0 - 0 = 0 /\ 2 * 0 < W /\ W \in Nat /\ W > 0
    BY Sizes
  <2>2. 0 % W = 0
    BY <2>1
  <2> QED
    BY <1>3, <2>1, <2>2 DEF Diff
<1>12. Window
  BY <1>4, <1>5, <1>11 DEF Window
<1>13. Canonical(ooo, tail, Free(head, tail))
  <2>1. Len(ooo) = 0 /\ ooo \in Seq(Segment)
    BY <1>3
  <2> QED
    BY <2>1 DEF Canonical
<1> QED
  BY <1>6, <1>10, <1>12, <1>13 DEF IInv

\* Every step keeps the invariant.
LEMMA StepHolds == IInv /\ [Next]_vars => IInv'
<1> SUFFICES ASSUME IInv, [Next]_vars PROVE IInv'
  OBVIOUS
<1>1. CASE UNCHANGED vars
  <2>1. UNCHANGED <<others, head, tail, start, next, free, startC, endC, ooo, prod, cons>>
    BY <1>1 DEF vars, setup, shared, prodVars, consVars
  <2>2. Linked' = Linked
    BY <2>1, LinkedIs
  <2>3. Types' /\ Window' /\ Canonical(ooo, tail, Free(head, tail))'
    BY <2>1 DEF IInv, Types, Window, Free, NeedsChunk, ChunkEnd
  <2>4. Chain(next, Linked, startC, endC)'
    BY <2>1, <2>2 DEF IInv, Lists
  <2>5. Lists'
    BY <2>1, <2>2, <2>4 DEF IInv, Lists
  <2> QED
    BY <2>3, <2>5 DEF IInv
<1>2. CASE Next
  BY <1>2, ProdLoadStep, ProdAllocStep, ProdGrowFailsStep, ProdLinkStep, ProdCopyStep,
     ProdStoreStep, ProdCopyOooStep, ConsLoadStep, ConsReadStep, ConsUnlinkStep,
     ConsCollectStep, ConsStoreStep DEF Next
<1> QED
  BY <1>1, <1>2

\* The inductive invariant holds in every reachable state of the fifo.
THEOREM Invariance == Spec => []IInv
  BY InitHolds, StepHolds, PTL DEF Spec

\* Whatever the two sides do, the bytes between head and tail number between
\* nothing and the size of the fifo, as wrapping indices count them
\* (f_cursize in svm_fifo.c).
THEOREM NeverOverfull == Spec => [](Diff(tail, head) \in 0 .. Size)
<1>1. IInv => Diff(tail, head) \in 0 .. Size
  BY DEF IInv, Window
<1> QED
  BY <1>1, Invariance, PTL

\* Every chunk that no other fifo holds is in exactly one of the list, the free
\* list, the chunks the producer is about to link and those the consumer is
\* giving back (f_try_chunk_alloc, f_unlink_chunks, fsh_collect_chunks).
THEOREM ChunksAreConserved == Spec => []ChunksConserved
<1>1. IInv => ChunksConserved
  <2> SUFFICES ASSUME IInv PROVE ChunksConserved
    OBVIOUS
  <2> DEFINE a == Linked
             b == free
             c == cons.freed
             d == prod.new
  <2>1. a \in Seq(Chunks) /\ Once(a)
    BY DEF IInv, Lists, Chain
  <2>2. b \in Seq(Chunks) /\ c \in Seq(Chunks) /\ d \in Seq(Chunks)
        /\ Once(b) /\ Once(c) /\ Once(d)
    BY DEF IInv, Types, Lists
  <2>3. /\ ToSet(a) \cap ToSet(b) = {} /\ ToSet(a) \cap ToSet(c) = {}
        /\ ToSet(a) \cap ToSet(d) = {} /\ ToSet(b) \cap ToSet(c) = {}
        /\ ToSet(b) \cap ToSet(d) = {} /\ ToSet(c) \cap ToSet(d) = {}
        /\ ToSet(a) \cup ToSet(b) \cup ToSet(c) \cup ToSet(d) = Chunks \ others
    BY DEF IInv, Lists
  <2> HIDE DEF a, b, c, d
  <2> DEFINE ab == a \o b
             abc == ab \o c
             abcd == abc \o d
  <2>4. ab \in Seq(Chunks) /\ Len(ab) = Len(a) + Len(b) /\ Once(ab)
        /\ ToSet(ab) = ToSet(a) \cup ToSet(b)
    BY <2>1, <2>2, <2>3, ConcatOnce
  <2> HIDE DEF ab
  <2>5. abc \in Seq(Chunks) /\ Len(abc) = Len(ab) + Len(c) /\ Once(abc)
        /\ ToSet(abc) = ToSet(ab) \cup ToSet(c)
    <3>1. ToSet(ab) \cap ToSet(c) = {}
      BY <2>3, <2>4
    <3> QED
      BY <2>2, <2>4, <3>1, ConcatOnce
  <2> HIDE DEF abc
  <2>6. abcd \in Seq(Chunks) /\ Len(abcd) = Len(abc) + Len(d) /\ Once(abcd)
        /\ ToSet(abcd) = ToSet(abc) \cup ToSet(d)
    <3>1. ToSet(abc) \cap ToSet(d) = {}
      BY <2>3, <2>4, <2>5
    <3> QED
      BY <2>2, <2>5, <3>1, ConcatOnce
  <2> HIDE DEF abcd
  <2>7. ToSet(abcd) = Chunks \ others
    BY <2>3, <2>4, <2>5, <2>6
  <2>8. Len(abcd) = Cardinality(Chunks \ others)
    BY <2>6, <2>7, OnceCard
  <2>9. Len(a) + Len(b) + Len(c) + Len(d) = Cardinality(Chunks \ others)
    BY <2>4, <2>5, <2>6, <2>8
  <2> QED
    BY <2>3, <2>9 DEF ChunksConserved, a, b, c, d
<1> QED
  BY <1>1, Invariance, PTL

\* The ooo segments are sorted, and apart from each other and from tail
\* (ooo_segment_add, ooo_segment_try_collect).
THEOREM OooIsCanonical == Spec => []OooCanonical
<1>1. IInv => OooCanonical
  <2> SUFFICES ASSUME IInv, NEW i \in 1 .. Len(ooo)
               PROVE  f_pos_lt(IF i = 1 THEN tail ELSE SegEnd(ooo[i - 1]), ooo[i].start)
    BY DEF OooCanonical
  <2> DEFINE room == Free(head, tail)
             f(p) == From(ooo[p], tail)
             g(p) == Upto(ooo[p], tail)
  <2>1. tail \in Pos /\ room \in Nat /\ room <= Size /\ Size \in Nat
        /\ Canonical(ooo, tail, room)
    BY FillIs, Sizes DEF IInv
  <2> HIDE DEF room
  <2>2. \A p \in 1 .. Len(ooo) : /\ f(p) \in Int /\ g(p) \in Int
                                 /\ 1 <= f(p) /\ f(p) < g(p) /\ g(p) <= room
                                 /\ ooo[p].start = Plus(tail, f(p))
                                 /\ SegEnd(ooo[p]) = Plus(tail, g(p))
    BY <2>1, SegmentIs
  <2>3. \A p, q \in 1 .. Len(ooo) : p < q => g(p) < f(q)
    BY <2>1 DEF Canonical
  <2> HIDE DEF f, g
  <2>4. f(i) \in 0 .. Size /\ 0 \in 0 .. Size /\ 0 < f(i)
    BY <2>1, <2>2
  <2>5. CASE i = 1
    <3>1. f_pos_lt(Plus(tail, 0), Plus(tail, f(i)))
      BY <2>1, <2>4, Compare
    <3> QED
      BY <2>1, <2>2, <2>5, <3>1, PlusZero
  <2>6. CASE i # 1
    <3>1. i - 1 \in 1 .. Len(ooo) /\ i - 1 < i
      BY <2>6
    <3>2. g(i - 1) \in 0 .. Size /\ g(i - 1) < f(i)
      BY <2>1, <2>2, <2>3, <3>1
    <3>3. f_pos_lt(Plus(tail, g(i - 1)), Plus(tail, f(i)))
      BY <2>1, <2>4, <3>2, Compare
    <3> QED
      BY <2>2, <2>6, <3>1, <3>3
  <2> QED
    BY <2>5, <2>6
<1> QED
  BY <1>1, Invariance, PTL

-----------------------------------------------------------------------------
(* The fifo implements Reassembly.                                         *)

\* OooPositions of a list l, and the same counted from t.
PositionsOf(l) ==
  UNION {{Plus(l[i].start, k) : k \in 0 .. l[i].length - 1} : i \in 1 .. Len(l)}
Ahead(l, t) == {Plus(t, k) : k \in {j \in 0 .. Size : Covered(l, t, j)}}

\* Positions within Size of t are distinct.
LEMMA Distinct ==
  ASSUME NEW t \in Pos, NEW a \in 0 .. Size, NEW b \in 0 .. Size, Plus(t, a) = Plus(t, b)
  PROVE  a = b
<1>1. Diff(Plus(t, a), Plus(t, b)) = a - b /\ Diff(Plus(t, a), Plus(t, a)) = a - a
  BY Compare
<1> QED
  BY <1>1, Sizes

\* What the segments cover lies beyond t and inside the room.
LEMMA CoveredRange ==
  ASSUME NEW t \in Pos, NEW room \in Nat, room <= Size, NEW l, Canonical(l, t, room),
         NEW k \in Int, Covered(l, t, k)
  PROVE  1 <= k /\ k < room
<1>1. PICK i \in 1 .. Len(l) : From(l[i], t) <= k /\ k < Upto(l[i], t)
  BY DEF Covered
<1> DEFINE f == From(l[i], t)
           g == Upto(l[i], t)
<1>2. f \in Int /\ g \in Int /\ 1 <= f /\ g <= room
  BY SegmentIs
<1>3. f <= k /\ k < g
  BY <1>1
<1> HIDE DEF f, g
<1> QED
  BY <1>2, <1>3

\* The positions of the segments, as distances from t.
LEMMA PositionsAre ==
  ASSUME NEW t \in Pos, NEW room \in Nat, room <= Size, NEW l, Canonical(l, t, room)
  PROVE  PositionsOf(l) = Ahead(l, t)
<1> DEFINE f(i) == From(l[i], t)
           g(i) == Upto(l[i], t)
<1>1. \A i \in 1 .. Len(l) :
        /\ f(i) \in Int /\ g(i) \in Int /\ 1 <= f(i) /\ f(i) < g(i) /\ g(i) <= room
        /\ l[i].start = Plus(t, f(i)) /\ l[i].length = g(i) - f(i)
  BY SegmentIs
<1>2. t \in Int /\ Size \in Nat
  BY Sizes DEF Pos
<1>3. ASSUME NEW p \in PositionsOf(l) PROVE p \in Ahead(l, t)
  <2>1. PICK i \in 1 .. Len(l) : p \in {Plus(l[i].start, k) : k \in 0 .. l[i].length - 1}
    BY DEF PositionsOf
  <2>2. PICK k \in 0 .. l[i].length - 1 : p = Plus(l[i].start, k)
    BY <2>1
  <2>3. /\ f(i) \in Int /\ g(i) \in Int /\ 1 <= f(i) /\ f(i) < g(i) /\ g(i) <= room
        /\ l[i].start = Plus(t, f(i)) /\ l[i].length = g(i) - f(i)
    BY <1>1
  <2> DEFINE j == f(i) + k
  <2>4. Covered(l, t, j) <=> \E q \in 1 .. Len(l) : f(q) <= j /\ j < g(q)
    BY DEF Covered
  <2> HIDE DEF f, g
  <2>5. k \in Int /\ 0 <= k /\ k < g(i) - f(i)
    BY <2>3
  <2>6. p = Plus(t, j)
    BY <1>2, <2>2, <2>3, <2>5, PlusPlus
  <2>7. j \in 0 .. Size /\ f(i) <= j /\ j < g(i)
    BY <1>2, <2>3, <2>5
  <2> HIDE DEF j
  <2>8. Covered(l, t, j)
    BY <2>4, <2>7
  <2> QED
    BY <2>6, <2>7, <2>8 DEF Ahead
<1>4. ASSUME NEW p \in Ahead(l, t) PROVE p \in PositionsOf(l)
  <2>1. PICK j \in 0 .. Size : Covered(l, t, j) /\ p = Plus(t, j)
    BY DEF Ahead
  <2>2. PICK i \in 1 .. Len(l) : f(i) <= j /\ j < g(i)
    BY <2>1 DEF Covered
  <2>3. /\ f(i) \in Int /\ g(i) \in Int
        /\ l[i].start = Plus(t, f(i)) /\ l[i].length = g(i) - f(i)
    BY <1>1
  <2> HIDE DEF f, g
  <2> DEFINE k == j - f(i)
  <2>4. k \in Int /\ k \in 0 .. l[i].length - 1 /\ f(i) + k = j
    BY <1>2, <2>2, <2>3
  <2> HIDE DEF k
  <2>5. Plus(l[i].start, k) = Plus(t, j)
    BY <1>2, <2>3, <2>4, PlusPlus
  <2>6. p \in {Plus(l[i].start, q) : q \in 0 .. l[i].length - 1}
    BY <2>1, <2>4, <2>5
  <2> QED
    BY <2>6 DEF PositionsOf
<1> QED
  BY <1>3, <1>4

\* What OooPositions is, before and after a step.
LEMMA AheadIs ==
  ASSUME IInv
  PROVE  OooPositions = Ahead(ooo, tail)
<1>1. OooPositions = PositionsOf(ooo)
  BY DEF OooPositions, PositionsOf
<1> QED
  BY <1>1, FillIs, PositionsAre DEF IInv

\* The run is r when everything before r arrived and r did not.
LEMMA RunIs ==
  ASSUME tail \in Int, NEW S, NEW r \in Nat, r <= W,
         \A k \in 0 .. r - 1 : Plus(tail, k) \in S, Plus(tail, r) \notin S
  PROVE  R!Run(S) = r
<1> DEFINE P(n) == /\ \A k \in 0 .. n - 1 : Plus(tail, k) \in S
                   /\ Plus(tail, n) \notin S
<1>1. R!Run(S) = CHOOSE n \in 0 .. W : P(n)
  BY DEF R!Run, R!At, Plus
<1>2. r \in 0 .. W /\ P(r)
  BY Sizes
<1>3. ASSUME NEW n \in 0 .. W, P(n) PROVE n = r
  <2>1. W \in Nat
    BY Sizes
  <2>2. ~(n < r)
    <3> SUFFICES ASSUME n < r PROVE FALSE
      OBVIOUS
    <3>1. n \in 0 .. r - 1
      BY <2>1
    <3> QED
      BY <1>3, <3>1
  <2>3. ~(r < n)
    <3> SUFFICES ASSUME r < n PROVE FALSE
      OBVIOUS
    <3>1. r \in 0 .. n - 1
      BY <2>1
    <3> QED
      BY <1>3, <3>1
  <2> QED
    BY <2>1, <2>2, <2>3
<1> HIDE DEF P
<1> QED
  BY <1>1, <1>2, <1>3

\* The abstract fill is the number of bytes that f_cursize computes.
LEMMA FillSame ==
  ASSUME IInv
  PROVE  R!Fill = Diff(tail, head)
<1> DEFINE d == (tail - head) % W
<1>1. Diff(tail, head) = IF 2 * d < W THEN d ELSE d - W
  BY DEF Diff
<1>2. Diff(tail, head) \in Nat /\ W \in Nat
  BY FillIs, Sizes
<1>3. d \in Pos
  <2>1. tail - head \in Int
    BY FillIs
  <2> QED
    BY <2>1, Remainder
<1>4. R!Fill = d
  BY DEF R!Fill
<1> HIDE DEF d
<1>5. d \in Int /\ d < W
  BY <1>2, <1>3 DEF Pos
<1> QED
  BY <1>1, <1>2, <1>4, <1>5

\* What has arrived once the n positions from offset x did.
LEMMA AllIs ==
  ASSUME IInv, NEW x \in Nat, NEW n \in Nat, n >= 1, x + n <= Free(head, tail)
  PROVE  \A p : p \in OooPositions \cup R!Span(x, n) <=>
           \E k \in 0 .. Size : /\ Covered(ooo, tail, k) \/ (x <= k /\ k < x + n)
                                /\ p = Plus(tail, k)
<1>1. OooPositions = Ahead(ooo, tail)
  BY AheadIs
<1>2. R!Span(x, n) = {Plus(tail, k) : k \in x .. x + n - 1}
  BY DEF R!Span, R!At, Plus
<1>3. Free(head, tail) \in Nat /\ Free(head, tail) <= Size /\ Size \in Nat
  BY FillIs, Sizes
<1>4. \A k : k \in x .. x + n - 1 <=> k \in 0 .. Size /\ x <= k /\ k < x + n
  BY <1>3
<1>5. ASSUME NEW p
      PROVE  p \in R!Span(x, n) <=>
               \E k \in 0 .. Size : x <= k /\ k < x + n /\ p = Plus(tail, k)
  BY <1>2, <1>4
<1>6. ASSUME NEW p
      PROVE  p \in OooPositions <=> \E k \in 0 .. Size : Covered(ooo, tail, k) /\ p = Plus(tail, k)
  BY <1>1 DEF Ahead
<1> QED
  BY <1>5, <1>6

\* ProdStore is the arrival of the next bytes.
LEMMA StoreArrives == IInv /\ IInv' /\ ProdStore => R!Arrive
<1> SUFFICES ASSUME IInv, IInv', ProdStore PROVE R!Arrive
  OBVIOUS
<1> DEFINE n == prod.len
           room == Free(head, tail)
           all == OooPositions \cup R!Span(0, n)
<1>1. PICK r \in Nat : Advances(n, r, room, ooo', tail')
  BY TailMoves
<1>2. /\ n <= r /\ r <= room /\ tail' = Plus(tail, r)
      /\ Canonical(ooo', tail', room - r)
      /\ \A k \in Int : n <= k /\ k < r => Covered(ooo, tail, k)
      /\ \A k \in Int : k >= r => (Covered(ooo, tail, k) <=> Covered(ooo', tail', k - r))
      /\ ~Covered(ooo, tail, r)
  BY <1>1 DEF Advances
<1>3. n \in Nat /\ n >= 1 /\ n <= room
  <2>1. prod.pc = "store" /\ n \in Nat /\ n >= 1 /\ prod.off \in Nat /\ prod.off + n <= room
    BY DEF IInv, Window, Types, ProdStore
  <2> QED
    BY <2>1, FillIs
<1>4. /\ tail \in Pos /\ tail \in Int /\ room \in Nat /\ room <= Size
      /\ room = Size - Diff(tail, head) /\ Diff(tail, head) \in Nat
      /\ Size \in Nat /\ 2 * Size < W /\ W \in Nat
  BY FillIs, Sizes
<1>5. \A p : p \in all <=>
        \E k \in 0 .. Size : (Covered(ooo, tail, k) \/ k < n) /\ p = Plus(tail, k)
  <2>1. 0 \in Nat /\ 0 + n = n
    BY <1>3
  <2>2. 0 + n <= Free(head, tail)
    BY <1>3, <2>1
  <2>3. \A p : p \in all <=>
          \E k \in 0 .. Size : /\ Covered(ooo, tail, k) \/ (0 <= k /\ k < 0 + n)
                               /\ p = Plus(tail, k)
    <3> HIDE DEF n
    <3> QED
      BY <1>3, <2>1, <2>2, AllIs
  <2>4. \A k \in 0 .. Size : (0 <= k /\ k < 0 + n) <=> k < n
    BY <1>3, <1>4
  <2> HIDE DEF all
  <2> QED
    BY <2>3, <2>4
<1> HIDE DEF room, n, all
<1>6. r \in 0 .. Size /\ r <= W
  BY <1>2, <1>4
<1>7. \A k \in 0 .. r - 1 : Plus(tail, k) \in all
  <2> SUFFICES ASSUME NEW k \in 0 .. r - 1 PROVE Plus(tail, k) \in all
    OBVIOUS
  <2>1. k \in Int /\ k \in 0 .. Size /\ k < r
    BY <1>4, <1>6
  <2>2. k < n \/ n <= k
    BY <1>3, <2>1
  <2>3. Covered(ooo, tail, k) \/ k < n
    BY <1>2, <2>1, <2>2
  <2> QED
    BY <1>5, <2>1, <2>3
<1>8. Plus(tail, r) \notin all
  <2> SUFFICES ASSUME Plus(tail, r) \in all PROVE FALSE
    OBVIOUS
  <2>1. PICK k \in 0 .. Size : (Covered(ooo, tail, k) \/ k < n) /\ Plus(tail, r) = Plus(tail, k)
    BY <1>5
  <2>2. k = r
    BY <1>4, <1>6, <2>1, Distinct
  <2>3. ~(r < n)
    BY <1>2, <1>3
  <2> QED
    BY <1>2, <2>1, <2>2, <2>3
<1>9. R!Run(all) = r
  BY <1>4, <1>6, <1>7, <1>8, RunIs
<1>10. R!Span(0, r) = {Plus(tail, k) : k \in 0 .. r - 1}
  <2>1. 0 + r - 1 = r - 1
    OBVIOUS
  <2> QED
    BY <2>1 DEF R!Span, R!At, Plus
<1>11. tail' \in Pos /\ room - r \in Nat /\ room - r <= Size
  <2>1. tail' \in Pos
    BY DEF IInv, Types
  <2> QED
    BY <1>2, <1>4, <2>1
<1>12. OooPositions' = Ahead(ooo', tail')
  <2>1. OooPositions' = PositionsOf(ooo')
    BY DEF OooPositions, PositionsOf
  <2> QED
    BY <1>2, <1>11, <2>1, PositionsAre
<1>13. \A k \in Int : Plus(tail', k) = Plus(tail, r + k)
  BY <1>2, <1>4, PlusPlus
<1>14. ASSUME NEW p \in OooPositions' PROVE p \in all \ R!Span(0, r)
  <2>1. PICK j \in 0 .. Size : Covered(ooo', tail', j) /\ p = Plus(tail', j)
    BY <1>12, <1>14 DEF Ahead
  <2>2. 1 <= j /\ j < room - r /\ j \in Int
    <3>1. j \in Int
      BY <1>4
    <3> QED
      BY <1>2, <1>11, <2>1, <3>1, CoveredRange
  <2> DEFINE k == r + j
  <2>3. k \in 0 .. Size /\ k \in Int /\ k >= r /\ k - r = j
    BY <1>4, <2>2
  <2>4. p = Plus(tail, k)
    BY <1>13, <2>1, <2>2
  <2> HIDE DEF k
  <2>5. Covered(ooo, tail, k)
    BY <1>2, <2>1, <2>3
  <2>6. p \in all
    BY <1>5, <2>3, <2>4, <2>5
  <2>7. p \notin R!Span(0, r)
    <3> SUFFICES ASSUME NEW i \in 0 .. r - 1, p = Plus(tail, i) PROVE FALSE
      BY <1>10
    <3>1. i \in 0 .. Size /\ i # k
      BY <1>4, <1>6, <2>3
    <3> QED
      BY <1>4, <2>3, <2>4, <3>1, Distinct
  <2> QED
    BY <2>6, <2>7
<1>15. ASSUME NEW p \in all \ R!Span(0, r) PROVE p \in OooPositions'
  <2>1. PICK k \in 0 .. Size : (Covered(ooo, tail, k) \/ k < n) /\ p = Plus(tail, k)
    BY <1>5, <1>15
  <2>2. ~(k < r)
    <3> SUFFICES ASSUME k < r PROVE FALSE
      OBVIOUS
    <3>1. k \in 0 .. r - 1
      BY <1>4
    <3> QED
      BY <1>10, <1>15, <2>1, <3>1
  <2>3. k \in Int /\ k >= r /\ ~(k < n) /\ k - r \in 0 .. Size /\ k - r \in Int /\ r + (k - r) = k
    BY <1>2, <1>3, <1>4, <2>2
  <2>4. Covered(ooo', tail', k - r)
    BY <1>2, <2>1, <2>3
  <2>5. p = Plus(tail', k - r)
    BY <1>13, <2>1, <2>3
  <2> QED
    BY <1>12, <2>3, <2>4, <2>5 DEF Ahead
<1>16. OooPositions' = all \ R!Span(0, r)
  BY <1>14, <1>15
<1>17. tail' = R!At(tail, r)
  BY <1>2 DEF R!At, Plus
<1>18. R!Fill + 0 + n <= Size
  <2>1. R!Fill = Diff(tail, head)
    BY FillSame
  <2> QED
    BY <1>3, <1>4, <2>1
<1>19. 0 \in 0 .. Size /\ n \in 1 .. Size
  BY <1>3, <1>4
<1>20. head' = head
  BY DEF ProdStore
<1>21. /\ tail' = R!At(tail, R!Run(all))
       /\ OooPositions' = all \ R!Span(0, R!Run(all))
  BY <1>9, <1>16, <1>17
<1> QED
  BY <1>18, <1>19, <1>20, <1>21 DEF R!Arrive, all

\* ProdCopyOoo is an arrival that leaves a gap.
LEMMA OooArrives == IInv /\ ProdCopyOoo => R!Arrive
<1> SUFFICES ASSUME IInv, ProdCopyOoo PROVE R!Arrive
  OBVIOUS
<1> DEFINE x == prod.off
           n == prod.len
           room == Free(head, tail)
           all == OooPositions \cup R!Span(x, n)
<1>1. prod.pc = "copy" /\ x \in Nat /\ n \in Nat /\ n >= 1 /\ x > 0 /\ x + n <= room
  BY DEF IInv, Window, Types, ProdCopyOoo
<1>2. /\ tail \in Pos /\ tail \in Int /\ room \in Nat /\ room <= Size
      /\ room = Size - Diff(tail, head) /\ Diff(tail, head) \in Nat
      /\ Size \in Nat /\ W \in Nat
  BY FillIs, Sizes
<1>3. /\ Canonical(ooo', tail, room) /\ Canonical(ooo, tail, room)
      /\ \A k \in Int : Covered(ooo', tail, k) <=>
           Covered(ooo, tail, k) \/ (x <= k /\ k < x + n)
  BY SegmentsGrow DEF IInv
<1>4. \A p : p \in all <=>
        \E k \in 0 .. Size : /\ Covered(ooo, tail, k) \/ (x <= k /\ k < x + n)
                             /\ p = Plus(tail, k)
  <2>1. x + n <= Free(head, tail)
    BY <1>1
  <2> HIDE DEF x, n
  <2> QED
    BY <1>1, <2>1, AllIs
<1> HIDE DEF x, n, room, all
<1>5. OooPositions' = Ahead(ooo', tail)
  <2>1. OooPositions' = PositionsOf(ooo')
    BY DEF OooPositions, PositionsOf
  <2> QED
    BY <1>2, <1>3, <2>1, PositionsAre
<1>6. \A p : p \in OooPositions' <=>
        \E k \in 0 .. Size : Covered(ooo', tail, k) /\ p = Plus(tail, k)
  BY <1>5 DEF Ahead
<1>7. OooPositions' = all
  <2>1. \A k \in 0 .. Size : Covered(ooo', tail, k) <=>
          Covered(ooo, tail, k) \/ (x <= k /\ k < x + n)
    BY <1>2, <1>3
  <2>2. \A p : p \in OooPositions' <=> p \in all
    BY <1>4, <1>6, <2>1
  <2> QED
    BY <2>2
<1>8. Plus(tail, 0) \notin all
  <2> SUFFICES ASSUME Plus(tail, 0) \in all PROVE FALSE
    OBVIOUS
  <2>1. PICK k \in 0 .. Size : Covered(ooo', tail, k) /\ Plus(tail, 0) = Plus(tail, k)
    BY <1>6, <1>7
  <2>2. 0 \in 0 .. Size /\ k \in Int
    BY <1>2
  <2>3. k = 0
    BY <1>2, <2>1, <2>2, Distinct
  <2>4. 1 <= k
    BY <1>2, <1>3, <2>1, <2>2, CoveredRange
  <2> QED
    BY <2>3, <2>4
<1>9. R!Run(all) = 0
  <2>1. 0 \in Nat /\ 0 <= W /\ \A k \in 0 .. 0 - 1 : Plus(tail, k) \in all
    BY <1>2
  <2> QED
    BY <1>2, <1>8, <2>1, RunIs
<1>10. R!Span(0, 0) = {}
  <2>1. 0 .. 0 + 0 - 1 = {}
    OBVIOUS
  <2> QED
    BY <2>1 DEF R!Span
<1>11. tail' = tail /\ head' = head
  BY DEF ProdCopyOoo
<1>12. tail = R!At(tail, 0)
  BY <1>2, PlusZero DEF R!At, Plus
<1>13. R!Fill + x + n <= Size
  <2>1. R!Fill = Diff(tail, head)
    BY FillSame
  <2> QED
    BY <1>1, <1>2, <2>1
<1>14. x \in 0 .. Size /\ n \in 1 .. Size
  BY <1>1, <1>2
<1>15. /\ tail' = R!At(tail, R!Run(all))
       /\ OooPositions' = all \ R!Span(0, R!Run(all))
  BY <1>7, <1>9, <1>10, <1>11, <1>12
<1> QED
  BY <1>11, <1>13, <1>14, <1>15 DEF R!Arrive, all

\* ConsStore takes what was read, which may be nothing.
LEMMA StoreTakes == IInv /\ ConsStore => R!Take \/ UNCHANGED <<head, tail, OooPositions>>
<1> SUFFICES ASSUME IInv, ConsStore PROVE R!Take \/ UNCHANGED <<head, tail, OooPositions>>
  OBVIOUS
<1> DEFINE m == Diff(cons.end, head)
<1>1. m \in Nat /\ m <= Diff(tail, head) /\ head' = Plus(head, m)
  BY HeadMoves
<1>2. R!Fill = Diff(tail, head) /\ Diff(tail, head) \in Nat /\ head \in Pos
  BY FillSame, FillIs
<1>3. tail' = tail /\ ooo' = ooo
  BY DEF ConsStore, prodVars
<1>4. OooPositions' = OooPositions
  BY <1>3 DEF OooPositions
<1> HIDE DEF m
<1>5. CASE m = 0
  BY <1>1, <1>2, <1>3, <1>4, <1>5, PlusZero
<1>6. CASE m # 0
  <2>1. m \in 1 .. R!Fill
    BY <1>1, <1>2, <1>6
  <2>2. head' = R!At(head, m)
    BY <1>1 DEF R!At, Plus
  <2> QED
    BY <1>3, <1>4, <2>1, <2>2 DEF R!Take
<1> QED
  BY <1>5, <1>6

\* The fifo implements the reassembly window (svm_fifo_enqueue,
\* svm_fifo_enqueue_with_offset, svm_fifo_dequeue): tail moves exactly over what
\* arrived without a gap, nothing that arrived ahead is lost or counted twice,
\* and the reader never passes tail.
THEOREM ImplementsReassembly == Spec => IsReassembly
<1>1. Init => R!Init
  <2> SUFFICES ASSUME Init PROVE R!Init
    OBVIOUS
  <2>1. head = 0 /\ tail = 0 /\ ooo = <<>>
    BY DEF Init
  <2>2. Len(ooo) = 0
    BY <2>1
  <2>3. OooPositions = {}
    BY <2>2 DEF OooPositions
  <2> QED
    BY <2>1, <2>3 DEF R!Init
<1>2. IInv /\ IInv' /\ [Next]_vars => [R!Next]_<<head, tail, OooPositions>>
  <2> SUFFICES ASSUME IInv, IInv', [Next]_vars
               PROVE  [R!Next]_<<head, tail, OooPositions>>
    OBVIOUS
  <2>1. CASE ProdStore
    BY <2>1, StoreArrives DEF R!Next
  <2>2. CASE ProdCopyOoo
    BY <2>2, OooArrives DEF R!Next
  <2>3. CASE ConsStore
    BY <2>3, StoreTakes DEF R!Next
  <2>4. CASE ~(ProdStore \/ ProdCopyOoo \/ ConsStore)
    <3>1. UNCHANGED <<head, tail, ooo>>
      BY <2>4 DEF Next, vars, setup, shared, prodVars, consVars, ProdLoad, ProdAlloc,
         ProdGrowFails, ProdLink, ProdCopy, ConsLoad, ConsDequeue, ConsSegments,
         ConsPeek, ConsDropAll, ConsUnlink, ConsCollect
    <3> QED
      BY <3>1 DEF OooPositions
  <2> QED
    BY <2>1, <2>2, <2>3, <2>4
<1> QED
  BY <1>1, <1>2, Invariance, PTL DEF Spec, IsReassembly, R!Spec
=============================================================================
