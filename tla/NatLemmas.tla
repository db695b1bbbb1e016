----------------------------- MODULE NatLemmas -----------------------------
(***************************************************************************)
(* Facts about natural numbers that the proofs of several modules use: the *)
(* least element of a set, and remainders.                                 *)
(***************************************************************************)
EXTENDS Integers, FiniteSetsExt, WellFoundedInduction, TLAPS

\* A non-empty set of naturals has a least element, and Min is it.
LEMMA MinIn ==
  ASSUME NEW S, S \subseteq Nat, S # {}
  PROVE  Min(S) \in S /\ \A y \in S : Min(S) <= y
<1>1. PICK x \in S : \A y \in S : <<y, x>> \notin OpToRel(<, Nat)
  BY NatLessThanWellFounded, WFMin, Zenon
<1>2. ASSUME NEW y \in S PROVE ~(y < x)
  <2>1. y \in Nat /\ x \in Nat
    OBVIOUS
  <2>2. <<y, x>> \in Nat \X Nat /\ <<y, x>>[1] = y /\ <<y, x>>[2] = x
    BY <2>1
  <2>3. <<y, x>>[1] < <<y, x>>[2] => <<y, x>> \in OpToRel(<, Nat)
    BY <2>2, Zenon DEF OpToRel
  <2> QED
    BY <1>1, <2>2, <2>3, Zenon
<1>3. \A y \in S : x <= y
  BY <1>2
<1> QED
  BY <1>3 DEF Min

\* The quotient and the remainder.
LEMMA Division ==
  ASSUME NEW n \in Nat, n > 0, NEW a \in Nat
  PROVE  /\ a = (a \div n) * n + (a % n)
         /\ a \div n \in Int /\ a % n \in 0 .. n - 1
<1>1. a = (a \div n) * n + (a % n)
  BY Z3
<1>2. a \div n \in Int
  BY Z3
<1>3. a % n \in 0 .. n - 1
  OBVIOUS
<1> QED
  BY <1>1, <1>2, <1>3

\* Numbers less than n apart have different remainders ...
LEMMA ModDistinct ==
  ASSUME NEW n \in Nat, n > 0, NEW a \in Nat, NEW b \in Nat, a < b, b < a + n
  PROVE  a % n # b % n
<1> SUFFICES ASSUME a % n = b % n PROVE FALSE
  OBVIOUS
<1>1. PICK p \in Int, q \in Int, r \in 0 .. n - 1 : a = p * n + r /\ b = q * n + r
  BY Division
<1>2. b - a = (q - p) * n
  BY <1>1
<1>3. CASE q - p >= 1
  <2>1. (q - p) * n >= n
    BY <1>3
  <2> QED
    BY <1>2, <2>1
<1>4. CASE q - p <= 0
  <2>1. (q - p) * n <= 0
    BY <1>4
  <2> QED
    BY <1>2, <2>1
<1> QED
  BY <1>3, <1>4

\* ... and numbers n apart have the same one.
LEMMA ModWrap ==
  ASSUME NEW n \in Nat, n > 0, NEW a \in Nat
  PROVE  (a + n) % n = a % n
<1>1. PICK p \in Int, r \in 0 .. n - 1 : a = p * n + r /\ a % n = r
  BY Division
<1>2. PICK q \in Int, s \in 0 .. n - 1 : a + n = q * n + s /\ (a + n) % n = s
  BY Division
<1>3. (p + 1) * n + r = q * n + s
  BY <1>1, <1>2
<1>4. (q - (p + 1)) * n = r - s
  BY <1>3
<1>5. CASE q - (p + 1) >= 1
  <2>1. (q - (p + 1)) * n >= n
    BY <1>5
  <2> QED
    BY <1>4, <2>1
<1>6. CASE q - (p + 1) <= -1
  <2>1. (q - (p + 1)) * n <= -n
    BY <1>6
  <2> QED
    BY <1>4, <2>1
<1>7. CASE q - (p + 1) = 0
  BY <1>1, <1>2, <1>4, <1>7
<1> QED
  BY <1>5, <1>6, <1>7

\* Below twice the modulus, % subtracts it at most once.
LEMMA ModSmall ==
  ASSUME NEW n \in Nat, n > 0, NEW a \in 0 .. 2 * n - 1
  PROVE  a % n = IF a < n THEN a ELSE a - n
<1>1. PICK q \in Int, r \in 0 .. n - 1 : a = q * n + r /\ a % n = r
  BY Division
<1>2. CASE a < n
  <2>1. q < 1
    <3> SUFFICES ASSUME q >= 1 PROVE FALSE
      OBVIOUS
    <3>1. q * n >= n
      BY Z3
    <3> QED
      BY <1>1, <1>2, <3>1
  <2>2. q > -1
    <3> SUFFICES ASSUME q <= -1 PROVE FALSE
      OBVIOUS
    <3>1. q * n <= -n
      BY Z3
    <3> QED
      BY <1>1, <3>1
  <2>3. q = 0
    BY <2>1, <2>2
  <2> QED
    BY <1>1, <1>2, <2>3
<1>3. CASE a >= n
  <2>1. q > 0
    <3> SUFFICES ASSUME q <= 0 PROVE FALSE
      OBVIOUS
    <3>1. q * n <= 0
      BY Z3
    <3> QED
      BY <1>1, <1>3, <3>1
  <2>2. q < 2
    <3> SUFFICES ASSUME q >= 2 PROVE FALSE
      OBVIOUS
    <3>1. q * n >= 2 * n
      BY Z3
    <3> QED
      BY <1>1, <3>1
  <2>3. q = 1
    BY <2>1, <2>2
  <2> QED
    BY <1>1, <1>3, <2>3
<1> QED
  BY <1>2, <1>3
=============================================================================
