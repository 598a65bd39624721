----------------------------- MODULE NaturalLemmas -----------------------------
(* Facts about natural numbers that the proofs of several components cite. *)
EXTENDS Integers, FiniteSets, FiniteSetTheorems, WellFoundedInduction, TLAPS

\* A set of numbers that is not empty has a least one: the one with the fewest
\* others below it.
LEMMA Least ==
    ASSUME NEW S, S \subseteq Nat, S # {}
    PROVE  \E i \in S : \A j \in S : i <= j
<1>. DEFINE below(i) == {j \in S : j < i}
            all == {below(i) : i \in S}
<1>1. all \subseteq FiniteSubsetsOf(S)
  <2>. SUFFICES ASSUME NEW i \in S PROVE IsFiniteSet(below(i))
    BY DEF FiniteSubsetsOf
  <2>1. i \in Nat /\ \A j \in S : j \in Nat
    OBVIOUS
  <2>2. below(i) \in SUBSET Nat
    BY <2>1
  <2>3. \A j \in below(i) : j <= i
    BY <2>1
  <2>. HIDE DEF below
  <2>. QED  BY <2>1, <2>2, <2>3, FS_BoundedSetOfNaturals
<1>2. all # {}
  OBVIOUS
<1>3. PICK T \in all : \A U \in all : <<U, T>> \notin StrictSubsetOrdering(S)
  <2>. HIDE DEF all
  <2>. QED  BY <1>1, <1>2, FS_StrictSubsetOrderingWellFounded, WFMin
<1>4. PICK i \in S : T = below(i)
  OBVIOUS
<1>5. ASSUME NEW j \in S, j < i PROVE FALSE
  <2>1. below(j) \in all /\ j \in below(i) /\ j \notin below(j)
    BY <1>5
  <2>2. below(j) \subseteq below(i)
    <3>1. ASSUME NEW k \in S, k < j PROVE k < i
      BY <1>5, <3>1
    <3>. QED  BY <3>1
  <2>3. <<below(j), T>> \in StrictSubsetOrdering(S)
    BY <1>4, <2>1, <2>2 DEF StrictSubsetOrdering
  <2>. QED  BY <1>3, <2>1, <2>3
<1>. QED  BY <1>5

\* And one that is bounded has a greatest: the least, counted down from the bound.
LEMMA Greatest ==
    ASSUME NEW n \in Nat, NEW S, S \subseteq 0..n, S # {}
    PROVE  \E i \in S : \A j \in S : j <= i
<1>. DEFINE down == {n - i : i \in S}
<1>1. down \subseteq Nat /\ down # {}
  <2>1. \A i \in S : i \in 0..n
    OBVIOUS
  <2>2. \A i \in S : n - i \in Nat
    BY <2>1
  <2>. QED  BY <2>2
<1>2. PICK d \in down : \A e \in down : d <= e
  <2>. HIDE DEF down
  <2>. QED  BY <1>1, Least
<1>3. PICK i \in S : d = n - i
  OBVIOUS
<1>4. ASSUME NEW j \in S PROVE j <= i
  <2>1. n - j \in down
    OBVIOUS
  <2>. QED  BY <1>2, <1>3, <2>1
<1>. QED  BY <1>4

\* The quotient and the remainder of a division make up the number.
LEMMA Division ==
    ASSUME NEW n \in Nat \ {0}, NEW c \in Nat
    PROVE  /\ \E q \in Int : c = n * q + (c % n)
           /\ c % n \in 0..(n - 1)
<1>1. n > 0
  OBVIOUS
<1>2. c \div n \in Int
  BY <1>1
<1>3. c = n * (c \div n) + (c % n)
  BY <1>1, SMTT(20)
<1>4. c % n \in 0..(n - 1)
  BY <1>1
<1>. QED  BY <1>2, <1>3, <1>4

\* Where a counter modulo n is not back at 0 it moved up by one.
LEMMA Cadence ==
    ASSUME NEW n \in Nat \ {0}, NEW c \in Nat
    PROVE  (c + 1) % n # 0 => (c + 1) % n = (c % n) + 1
<1>1. PICK q \in Int : c = n * q + (c % n)
  BY Division
<1>2. c + 1 \in Nat
  OBVIOUS
<1>3. PICK p \in Int : c + 1 = n * p + ((c + 1) % n)
  BY <1>2, Division
<1>4. PICK r \in 0..(n - 1), u \in 0..(n - 1) : r = c % n /\ u = (c + 1) % n
  BY <1>2, Division
<1>5. PICK d \in Int : d = p - q
  OBVIOUS
<1>6. n * p = n * q + n * d /\ n * d \in Int /\ n * p \in Int /\ n * q \in Int
  BY <1>5
<1>7. n * d = 1 + r - u
  <2>1. c = n * q + r /\ c + 1 = n * p + u
    BY <1>1, <1>3, <1>4
  <2>. QED  BY <1>6, <2>1
<1>8. CASE d >= 1
  <2>1. n * d >= n
    BY <1>8
  <2>2. u = 0
    BY <1>7, <2>1
  <2>. QED  BY <1>4, <2>2
<1>9. CASE d <= -1
  <2>1. n * d <= -n
    BY <1>9
  <2>2. FALSE
    BY <1>7, <2>1
  <2>. QED  BY <2>2
<1>10. CASE d = 0
  <2>1. n * d = 0
    BY <1>10
  <2>2. u = r + 1
    BY <1>7, <2>1
  <2>. QED  BY <1>4, <2>2
<1>. QED  BY <1>8, <1>9, <1>10
=============================================================================
