---------------------------- MODULE NodeApiProofs ----------------------------
(***************************************************************************)
(* Proofs about NodeApi, for every checkout, registry, caller and chain:   *)
(* the two transports agree, and what a client that pages through a chain  *)
(* others write to may miss or see twice.                                  *)
(***************************************************************************)
EXTENDS NodeApi, NaturalLemmas, FiniteSetTheorems, FunctionTheorems, TLAPS

-----------------------------------------------------------------------------
(* Ranks *)

\* Files no two of which share a name.
Distinct(S) == S \subseteq Files /\ \A f, g \in S : f.name = g.name => f = g

LEMMA DistinctSubset == ASSUME NEW S, Distinct(S), NEW T, T \subseteq S PROVE Distinct(T)
BY DEF Distinct

\* Names are bounded, so such files are finitely many.
LEMMA DistinctFinite ==
    ASSUME NEW S, Distinct(S)
    PROVE  IsFiniteSet(S) /\ Cardinality(S) \in Nat
<1> DEFINE name == [f \in S |-> f.name]
<1>1. name \in Injection(S, 1..MaxName)
  BY DEF Distinct, Files, Injection, IsInjective
<1>2. MaxName \in Int
  BY BoundsAssumption
<1>3. IsFiniteSet(1..MaxName)
  BY <1>2, FS_Interval
<1> HIDE DEF name
<1>4. IsFiniteSet(S)
  BY <1>1, <1>3, FS_Injection
<1> QED
  BY <1>4, FS_CardinalityType

\* The rank of a file lies below the number of files.
LEMMA RankType ==
    ASSUME NEW S, Distinct(S), NEW f
    PROVE  /\ Rank(S, f) \in Nat
           /\ f \in S => Rank(S, f) < Cardinality(S)
<1> DEFINE below == {g \in S : g.name < f.name}
<1>1. IsFiniteSet(S) /\ Cardinality(S) \in Nat
  BY DistinctFinite
<1>2. IsFiniteSet(below) /\ Cardinality(below) <= Cardinality(S) /\ Cardinality(below) \in Nat
      /\ (Cardinality(S) = Cardinality(below) => S = below)
  BY <1>1, FS_Subset, FS_CardinalityType
<1>3. f \in S => f \notin below
  BY DEF Distinct, Files
<1> QED
  BY <1>1, <1>2, <1>3 DEF Rank

\* Ranks are in the order of the names.
LEMMA RankOrder ==
    ASSUME NEW S, Distinct(S), NEW f \in S, NEW g \in S
    PROVE  /\ f.name < g.name <=> Rank(S, f) < Rank(S, g)
           /\ Rank(S, f) = Rank(S, g) => f = g
<1>1. \A h \in S : h.name \in Nat
  BY BoundsAssumption DEF Distinct, Files
<1>2. ASSUME NEW a \in S, NEW b \in S, a.name < b.name
      PROVE  Rank(S, a) < Rank(S, b)
  <2> DEFINE A == {h \in S : h.name < a.name}
             B == {h \in S : h.name < b.name}
  <2>1. A \subseteq B /\ a \in B /\ a \notin A /\ B \subseteq S
    BY <1>1, <1>2
  <2>2. IsFiniteSet(B)
    BY <2>1, DistinctFinite, FS_Subset
  <2>3. /\ Cardinality(A) <= Cardinality(B) /\ Cardinality(A) # Cardinality(B)
        /\ IsFiniteSet(A)
    BY <2>1, <2>2, FS_Subset
  <2>4. Cardinality(A) \in Nat /\ Cardinality(B) \in Nat
    BY <2>2, <2>3, FS_CardinalityType
  <2> QED
    BY <2>3, <2>4 DEF Rank
<1>3. Rank(S, f) \in Nat /\ Rank(S, g) \in Nat
  BY RankType
<1>4. f.name < g.name \/ g.name < f.name \/ f = g
  BY <1>1 DEF Distinct
<1>5. f.name < g.name => Rank(S, f) < Rank(S, g)
  BY <1>2
<1>6. g.name < f.name => Rank(S, g) < Rank(S, f)
  BY <1>2
<1> QED
  BY <1>1, <1>3, <1>4, <1>5, <1>6

\* So many numbers lie below a number.
LEMMA NumbersBelow ==
    ASSUME NEW n \in Nat
    PROVE  IsFiniteSet(0..(n - 1)) /\ Cardinality(0..(n - 1)) = n
<1>1. 0 \in Int /\ n - 1 \in Int
  OBVIOUS
<1>2. /\ IsFiniteSet(0..(n - 1))
      /\ Cardinality(0..(n - 1)) = IF 0 > n - 1 THEN 0 ELSE (n - 1) - 0 + 1
  BY <1>1, FS_Interval
<1> QED
  BY <1>2

\* Every number below the number of files is the rank of one.
LEMMA RankOnto ==
    ASSUME NEW S, Distinct(S), NEW k \in Nat, k < Cardinality(S)
    PROVE  \E f \in S : Rank(S, f) = k
<1> DEFINE n == Cardinality(S)
           rank == [f \in S |-> Rank(S, f)]
<1>1. IsFiniteSet(S) /\ n \in Nat
  BY DistinctFinite
<1>2. \A f \in S : Rank(S, f) \in 0..(n - 1)
  BY <1>1, RankType
<1>3. rank \in Injection(S, 0..(n - 1))
  BY <1>2, RankOrder DEF Injection, IsInjective
<1>4. IsFiniteSet(0..(n - 1)) /\ Cardinality(0..(n - 1)) = n
  <2> HIDE DEF n
  <2> QED
    BY <1>1, NumbersBelow
<1> HIDE DEF rank
<1>5. rank \in Surjection(S, 0..(n - 1))
  BY <1>3, <1>4, FS_Injection
<1>6. \E f \in S : rank[f] = k
  BY <1>1, <1>5 DEF Surjection
<1> QED
  BY <1>6 DEF rank

\* Among more files a file's rank is no lower.
LEMMA RankGrows ==
    ASSUME NEW C, Distinct(C), NEW L, L \subseteq C, NEW f
    PROVE  Rank(L, f) <= Rank(C, f)
<1> DEFINE A == {g \in L : g.name < f.name}
           B == {g \in C : g.name < f.name}
<1>1. IsFiniteSet(B)
  BY DistinctFinite, FS_Subset
<1>2. Cardinality(A) <= Cardinality(B)
  BY <1>1, FS_Subset
<1> QED
  BY <1>2 DEF Rank

-----------------------------------------------------------------------------
(* What lies behind a sequence number and what ahead *)

Behind(S, s) == {f \in S : Rank(S, f) <= s}
Ahead(S, s) == {f \in S : Rank(S, f) > s}

\* So many files lie behind a sequence number: all, or one more than the number.
LEMMA BehindCount ==
    ASSUME NEW S, Distinct(S), NEW s \in Int, s >= -1
    PROVE  Cardinality(Behind(S, s)) =
               IF Cardinality(S) <= s + 1 THEN Cardinality(S) ELSE s + 1
<1> DEFINE n == Cardinality(S)
           m == IF n <= s + 1 THEN n ELSE s + 1
           rank == [f \in Behind(S, s) |-> Rank(S, f)]
<1>1. n \in Nat /\ m \in Nat
  BY DistinctFinite
<1>2. \A f \in S : Rank(S, f) \in 0..(n - 1)
  BY <1>1, RankType
<1>3. rank \in Injection(Behind(S, s), 0..(m - 1))
  <2>1. \A f \in Behind(S, s) : Rank(S, f) \in 0..(m - 1)
    BY <1>1, <1>2 DEF Behind
  <2>2. \A f, g \in Behind(S, s) : Rank(S, f) = Rank(S, g) => f = g
    BY RankOrder DEF Behind
  <2> QED
    BY <2>1, <2>2 DEF Injection, IsInjective
<1>4. IsFiniteSet(0..(m - 1)) /\ Cardinality(0..(m - 1)) = m
  <2> HIDE DEF m
  <2> QED
    BY <1>1, NumbersBelow
<1>5. rank \in Surjection(Behind(S, s), 0..(m - 1))
  <2>1. ASSUME NEW k \in 0..(m - 1)
        PROVE  \E f \in Behind(S, s) : Rank(S, f) = k
    <3>1. k \in Nat /\ k < Cardinality(S) /\ k <= s
      BY <1>1, <2>1
    <3>2. PICK f \in S : Rank(S, f) = k
      BY <3>1, RankOnto
    <3> QED
      BY <3>1, <3>2 DEF Behind
  <2> HIDE DEF m
  <2>2. rank \in [Behind(S, s) -> 0..(m - 1)]
    BY <1>3 DEF Injection
  <2> QED
    BY <2>1, <2>2 DEF Surjection
<1> HIDE DEF rank, m
<1>6. Cardinality(Behind(S, s)) = m
  BY <1>3, <1>4, <1>5, FS_Injection
<1> QED
  BY <1>6 DEF m

\* Files among more files: as many fall behind, at the most, as others have been put
\* before them.
LEMMA Exchange ==
    ASSUME NEW C, Distinct(C), NEW L, L \subseteq C, NEW s \in Int, s >= -1
    PROVE  /\ Behind(C, s) \cap L \subseteq Behind(L, s)
           /\ IsFiniteSet(Behind(L, s) \ Behind(C, s)) /\ IsFiniteSet(Behind(C, s) \ L)
           /\ Cardinality(Behind(L, s) \ Behind(C, s)) <= Cardinality(Behind(C, s) \ L)
<1> DEFINE A == Behind(L, s)
           B == Behind(C, s)
<1>1. Distinct(L) /\ IsFiniteSet(C) /\ IsFiniteSet(L)
  BY DistinctSubset, DistinctFinite
<1>2. A \subseteq L /\ B \subseteq C
  BY DEF Behind
<1>3. B \cap L \subseteq A
  <2> SUFFICES ASSUME NEW f \in B \cap L
               PROVE  Rank(L, f) <= s
    BY DEF Behind
  <2>1. Rank(L, f) <= Rank(C, f) /\ Rank(C, f) <= s
    BY RankGrows DEF Behind
  <2>2. Rank(L, f) \in Nat /\ Rank(C, f) \in Nat
    BY <1>1, RankType
  <2> QED
    BY <2>1, <2>2
<1>4. /\ IsFiniteSet(A) /\ IsFiniteSet(B) /\ IsFiniteSet(B \ L)
      /\ IsFiniteSet(A \ B) /\ IsFiniteSet(B \ A)
  BY <1>1, <1>2, FS_Subset
<1>5. Cardinality(A) <= Cardinality(B)
  <2>1. Cardinality(L) <= Cardinality(C) /\ Cardinality(L) \in Nat /\ Cardinality(C) \in Nat
    BY <1>1, FS_Subset, FS_CardinalityType
  <2> QED
    BY <1>1, <2>1, BehindCount
<1>6. /\ Cardinality(A \ B) = Cardinality(A) - Cardinality(A \cap B)
      /\ Cardinality(B \ A) = Cardinality(B) - Cardinality(A \cap B)
  <2>1. A \cap B = B \cap A
    OBVIOUS
  <2> HIDE DEF A, B
  <2> QED
    BY <1>4, <2>1, FS_Difference
<1>7. /\ Cardinality(A) \in Nat /\ Cardinality(B) \in Nat /\ Cardinality(A \cap B) \in Nat
      /\ Cardinality(B \ L) \in Nat /\ Cardinality(B \ A) \in Nat
  BY <1>4, FS_Subset, FS_CardinalityType
<1>8. Cardinality(B \ A) <= Cardinality(B \ L)
  <2>1. B \ A \subseteq B \ L
    BY <1>3
  <2> HIDE DEF A, B
  <2> QED
    BY <1>4, <2>1, FS_Subset
<1>9. Cardinality(A \ B) <= Cardinality(B \ L)
  BY <1>5, <1>6, <1>7, <1>8
<1> QED
  BY <1>3, <1>4, <1>9

-----------------------------------------------------------------------------
(* What a change of the directory does to a client at a sequence number *)

\* Wanted cylinders the client will not be given: it has not got them, and they are gone
\* or behind.
Owed(want, got, S, s) == want \ (got \cup Ahead(S, s))

\* Files put among others after these were listed, below one of them or where the client
\* has been.
Late(C, L, got) == {f \in C \ L : f \in got \/ \E g \in L : f.name < g.name}

\* Two sets together are no larger than their sizes together.
LEMMA UnionBound ==
    ASSUME NEW A, NEW B, IsFiniteSet(A), IsFiniteSet(B), NEW T, T \subseteq A \cup B
    PROVE  /\ IsFiniteSet(T)
           /\ Cardinality(T) <= Cardinality(A) + Cardinality(B)
           /\ Cardinality(T) \in Nat /\ Cardinality(A) \in Nat /\ Cardinality(B) \in Nat
<1>1. /\ IsFiniteSet(A \cup B)
      /\ Cardinality(A \cup B) = Cardinality(A) + Cardinality(B) - Cardinality(A \cap B)
      /\ IsFiniteSet(A \cap B)
  BY FS_Union, FS_Intersection
<1>2. IsFiniteSet(T) /\ Cardinality(T) <= Cardinality(A \cup B)
  BY <1>1, FS_Subset
<1>3. /\ Cardinality(T) \in Nat /\ Cardinality(A) \in Nat /\ Cardinality(B) \in Nat
      /\ Cardinality(A \cap B) \in Nat
  BY <1>1, <1>2, FS_CardinalityType
<1> QED
  BY <1>1, <1>2, <1>3

\* Two sets together are as large as their sizes together, but for what they share.
LEMMA Overlap ==
    ASSUME NEW A, NEW B, IsFiniteSet(A), IsFiniteSet(B)
    PROVE  /\ IsFiniteSet(A \cup B) /\ Cardinality(A \cup B) \in Nat
           /\ Cardinality(A \cup B) = Cardinality(A) + Cardinality(B) - Cardinality(B \cap A)
           /\ Cardinality(B \cap A) \in Nat /\ Cardinality(B) \in Nat
           /\ Cardinality(B \cap A) <= Cardinality(B)
<1>1. IsFiniteSet(A \cup B) /\ IsFiniteSet(B \cap A)
  BY FS_Union, FS_Intersection
<1>2. Cardinality(A \cup B) = Cardinality(A) + Cardinality(B) - Cardinality(A \cap B)
  BY FS_Union
<1>3. A \cap B = B \cap A
  OBVIOUS
<1>4. Cardinality(B \cap A) <= Cardinality(B)
  BY FS_Subset, B \cap A \subseteq B
<1>5. /\ Cardinality(A \cup B) \in Nat /\ Cardinality(B \cap A) \in Nat
      /\ Cardinality(B) \in Nat
  BY <1>1, FS_CardinalityType
<1> QED
  BY <1>1, <1>2, <1>3, <1>4, <1>5

\* Two sets apart are together as large as their sizes together.
LEMMA DisjointSum ==
    ASSUME NEW A, NEW B, NEW T, IsFiniteSet(T), A \subseteq T, B \subseteq T, A \cap B = {}
    PROVE  /\ Cardinality(A) + Cardinality(B) <= Cardinality(T)
           /\ Cardinality(T) \in Nat /\ Cardinality(A) \in Nat /\ Cardinality(B) \in Nat
<1>1. IsFiniteSet(A) /\ IsFiniteSet(B)
  BY FS_Subset
<1>2. Cardinality(A \cup B) = Cardinality(A) + Cardinality(B) /\ IsFiniteSet(A \cup B)
  <2>1. Cardinality(A) \in Nat /\ Cardinality(B) \in Nat
    BY <1>1, FS_CardinalityType
  <2>2. Cardinality(A \cap B) = 0
    BY FS_EmptySet
  <2> QED
    BY <1>1, <2>1, <2>2, FS_Union
<1>3. Cardinality(A \cup B) <= Cardinality(T)
  BY FS_Subset, A \cup B \subseteq T
<1> QED
  BY <1>1, <1>2, <1>3, FS_CardinalityType

\* More files only push files ahead.
LEMMA AheadGrows ==
    ASSUME NEW C, Distinct(C), NEW L, L \subseteq C, NEW s \in Int
    PROVE  Ahead(L, s) \subseteq Ahead(C, s)
<1>1. Distinct(L)
  BY DistinctSubset
<1> SUFFICES ASSUME NEW f \in L, Rank(L, f) > s
             PROVE  f \in Ahead(C, s)
  BY DEF Ahead
<1>2. Rank(L, f) \in Nat /\ Rank(C, f) \in Nat /\ Rank(L, f) <= Rank(C, f)
  BY <1>1, RankType, RankGrows
<1> QED
  BY <1>2 DEF Ahead

\* Of what a client has got, no more comes to lie ahead than was put late.
LEMMA Newcomers ==
    ASSUME NEW C, Distinct(C), NEW L, L \subseteq C, NEW s \in Int, s >= -1,
           NEW got, NEW had, \A f \in got \ L : f \in had
    PROVE  /\ IsFiniteSet(Late(C, L, had))
           /\ IsFiniteSet(got \cap (Ahead(C, s) \ Ahead(L, s)))
           /\ Cardinality(got \cap (Ahead(C, s) \ Ahead(L, s))) <= Cardinality(Late(C, L, had))
<1> DEFINE N == got \cap (Ahead(C, s) \ Ahead(L, s))
           P == Behind(L, s) \ Behind(C, s)
           Q == Behind(C, s) \ L
           R == (had \cap (C \ L)) \ Behind(C, s)
           T == Late(C, L, had)
<1>1. IsFiniteSet(C) /\ Distinct(L)
  BY DistinctFinite, DistinctSubset
<1>2. IsFiniteSet(T) /\ R \subseteq T /\ T \subseteq C
  <2>1. R \subseteq T /\ T \subseteq C
    BY DEF Late
  <2> QED
    BY <1>1, <2>1, FS_Subset
<1>3. N \subseteq P \cup R
  <2> SUFFICES ASSUME NEW f \in N
               PROVE  f \in P \cup R
    OBVIOUS
  <2>1. f \in got /\ f \in C /\ Rank(C, f) > s /\ (f \in L => ~(Rank(L, f) > s))
    BY DEF Ahead
  <2>2. Rank(C, f) \in Nat /\ Rank(L, f) \in Nat
    BY <1>1, RankType
  <2>3. f \notin Behind(C, s)
    BY <2>1, <2>2 DEF Behind
  <2>4. CASE f \in L
    BY <2>1, <2>2, <2>3, <2>4 DEF Behind
  <2>5. CASE f \notin L
    BY <2>1, <2>3, <2>5
  <2> QED
    BY <2>4, <2>5
<1>4. IsFiniteSet(P) /\ IsFiniteSet(Q) /\ Cardinality(P) <= Cardinality(Q)
  BY Exchange
<1>5. IsFiniteSet(R)
  BY <1>2, FS_Subset
<1>6. Cardinality(P) + Cardinality(R) <= Cardinality(T)
  <2>1. CASE P = {}
    <3>1. Cardinality(P) = 0 /\ Cardinality(R) \in Nat /\ Cardinality(R) <= Cardinality(T)
      BY <1>2, <1>5, <2>1, FS_EmptySet, FS_Subset, FS_CardinalityType
    <3> QED
      BY <3>1
  <2>2. CASE P # {}
    <3>1. PICK f \in L : Rank(L, f) <= s /\ f \in C /\ f \notin Behind(C, s)
      BY <2>2 DEF Behind
    <3>2. Rank(C, f) \in Nat
      BY RankType
    <3>3. Rank(C, f) > s
      BY <3>1, <3>2 DEF Behind
    <3>4. Q \subseteq T
      <4> SUFFICES ASSUME NEW h \in C, Rank(C, h) <= s, h \notin L
                   PROVE  h \in T
        BY DEF Behind
      <4>1. Rank(C, h) \in Nat /\ Rank(C, h) < Rank(C, f)
        BY <3>2, <3>3, RankType
      <4>2. h.name < f.name
        BY <3>1, <4>1, RankOrder
      <4> QED
        BY <4>2 DEF Late
    <3>5. Q \cap R = {}
      OBVIOUS
    <3>6. /\ Cardinality(Q) + Cardinality(R) <= Cardinality(T)
          /\ Cardinality(T) \in Nat /\ Cardinality(Q) \in Nat /\ Cardinality(R) \in Nat
      <4> HIDE DEF Q, R, T
      <4> QED
        BY <1>2, <3>4, <3>5, DisjointSum
    <3>7. Cardinality(P) \in Nat
      BY <1>4, FS_CardinalityType
    <3> QED
      BY <1>4, <3>6, <3>7
  <2> QED
    BY <2>1, <2>2
<1>7. /\ IsFiniteSet(N) /\ Cardinality(N) <= Cardinality(P) + Cardinality(R)
      /\ Cardinality(N) \in Nat /\ Cardinality(P) \in Nat /\ Cardinality(R) \in Nat
  <2> HIDE DEF N, P, R
  <2> QED
    BY <1>3, <1>4, <1>5, UnionBound
<1>8. Cardinality(T) \in Nat
  BY <1>2, FS_CardinalityType
<1>9. Cardinality(N) <= Cardinality(T)
  BY <1>6, <1>7, <1>8
<1> QED
  BY <1>2, <1>7, <1>9

\* A page taken in from a listing whose files are all still there: nothing more is owed,
\* and what lies ahead a second time, with what the page repeated, was ahead before or
\* put late.
LEMMA PageTurn ==
    ASSUME NEW C, Distinct(C), NEW L, L \subseteq C,
           NEW s \in Int, s >= -1, NEW t \in Int, s <= t,
           NEW got, IsFiniteSet(got), NEW want, NEW F, F \subseteq Ahead(L, s),
           F \subseteq Behind(L, t),
           \A f \in want : f \in Ahead(L, s) \cap Behind(L, t) => f \in F
    PROVE  /\ Owed(want, got \cup F, C, t) \subseteq Owed(want, got, L, s)
           /\ Cardinality((got \cup F) \cap Ahead(C, t)) + Cardinality(F \cap got)
                  <= Cardinality(got \cap Ahead(L, s)) + Cardinality(Late(C, L, got))
<1>1. Distinct(L)
  BY DistinctSubset
<1>2. \A f : Rank(L, f) \in Nat /\ Rank(C, f) \in Nat /\ Rank(L, f) <= Rank(C, f)
  BY <1>1, RankType, RankGrows
<1>3. Owed(want, got \cup F, C, t) \subseteq Owed(want, got, L, s)
  <2> SUFFICES ASSUME NEW f \in want, f \notin got, f \notin F, f \notin Ahead(C, t),
                      f \in Ahead(L, s)
               PROVE  FALSE
    BY DEF Owed
  <2>1. f \in L /\ Rank(L, f) <= t
    BY <1>2 DEF Ahead
  <2> QED
    BY <2>1 DEF Behind
<1> DEFINE M == (got \cup F) \cap Ahead(C, t)
           N == (got \cup F) \cap (Ahead(C, t) \ Ahead(L, t))
           O == got \cap Ahead(L, t)
           P == F \cap got
           T == got \cap Ahead(L, s)
<1>4. IsFiniteSet(N) /\ IsFiniteSet(Late(C, L, got)) /\ Cardinality(N) <= Cardinality(Late(C, L, got))
  <2>1. t >= -1
    OBVIOUS
  <2>2. \A f \in (got \cup F) \ L : f \in got
    BY DEF Ahead
  <2> QED
    BY <2>1, <2>2, Newcomers
<1>5. F \cap Ahead(L, t) = {}
  <2> SUFFICES ASSUME NEW f \in F, f \in Ahead(L, t)
               PROVE  FALSE
    OBVIOUS
  <2>1. Rank(L, f) > t /\ Rank(L, f) <= t
    BY DEF Ahead, Behind
  <2> QED
    BY <1>2, <2>1
<1>6. M \subseteq N \cup O
  BY <1>5
<1>7. O \subseteq T /\ P \subseteq T /\ O \cap P = {}
  <2>1. Ahead(L, t) \subseteq Ahead(L, s)
    BY <1>2 DEF Ahead
  <2> QED
    BY <1>5, <2>1
<1>8. IsFiniteSet(T) /\ IsFiniteSet(O)
  BY FS_Subset
<1>9. /\ Cardinality(O) + Cardinality(P) <= Cardinality(T)
      /\ Cardinality(T) \in Nat /\ Cardinality(O) \in Nat /\ Cardinality(P) \in Nat
  <2> HIDE DEF O, P, T
  <2> QED
    BY <1>7, <1>8, DisjointSum
<1>10. /\ Cardinality(M) <= Cardinality(N) + Cardinality(O)
       /\ Cardinality(M) \in Nat /\ Cardinality(N) \in Nat
  <2> HIDE DEF M, N, O
  <2> QED
    BY <1>4, <1>6, <1>8, UnionBound
<1>11. Cardinality(Late(C, L, got)) \in Nat
  BY <1>4, FS_CardinalityType
<1>12. Cardinality(M) + Cardinality(P) <= Cardinality(T) + Cardinality(Late(C, L, got))
  BY <1>4, <1>9, <1>10, <1>11
<1> QED
  BY <1>3, <1>12

\* A file more: nothing more is owed, and one file more lies ahead a second time, unless
\* the new one is above all and new to the client.
LEMMA Inserted ==
    ASSUME NEW C, NEW f, Distinct(C \cup {f}), NEW s \in Int, s >= -1,
           NEW got, IsFiniteSet(got), NEW want
    PROVE  /\ Owed(want, got, C \cup {f}, s) \subseteq Owed(want, got, C, s)
           /\ Cardinality(got \cap Ahead(C \cup {f}, s)) <= Cardinality(got \cap Ahead(C, s)) + 1
           /\ f \notin got /\ (\A g \in C : g.name < f.name) =>
                  Cardinality(got \cap Ahead(C \cup {f}, s)) <= Cardinality(got \cap Ahead(C, s))
<1> DEFINE D == C \cup {f}
           A == got \cap Ahead(C, s)
           N == got \cap (Ahead(D, s) \ Ahead(C, s))
           M == got \cap Ahead(D, s)
<1>1. Ahead(C, s) \subseteq Ahead(D, s)
  BY AheadGrows
<1>2. Owed(want, got, D, s) \subseteq Owed(want, got, C, s)
  BY <1>1 DEF Owed
<1>3. /\ IsFiniteSet(N) /\ IsFiniteSet(Late(D, C, got))
      /\ Cardinality(N) <= Cardinality(Late(D, C, got))
  <2>1. \A g \in got \ C : g \in got
    OBVIOUS
  <2> HIDE DEF N
  <2> QED
    BY <2>1, Newcomers DEF N
<1>4. Cardinality(Late(D, C, got)) <= 1 /\ Cardinality(Late(D, C, got)) \in Nat
  <2>1. Late(D, C, got) \subseteq {f}
    BY DEF Late
  <2>2. IsFiniteSet({f}) /\ Cardinality({f}) = 1
    BY FS_Singleton
  <2> QED
    BY <2>1, <2>2, FS_Subset, FS_CardinalityType
<1>5. ASSUME f \notin got, \A g \in C : g.name < f.name
      PROVE  Cardinality(Late(D, C, got)) = 0
  <2>1. \A g \in D : g.name \in Nat
    BY BoundsAssumption DEF Distinct, Files
  <2>2. Late(D, C, got) = {}
    BY <1>5, <2>1 DEF Late
  <2> QED
    BY <2>2, FS_EmptySet
<1>6. /\ Cardinality(M) <= Cardinality(A) + Cardinality(N)
      /\ Cardinality(M) \in Nat /\ Cardinality(A) \in Nat /\ Cardinality(N) \in Nat
  <2>1. IsFiniteSet(A) /\ M \subseteq A \cup N
    BY FS_Subset
  <2> HIDE DEF M, A, N
  <2> QED
    BY <1>3, <2>1, UnionBound
<1>7. Cardinality(M) <= Cardinality(A) + 1
  BY <1>3, <1>4, <1>6
<1>8. f \notin got /\ (\A g \in C : g.name < f.name) => Cardinality(M) <= Cardinality(A)
  BY <1>3, <1>5, <1>6
<1> QED
  BY <1>2, <1>7, <1>8

\* A file less: one more is owed, and nothing more lies ahead.
LEMMA Removed ==
    ASSUME NEW C, Distinct(C), NEW f \in C, NEW s \in Int, s >= -1,
           NEW got, NEW want, IsFiniteSet(want)
    PROVE  /\ Ahead(C \ {f}, s) \subseteq Ahead(C, s)
           /\ Cardinality(Owed(want, got, C \ {f}, s)) <= Cardinality(Owed(want, got, C, s)) + 1
<1> DEFINE L == C \ {f}
           P == Behind(L, s) \ Behind(C, s)
           Q == Behind(C, s) \ L
           N == Owed(want, got, L, s) \ Owed(want, got, C, s)
           A == Owed(want, got, C, s)
           M == Owed(want, got, L, s)
<1>1. L \subseteq C /\ Distinct(L)
  BY DistinctSubset
<1>2. \A g : Rank(L, g) \in Nat /\ Rank(C, g) \in Nat
  BY <1>1, RankType
<1>3. IsFiniteSet(P) /\ IsFiniteSet(Q) /\ Cardinality(P) <= Cardinality(Q)
  BY <1>1, Exchange
<1>4. IsFiniteSet({f}) /\ Cardinality({f}) = 1
  BY FS_Singleton
<1>5. \A g \in N : g \in C /\ Rank(C, g) > s /\ (g \in L => Rank(L, g) <= s)
  BY <1>2 DEF Owed, Ahead
<1>6. IsFiniteSet(N) /\ Cardinality(N) <= 1
  <2>1. CASE Rank(C, f) <= s
    <3>1. N \subseteq P
      <4> SUFFICES ASSUME NEW g \in N
                   PROVE  g \in P
        OBVIOUS
      <4>1. g \in C /\ Rank(C, g) > s /\ (g \in L => Rank(L, g) <= s)
        BY <1>5
      <4>2. g # f
        BY <1>2, <2>1, <4>1
      <4> QED
        BY <1>2, <4>1, <4>2 DEF Behind
    <3>2. Q \subseteq {f}
      BY DEF Behind
    <3>3. Cardinality(Q) <= 1
      BY <1>4, <3>2, FS_Subset
    <3>4. IsFiniteSet(N) /\ Cardinality(N) <= Cardinality(P)
      <4> HIDE DEF N, P
      <4> QED
        BY <1>3, <3>1, FS_Subset
    <3>5. Cardinality(N) \in Nat /\ Cardinality(P) \in Nat /\ Cardinality(Q) \in Nat
      BY <1>3, <3>4, FS_CardinalityType
    <3> QED
      BY <1>3, <3>3, <3>4, <3>5
  <2>2. CASE Rank(C, f) > s
    <3>1. Q = {}
      BY <1>2, <2>2 DEF Behind
    <3>2. Cardinality(P) <= 0 /\ Cardinality(P) \in Nat
      BY <1>3, <3>1, FS_EmptySet, FS_CardinalityType
    <3>3. P = {}
      BY <1>3, <3>2, FS_EmptySet
    <3>4. N \subseteq {f}
      BY <1>2, <1>5, <3>3 DEF Behind
    <3> QED
      <4> HIDE DEF N
      <4> QED
        BY <1>4, <3>4, FS_Subset
  <2> QED
    BY <1>2, <2>1, <2>2
<1>7. /\ Cardinality(M) <= Cardinality(A) + Cardinality(N)
      /\ Cardinality(M) \in Nat /\ Cardinality(A) \in Nat /\ Cardinality(N) \in Nat
  <2>1. IsFiniteSet(A)
    BY FS_Subset DEF Owed
  <2>2. M \subseteq A \cup N
    OBVIOUS
  <2> HIDE DEF M, A, N
  <2> QED
    BY <1>6, <2>1, <2>2, UnionBound
<1>8. Cardinality(M) <= Cardinality(A) + 1
  BY <1>6, <1>7
<1>9. Ahead(L, s) \subseteq Ahead(C, s)
  BY <1>1, AheadGrows
<1> QED
  BY <1>8, <1>9

-----------------------------------------------------------------------------
(* Pages *)

PageFiles(page) == {r.file : r \in page}
PageSeqs(page) == {r.seq : r \in page}
Passes(f, filter) == f.kind \in filter

\* What a page holds: files the filter takes that lie ahead, no file before another
\* such file that it leaves out, and all of them when it is not full.
LEMMA PageFacts ==
    ASSUME NEW L, Distinct(L), NEW s \in Int, s >= -1, NEW limit \in Nat, NEW filter,
           NEW page, page = Paginated(L, s, limit, filter)
    PROVE  /\ IsFiniteSet(page) /\ IsFiniteSet(PageFiles(page))
           /\ Cardinality(PageFiles(page)) = Cardinality(page)
           /\ PageFiles(page) \subseteq Ahead(L, s)
           /\ \A f \in PageFiles(page) : Passes(f, filter)
           /\ \A r \in page : r.seq = Rank(L, r.file)
           /\ \A f \in Ahead(L, s), g \in PageFiles(page) :
                  Passes(f, filter) /\ Rank(L, f) <= Rank(L, g) => f \in PageFiles(page)
           /\ Cardinality(page) < limit =>
                  \A f \in Ahead(L, s) : Passes(f, filter) => f \in PageFiles(page)
<1> DEFINE ref(f) == [seq |-> Rank(L, f), file |-> f]
           refs == OfKind(After(L, s), filter)
           before(k) == {r \in refs : r.seq < k}
           F == PageFiles(page)
<1>1. IsFiniteSet(L) /\ \A f : Rank(L, f) \in Nat
  BY DistinctFinite, RankType
<1>2. \A f : ref(f).seq = Rank(L, f) /\ ref(f).file = f
  OBVIOUS
<1>3. \A f \in Ahead(L, s) : Passes(f, filter) => ref(f) \in refs
  BY <1>1 DEF Ahead, Passes, OfKind, After, ReadCylinders
<1>4. \A r \in refs : /\ r = ref(r.file)
                      /\ r.file \in Ahead(L, s) /\ Passes(r.file, filter)
  BY <1>1 DEF Ahead, Passes, OfKind, After, ReadCylinders, NoSeq
<1>5. page = {r \in refs : Cardinality(before(r.seq)) < limit}
  BY DEF Paginated, Cut
<1> HIDE DEF refs, ref
<1>6. IsFiniteSet(refs)
  <2> DEFINE file == [r \in refs |-> r.file]
  <2>1. file \in Injection(refs, L)
    BY <1>4 DEF Injection, IsInjective, Ahead
  <2> HIDE DEF file
  <2> QED
    BY <1>1, <2>1, FS_Injection
<1>7. IsFiniteSet(page)
  BY <1>5, <1>6, FS_Subset
<1>8. IsFiniteSet(F) /\ Cardinality(F) = Cardinality(page)
  <2> DEFINE file == [r \in page |-> r.file]
  <2>1. file \in Injection(page, F)
    BY <1>4, <1>5 DEF Injection, IsInjective, PageFiles
  <2>2. file \in Surjection(page, F)
    BY DEF Surjection, PageFiles
  <2> HIDE DEF file, F
  <2> QED
    BY <1>7, <2>1, <2>2, FS_Surjection
<1>9. F \subseteq Ahead(L, s) /\ \A f \in F : Passes(f, filter)
  BY <1>4, <1>5 DEF PageFiles
<1>10. \A r \in page : r.seq = Rank(L, r.file)
  BY <1>2, <1>4, <1>5
<1>11. \A k : IsFiniteSet(before(k)) /\ Cardinality(before(k)) \in Nat
  BY <1>6, FS_Subset, FS_CardinalityType
<1>12. ASSUME NEW f \in Ahead(L, s), NEW g \in F, Passes(f, filter), Rank(L, f) <= Rank(L, g)
       PROVE  f \in F
  <2>1. PICK r \in page : r.file = g
    BY DEF PageFiles
  <2>2. ref(f) \in refs /\ ref(f).seq = Rank(L, f) /\ r.seq = Rank(L, g)
    BY <1>2, <1>3, <1>10, <1>12, <2>1
  <2>3. before(Rank(L, f)) \subseteq before(r.seq)
    <3>1. \A q \in refs : q.seq \in Nat
      BY <1>1, <1>2, <1>4
    <3> QED
      BY <1>1, <1>12, <2>2, <3>1
  <2>4. Cardinality(before(Rank(L, f))) <= Cardinality(before(r.seq))
    BY <1>11, <2>3, FS_Subset
  <2>5. Cardinality(before(r.seq)) < limit
    BY <1>5
  <2>6. Cardinality(before(Rank(L, f))) < limit
    BY <1>11, <2>4, <2>5
  <2>7. ref(f) \in page
    BY <1>5, <2>2, <2>6
  <2> QED
    BY <1>2, <2>7 DEF PageFiles
<1>13. ASSUME Cardinality(page) < limit, NEW f \in Ahead(L, s), Passes(f, filter)
       PROVE  f \in F
  <2> DEFINE left == {r.seq : r \in refs \ page}
  <2>1. \A q \in refs : q.seq \in Nat
    BY <1>1, <1>2, <1>4
  <2>2. ASSUME left # {}
        PROVE  FALSE
    <3>1. left \subseteq Nat
      BY <2>1
    <3>2. PICK k \in left : \A j \in left : k <= j
      <4> HIDE DEF left
      <4> QED
        BY <2>2, <3>1, Least
    <3>3. PICK r \in refs \ page : r.seq = k
      OBVIOUS
    <3>4. before(k) \subseteq page
      BY <2>1, <3>2, <3>3
    <3>5. Cardinality(before(k)) <= Cardinality(page) /\ Cardinality(page) \in Nat
      BY <1>7, <3>4, FS_Subset, FS_CardinalityType
    <3>6. Cardinality(before(k)) < limit
      BY <1>11, <1>13, <3>5
    <3> QED
      BY <1>5, <3>3, <3>6
  <2>3. ref(f) \in page
    BY <1>3, <1>13, <2>2
  <2> QED
    BY <1>2, <2>3 DEF PageFiles
<1> QED
  BY <1>7, <1>8, <1>9, <1>10, <1>12, <1>13

\* The last sequence number of a page.
LEMMA PageEnd ==
    ASSUME NEW L, Distinct(L), NEW s \in Int, s >= -1, NEW limit \in Nat, NEW filter,
           NEW page, page = Paginated(L, s, limit, filter), page # {},
           NEW t, t = Max(PageSeqs(page))
    PROVE  /\ t \in Nat /\ s < t /\ t < Cardinality(L)
           /\ PageFiles(page) \subseteq Behind(L, t)
           /\ \E g \in PageFiles(page) : Rank(L, g) = t
<1> DEFINE seqs == PageSeqs(page)
           n == Cardinality(L)
<1>1. n \in Nat /\ \A f : Rank(L, f) \in Nat /\ (f \in L => Rank(L, f) < n)
  BY DistinctFinite, RankType
<1>2. /\ PageFiles(page) \subseteq Ahead(L, s)
      /\ \A r \in page : r.seq = Rank(L, r.file)
  BY PageFacts
<1>3. \A r \in page : r.file \in L /\ r.seq \in Nat /\ r.seq < n /\ r.seq > s
  BY <1>1, <1>2 DEF PageFiles, Ahead
<1>4. seqs \subseteq 0..n /\ seqs # {}
  BY <1>1, <1>3 DEF PageSeqs
<1>5. PICK m \in seqs : \A k \in seqs : k <= m
  <2> HIDE DEF seqs, n
  <2> QED
    BY <1>1, <1>4, Greatest
<1>6. \E x \in seqs : \A y \in seqs : x >= y
  BY <1>4, <1>5
<1>7. Max(seqs) \in seqs /\ \A k \in seqs : k <= Max(seqs)
  <2>1. Max(seqs) \in seqs /\ \A y \in seqs : Max(seqs) >= y
    <3> HIDE DEF seqs
    <3> QED
      BY <1>6 DEF Max
  <2> QED
    BY <1>4, <2>1
<1>8. PICK r \in page : r.seq = Max(seqs)
  BY <1>7 DEF PageSeqs
<1>9. PageFiles(page) \subseteq Behind(L, Max(seqs))
  <2> SUFFICES ASSUME NEW q \in page
               PROVE  q.file \in Behind(L, Max(seqs))
    BY DEF PageFiles
  <2>1. q.seq = Rank(L, q.file) /\ q.file \in L /\ q.seq \in seqs
    BY <1>2, <1>3 DEF PageSeqs
  <2> QED
    BY <1>7, <2>1 DEF Behind
<1>10. \E g \in PageFiles(page) : Rank(L, g) = Max(seqs)
  BY <1>2, <1>8 DEF PageFiles
<1>11. Max(seqs) \in Nat /\ s < Max(seqs) /\ Max(seqs) < n
  BY <1>3, <1>8
<1> QED
  BY <1>9, <1>10, <1>11

\* What a page of the walk is answered with.
LEMMA PageAnswer ==
    ASSUME NEW p \in Principals, walk.limit \in 1..MaxLimit
    PROVE  /\ ReplayFails(Home, listing, chain) => Page(p).code # 200
           /\ ~ReplayFails(Home, listing, chain) =>
                  /\ Page(p).code = 200
                  /\ Page(p).body.cylinders =
                         Paginated(listing, walk.since, walk.limit, walk.filter)
<1> DEFINE result == HandlerAuditQuery(p, Home, NoSeq, walk.since, walk.limit, walk.filter,
                                       listing, chain)
<1>1. p # NoOne
  BY CallersAssumption
<1>2. CASE ReplayFails(Home, listing, chain)
  <2>1. result = Fails("NodeStateError")
    BY <1>1, <1>2 DEF HandlerAuditQuery, RequirePrincipal
  <2>2. Page(p) = [code |-> 503]
    <3>1. Failed(result) /\ result.error = "NodeStateError"
      BY <2>1 DEF Failed, Fails
    <3> HIDE DEF result
    <3>2. Route(p, result) = [code |-> 503]
      BY <1>1, <3>1 DEF Route, TranslateHandlerError
    <3> QED
      BY <3>2 DEF Page, result
  <2> QED
    BY <1>2, <2>2
<1>3. CASE ~ReplayFails(Home, listing, chain)
  <2> DEFINE body == [total |-> Cardinality(listing),
                      cylinders |-> Paginated(listing, walk.since, walk.limit, walk.filter)]
  <2>1. result = Gives(body)
    BY <1>1, <1>3 DEF HandlerAuditQuery, RequirePrincipal
  <2>2. body.cylinders = Paginated(listing, walk.since, walk.limit, walk.filter)
    OBVIOUS
  <2> HIDE DEF body
  <2>3. ~Failed(result) /\ result.body = body
    BY <2>1 DEF Failed, Gives
  <2> HIDE DEF result
  <2>4. Route(p, result) = [code |-> 200, body |-> body]
    BY <1>1, <2>3 DEF Route
  <2>5. Page(p) = [code |-> 200, body |-> body]
    BY <2>4 DEF Page, result
  <2> QED
    BY <1>3, <2>2, <2>5
<1> QED
  BY <1>2, <1>3

-----------------------------------------------------------------------------
(* The inductive invariant *)

\* The files whose ranks the client's next page will be made from.
Base == IF walk.status = "reading" THEN listing ELSE chain
Wants == {f \in walk.start : Wanted(f)}
Again == walk.got \cap Ahead(Base, walk.since)

AskInv ==
    /\ walk.status = "idle" => walk = Idle /\ disturbed = [inserted |-> 0, removed |-> 0]
    /\ Walking => walk.limit \in 1..MaxLimit
    /\ IsFiniteSet(walk.got) /\ IsFiniteSet(walk.start)

NameInv == \A f \in chain \cup listing \cup walk.got : f.name <= latest

\* Every cylinder missed is paid for by a removal.
MissedInv == Walking => Cardinality(Owed(Wants, walk.got, Base, walk.since)) <= disturbed.removed

\* Every cylinder seen twice, or still to be seen again, is paid for by an insertion; and
\* so is every file whose insertion the listing in hand does not show yet.
TwiceInv ==
    Walking => /\ Cardinality(walk.got) <= walk.received
               /\ (walk.received - Cardinality(walk.got)) + Cardinality(Again)
                      + Cardinality(Late(chain, Base, walk.got)) <= disturbed.inserted

\* Until a file is removed, what was there when the walk began and what it has got stay.
KeptInv ==
    Walking /\ disturbed.removed = 0 =>
        walk.start \subseteq Base /\ walk.got \subseteq Base /\ Base \subseteq chain

\* On an undisturbed chain the client has just what it wants of the files behind it.
ExactInv ==
    Walking /\ Undisturbed =>
        /\ \A f \in chain \ Base, g \in Base : g.name < f.name
        /\ walk.since < Cardinality(Base)
        /\ \A f \in Behind(Base, walk.since) : Wanted(f) => f \in walk.got
        /\ \A f \in walk.got : Wanted(f)

\* What a walk that has ended promises.
EndInv == walk.status \in {"done", "failed"} => WalkExact /\ WalkBounds /\ NoFalseRefusal

Inv == TypeOK /\ AskInv /\ NameInv /\ MissedInv /\ TwiceInv /\ KeptInv /\ ExactInv /\ EndInv

LEMMA TypeFacts ==
    ASSUME TypeOK
    PROVE  /\ Distinct(chain) /\ Distinct(listing) /\ Distinct(Base)
           /\ \A f \in Files : f.name \in 1..MaxName
           /\ MaxName \in Nat /\ MaxCylinders \in Nat /\ MaxLimit \in Nat /\ MaxDisturbed \in Nat
           /\ walk.since \in Int /\ walk.since >= -1 /\ walk.since < MaxCylinders
           /\ walk.received \in Nat /\ latest \in Nat /\ walk.limit \in Nat
           /\ disturbed.inserted \in Nat /\ disturbed.removed \in Nat
           /\ disturbed = [inserted |-> disturbed.inserted, removed |-> disturbed.removed]
           /\ Undisturbed <=> disturbed.inserted = 0 /\ disturbed.removed = 0
<1>1. MaxName \in Nat /\ MaxCylinders \in Nat /\ MaxLimit \in Nat /\ MaxDisturbed \in Nat
  BY BoundsAssumption
<1>2. Distinct(chain) /\ Distinct(listing) /\ Distinct(Base)
  BY DEF TypeOK, Distinct, Base
<1>3. \A f \in Files : f.name \in 1..MaxName
  BY DEF Files
<1>4. /\ walk.since \in Int /\ walk.since >= -1 /\ walk.since < MaxCylinders
      /\ walk.received \in Nat /\ walk.limit \in Nat /\ latest \in Nat
  BY <1>1 DEF TypeOK, NoSeq
<1>5. /\ disturbed.inserted \in Nat /\ disturbed.removed \in Nat
      /\ disturbed = [inserted |-> disturbed.inserted, removed |-> disturbed.removed]
  BY <1>1 DEF TypeOK
<1>6. Undisturbed <=> disturbed.inserted = 0 /\ disturbed.removed = 0
  BY <1>5 DEF Undisturbed, Disturbances
<1> QED
  BY <1>1, <1>2, <1>3, <1>4, <1>5, <1>6

\* What a walk promises while it lasts, and before it begins.
LEMMA WalkFacts ==
    ASSUME Inv, walk.status \notin {"done", "failed"}
    PROVE  WalkExact /\ WalkBounds /\ NoFalseRefusal
<1> USE TypeFacts DEF Inv
<1>1. CASE walk.status = "idle"
  <2>1. walk = Idle /\ disturbed.inserted = 0
    BY <1>1 DEF AskInv
  <2>2. walk.got = {} /\ walk.received = 0
    BY <2>1 DEF Idle
  <2> QED
    BY <1>1, <2>1, <2>2, FS_EmptySet DEF WalkExact, WalkBounds, NoFalseRefusal
<1>2. CASE Walking
  <2> DEFINE late == Late(chain, Base, walk.got)
  <2>1. IsFiniteSet(walk.got) /\ IsFiniteSet(Again) /\ IsFiniteSet(late)
    <3>1. IsFiniteSet(chain) /\ late \subseteq chain
      BY DistinctFinite DEF Late
    <3> QED
      BY <3>1, FS_Subset DEF AskInv, Again
  <2>2. Cardinality(walk.got) \in Nat /\ Cardinality(Again) \in Nat /\ Cardinality(late) \in Nat
    BY <2>1, FS_CardinalityType
  <2>3. /\ Cardinality(walk.got) <= walk.received
        /\ (walk.received - Cardinality(walk.got)) + Cardinality(Again) + Cardinality(late)
               <= disturbed.inserted
    BY <1>2 DEF TwiceInv
  <2>4. WalkBounds /\ NoFalseRefusal
    BY <1>2, <2>2, <2>3 DEF Walking, WalkBounds, NoFalseRefusal
  <2>5. ASSUME Undisturbed
        PROVE  /\ walk.got \subseteq {f \in chain : Wanted(f)}
               /\ walk.received = Cardinality(walk.got)
               /\ \A f \in walk.got, g \in chain :
                      Wanted(g) /\ g.name < f.name => g \in walk.got
    <3>1. /\ walk.got \subseteq Base /\ Base \subseteq chain
          /\ \A f \in chain \ Base, g \in Base : g.name < f.name
          /\ \A f \in Behind(Base, walk.since) : Wanted(f) => f \in walk.got
          /\ \A f \in walk.got : Wanted(f)
      BY <1>2, <2>5 DEF KeptInv, ExactInv
    <3>2. walk.received = Cardinality(walk.got) /\ Cardinality(Again) = 0
      <4>1. walk.received \in Nat /\ disturbed.inserted = 0
        BY <2>5
      <4> QED
        BY <2>2, <2>3, <4>1
    <3>3. Again = {}
      BY <2>1, <3>2, FS_EmptySet
    <3>4. ASSUME NEW f \in walk.got, NEW g \in chain, Wanted(g), g.name < f.name
          PROVE  g \in walk.got
      <4>1. f.name \in Nat /\ g.name \in Nat /\ f \in Base
        BY <3>1 DEF Distinct
      <4>2. g \in Base
        BY <3>1, <3>4, <4>1
      <4>3. Rank(Base, g) \in Nat /\ Rank(Base, f) \in Nat /\ Rank(Base, g) < Rank(Base, f)
        BY <3>4, <4>1, <4>2, RankType, RankOrder
      <4>4. Rank(Base, f) <= walk.since
        BY <3>3, <4>1, <4>3 DEF Again, Ahead
      <4> QED
        BY <3>1, <3>4, <4>2, <4>3, <4>4 DEF Behind
    <3> QED
      BY <3>1, <3>2, <3>4
  <2> QED
    BY <1>2, <2>4, <2>5 DEF WalkExact, Walking
<1>3. walk.status \in {"idle", "asking", "reading", "done", "failed"}
  BY DEF TypeOK
<1> QED
  BY <1>1, <1>2, <1>3 DEF Walking

\* What a page brings: the files F, up to the sequence number t.
Brings(F, t) ==
    /\ listing \subseteq chain /\ Cardinality(listing) <= MaxCylinders
    /\ IsFiniteSet(F) /\ F \subseteq Ahead(listing, walk.since) /\ F \subseteq Behind(listing, t)
    /\ t \in Int /\ walk.since <= t /\ t < MaxCylinders
    /\ t = walk.since \/ t < Cardinality(listing)
    /\ \A f \in F : Wanted(f)
    /\ \A f \in Ahead(listing, walk.since) :
           Wanted(f) /\ (f \in Behind(listing, t) \/ Cardinality(F) < walk.limit) => f \in F
    /\ walk' = [walk EXCEPT
           !.status = IF Cardinality(F) < walk.limit THEN "done" ELSE "asking",
           !.got = @ \cup F, !.received = @ + Cardinality(F), !.since = t]

LEMMA PageTaken ==
    ASSUME Inv, ReadPage
    PROVE  \/ /\ ReplayFails(Home, listing, chain)
              /\ walk' = [walk EXCEPT !.status = "failed"]
           \/ \E F, t : Brings(F, t)
<1> DEFINE L == listing
           s == walk.since
           page == Paginated(L, s, walk.limit, walk.filter)
           F == PageFiles(page)
           t == IF page = {} THEN s ELSE Max(PageSeqs(page))
<1>1. /\ Distinct(L) /\ s \in Int /\ s >= -1 /\ s < MaxCylinders /\ MaxCylinders \in Nat
      /\ walk.limit \in 1..MaxLimit /\ walk.limit \in Nat
  BY TypeFacts DEF Inv, AskInv, Walking, ReadPage, ReadPageBack
<1>2. PICK p \in Principals :
         \/ Page(p).code = 200 /\ Turn(Page(p).body.cylinders, 0)
         \/ Page(p).code # 200 /\ walk' = [walk EXCEPT !.status = "failed"]
  BY DEF ReadPage, ReadPageBack
<1>3. CASE ReplayFails(Home, listing, chain)
  BY <1>1, <1>2, <1>3, PageAnswer
<1>4. CASE ~ReplayFails(Home, listing, chain)
  <2>1. Page(p).code = 200 /\ Page(p).body.cylinders = page
    BY <1>1, <1>4, PageAnswer
  <2>2. Turn(page, 0)
    BY <1>2, <2>1
  <2>3. L \subseteq chain /\ Cardinality(L) <= MaxCylinders
    BY <1>1, <1>4, DistinctFinite DEF ReplayFails
  <2>4. /\ IsFiniteSet(F) /\ Cardinality(F) = Cardinality(page) /\ F \subseteq Ahead(L, s)
        /\ \A f \in F : Passes(f, walk.filter)
        /\ \A f \in Ahead(L, s), g \in F :
               Passes(f, walk.filter) /\ Rank(L, f) <= Rank(L, g) => f \in F
        /\ Cardinality(page) < walk.limit =>
               \A f \in Ahead(L, s) : Passes(f, walk.filter) => f \in F
    BY <1>1, PageFacts
  <2>5. \A f : Passes(f, walk.filter) <=> Wanted(f)
    BY DEF Passes, Wanted
  <2>6. /\ t \in Int /\ s <= t /\ t < MaxCylinders /\ F \subseteq Behind(L, t)
        /\ t = s \/ t < Cardinality(L)
        /\ \A f \in Ahead(L, s) \cap Behind(L, t) : Wanted(f) => f \in F
    <3>1. CASE page = {}
      <4>1. F = {} /\ t = s
        BY <3>1 DEF PageFiles
      <4>2. \A f : Rank(L, f) \in Nat
        BY <1>1, RankType
      <4> QED
        BY <1>1, <4>1, <4>2 DEF Ahead, Behind
    <3>2. CASE page # {}
      <4>1. /\ t \in Nat /\ s < t /\ t < Cardinality(L) /\ F \subseteq Behind(L, t)
            /\ \E g \in F : Rank(L, g) = t
        <5>1. t = Max(PageSeqs(page))
          BY <3>2
        <5> HIDE DEF t
        <5> QED
          BY <1>1, <3>2, <5>1, PageEnd
      <4>2. Cardinality(L) \in Nat
        BY <1>1, DistinctFinite
      <4>3. \A f \in Ahead(L, s) \cap Behind(L, t) : Wanted(f) => f \in F
        BY <2>4, <2>5, <4>1 DEF Behind
      <4> QED
        BY <1>1, <2>3, <4>1, <4>2, <4>3
    <3> QED
      BY <3>1, <3>2
  <2>7. walk' = [walk EXCEPT
           !.status = IF Cardinality(F) < walk.limit THEN "done" ELSE "asking",
           !.got = @ \cup F, !.received = @ + Cardinality(F), !.since = t]
    <3>1. page # {} => t = Max(PageSeqs(page)) - 0
      BY <2>6
    <3> HIDE DEF page
    <3> QED
      BY <2>2, <2>4, <3>1 DEF Turn, PageFiles, PageSeqs
  <2>8. Brings(F, t)
    <3> HIDE DEF page, F, t
    <3> QED
      BY <2>3, <2>4, <2>5, <2>6, <2>7 DEF Brings
  <2> QED
    BY <2>8
<1> QED
  BY <1>3, <1>4

\* The same files, with the fields of the walk that follows.
LEMMA PageFields ==
    ASSUME Inv, NEW F, NEW t, Brings(F, t)
    PROVE  /\ walk'.status = IF Cardinality(F) < walk.limit THEN "done" ELSE "asking"
           /\ walk'.limit = walk.limit /\ walk'.filter = walk.filter /\ walk'.start = walk.start
           /\ walk'.got = walk.got \cup F /\ walk'.received = walk.received + Cardinality(F)
           /\ walk'.since = t /\ Cardinality(F) \in Nat
BY FS_CardinalityType DEF Inv, TypeOK, Brings

-----------------------------------------------------------------------------
(* Every step keeps the invariant *)

LEMMA TypeStep == ASSUME Inv, [Next]_vars PROVE TypeOK'
<1> USE TypeFacts DEF Inv
<1>1. CASE UNCHANGED vars
  BY <1>1 DEF vars, TypeOK
<1>2. ASSUME NEW f \in Files, Seal(f) PROVE TypeOK'
  <2>1. \A g, h \in chain' : g.name = h.name => g = h
    BY <1>2 DEF Seal, Names, TypeOK
  <2>2. latest' \in 0..MaxName
    BY <1>2 DEF Seal, TypeOK
  <2>3. disturbed' \in [inserted : 0..MaxDisturbed, removed : 0..MaxDisturbed]
    BY <1>2 DEF Seal, Disturbances, TypeOK
  <2>4. chain' \subseteq Files /\ UNCHANGED <<listing, walk>>
    BY <1>2 DEF Seal, TypeOK
  <2> QED
    BY <2>1, <2>2, <2>3, <2>4 DEF TypeOK
<1>3. ASSUME NEW f \in Files, Vanish(f) PROVE TypeOK'
  <2>1. disturbed' \in [inserted : 0..MaxDisturbed, removed : 0..MaxDisturbed]
    BY <1>3 DEF Vanish, Disturbances, TypeOK
  <2> QED
    BY <1>3, <2>1 DEF Vanish, TypeOK
<1>4. ASSUME NEW limit \in 1..MaxLimit, NEW filter \in Filters \cup {NoFilter},
             StartWalk(limit, filter)
      PROVE  TypeOK'
  <2>1. filter \in SUBSET Kinds
    BY <1>4, FiltersAssumption DEF NoFilter
  <2>2. NoSeq \in NoSeq..(MaxCylinders - 1)
    BY DEF NoSeq
  <2> QED
    BY <1>4, <2>1, <2>2 DEF StartWalk, TypeOK
<1>5. CASE ListPage
  BY <1>5 DEF ListPage, TypeOK
<1>6. CASE ReadPage
  <2>1. listing' = {} /\ UNCHANGED <<chain, latest, disturbed>>
    BY <1>6 DEF ReadPage, ReadPageBack
  <2>2. CASE walk' = [walk EXCEPT !.status = "failed"]
    BY <2>1, <2>2 DEF TypeOK
  <2>3. CASE \E F, t : Brings(F, t)
    <3>1. PICK F, t : Brings(F, t)
      BY <2>3
    <3>2. F \subseteq Files
      BY <3>1 DEF Brings, Ahead, Distinct
    <3>3. t \in NoSeq..(MaxCylinders - 1)
      BY <3>1 DEF Brings, NoSeq
    <3>4. Cardinality(F) \in Nat
      BY <3>1, PageFields
    <3>5. walk' \in [status : {"idle", "asking", "reading", "done", "failed"},
                     limit : 0..MaxLimit, filter : SUBSET Kinds,
                     since : NoSeq..(MaxCylinders - 1), got : SUBSET Files, received : Nat,
                     start : SUBSET Files]
      <4>1. walk.received + Cardinality(F) \in Nat /\ walk.got \cup F \in SUBSET Files
        BY <3>2, <3>4 DEF TypeOK
      <4> QED
        BY <3>1, <3>3, <4>1 DEF TypeOK, Brings
    <3> QED
      BY <2>1, <3>5 DEF TypeOK
  <2> QED
    BY <1>6, <2>2, <2>3, PageTaken
<1>7. CASE EndWalk
  <2>1. walk' \in [status : {"idle", "asking", "reading", "done", "failed"},
                   limit : 0..MaxLimit, filter : SUBSET Kinds,
                   since : NoSeq..(MaxCylinders - 1), got : SUBSET Files, received : Nat,
                   start : SUBSET Files]
    BY <1>7 DEF EndWalk, Idle, NoSeq, NoFilter
  <2>2. UNCHANGED <<chain, listing, latest>> /\ disturbed' = [inserted |-> 0, removed |-> 0]
    BY <1>7 DEF EndWalk
  <2> QED
    BY <2>1, <2>2 DEF TypeOK
<1> QED
  BY <1>1, <1>2, <1>3, <1>4, <1>5, <1>6, <1>7 DEF Next

LEMMA AskStep == ASSUME Inv, [Next]_vars PROVE AskInv'
<1> USE TypeFacts DEF Inv
<1>1. CASE UNCHANGED vars
  BY <1>1 DEF vars, AskInv, Walking
<1>2. ASSUME NEW f \in Files, Seal(f) \/ Vanish(f) PROVE AskInv'
  BY <1>2 DEF Seal, Vanish, AskInv, Walking, Idle
<1>3. ASSUME NEW limit \in 1..MaxLimit, NEW filter \in Filters \cup {NoFilter},
             StartWalk(limit, filter)
      PROVE  AskInv'
  BY <1>3, DistinctFinite, FS_EmptySet DEF StartWalk, AskInv, Walking
<1>4. CASE ListPage
  BY <1>4 DEF ListPage, AskInv, Walking, TypeOK
<1>5. CASE ReadPage
  <2>1. CASE walk' = [walk EXCEPT !.status = "failed"]
    BY <2>1 DEF TypeOK, AskInv, Walking
  <2>2. CASE \E F, t : Brings(F, t)
    <3>1. PICK F, t : Brings(F, t)
      BY <2>2
    <3>2. IsFiniteSet(walk.got \cup F)
      BY <3>1, FS_Union DEF Brings, AskInv
    <3>3. Walking
      BY <1>5 DEF ReadPage, ReadPageBack, Walking
    <3> QED
      BY <3>1, <3>2, <3>3, PageFields DEF AskInv, Walking
  <2> QED
    BY <1>5, <2>1, <2>2, PageTaken
<1>6. CASE EndWalk
  BY <1>6, FS_EmptySet DEF EndWalk, AskInv, Idle, Walking
<1> QED
  BY <1>1, <1>2, <1>3, <1>4, <1>5, <1>6 DEF Next

LEMMA NameStep == ASSUME Inv, [Next]_vars PROVE NameInv'
<1> USE TypeFacts DEF Inv
<1>1. CASE UNCHANGED vars
  BY <1>1 DEF vars, NameInv
<1>2. ASSUME NEW f \in Files, Seal(f) PROVE NameInv'
  <2>1. latest' \in Nat /\ latest <= latest' /\ f.name <= latest'
    BY <1>2 DEF Seal
  <2>2. \A g \in chain \cup listing \cup walk.got : g.name \in Nat /\ g.name <= latest
    BY DEF NameInv, TypeOK
  <2> QED
    BY <1>2, <2>1, <2>2 DEF Seal, NameInv
<1>3. ASSUME NEW f \in Files, Vanish(f) PROVE NameInv'
  BY <1>3 DEF Vanish, NameInv
<1>4. ASSUME NEW limit \in 1..MaxLimit, NEW filter \in Filters \cup {NoFilter},
             StartWalk(limit, filter)
      PROVE  NameInv'
  BY <1>4 DEF StartWalk, NameInv
<1>5. CASE ListPage
  BY <1>5 DEF ListPage, NameInv, TypeOK
<1>6. CASE ReadPage
  <2>1. listing' = {} /\ UNCHANGED <<chain, latest>>
    BY <1>6 DEF ReadPage, ReadPageBack
  <2>2. CASE walk' = [walk EXCEPT !.status = "failed"]
    BY <2>1, <2>2 DEF TypeOK, NameInv
  <2>3. CASE \E F, t : Brings(F, t)
    <3>1. PICK F, t : Brings(F, t)
      BY <2>3
    <3>2. F \subseteq listing
      BY <3>1 DEF Brings, Ahead
    <3> QED
      BY <2>1, <3>1, <3>2, PageFields DEF NameInv
  <2> QED
    BY <1>6, <2>2, <2>3, PageTaken
<1>7. CASE EndWalk
  BY <1>7 DEF EndWalk, Idle, NameInv
<1> QED
  BY <1>1, <1>2, <1>3, <1>4, <1>5, <1>6, <1>7 DEF Next

\* What the files, and the walk's own state, are counted by.
LEMMA FiniteFacts ==
    ASSUME Inv
    PROVE  /\ IsFiniteSet(Wants) /\ IsFiniteSet(walk.got)
           /\ \A S : IsFiniteSet(Owed(Wants, walk.got, S, walk.since))
           /\ \A S : IsFiniteSet(walk.got \cap Ahead(S, walk.since))
           /\ \A S : IsFiniteSet(Late(chain, S, walk.got))
<1>1. IsFiniteSet(Wants) /\ IsFiniteSet(walk.got)
  BY FS_Subset DEF Inv, AskInv, Wants
<1>2. \A S : Owed(Wants, walk.got, S, walk.since) \subseteq Wants
  BY DEF Owed
<1>3. \A S : Late(chain, S, walk.got) \subseteq chain /\ IsFiniteSet(chain)
  BY TypeFacts, DistinctFinite DEF Late, Inv
<1> QED
  BY <1>1, <1>2, <1>3, FS_Subset

LEMMA MissedStep == ASSUME Inv, [Next]_vars PROVE MissedInv'
<1> USE TypeFacts DEF Inv
<1> DEFINE missed == Owed(Wants, walk.got, Base, walk.since)
<1>1. CASE UNCHANGED vars
  BY <1>1 DEF vars, MissedInv, Walking, Wants, Wanted, Base
<1>2. ASSUME NEW f \in Files, Seal(f) PROVE MissedInv'
  <2>1. /\ UNCHANGED <<walk, listing>> /\ Wants' = Wants /\ Walking' = Walking
        /\ disturbed.removed' = disturbed.removed
    BY <1>2 DEF Seal, Wants, Wanted, Walking
  <2>2. CASE walk.status = "asking"
    <3>1. Base = chain /\ Base' = chain \cup {f}
      BY <1>2, <2>2 DEF Seal, Base
    <3>2. Distinct(chain \cup {f})
      BY <1>2 DEF Seal, Names, Distinct
    <3>3. Owed(Wants, walk.got, chain \cup {f}, walk.since) \subseteq missed
      BY <3>1, <3>2, FiniteFacts, Inserted
    <3>4. Cardinality(Owed(Wants, walk.got, chain \cup {f}, walk.since)) <= Cardinality(missed)
      BY <3>3, FiniteFacts, FS_Subset
    <3>5. Cardinality(missed) <= disturbed.removed
      BY <2>2 DEF MissedInv, Walking
    <3>6. /\ Cardinality(missed) \in Nat
          /\ Cardinality(Owed(Wants, walk.got, chain \cup {f}, walk.since)) \in Nat
      BY FiniteFacts, FS_CardinalityType
    <3>7. Cardinality(Owed(Wants, walk.got, chain \cup {f}, walk.since)) <= disturbed.removed
      BY <3>4, <3>5, <3>6
    <3> QED
      BY <2>1, <3>1, <3>7 DEF MissedInv
  <2>3. CASE walk.status # "asking"
    BY <2>1, <2>3 DEF MissedInv, Base, Walking
  <2> QED
    BY <2>2, <2>3
<1>3. ASSUME NEW f \in Files, Vanish(f) PROVE MissedInv'
  <2>1. /\ UNCHANGED <<walk, listing>> /\ Wants' = Wants /\ Walking' = Walking
        /\ Walking => disturbed.removed' = disturbed.removed + 1
    BY <1>3 DEF Vanish, Wants, Wanted, Walking
  <2>2. ASSUME Walking PROVE Cardinality(missed) \in Nat /\ Cardinality(missed) <= disturbed.removed
    BY <2>2, FiniteFacts, FS_CardinalityType DEF MissedInv
  <2>3. CASE walk.status = "asking"
    <3>1. Base = chain /\ Base' = chain \ {f} /\ f \in chain /\ Walking
      BY <1>3, <2>3 DEF Vanish, Base, Walking
    <3>2. Cardinality(Owed(Wants, walk.got, chain \ {f}, walk.since)) <= Cardinality(missed) + 1
      BY <3>1, FiniteFacts, Removed
    <3>3. Cardinality(Owed(Wants, walk.got, chain \ {f}, walk.since)) \in Nat
      BY FiniteFacts, FS_CardinalityType
    <3>4. Cardinality(Owed(Wants, walk.got, chain \ {f}, walk.since)) <= disturbed.removed + 1
      BY <2>2, <3>1, <3>2, <3>3
    <3> QED
      BY <2>1, <3>1, <3>4 DEF MissedInv
  <2>4. CASE walk.status # "asking"
    <3>1. Walking => missed' = missed
      BY <2>1, <2>4 DEF Base, Walking
    <3> QED
      BY <2>1, <2>2, <3>1 DEF MissedInv
  <2> QED
    BY <2>3, <2>4
<1>4. ASSUME NEW limit \in 1..MaxLimit, NEW filter \in Filters \cup {NoFilter},
             StartWalk(limit, filter)
      PROVE  MissedInv'
  <2>1. /\ walk'.got = {} /\ walk'.since = -1 /\ walk'.start = chain
        /\ Base' = chain /\ disturbed' = disturbed
    BY <1>4 DEF StartWalk, Base, NoSeq
  <2>2. Wants' \subseteq chain
    BY <2>1 DEF Wants
  <2>3. chain \subseteq Ahead(chain, -1)
    BY RankType DEF Ahead
  <2>4. Owed(Wants', {}, chain, -1) = {}
    BY <2>2, <2>3 DEF Owed
  <2>5. missed' = {}
    BY <2>1, <2>4
  <2> QED
    BY <2>1, <2>5, FS_EmptySet DEF MissedInv
<1>5. CASE ListPage
  <2>1. missed' = missed /\ disturbed' = disturbed /\ Walking
    BY <1>5 DEF ListPage, Wants, Wanted, Base, Walking, TypeOK
  <2> QED
    BY <2>1 DEF MissedInv
<1>6. CASE ReadPage
  <2>1. walk.status = "reading" /\ Base = listing /\ Walking /\ UNCHANGED <<chain, disturbed>>
    BY <1>6 DEF ReadPage, ReadPageBack, Base, Walking
  <2>2. CASE walk' = [walk EXCEPT !.status = "failed"]
    BY <2>2 DEF TypeOK, MissedInv, Walking
  <2>3. CASE \E F, t : Brings(F, t)
    <3>1. PICK F, t : Brings(F, t)
      BY <2>3
    <3>2. CASE Cardinality(F) < walk.limit
      BY <3>1, <3>2, PageFields DEF MissedInv, Walking
    <3>3. CASE ~(Cardinality(F) < walk.limit)
      <4>1. /\ Base' = chain /\ walk'.got = walk.got \cup F /\ walk'.since = t /\ Wants' = Wants
        BY <2>1, <3>1, <3>3, PageFields DEF Base, Wants, Wanted
      <4>2. Owed(Wants, walk.got \cup F, chain, t) \subseteq missed
        <5>1. \A f \in Wants : f \in Ahead(listing, walk.since) \cap Behind(listing, t) => f \in F
          BY <3>1 DEF Brings, Wants
        <5>2. /\ listing \subseteq chain /\ t \in Int /\ walk.since <= t
              /\ F \subseteq Ahead(listing, walk.since) /\ F \subseteq Behind(listing, t)
          BY <3>1 DEF Brings
        <5> QED
          BY <2>1, <5>1, <5>2, FiniteFacts, PageTurn
      <4>3. Cardinality(missed) <= disturbed.removed /\ Cardinality(missed) \in Nat
        BY <2>1, FiniteFacts, FS_CardinalityType DEF MissedInv
      <4>4. /\ Cardinality(Owed(Wants, walk.got \cup F, chain, t)) <= Cardinality(missed)
            /\ Cardinality(Owed(Wants, walk.got \cup F, chain, t)) \in Nat
        BY <4>2, FiniteFacts, FS_Subset, FS_CardinalityType
      <4>5. Cardinality(Owed(Wants, walk.got \cup F, chain, t)) <= disturbed.removed
        BY <4>3, <4>4
      <4> QED
        BY <2>1, <4>1, <4>5 DEF MissedInv
    <3> QED
      BY <3>2, <3>3
  <2> QED
    BY <1>6, <2>2, <2>3, PageTaken
<1>7. CASE EndWalk
  BY <1>7 DEF EndWalk, Idle, MissedInv, Walking
<1> QED
  BY <1>1, <1>2, <1>3, <1>4, <1>5, <1>6, <1>7 DEF Next

LEMMA TwiceFacts ==
    ASSUME Inv, Walking
    PROVE  /\ Cardinality(walk.got) \in Nat /\ Cardinality(Again) \in Nat
           /\ Cardinality(Late(chain, Base, walk.got)) \in Nat
           /\ Cardinality(walk.got) <= walk.received
           /\ (walk.received - Cardinality(walk.got)) + Cardinality(Again)
                  + Cardinality(Late(chain, Base, walk.got)) <= disturbed.inserted
BY FiniteFacts, FS_CardinalityType DEF Inv, TwiceInv, Again

LEMMA TwiceStep == ASSUME Inv, [Next]_vars PROVE TwiceInv'
<1> USE TypeFacts DEF Inv
<1> DEFINE late == Late(chain, Base, walk.got)
           twice == walk.received - Cardinality(walk.got)
<1>1. CASE UNCHANGED vars
  BY <1>1 DEF vars, TwiceInv, Walking, Again, Base
<1>2. ASSUME NEW f \in Files, Seal(f) PROVE TwiceInv'
  <2> DEFINE tip == f.name > latest
  <2>1. /\ UNCHANGED <<walk, listing>> /\ Walking' = Walking /\ chain' = chain \cup {f}
        /\ Walking => disturbed.inserted' = disturbed.inserted + (IF tip THEN 0 ELSE 1)
    <3>1. f.name \in Nat /\ latest \in Nat
      OBVIOUS
    <3>2. tip <=> ~(f.name <= latest)
      BY <3>1
    <3> QED
      BY <1>2, <3>2 DEF Seal, Walking
  <2>2. tip => f \notin walk.got /\ \A g \in chain \cup listing : g.name < f.name
    <3>1. f.name \in Nat /\ \A g \in chain \cup listing : g.name \in Nat
      BY DEF Distinct
    <3> QED
      BY <3>1 DEF NameInv
  <2> HIDE DEF tip
  <2>3. CASE walk.status = "asking"
    <3> DEFINE more == walk.got \cap Ahead(chain \cup {f}, walk.since)
    <3>1. Base = chain /\ Base' = chain \cup {f} /\ Walking
      BY <2>1, <2>3 DEF Base, Walking
    <3>2. Distinct(chain \cup {f})
      BY <1>2 DEF Seal, Names, Distinct
    <3>3. /\ Cardinality(more) <= Cardinality(Again) + 1
          /\ tip => Cardinality(more) <= Cardinality(Again)
      BY <2>2, <3>1, <3>2, FiniteFacts, Inserted DEF Again
    <3>4. Cardinality(more) \in Nat
      BY FiniteFacts, FS_CardinalityType
    <3>5. Late(chain \cup {f}, chain \cup {f}, walk.got) = {}
      BY DEF Late
    <3>6. Again' = more /\ late' = {} /\ Cardinality({}) = 0 /\ twice' = twice
      BY <2>1, <3>1, <3>5, FS_EmptySet DEF Again
    <3>7. twice + Cardinality(more) + 0 <= disturbed.inserted + (IF tip THEN 0 ELSE 1)
      BY <3>1, <3>3, <3>4, TwiceFacts
    <3> QED
      BY <2>1, <3>1, <3>6, <3>7, TwiceFacts DEF TwiceInv
  <2>4. CASE walk.status = "reading"
    <3> DEFINE more == Late(chain \cup {f}, listing, walk.got)
    <3>1. Base = listing /\ Base' = listing /\ Walking
      BY <2>1, <2>4 DEF Base, Walking
    <3>2. more \subseteq late \cup {f} /\ (tip => more \subseteq late)
      <4>1. f.name \in Nat /\ \A g \in listing : g.name \in Nat
        BY DEF Distinct
      <4> QED
        BY <2>2, <3>1, <4>1 DEF Late
    <3>3. IsFiniteSet(late) /\ IsFiniteSet({f}) /\ Cardinality({f}) = 1
      BY FiniteFacts, FS_Singleton
    <3>4. /\ Cardinality(more) <= Cardinality(late) + 1 /\ Cardinality(more) \in Nat
          /\ tip => Cardinality(more) <= Cardinality(late)
      <4> HIDE DEF more, late
      <4>1. Cardinality(more) <= Cardinality(late) + Cardinality({f}) /\ Cardinality(more) \in Nat
        BY <3>2, <3>3, UnionBound
      <4> QED
        BY <3>2, <3>3, <4>1, FS_Subset
    <3>5. late' = more /\ Again' = Again /\ twice' = twice
      BY <2>1, <3>1 DEF Again
    <3>6. twice + Cardinality(Again) + Cardinality(more)
              <= disturbed.inserted + (IF tip THEN 0 ELSE 1)
      <4> HIDE DEF more
      <4> QED
        BY <3>1, <3>4, TwiceFacts
    <3> QED
      BY <2>1, <3>1, <3>5, <3>6, TwiceFacts DEF TwiceInv
  <2>5. CASE ~Walking
    BY <2>1, <2>5 DEF TwiceInv
  <2> QED
    BY <2>3, <2>4, <2>5 DEF Walking
<1>3. ASSUME NEW f \in Files, Vanish(f) PROVE TwiceInv'
  <2>1. /\ UNCHANGED <<walk, listing>> /\ Walking' = Walking /\ chain' = chain \ {f}
        /\ f \in chain /\ disturbed.inserted' = disturbed.inserted
    BY <1>3 DEF Vanish, Walking
  <2>2. CASE walk.status = "asking"
    <3> DEFINE fewer == walk.got \cap Ahead(chain \ {f}, walk.since)
    <3>1. Base = chain /\ Base' = chain \ {f} /\ Walking
      BY <2>1, <2>2 DEF Base, Walking
    <3>2. fewer \subseteq Again
      <4>1. Ahead(chain \ {f}, walk.since) \subseteq Ahead(chain, walk.since)
        BY <2>1, AheadGrows
      <4> QED
        BY <3>1, <4>1 DEF Again
    <3>3. Cardinality(fewer) <= Cardinality(Again) /\ Cardinality(fewer) \in Nat
      BY <3>2, FiniteFacts, FS_Subset, FS_CardinalityType DEF Again
    <3>4. Late(chain \ {f}, chain \ {f}, walk.got) = {}
      BY DEF Late
    <3>5. Again' = fewer /\ late' = {} /\ Cardinality({}) = 0 /\ twice' = twice
      BY <2>1, <3>1, <3>4, FS_EmptySet DEF Again
    <3>6. twice + Cardinality(fewer) + 0 <= disturbed.inserted
      BY <3>1, <3>3, TwiceFacts
    <3> QED
      BY <2>1, <3>1, <3>5, <3>6, TwiceFacts DEF TwiceInv
  <2>3. CASE walk.status = "reading"
    <3> DEFINE fewer == Late(chain \ {f}, listing, walk.got)
    <3>1. Base = listing /\ Base' = listing /\ Walking
      BY <2>1, <2>3 DEF Base, Walking
    <3>2. fewer \subseteq late
      BY <3>1 DEF Late
    <3>3. Cardinality(fewer) <= Cardinality(late) /\ Cardinality(fewer) \in Nat
      <4> HIDE DEF fewer
      <4> QED
        BY <3>2, FiniteFacts, FS_Subset, FS_CardinalityType
    <3>4. late' = fewer /\ Again' = Again /\ twice' = twice
      BY <2>1, <3>1 DEF Again
    <3>5. twice + Cardinality(Again) + Cardinality(fewer) <= disturbed.inserted
      <4> HIDE DEF fewer
      <4> QED
        BY <3>1, <3>3, TwiceFacts
    <3> QED
      BY <2>1, <3>1, <3>4, <3>5, TwiceFacts DEF TwiceInv
  <2>4. CASE ~Walking
    BY <2>1, <2>4 DEF TwiceInv
  <2> QED
    BY <2>2, <2>3, <2>4 DEF Walking
<1>4. ASSUME NEW limit \in 1..MaxLimit, NEW filter \in Filters \cup {NoFilter},
             StartWalk(limit, filter)
      PROVE  TwiceInv'
  <2>1. walk'.got = {} /\ walk'.received = 0 /\ Base' = chain /\ chain' = chain
    BY <1>4 DEF StartWalk, Base
  <2>2. Again' = {} /\ late' = {}
    BY <2>1 DEF Again, Late
  <2>3. disturbed'.inserted = 0
    BY <1>4 DEF StartWalk, AskInv, Idle
  <2>4. /\ Cardinality(walk'.got) = 0 /\ Cardinality(Again') = 0
        /\ Cardinality(Late(chain', Base', walk'.got)) = 0
    BY <2>1, <2>2, FS_EmptySet
  <2> QED
    BY <2>1, <2>3, <2>4 DEF TwiceInv
<1>5. CASE ListPage
  <2>1. Base' = Base /\ disturbed' = disturbed /\ Walking /\ chain' = chain
    BY <1>5 DEF ListPage, Base, Walking, TypeOK
  <2>2. walk'.got = walk.got /\ walk'.received = walk.received /\ walk'.since = walk.since
    BY <1>5 DEF ListPage, TypeOK
  <2> QED
    BY <2>1, <2>2 DEF TwiceInv, Again
<1>6. CASE ReadPage
  <2>1. walk.status = "reading" /\ Base = listing /\ Walking /\ UNCHANGED <<chain, disturbed>>
    BY <1>6 DEF ReadPage, ReadPageBack, Base, Walking
  <2>2. CASE walk' = [walk EXCEPT !.status = "failed"]
    BY <2>2 DEF TypeOK, TwiceInv, Walking
  <2>3. CASE \E F, t : Brings(F, t)
    <3>1. PICK F, t : Brings(F, t)
      BY <2>3
    <3>2. CASE Cardinality(F) < walk.limit
      BY <3>1, <3>2, PageFields DEF TwiceInv, Walking
    <3>3. CASE ~(Cardinality(F) < walk.limit)
      <4> DEFINE got == walk.got \cup F
                 ahead == got \cap Ahead(chain, t)
      <4>1. /\ Base' = chain /\ walk'.got = got /\ walk'.since = t
            /\ walk'.received = walk.received + Cardinality(F)
        BY <2>1, <3>1, <3>3, PageFields DEF Base
      <4>2. Cardinality(ahead) + Cardinality(F \cap walk.got)
                <= Cardinality(Again) + Cardinality(late)
        <5>1. \A f \in Wants : f \in Ahead(listing, walk.since) \cap Behind(listing, t) => f \in F
          BY <3>1 DEF Brings, Wants
        <5>2. /\ listing \subseteq chain /\ t \in Int /\ walk.since <= t
              /\ F \subseteq Ahead(listing, walk.since) /\ F \subseteq Behind(listing, t)
          BY <3>1 DEF Brings
        <5> QED
          BY <2>1, <5>1, <5>2, FiniteFacts, PageTurn DEF Again
      <4>3. /\ IsFiniteSet(got) /\ Cardinality(F \cap walk.got) \in Nat /\ Cardinality(F) \in Nat
            /\ Cardinality(got) = Cardinality(walk.got) + Cardinality(F)
                                      - Cardinality(F \cap walk.got)
        <5>1. IsFiniteSet(F) /\ IsFiniteSet(walk.got)
          BY <3>1, FiniteFacts DEF Brings
        <5> QED
          BY <5>1, Overlap
      <4>4. Cardinality(ahead) \in Nat /\ Cardinality(got) \in Nat
        <5>1. IsFiniteSet(ahead)
          BY <4>3, FS_Subset
        <5> QED
          BY <4>3, <5>1, FS_CardinalityType
      <4>5. Late(chain, chain, got) = {} /\ Cardinality({}) = 0
        BY FS_EmptySet DEF Late
      <4>6. Again' = ahead /\ Cardinality(Late(chain', Base', walk'.got)) = 0
        BY <2>1, <4>1, <4>5 DEF Again
      <4> HIDE DEF got, ahead, late
      <4>7. walk.received \in Nat /\ disturbed.inserted \in Nat
        OBVIOUS
      <4>8. Cardinality(F \cap walk.got) <= Cardinality(F)
        BY <3>1, FS_Subset DEF Brings
      <4>9. /\ Cardinality(got) <= walk.received + Cardinality(F)
            /\ (walk.received + Cardinality(F) - Cardinality(got)) + Cardinality(ahead) + 0
                   <= disturbed.inserted
        BY <2>1, <4>2, <4>3, <4>4, <4>7, <4>8, TwiceFacts DEF late
      <4> QED
        <5>1. /\ Cardinality(walk'.got) = Cardinality(got)
              /\ Cardinality(Again') = Cardinality(ahead)
              /\ walk'.received = walk.received + Cardinality(F)
              /\ disturbed' = disturbed
          BY <2>1, <4>1, <4>6
        <5> QED
          BY <4>3, <4>4, <4>6, <4>7, <4>9, <5>1 DEF TwiceInv
    <3> QED
      BY <3>2, <3>3
  <2> QED
    BY <1>6, <2>2, <2>3, PageTaken
<1>7. CASE EndWalk
  BY <1>7 DEF EndWalk, Idle, TwiceInv, Walking
<1> QED
  BY <1>1, <1>2, <1>3, <1>4, <1>5, <1>6, <1>7 DEF Next

LEMMA KeptStep == ASSUME Inv, [Next]_vars PROVE KeptInv'
<1> USE TypeFacts DEF Inv
<1>1. CASE UNCHANGED vars
  BY <1>1 DEF vars, KeptInv, Walking, Base
<1>2. ASSUME NEW f \in Files, Seal(f) PROVE KeptInv'
  BY <1>2 DEF Seal, KeptInv, Walking, Base
<1>3. ASSUME NEW f \in Files, Vanish(f) PROVE KeptInv'
  <2>1. Walking' = Walking /\ (Walking => disturbed'.removed = disturbed.removed + 1)
    BY <1>3 DEF Vanish, Walking
  <2> QED
    BY <2>1 DEF KeptInv
<1>4. ASSUME NEW limit \in 1..MaxLimit, NEW filter \in Filters \cup {NoFilter},
             StartWalk(limit, filter)
      PROVE  KeptInv'
  BY <1>4 DEF StartWalk, KeptInv, Base
<1>5. CASE ListPage
  BY <1>5 DEF ListPage, KeptInv, Walking, Base, TypeOK
<1>6. CASE ReadPage
  <2>1. Base = listing /\ Walking /\ UNCHANGED <<chain, disturbed>>
    BY <1>6 DEF ReadPage, ReadPageBack, Base, Walking
  <2>2. CASE walk' = [walk EXCEPT !.status = "failed"]
    BY <2>2 DEF TypeOK, KeptInv, Walking
  <2>3. CASE \E F, t : Brings(F, t)
    <3>1. PICK F, t : Brings(F, t)
      BY <2>3
    <3>2. F \subseteq listing /\ listing \subseteq chain
      BY <3>1 DEF Brings, Ahead
    <3>3. Walking' => Base' = chain
      BY <2>1, <3>1, PageFields DEF Base, Walking
    <3> QED
      BY <2>1, <3>1, <3>2, <3>3, PageFields DEF KeptInv
  <2> QED
    BY <1>6, <2>2, <2>3, PageTaken
<1>7. CASE EndWalk
  BY <1>7 DEF EndWalk, Idle, KeptInv, Walking
<1> QED
  BY <1>1, <1>2, <1>3, <1>4, <1>5, <1>6, <1>7 DEF Next

LEMMA ExactStep == ASSUME Inv, [Next]_vars PROVE ExactInv'
<1> USE TypeFacts DEF Inv
<1>1. CASE UNCHANGED vars
  BY <1>1 DEF vars, ExactInv, Walking, Base, Wanted, Undisturbed, Disturbances
<1>2. ASSUME NEW f \in Files, Seal(f) PROVE ExactInv'
  <2> SUFFICES ASSUME Walking', Undisturbed'
               PROVE  /\ \A g \in chain' \ Base', h \in Base' : h.name < g.name
                      /\ walk'.since < Cardinality(Base')
                      /\ \A g \in Behind(Base', walk'.since) : Wanted(g)' => g \in walk'.got
                      /\ \A g \in walk'.got : Wanted(g)'
    BY DEF ExactInv
  <2>1. /\ UNCHANGED <<walk, listing>> /\ Walking /\ chain' = chain \cup {f}
        /\ \A g : Wanted(g)' <=> Wanted(g)
    BY <1>2 DEF Seal, Walking, Wanted
  <2>2. Undisturbed /\ ~(f.name <= latest)
    <3>1. disturbed'.inserted \in Nat /\ disturbed'.removed \in Nat
      BY TypeStep DEF TypeOK
    <3>2. disturbed'.inserted = 0 /\ disturbed'.removed = 0
      BY <3>1 DEF Undisturbed, Disturbances
    <3> QED
      BY <1>2, <2>1, <3>2 DEF Seal
  <2>3. /\ f \notin chain
        /\ \A g \in chain \cup listing : g.name \in Nat /\ g.name < f.name
    <3>1. f.name \in Nat /\ \A g \in chain \cup listing : g.name \in Nat
      BY DEF Distinct
    <3> QED
      BY <2>2, <3>1 DEF NameInv
  <2>4. /\ \A g \in chain \ Base, h \in Base : h.name < g.name
        /\ walk.since < Cardinality(Base)
        /\ \A g \in Behind(Base, walk.since) : Wanted(g) => g \in walk.got
        /\ \A g \in walk.got : Wanted(g)
    BY <2>1, <2>2 DEF ExactInv
  <2>5. CASE walk.status = "asking"
    <3>1. Base = chain /\ Base' = chain \cup {f}
      BY <2>1, <2>5 DEF Base
    <3>2. Distinct(chain \cup {f}) /\ IsFiniteSet(chain)
      BY <1>2, DistinctFinite DEF Seal, Names, Distinct
    <3>3. Cardinality(chain \cup {f}) = Cardinality(chain) + 1 /\ Cardinality(chain) \in Nat
      BY <2>3, <3>2, FS_AddElement, FS_CardinalityType
    <3>4. Rank(chain \cup {f}, f) = Cardinality(chain)
      <4>1. {g \in chain \cup {f} : g.name < f.name} = chain
        <5>1. ~(f.name < f.name)
          BY DEF Distinct
        <5> QED
          BY <2>3, <5>1
      <4> QED
        BY <4>1 DEF Rank
    <3>5. ASSUME NEW g \in Behind(chain \cup {f}, walk.since), Wanted(g)
          PROVE  g \in walk.got
      <4>1. g \in chain
        BY <2>4, <3>1, <3>3, <3>4 DEF Behind
      <4>2. Rank(chain, g) <= Rank(chain \cup {f}, g) /\ Rank(chain \cup {f}, g) <= walk.since
        BY <3>2, RankGrows DEF Behind
      <4>3. Rank(chain, g) \in Nat /\ Rank(chain \cup {f}, g) \in Nat
        BY <3>2, RankType
      <4>4. Rank(chain, g) <= walk.since
        BY <4>2, <4>3
      <4> QED
        BY <2>4, <3>1, <3>5, <4>1, <4>4 DEF Behind
    <3>6. walk.since < Cardinality(chain \cup {f})
      BY <2>4, <3>1, <3>3
    <3> QED
      BY <2>1, <2>4, <3>1, <3>5, <3>6
  <2>6. CASE walk.status = "reading"
    <3>1. Base = listing /\ Base' = listing
      BY <2>1, <2>6 DEF Base
    <3> QED
      BY <2>1, <2>3, <2>4, <3>1
  <2> QED
    BY <2>1, <2>5, <2>6 DEF Walking
<1>3. ASSUME NEW f \in Files, Vanish(f) PROVE ExactInv'
  <2>1. Walking' = Walking /\ (Walking => disturbed'.removed = disturbed.removed + 1
                                          /\ disturbed'.inserted = disturbed.inserted)
    BY <1>3 DEF Vanish, Walking
  <2>2. Walking' => ~Undisturbed'
    BY <2>1 DEF Undisturbed, Disturbances
  <2> QED
    BY <2>2 DEF ExactInv
<1>4. ASSUME NEW limit \in 1..MaxLimit, NEW filter \in Filters \cup {NoFilter},
             StartWalk(limit, filter)
      PROVE  ExactInv'
  <2>1. Base' = chain /\ chain' = chain /\ walk'.got = {} /\ walk'.since = -1
    BY <1>4 DEF StartWalk, Base, NoSeq
  <2>2. Cardinality(chain) \in Nat /\ \A f : Rank(chain, f) \in Nat
    BY DistinctFinite, RankType
  <2>3. Behind(chain, -1) = {}
    BY <2>2 DEF Behind
  <2> QED
    BY <2>1, <2>2, <2>3 DEF ExactInv
<1>5. CASE ListPage
  <2>1. Base' = Base /\ disturbed' = disturbed /\ Walking /\ chain' = chain
    BY <1>5 DEF ListPage, Base, Walking, TypeOK
  <2>2. walk'.got = walk.got /\ walk'.filter = walk.filter /\ walk'.since = walk.since
    BY <1>5 DEF ListPage, TypeOK
  <2> QED
    BY <2>1, <2>2 DEF ExactInv, Wanted, Undisturbed, Disturbances
<1>6. CASE ReadPage
  <2>1. Base = listing /\ Walking /\ UNCHANGED <<chain, disturbed>>
    BY <1>6 DEF ReadPage, ReadPageBack, Base, Walking
  <2>2. CASE walk' = [walk EXCEPT !.status = "failed"]
    BY <2>2 DEF TypeOK, ExactInv, Walking
  <2>3. CASE \E F, t : Brings(F, t)
    <3>1. PICK F, t : Brings(F, t)
      BY <2>3
    <3> SUFFICES ASSUME Walking', Undisturbed'
                 PROVE  ExactInv'
      BY DEF ExactInv
    <3>2. /\ Base' = chain /\ walk'.got = walk.got \cup F /\ walk'.since = t
          /\ \A f : Wanted(f)' <=> Wanted(f)
      BY <2>1, <3>1, PageFields DEF Base, Walking, Wanted
    <3>3. /\ \A g \in chain \ listing, h \in listing : h.name < g.name
          /\ walk.since < Cardinality(listing)
          /\ \A g \in Behind(listing, walk.since) : Wanted(g) => g \in walk.got
          /\ \A g \in walk.got : Wanted(g)
      BY <2>1 DEF ExactInv, Undisturbed, Disturbances
    <3>4. /\ listing \subseteq chain /\ t \in Int
          /\ t = walk.since \/ t < Cardinality(listing)
          /\ \A f \in F : Wanted(f)
          /\ \A f \in Ahead(listing, walk.since) \cap Behind(listing, t) : Wanted(f) => f \in F
      BY <3>1 DEF Brings
    <3>5. t < Cardinality(listing)
      BY <3>3, <3>4
    <3>6. IsFiniteSet(chain) /\ Cardinality(listing) \in Nat /\ Cardinality(chain) \in Nat
          /\ Cardinality(listing) <= Cardinality(chain)
      BY <3>4, DistinctFinite, FS_Subset
    <3>7. ASSUME NEW g \in Behind(chain, t), Wanted(g)
          PROVE  g \in walk.got \cup F
      <4>1. \A h : /\ Rank(listing, h) \in Nat /\ Rank(chain, h) \in Nat
                   /\ Rank(listing, h) <= Rank(chain, h)
        BY <3>4, RankType, RankGrows
      <4>2. g \in listing
        <5>1. CASE g \notin listing
          <6>1. listing \subseteq {h \in chain : h.name < g.name}
            BY <3>3, <3>4, <5>1 DEF Behind
          <6>2. Cardinality(listing) <= Rank(chain, g)
            BY <3>6, <6>1, FS_Subset DEF Rank
          <6> QED
            BY <3>4, <3>5, <3>6, <4>1, <6>2 DEF Behind
        <5> QED
          BY <5>1
      <4>3. Rank(listing, g) <= t
        BY <3>4, <4>1 DEF Behind
      <4>4. CASE Rank(listing, g) <= walk.since
        BY <3>3, <3>7, <4>2, <4>4 DEF Behind
      <4>5. CASE Rank(listing, g) > walk.since
        BY <3>4, <3>7, <4>2, <4>3, <4>5 DEF Behind, Ahead
      <4> QED
        BY <4>1, <4>4, <4>5
    <3>8. t < Cardinality(chain)
      BY <3>4, <3>5, <3>6
    <3> QED
      BY <2>1, <3>2, <3>3, <3>4, <3>7, <3>8 DEF ExactInv
  <2> QED
    BY <1>6, <2>2, <2>3, PageTaken
<1>7. CASE EndWalk
  BY <1>7 DEF EndWalk, Idle, ExactInv, Walking
<1> QED
  BY <1>1, <1>2, <1>3, <1>4, <1>5, <1>6, <1>7 DEF Next

\* The last page.
LEMMA LastPage ==
    ASSUME Inv, ReadPage, NEW F, NEW t, Brings(F, t), Cardinality(F) < walk.limit
    PROVE  WalkExact' /\ WalkBounds' /\ NoFalseRefusal'
<1> USE TypeFacts DEF Inv
<1> DEFINE got == walk.got \cup F
           s == walk.since
<1>1. /\ walk.status = "reading" /\ Base = listing /\ Walking
      /\ UNCHANGED <<chain, disturbed>>
  BY DEF ReadPage, ReadPageBack, Base, Walking
<1>2. /\ walk'.status = "done" /\ walk'.got = got /\ walk'.start = walk.start
      /\ walk'.received = walk.received + Cardinality(F)
      /\ \A f : Wanted(f)' <=> Wanted(f)
  BY PageFields DEF Wanted
<1>3. /\ listing \subseteq chain /\ IsFiniteSet(F)
      /\ F \subseteq Ahead(listing, s) /\ F \subseteq listing
      /\ \A f \in F : Wanted(f)
      /\ \A f \in Ahead(listing, s) : Wanted(f) => f \in F
  BY DEF Brings, Ahead
<1>4. Cardinality({f \in walk.start \cap chain : Wanted(f)} \ got) <= disturbed.removed
  <2> DEFINE lost == {f \in walk.start \cap chain : Wanted(f)} \ got
             missed == Owed(Wants, walk.got, listing, s)
  <2>1. lost \subseteq missed
    BY <1>3 DEF Owed, Wants
  <2>2. Cardinality(missed) <= disturbed.removed
    BY <1>1 DEF MissedInv
  <2>3. /\ Cardinality(lost) <= Cardinality(missed)
        /\ Cardinality(lost) \in Nat /\ Cardinality(missed) \in Nat
    <3>1. IsFiniteSet(missed)
      BY FiniteFacts
    <3> HIDE DEF lost, missed
    <3> QED
      BY <2>1, <3>1, FS_Subset, FS_CardinalityType
  <2> QED
    BY <2>2, <2>3
<1>5. /\ walk.received + Cardinality(F) - Cardinality(got) <= disturbed.inserted
      /\ Cardinality(got) <= walk.received + Cardinality(F)
      /\ Cardinality(got) \in Nat /\ Cardinality(F) \in Nat
  <2>1. /\ IsFiniteSet(got) /\ Cardinality(got) \in Nat /\ Cardinality(F) \in Nat
        /\ Cardinality(got) = Cardinality(walk.got) + Cardinality(F) - Cardinality(F \cap walk.got)
        /\ Cardinality(F \cap walk.got) \in Nat /\ Cardinality(F \cap walk.got) <= Cardinality(F)
    BY <1>3, FiniteFacts, Overlap
  <2>2. Cardinality(F \cap walk.got) <= Cardinality(Again)
    <3>1. F \cap walk.got \subseteq Again /\ IsFiniteSet(Again)
      BY <1>1, <1>3, FiniteFacts DEF Again
    <3> QED
      BY <3>1, FS_Subset
  <2> HIDE DEF got
  <2> QED
    BY <1>1, <2>1, <2>2, TwiceFacts
<1>6. WalkBounds' /\ NoFalseRefusal'
  <2>1. Cardinality({f \in walk'.start \cap chain' : Wanted(f)'} \ walk'.got) <= disturbed'.removed
    BY <1>1, <1>2, <1>4
  <2>2. walk'.received - Cardinality(walk'.got) <= disturbed'.inserted
    BY <1>1, <1>2, <1>5
  <2> QED
    BY <1>2, <2>1, <2>2 DEF WalkBounds, NoFalseRefusal
<1>7. ASSUME Undisturbed
      PROVE  /\ got \subseteq {f \in chain : Wanted(f)}
             /\ walk.received + Cardinality(F) = Cardinality(got)
             /\ \A f \in got, g \in chain : Wanted(g) /\ g.name < f.name => g \in got
             /\ {f \in walk.start : Wanted(f)} \subseteq got
  <2>1. /\ walk.got \subseteq listing /\ walk.start \subseteq listing
        /\ \A g \in chain \ listing, h \in listing : h.name < g.name
        /\ \A g \in Behind(listing, s) : Wanted(g) => g \in walk.got
        /\ \A g \in walk.got : Wanted(g)
    BY <1>1, <1>7 DEF KeptInv, ExactInv
  <2>2. ASSUME NEW g \in listing, Wanted(g)
        PROVE  g \in got
    <3>1. Rank(listing, g) \in Nat
      BY RankType
    <3>2. g \in Behind(listing, s) \/ g \in Ahead(listing, s)
      BY <3>1 DEF Behind, Ahead
    <3> QED
      BY <1>3, <2>1, <2>2, <3>2
  <2>3. \A f \in got, g \in chain : g.name < f.name => g \in listing
    <3>1. \A f \in chain : f.name \in Nat
      BY DEF Distinct
    <3> QED
      BY <1>3, <2>1, <3>1
  <2>4. walk.received + Cardinality(F) = Cardinality(got)
    <3>1. disturbed.inserted = 0 /\ walk.received \in Nat
      BY <1>7
    <3> QED
      BY <1>5, <3>1
  <2> QED
    BY <1>3, <2>1, <2>2, <2>3, <2>4
<1>8. WalkExact'
  <2> HIDE DEF got
  <2>1. Undisturbed' <=> Undisturbed
    BY <1>1 DEF Undisturbed, Disturbances
  <2> QED
    BY <1>1, <1>2, <1>7, <2>1 DEF WalkExact
<1> QED
  BY <1>6, <1>8

\* A page refused.
LEMMA Refused ==
    ASSUME Inv, ReadPage, ReplayFails(Home, listing, chain),
           walk' = [walk EXCEPT !.status = "failed"]
    PROVE  WalkExact' /\ WalkBounds' /\ NoFalseRefusal'
<1> USE TypeFacts DEF Inv
<1>1. /\ walk.status = "reading" /\ Base = listing /\ Walking
      /\ UNCHANGED <<chain, disturbed>>
  BY DEF ReadPage, ReadPageBack, Base, Walking
<1>2. /\ walk'.status = "failed" /\ walk'.got = walk.got /\ walk'.start = walk.start
      /\ walk'.received = walk.received /\ \A f : Wanted(f)' <=> Wanted(f)
  BY DEF TypeOK, Wanted
<1>3. WalkExact /\ WalkBounds /\ walk # Idle
  BY <1>1, WalkFacts DEF Idle
<1>4. WalkExact'
  <2>1. Undisturbed' <=> Undisturbed
    BY <1>1 DEF Undisturbed, Disturbances
  <2> QED
    BY <1>1, <1>2, <1>3, <2>1 DEF WalkExact
<1>5. WalkBounds'
  BY <1>1, <1>2, <1>3 DEF WalkBounds
<1>6. NoFalseRefusal'
  <2>1. CASE disturbed.removed = 0
    <3>1. listing \subseteq chain
      BY <1>1, <2>1 DEF KeptInv
    <3>2. Cardinality(listing) > MaxCylinders
      BY <3>1, HomeAssumption DEF ReplayFails
    <3>3. /\ Cardinality(listing) <= Cardinality(chain)
          /\ Cardinality(listing) \in Nat /\ Cardinality(chain) \in Nat
      BY <3>1, DistinctFinite, FS_Subset
    <3>4. Cardinality(chain) > MaxCylinders
      BY <3>2, <3>3
    <3> QED
      BY <1>1, <3>4 DEF NoFalseRefusal
  <2>2. CASE disturbed.removed # 0
    <3>1. disturbed'.removed > 0
      BY <1>1, <2>2
    <3> QED
      BY <3>1 DEF NoFalseRefusal
  <2> QED
    BY <2>1, <2>2
<1> QED
  BY <1>4, <1>5, <1>6

LEMMA EndStep == ASSUME Inv, [Next]_vars PROVE EndInv'
<1> USE DEF Inv
<1>1. CASE UNCHANGED vars
  BY <1>1 DEF vars, EndInv, WalkExact, WalkBounds, NoFalseRefusal, Undisturbed, Disturbances,
              Wanted
<1>2. ASSUME NEW f \in Files, Seal(f) \/ Vanish(f) PROVE EndInv'
  BY <1>2 DEF Seal, Vanish, Underway, Walking, Idle, EndInv
<1>3. ASSUME NEW limit \in 1..MaxLimit, NEW filter \in Filters \cup {NoFilter},
             StartWalk(limit, filter)
      PROVE  EndInv'
  BY <1>3 DEF StartWalk, EndInv
<1>4. CASE ListPage
  BY <1>4 DEF ListPage, EndInv, TypeOK
<1>5. CASE ReadPage
  <2>1. CASE ReplayFails(Home, listing, chain) /\ walk' = [walk EXCEPT !.status = "failed"]
    BY <1>5, <2>1, Refused DEF EndInv
  <2>2. CASE \E F, t : Brings(F, t)
    <3>1. PICK F, t : Brings(F, t)
      BY <2>2
    <3>2. CASE Cardinality(F) < walk.limit
      BY <1>5, <3>1, <3>2, LastPage DEF EndInv
    <3>3. CASE ~(Cardinality(F) < walk.limit)
      BY <3>1, <3>3, PageFields DEF EndInv
    <3> QED
      BY <3>2, <3>3
  <2> QED
    BY <1>5, <2>1, <2>2, PageTaken
<1>6. CASE EndWalk
  BY <1>6 DEF EndWalk, Idle, EndInv
<1> QED
  BY <1>1, <1>2, <1>3, <1>4, <1>5, <1>6 DEF Next

LEMMA InitInv == ASSUME Init PROVE Inv
<1> USE BoundsAssumption
<1>1. TypeOK
  BY DEF Init, TypeOK, Idle, NoSeq, NoFilter
<1>2. AskInv /\ NameInv
  BY FS_EmptySet DEF Init, AskInv, NameInv, Idle, Walking
<1>3. MissedInv /\ TwiceInv /\ KeptInv /\ ExactInv /\ EndInv
  BY DEF Init, MissedInv, TwiceInv, KeptInv, ExactInv, EndInv, Idle, Walking
<1> QED
  BY <1>1, <1>2, <1>3 DEF Inv

LEMMA Invariant == Spec => []Inv
<1>1. Init => Inv
  BY InitInv
<1>2. Inv /\ [Next]_vars => Inv'
  BY TypeStep, AskStep, NameStep, MissedStep, TwiceStep, KeptStep, ExactStep, EndStep DEF Inv
<1> QED
  BY <1>1, <1>2, PTL DEF Spec

-----------------------------------------------------------------------------
(* What a paging client is promised *)

\* Names stay unique, sequence numbers stay below what a replay may read, and the
\* client's page is of a kind and a size the query takes.
THEOREM TypeCorrect == Spec => []TypeOK
BY Invariant, PTL DEF Inv

\* A client that pages, filtered or not, through a chain that only grows at its tip holds
\* at every moment a stretch without holes of the cylinders it wants, each once, and at the
\* end every one that was there when it began (handler_audit_query over replay_chain).
THEOREM UndisturbedWalksAreExact == Spec => []WalkExact
<1>1. Inv => WalkExact
  BY WalkFacts DEF Inv, EndInv
<1> QED
  BY <1>1, Invariant, PTL

\* Ranks shift under a client when a file is removed or sorts below the tip: it misses no
\* more cylinders than were removed and is given no more twice than were inserted.
THEOREM DisturbedWalksAreBounded == Spec => []WalkBounds
<1>1. Inv => WalkBounds
  BY WalkFacts DEF Inv, EndInv
<1> QED
  BY <1>1, Invariant, PTL

\* A page is refused, as a NodeStateError, only when a file was removed during the walk or
\* the chain holds more than replay_chain reads by default.
THEOREM RefusalsAreFounded == Spec => []NoFalseRefusal
<1>1. Inv => NoFalseRefusal
  BY WalkFacts DEF Inv, EndInv
<1> QED
  BY <1>1, Invariant, PTL

-----------------------------------------------------------------------------
(* The two transports *)

\* A handler's result for a caller: nobody is refused.
ResultFor(p, r) == p = NoOne => r = Fails("MissingPrincipalError")

\* A result that both transports pass on is the same answer from either.
LEMMA PassedOn == ASSUME NEW p, NEW r, ResultFor(p, r) PROVE Agree(Route(p, r), r)
<1>1. CASE p = NoOne
  BY <1>1 DEF ResultFor, Agree, Route, Fails, Failed, TranslateHandlerError
<1>2. CASE p # NoOne /\ Failed(r)
  BY <1>2 DEF Agree, Route
<1>3. CASE p # NoOne /\ ~Failed(r)
  BY <1>3 DEF Agree, Route
<1> QED
  BY <1>1, <1>2, <1>3

\* A model that a tool returns undumped is the same answer, or the library refuses it.
LEMMA PassedOnUndumped ==
    ASSUME NEW s, NEW p, NEW r, ResultFor(p, r)
    PROVE  AgreeUnchecked(s, Route(p, r), Undumped(s, r))
<1>1. CASE s.checked /\ ~Failed(r)
  <2>1. p # NoOne
    BY <1>1 DEF ResultFor, Fails, Failed
  <2>2. Route(p, r).code = 200
    BY <1>1, <2>1 DEF Route
  <2> QED
    BY <1>1, <2>2 DEF AgreeUnchecked, Undumped
<1>2. CASE ~(s.checked /\ ~Failed(r))
  BY <1>2, PassedOn DEF AgreeUnchecked, Undumped
<1> QED
  BY <1>1, <1>2

\* Every handler asks for the principal first.
LEMMA PrincipalRequired ==
    ASSUME NEW p
    PROVE  /\ \A t, reg : ResultFor(p, HandlerNodeStatus(p, t, reg))
           /\ \A t : ResultFor(p, HandlerManifestGet(p, t))
           /\ \A t, series : ResultFor(p, HandlerSpecsList(p, t, series))
           /\ \A reg : ResultFor(p, HandlerRolesList(p, reg))
           /\ ResultFor(p, HandlerBreathGatePending(p))
           /\ \A t, seq, since, limit, filter, listed, present :
                  ResultFor(p, HandlerAuditQuery(p, t, seq, since, limit, filter, listed, present))
BY DEF ResultFor, RequirePrincipal, HandlerNodeStatus, HandlerManifestGet, HandlerSpecsList,
       HandlerRolesList, HandlerBreathGatePending, HandlerAuditQuery

\* A part of what the tool gives is what the handler gives of that part.
LEMMA PartPassedOn ==
    ASSUME NEW p, NEW r, ResultFor(p, r), NEW whole, NEW part, part \subseteq whole
    PROVE  Agree(Route(p, Project(r, part)), Project(Project(r, whole), part))
<1>1. Project(Project(r, whole), part) = Project(r, part)
  <2>1. CASE Failed(r)
    BY <2>1 DEF Project
  <2>2. CASE ~Failed(r)
    <3> DEFINE wide == [f \in whole |-> r.body[f]]
    <3>1. Project(r, whole) = Gives(wide) /\ ~Failed(Gives(wide)) /\ Gives(wide).body = wide
      BY <2>2 DEF Project, Gives, Failed
    <3>2. [f \in part |-> wide[f]] = [f \in part |-> r.body[f]]
      OBVIOUS
    <3> HIDE DEF wide
    <3> QED
      BY <2>2, <3>1, <3>2 DEF Project
  <2> QED
    BY <2>1, <2>2
<1>2. ResultFor(p, Project(r, part))
  BY DEF ResultFor, Project, Fails, Failed
<1> QED
  BY <1>1, <1>2, PassedOn

\* A cylinder the HTTP route does not find is none of the chain.
LEMMA CylinderFound ==
    ASSUME TypeOK, NEW s, NEW t, NEW seq \in Nat
    PROVE  LET http == AuditCylinder(ResolvePrincipal(s), t, seq)
               mcp == BreathlineAuditQuery(s, t, seq, NoSeq, MaxLimit, NoFilter)
           IN \/ AgreeUnchecked(s, http, mcp)
              \/ /\ http.code = 404 /\ seq \notin 0..(Cardinality(chain) - 1)
                 /\ Failed(mcp) => s.checked /\ mcp = Fails("ToolError")
<1> DEFINE p == ResolvePrincipal(s)
           r == HandlerAuditQuery(p, t, seq, NoSeq, MaxLimit, NoFilter, chain, chain)
           answer == Route(p, r)
           http == AuditCylinder(p, t, seq)
           mcp == Undumped(s, r)
           found == {c \in ReadCylinders(chain) : c.seq = seq}
<1>1. ResultFor(p, r) /\ AgreeUnchecked(s, answer, mcp)
  BY PassedOnUndumped, PrincipalRequired
<1>2. CASE ~(answer.code = 200 /\ answer.body.cylinders = {})
  <2>1. http = answer
    BY <1>2 DEF AuditCylinder
  <2> QED
    BY <1>1, <2>1 DEF BreathlineAuditQuery
<1>3. CASE answer.code = 200 /\ answer.body.cylinders = {}
  <2>1. http.code = 404
    BY <1>3 DEF AuditCylinder
  <2>2. p # NoOne /\ ~Failed(r)
    <3> HIDE DEF r, p
    <3>1. answer = [code |-> 200, body |-> r.body] \/ answer.code \in {401, 503, 400, 500, 501}
      BY DEF Route, TranslateHandlerError
    <3> QED
      BY <1>3 DEF Route, TranslateHandlerError
  <2>3. r = Gives([total |-> Cardinality(chain), cylinders |-> found])
    <3>1. seq # NoSeq
      BY DEF NoSeq
    <3> HIDE DEF p
    <3> QED
      BY <2>2, <3>1 DEF HandlerAuditQuery, RequirePrincipal, Fails, Failed
  <2>4. found = {}
    <3> HIDE DEF found, p
    <3>1. r.body.cylinders = found
      BY <2>3 DEF Gives
    <3> HIDE DEF r
    <3>2. answer.body = r.body
      BY <2>2 DEF Route
    <3> QED
      BY <1>3, <3>1, <3>2
  <2>5. ASSUME seq \in 0..(Cardinality(chain) - 1)
        PROVE  FALSE
    <3>1. Distinct(chain) /\ Cardinality(chain) \in Nat
      BY TypeFacts, DistinctFinite
    <3>2. seq < Cardinality(chain)
      BY <2>5, <3>1
    <3>3. PICK f \in chain : Rank(chain, f) = seq
      BY <3>1, <3>2, RankOnto
    <3>4. [seq |-> Rank(chain, f), file |-> f] \in found
      BY <3>3 DEF ReadCylinders
    <3> QED
      BY <2>4, <3>4
  <2>6. Failed(mcp) => s.checked /\ mcp = Fails("ToolError")
    <3> HIDE DEF r, p
    <3> QED
      BY <2>2 DEF Undumped
  <2> QED
    BY <2>1, <2>5, <2>6 DEF BreathlineAuditQuery
<1> QED
  BY <1>2, <1>3

\* Whatever the checkout, the registry and the chain are, what an MCP server answers is
\* what http_routes answers the principal the server takes its callers for, nobody when it
\* was built without a callable: the same body, or the code of the same error; but for a
\* cylinder that is not there (404, where the tool gives none), and for the two tools that
\* return a model to a library that checks results.
THEOREM TransportsSayTheSame == Spec => []TransportsAgree
<1>1. ASSUME TypeOK, NEW s \in Servers, NEW t \in Trees, NEW p, p = ResolvePrincipal(s)
      PROVE  SameAnswers(s, p, t)
  <2>1. ASSUME NEW reg \in Registries
        PROVE  LET mcp == BreathlineNodeStatus(s, t, reg, TRUE, TRUE) IN
               /\ Agree(NodeGet(p, t, reg), Project(mcp, NodeFields))
               /\ Agree(NodeHealth(p, t, reg), Project(mcp, HealthFields))
               /\ Agree(NodeLadder(p, t, reg), Project(mcp, LadderFields))
    <3> DEFINE all == NodeFields \cup HealthFields \cup LadderFields
    <3>1. BreathlineNodeStatus(s, t, reg, TRUE, TRUE)
              = Project(HandlerNodeStatus(p, t, reg), all)
      BY <1>1 DEF BreathlineNodeStatus
    <3>2. NodeFields \subseteq all /\ HealthFields \subseteq all /\ LadderFields \subseteq all
      OBVIOUS
    <3>3. ResultFor(p, HandlerNodeStatus(p, t, reg))
      BY PrincipalRequired
    <3> HIDE DEF all
    <3> QED
      BY <3>1, <3>2, <3>3, PartPassedOn DEF NodeGet, NodeHealth, NodeLadder
  <2>2. ASSUME NEW reg \in Registries
        PROVE  /\ Agree(RolesList(p, reg), BreathlineRolesList(s, reg))
               /\ reg # NoRegistry => ListRoles(p, reg) = RolesList(p, reg)
    <3>1. Agree(RolesList(p, reg), BreathlineRolesList(s, reg))
      BY <1>1, PassedOn, PrincipalRequired DEF RolesList, BreathlineRolesList
    <3>2. ASSUME reg # NoRegistry, p # NoOne
          PROVE  ListRoles(p, reg) = RolesList(p, reg)
      <4>1. HandlerRolesList(p, reg) = Gives([roles |-> reg])
        BY <3>2 DEF HandlerRolesList, RequirePrincipal
      <4>2. /\ ~Failed(Gives([roles |-> reg]))
            /\ Gives([roles |-> reg]).body = [roles |-> reg]
        BY DEF Gives, Failed
      <4> QED
        BY <3>2, <4>1, <4>2 DEF ListRoles, RolesList, Route
    <3>3. p = NoOne => ListRoles(p, reg) = RolesList(p, reg)
      BY DEF ListRoles, RolesList, Route
    <3> QED
      BY <3>1, <3>2, <3>3
  <2>3. Agree(ManifestGet(p, t), BreathlineManifestGet(s, t))
    BY <1>1, PassedOn, PrincipalRequired DEF ManifestGet, BreathlineManifestGet
  <2>4. \A series : Agree(SpecsList(p, t, series), BreathlineSpecsList(s, t, series))
    BY <1>1, PassedOn, PrincipalRequired DEF SpecsList, BreathlineSpecsList
  <2>5. AgreeUnchecked(s, BreathGatePending(p), BreathlineBreathGatePending(s))
    BY <1>1, PassedOnUndumped, PrincipalRequired DEF BreathGatePending,
                                                     BreathlineBreathGatePending
  <2>6. ASSUME NEW since \in {NoSeq, 0, 1}, NEW limit \in 1..MaxLimit, NEW filter \in Filters
        PROVE  AgreeUnchecked(s, AuditCylinders(p, t, since, limit, filter),
                              BreathlineAuditQuery(s, t, NoSeq, since, limit, filter))
    <3> DEFINE r == HandlerAuditQuery(p, t, NoSeq, since, limit, filter, chain, chain)
    <3>1. AgreeUnchecked(s, Route(p, r), Undumped(s, r))
      BY PassedOnUndumped, PrincipalRequired
    <3> HIDE DEF r
    <3> QED
      BY <1>1, <3>1 DEF AuditCylinders, BreathlineAuditQuery, r
  <2>7. ASSUME NEW seq \in 0..2
        PROVE  LET http == AuditCylinder(p, t, seq)
                   mcp == BreathlineAuditQuery(s, t, seq, NoSeq, MaxLimit, NoFilter)
               IN \/ AgreeUnchecked(s, http, mcp)
                  \/ /\ http.code = 404 /\ seq \notin 0..(Cardinality(chain) - 1)
                     /\ Failed(mcp) => s.checked /\ mcp = Fails("ToolError")
    <3>1. seq \in Nat
      OBVIOUS
    <3> QED
      BY <1>1, <3>1, CylinderFound
  <2> QED
    BY <2>1, <2>2, <2>3, <2>4, <2>5, <2>6, <2>7 DEF SameAnswers
<1>2. TypeOK => TransportsAgree
  <2>1. ASSUME TypeOK, NEW s \in Servers, NEW t \in Trees
        PROVE  SameAnswers(s, ResolvePrincipal(s), t)
    BY <1>1, <2>1
  <2> QED
    BY <2>1 DEF TransportsAgree
<1> QED
  BY <1>2, TypeCorrect, PTL
=============================================================================
