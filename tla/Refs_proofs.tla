---------------------------- MODULE Refs_proofs ----------------------------
(***************************************************************************)
(* The reflog for any keys, verbs, values and processes, under three       *)
(* conditions the code does not enforce: no session writes to or closes a  *)
(* file that another has written to since it was opened, writers of        *)
(* different leaves move different branches, and a query tells keys apart. *)
(***************************************************************************)
EXTENDS Refs, FiniteSetTheorems, SequenceTheorems, WellFoundedInduction, TLAPS

----------------------------------------------------------------------------
\* Places in a sequence

\* Natural numbers have a least one among them.
LEMMA LeastExists ==
  ASSUME NEW T \in SUBSET Nat, T # {}
  PROVE  \E t \in T : \A u \in T : ~ (u < t)
<1>1. IsWellFoundedOn(OpToRel(<, Nat), Nat)
  BY NatLessThanWellFounded
<1>2. PICK t \in T : \A u \in T : ~ (<<u, t>> \in OpToRel(<, Nat))
  BY <1>1, WFMin
<1>3. \A u \in T : ~ (u < t)
  <2> TAKE u \in T
  <2>1. u \in Nat /\ t \in Nat
    OBVIOUS
  <2> QED
    BY <1>2, <2>1 DEF OpToRel
<1> QED
  BY <1>3

\* A set of places has a last one.
LEMMA GreatestExists ==
  ASSUME NEW n \in Nat, NEW S \in SUBSET (1..n), S # {}
  PROVE  \E m \in S : \A k \in S : k <= m
<1> DEFINE T == {n - k : k \in S}
<1>1. T \in SUBSET Nat /\ T # {}
  <2>1. \A u \in T : u \in Nat
    OBVIOUS
  <2>2. PICK k \in S : TRUE
    OBVIOUS
  <2>3. n - k \in T
    BY <2>2
  <2> QED
    BY <2>1, <2>3
<1>2. PICK t \in T : \A u \in T : ~ (u < t)
  <2> HIDE DEF T
  <2> QED
    BY <1>1, LeastExists
<1>4. PICK m \in S : t = n - m
  OBVIOUS
<1>5. \A k \in S : k <= m
  <2> TAKE k \in S
  <2>1. ~ (n - k < t)
    BY <1>2
  <2> QED
    BY <1>4, <2>1
<1> QED
  BY <1>5

LEMMA RankOrder ==
  ASSUME NEW n \in Nat, NEW S \in SUBSET (1..n), NEW i \in S, NEW j \in S, i < j
  PROVE  Rank(S, i) < Rank(S, j)
<1> DEFINE I == {k \in S : k < i}
           J == {k \in S : k < j}
<1>1. IsFiniteSet(1..n)
  BY FS_Interval
<1>2. IsFiniteSet(S)
  BY <1>1, FS_Subset
<1>3. IsFiniteSet(I) /\ IsFiniteSet(J)
  BY <1>2, FS_Subset
<1>4. I \in SUBSET J /\ i \in J /\ i \notin I
  <2>1. i \in Int /\ j \in Int /\ \A k \in S : k \in Int
    OBVIOUS
  <2>2. \A k \in S : k < i => k < j
    BY <2>1
  <2>3. I \in SUBSET J
    BY <2>2
  <2>4. i \in J
    OBVIOUS
  <2>5. i \notin I
    BY <2>1
  <2> QED
    BY <2>3, <2>4, <2>5
<1>5. Cardinality(I) <= Cardinality(J) /\ Cardinality(I) # Cardinality(J)
  <2> HIDE DEF I, J
  <2> QED
    BY <1>3, <1>4, FS_Subset
<1>6. Cardinality(I) \in Nat /\ Cardinality(J) \in Nat
  BY <1>3, FS_CardinalityType
<1> QED
  BY <1>5, <1>6 DEF Rank

LEMMA RankType ==
  ASSUME NEW n \in Nat, NEW S \in SUBSET (1..n), NEW i \in S
  PROVE  Cardinality(S) \in 0..n /\ Rank(S, i) \in 0..Cardinality(S) - 1
<1> DEFINE I == {k \in S : k < i}
<1>1. IsFiniteSet(1..n) /\ Cardinality(1..n) = n
  BY FS_Interval
<1>2. IsFiniteSet(S) /\ Cardinality(S) <= n
  BY <1>1, FS_Subset
<1>3. I \in SUBSET S /\ i \in S /\ i \notin I
  OBVIOUS
<1>4. IsFiniteSet(I) /\ Cardinality(I) <= Cardinality(S) /\ Cardinality(I) # Cardinality(S)
  <2> HIDE DEF I
  <2> QED
    BY <1>2, <1>3, FS_Subset
<1>5. Cardinality(I) \in Nat /\ Cardinality(S) \in Nat
  BY <1>2, <1>4, FS_CardinalityType
<1> QED
  BY <1>2, <1>4, <1>5 DEF Rank

\* The places of a set are counted without a gap.
LEMMA PlaceFacts ==
  ASSUME NEW n \in Nat, NEW S \in SUBSET (1..n)
  PROVE  /\ Cardinality(S) \in 0..n
         /\ \A k \in 1..Cardinality(S) : Place(S, k) \in S /\ Rank(S, Place(S, k)) = k - 1
         /\ \A i \in S : Rank(S, i) + 1 \in 1..Cardinality(S) /\ Place(S, Rank(S, i) + 1) = i
<1> DEFINE m == Cardinality(S)
           r == [i \in S |-> Rank(S, i)]
<1>1. IsFiniteSet(1..n) /\ Cardinality(1..n) = n
  BY FS_Interval
<1>2. IsFiniteSet(S) /\ m <= n /\ m \in Nat
  BY <1>1, FS_Subset, FS_CardinalityType
<1>3. IsFiniteSet(0..m-1) /\ Cardinality(0..m-1) = m
  <2> HIDE DEF m
  <2>1. m - 1 \in Int
    BY <1>2
  <2>2. IsFiniteSet(0..m-1) /\ Cardinality(0..m-1) = IF 0 > m - 1 THEN 0 ELSE (m - 1) - 0 + 1
    BY <2>1, FS_Interval
  <2> QED
    BY <1>2, <2>2
<1>4. r \in [S -> 0..m-1]
  BY RankType
<1>5. \A i, j \in S : Rank(S, i) = Rank(S, j) => i = j
  <2> SUFFICES ASSUME NEW i \in S, NEW j \in S, Rank(S, i) = Rank(S, j), i # j
               PROVE  FALSE
    OBVIOUS
  <2>1. Rank(S, i) \in Int /\ Rank(S, j) \in Int
    BY <1>2, RankType
  <2>2. CASE i < j
    <3>1. Rank(S, i) < Rank(S, j)
      BY <2>2, RankOrder
    <3> QED
      BY <2>1, <3>1
  <2>3. CASE j < i
    <3>1. Rank(S, j) < Rank(S, i)
      BY <2>3, RankOrder
    <3> QED
      BY <2>1, <3>1
  <2>4. i \in Int /\ j \in Int
    OBVIOUS
  <2> QED
    BY <2>2, <2>3, <2>4
<1>6. r \in Injection(S, 0..m-1)
  BY <1>4, <1>5 DEF Injection, IsInjective
<1>7. r \in Surjection(S, 0..m-1)
  <2> HIDE DEF r, m
  <2>1. Cardinality(S) = Cardinality(0..m-1)
    BY <1>3 DEF m
  <2> QED
    BY <1>3, <1>6, <2>1, FS_Injection
<1>8. \A k \in 1..m : \E i \in S : Rank(S, i) = k - 1
  <2> TAKE k \in 1..m
  <2>1. k - 1 \in 0..m-1
    BY <1>2
  <2>2. PICK i \in S : r[i] = k - 1
    BY <1>7, <2>1 DEF Surjection
  <2> QED
    BY <2>2
<1>9. \A k \in 1..m : Place(S, k) \in S /\ Rank(S, Place(S, k)) = k - 1
  BY <1>8 DEF Place
<1>10. ASSUME NEW i \in S
       PROVE  Rank(S, i) + 1 \in 1..m /\ Place(S, Rank(S, i) + 1) = i
  <2>1. Rank(S, i) \in 0..m-1
    BY RankType
  <2>2. Rank(S, i) + 1 \in 1..m /\ (Rank(S, i) + 1) - 1 = Rank(S, i)
    BY <1>2, <2>1
  <2>3. Place(S, Rank(S, i) + 1) \in S /\ Rank(S, Place(S, Rank(S, i) + 1)) = Rank(S, i)
    BY <1>9, <2>2
  <2> QED
    BY <1>5, <2>2, <2>3
<1> QED
  BY <1>2, <1>9, <1>10

----------------------------------------------------------------------------
\* Places in a log

LEMMA LatestFacts ==
  ASSUME NEW n \in Nat, NEW S \in SUBSET (1..n)
  PROVE  /\ S = {} => LatestIn(S) = 0
         /\ S # {} => LatestIn(S) \in S /\ \A j \in S : j <= LatestIn(S)
<1>1. CASE S = {}
  BY <1>1 DEF LatestIn
<1>2. CASE S # {}
  <2>1. LatestIn(S) = CHOOSE i \in S : \A j \in S : j <= i
    BY <1>2 DEF LatestIn
  <2>2. \E i \in S : \A j \in S : j <= i
    BY <1>2, GreatestExists
  <2> QED
    BY <1>2, <2>1, <2>2
<1> QED
  BY <1>1, <1>2

LEMMA LatestIs ==
  ASSUME NEW n \in Nat, NEW S \in SUBSET (1..n), NEW m \in S, \A j \in S : j <= m
  PROVE  LatestIn(S) = m
<1>1. LatestIn(S) \in S /\ m <= LatestIn(S)
  BY LatestFacts
<1>2. LatestIn(S) \in 1..n /\ m \in 1..n
  BY <1>1
<1>3. LatestIn(S) <= m
  BY <1>1
<1> QED
  BY <1>1, <1>2, <1>3

----------------------------------------------------------------------------
\* Logs without holes

LEMMA ScanSelf ==
  ASSUME NEW f \in Seq(Row)
  PROVE  Scan(f) = f
<1>1. \A i \in DOMAIN f : f[i] \in Row
  BY ElementOfSeq, LenProperties
<1> QED
  BY <1>1, HoleAssumption DEF Scan

LEMMA PaddedSelf ==
  ASSUME NEW f \in Seq(Row)
  PROVE  Padded(f, Len(f)) = f
<1>1. Len(f) \in Nat /\ f = [i \in 1..Len(f) |-> f[i]]
  BY LenProperties
<1>2. Padded(f, Len(f)) = [i \in 1..Len(f) |-> f[i]]
  BY <1>1 DEF Padded
<1> QED
  BY <1>1, <1>2

LEMMA PaddedAppend ==
  ASSUME NEW f \in Seq(Row), NEW r \in Row
  PROVE  [Padded(f, Len(f) + 1) EXCEPT ![Len(f) + 1] = r] = Append(f, r)
<1> DEFINE n == Len(f)
           g == [Padded(f, n + 1) EXCEPT ![n + 1] = r]
           h == Append(f, r)
<1>1. n \in Nat /\ f \in [1..n -> Row]
  BY LenProperties
<1>2. /\ h \in Seq(Row) /\ Len(h) = n + 1 /\ h[n + 1] = r
      /\ \A i \in 1..n : h[i] = f[i]
  BY AppendProperties
<1>3. h = [i \in 1..n+1 |-> h[i]]
  BY <1>2, LenProperties
<1>4. g = [i \in 1..n+1 |-> IF i = n + 1 THEN r ELSE IF i <= n THEN f[i] ELSE Hole]
  BY <1>1 DEF Padded
<1>5. \A i \in 1..n+1 : h[i] = IF i = n + 1 THEN r ELSE IF i <= n THEN f[i] ELSE Hole
  <2> TAKE i \in 1..n+1
  <2>1. CASE i = n + 1
    BY <1>2, <2>1
  <2>2. CASE i # n + 1
    <3>1. i \in 1..n
      BY <1>1, <2>2
    <3> QED
      BY <1>1, <1>2, <2>2, <3>1
  <2> QED
    BY <2>1, <2>2
<1> HIDE DEF g, h, n
<1>6. g = h
  BY <1>3, <1>4, <1>5
<1> QED
  BY <1>6 DEF g, h, n

LEMMA CompactedFacts ==
  ASSUME NEW f \in Seq(Row)
  PROVE  LET K == Kept(f)
             m == Cardinality(K)
         IN  /\ K \in SUBSET (1..Len(f)) /\ m \in 0..Len(f)
             /\ Compacted(f) \in Seq(Row) /\ Len(Compacted(f)) = m
             /\ \A n \in 1..m : Compacted(f)[n] = f[Place(K, n)]
<1> DEFINE K == Kept(f)
           m == Cardinality(K)
           c == [n \in 1..m |-> f[Place(K, n)]]
<1>1. Len(f) \in Nat /\ DOMAIN f = 1..Len(f)
  BY LenProperties
<1>2. \A i \in 1..Len(f) : f[i] \in Row
  BY ElementOfSeq
<1>3. K \in SUBSET (1..Len(f))
  BY <1>1 DEF Kept
<1>4. m \in 0..Len(f) /\ \A n \in 1..m : Place(K, n) \in K
  <2> HIDE DEF K
  <2> QED
    BY <1>1, <1>3, PlaceFacts
<1>5. Compacted(f) = c
  BY DEF Compacted, At
<1>6. c \in [1..m -> Row]
  <2>1. \A n \in 1..m : f[Place(K, n)] \in Row
    BY <1>2, <1>3, <1>4
  <2> QED
    BY <2>1
<1>7. c \in Seq(Row) /\ Len(c) = m
  <2>1. m \in Nat
    BY <1>1, <1>4
  <2> HIDE DEF c, m
  <2> QED
    BY <1>6, <2>1, IsASeq, LenProperties
<1> QED
  BY <1>3, <1>4, <1>5, <1>7

\* Of every set of places that asks for verb and key only, the latest row is
\* kept, and it is the latest of those that are.
LEMMA KeptLatest ==
  ASSUME NEW f \in Seq(Row), NEW S \in SUBSET (1..Len(f)),
         \A i \in S, j \in 1..Len(f) :
           f[i].verb = f[j].verb /\ f[i].key = f[j].key => j \in S,
         NEW T, T = {n \in 1..Cardinality(Kept(f)) : Place(Kept(f), n) \in S}
  PROVE  /\ S = {} => LatestIn(T) = 0 /\ LatestIn(S) = 0
         /\ S # {} => /\ LatestIn(T) \in 1..Len(Compacted(f))
                      /\ LatestIn(S) \in 1..Len(f)
                      /\ Compacted(f)[LatestIn(T)] = f[LatestIn(S)]
<1> DEFINE K == Kept(f)
           m == Cardinality(K)
           e(n) == Place(K, n)
<1>1. /\ K \in SUBSET (1..Len(f)) /\ m \in 0..Len(f) /\ Len(Compacted(f)) = m
      /\ \A n \in 1..m : Compacted(f)[n] = f[e(n)]
  BY CompactedFacts
<1>2. Len(f) \in Nat /\ m \in Nat /\ DOMAIN f = 1..Len(f)
  BY <1>1, LenProperties
<1>3. T \in SUBSET (1..m)
  OBVIOUS
<1>4. CASE S = {}
  <2>1. T = {}
    BY <1>4
  <2> QED
    BY <1>2, <1>4, <2>1, LatestFacts
<1>5. CASE S # {}
  <2> DEFINE i == LatestIn(S)
             n == Rank(K, i) + 1
  <2>1. i \in S /\ \A j \in S : j <= i
    BY <1>2, <1>5, LatestFacts
  <2>2. i \in K
    <3>1. \A j \in 1..Len(f) : i < j => f[j].verb # f[i].verb \/ f[j].key # f[i].key
      <4> SUFFICES ASSUME NEW j \in 1..Len(f), i < j,
                          f[j].verb = f[i].verb, f[j].key = f[i].key
                   PROVE  FALSE
        OBVIOUS
      <4>1. j \in S /\ i \in 1..Len(f)
        BY <2>1
      <4>2. j <= i
        BY <2>1, <4>1
      <4> QED
        BY <1>2, <4>1, <4>2
    <3> QED
      BY <1>2, <2>1, <3>1 DEF Kept
  <2>3. n \in 1..m /\ e(n) = i
    <3> HIDE DEF K, i
    <3> QED
      BY <1>1, <1>2, <2>2, PlaceFacts
  <2>4. n \in T
    BY <2>1, <2>3
  <2>5. \A k \in T : k <= n
    <3> SUFFICES ASSUME NEW k \in T, ~ (k <= n)
                 PROVE  FALSE
      OBVIOUS
    <3>1. k \in 1..m /\ e(k) \in S /\ e(k) \in K /\ Rank(K, e(k)) = k - 1
      <4>1. k \in 1..m /\ e(k) \in S
        OBVIOUS
      <4> HIDE DEF K
      <4> QED
        BY <1>1, <1>2, <4>1, PlaceFacts
    <3>2. e(k) <= i /\ e(k) \in 1..Len(f) /\ i \in 1..Len(f)
      BY <2>1, <3>1
    <3>3. Rank(K, i) = n - 1 /\ n \in Int /\ k \in Int /\ Rank(K, i) \in Int
      <4>1. Rank(K, i) \in 0..m-1
        <5> HIDE DEF K, i
        <5> QED
          BY <1>1, <1>2, <2>2, RankType
      <4> QED
        BY <1>2, <3>1, <4>1
    <3>4. CASE e(k) = i
      <4>1. k - 1 = n - 1
        BY <3>1, <3>3, <3>4
      <4> HIDE DEF n
      <4> QED
        BY <3>3, <4>1
    <3>5. CASE e(k) # i
      <4>1. e(k) < i
        <5> HIDE DEF K, i
        <5> QED
          BY <3>2, <3>5
      <4>2. Rank(K, e(k)) < Rank(K, i)
        <5> HIDE DEF K, i
        <5> QED
          BY <1>1, <1>2, <2>2, <3>1, <4>1, RankOrder
      <4> HIDE DEF n
      <4> QED
        BY <3>1, <3>3, <4>2
    <3> QED
      BY <3>4, <3>5
  <2>6. LatestIn(T) = n
    <3> HIDE DEF n
    <3> QED
      BY <1>2, <1>3, <2>4, <2>5, LatestIs
  <2> QED
    BY <1>1, <1>5, <2>1, <2>3, <2>6
<1> QED
  BY <1>4, <1>5

\* A compaction changes nothing that can be asked of the log.
LEMMA CompactionKeeps ==
  ASSUME NEW f \in Seq(Row)
  PROVE  /\ \A in : Resolve(Compacted(f), in) = Resolve(f, in)
         /\ \A k : Load(Compacted(f), k) = Load(f, k)
<1> DEFINE c == Compacted(f)
           K == Kept(f)
           m == Cardinality(K)
<1>1. /\ K \in SUBSET (1..Len(f)) /\ m \in 0..Len(f)
      /\ c \in Seq(Row) /\ Len(c) = m /\ \A n \in 1..m : c[n] = f[Place(K, n)]
  BY CompactedFacts
<1>2. /\ Len(f) \in Nat /\ m \in Nat /\ DOMAIN f = 1..Len(f) /\ DOMAIN c = 1..m
      /\ Scan(f) = f /\ Scan(c) = c
  <2> HIDE DEF c
  <2> QED
    BY <1>1, LenProperties, ScanSelf
<1>3. \A n \in 1..m : Place(K, n) \in 1..Len(f)
  <2> HIDE DEF K
  <2> QED
    BY <1>1, <1>2, PlaceFacts
<1>4. ASSUME NEW in
      PROVE  Resolve(c, in) = Resolve(f, in)
  <2> DEFINE S == {i \in 1..Len(f) : Matches(f[i], in)}
             T == {n \in 1..m : Matches(c[n], in)}
  <2>1. T = {n \in 1..m : Place(K, n) \in S}
    BY <1>1, <1>3
  <2>2. \A i \in S, j \in 1..Len(f) :
          f[i].verb = f[j].verb /\ f[i].key = f[j].key => j \in S
    BY DEF Matches
  <2>3. Resolve(f, in) = Value(f, LatestIn(S)) /\ Resolve(c, in) = Value(c, LatestIn(T))
    <3> HIDE DEF c, m
    <3> QED
      BY <1>2 DEF Resolve
  <2>4. /\ S = {} => LatestIn(T) = 0 /\ LatestIn(S) = 0
        /\ S # {} => /\ LatestIn(T) \in 1..m /\ LatestIn(S) \in 1..Len(f)
                     /\ c[LatestIn(T)] = f[LatestIn(S)]
    <3>1. S \in SUBSET (1..Len(f))
      OBVIOUS
    <3> HIDE DEF S, T
    <3> QED
      BY <1>1, <2>1, <2>2, <3>1, KeptLatest
  <2> HIDE DEF S, T, c, m
  <2> QED
    BY <1>2, <2>3, <2>4 DEF Value
<1>5. ASSUME NEW k
      PROVE  Load(c, k) = Load(f, k)
  <2> DEFINE S == {i \in 1..Len(f) : f[i].key = k}
             T == {n \in 1..m : c[n].key = k}
  <2>1. T = {n \in 1..m : Place(K, n) \in S}
    BY <1>1, <1>3
  <2>2. \A i \in S, j \in 1..Len(f) :
          f[i].verb = f[j].verb /\ f[i].key = f[j].key => j \in S
    OBVIOUS
  <2>3. /\ Load(f, k) = IF LatestIn(S) # 0 /\ f[LatestIn(S)].verb \in Fail THEN None
                        ELSE Value(f, LatestIn(S))
        /\ Load(c, k) = IF LatestIn(T) # 0 /\ c[LatestIn(T)].verb \in Fail THEN None
                        ELSE Value(c, LatestIn(T))
    <3> HIDE DEF c, m
    <3> QED
      BY <1>2 DEF Load
  <2>4. /\ S = {} => LatestIn(T) = 0 /\ LatestIn(S) = 0
        /\ S # {} => /\ LatestIn(T) \in 1..m /\ LatestIn(S) \in 1..Len(f)
                     /\ c[LatestIn(T)] = f[LatestIn(S)]
    <3>1. S \in SUBSET (1..Len(f))
      OBVIOUS
    <3> HIDE DEF S, T
    <3> QED
      BY <1>1, <2>1, <2>2, <3>1, KeptLatest
  <2> HIDE DEF S, T, c, m
  <2> QED
    BY <1>2, <2>3, <2>4 DEF Value
<1> QED
  BY <1>4, <1>5

\* What a key is told by a row that matches
Told(r) == IF r.verb = "delete" THEN None ELSE r.val

LEMMA ResolveAppend ==
  ASSUME NEW f \in Seq(Row), NEW r \in Row, NEW in
  PROVE  Resolve(Append(f, r), in) = IF Matches(r, in) THEN Told(r) ELSE Resolve(f, in)
<1> DEFINE g == Append(f, r)
           n == Len(f)
           S == {i \in 1..n : Matches(f[i], in)}
           T == {i \in 1..n+1 : Matches(g[i], in)}
<1>1. n \in Nat /\ DOMAIN f = 1..n /\ Scan(f) = f
  BY LenProperties, ScanSelf
<1>2. /\ g \in Seq(Row) /\ Len(g) = n + 1 /\ g[n + 1] = r
      /\ \A i \in 1..n : g[i] = f[i]
  BY AppendProperties
<1>3. DOMAIN g = 1..n+1 /\ Scan(g) = g
  <2> HIDE DEF g
  <2> QED
    BY <1>2, LenProperties, ScanSelf
<1>4. Resolve(f, in) = Value(f, LatestIn(S)) /\ Resolve(g, in) = Value(g, LatestIn(T))
  <2> HIDE DEF g, n
  <2> QED
    BY <1>1, <1>3 DEF Resolve
<1>5. CASE Matches(r, in)
  <2>1. n + 1 \in T /\ \A j \in T : j <= n + 1
    BY <1>1, <1>2, <1>5
  <2>2. LatestIn(T) = n + 1
    <3>1. T \in SUBSET (1..n+1) /\ n + 1 \in Nat
      BY <1>1
    <3> HIDE DEF T, n
    <3> QED
      BY <2>1, <3>1, LatestIs
  <2>3. Resolve(g, in) = Told(r)
    <3>1. n + 1 # 0
      BY <1>1
    <3> HIDE DEF S, T, n, g
    <3> QED
      BY <1>2, <1>4, <2>2, <3>1 DEF Value, Told
  <2> QED
    BY <1>5, <2>3
<1>6. CASE ~Matches(r, in)
  <2>1. T = S
    <3>1. \A i \in 1..n+1 : i \in T <=> i \in S
      <4> TAKE i \in 1..n+1
      <4>1. CASE i = n + 1
        BY <1>1, <1>2, <1>6, <4>1
      <4>2. CASE i # n + 1
        <5>1. i \in 1..n
          BY <1>1, <4>2
        <5> QED
          BY <1>2, <5>1
      <4> QED
        BY <4>1, <4>2
    <3>2. S \subseteq 1..n+1
      BY <1>1
    <3> QED
      BY <3>1, <3>2
  <2>2. LatestIn(S) = 0 \/ LatestIn(S) \in 1..n
    <3>1. S \in SUBSET (1..n)
      OBVIOUS
    <3> HIDE DEF S, n
    <3> QED
      BY <1>1, <3>1, LatestFacts
  <2>3. Resolve(g, in) = Resolve(f, in)
    <3> HIDE DEF S, T, n, g
    <3> QED
      BY <1>2, <1>4, <2>1, <2>2 DEF Value
  <2> QED
    BY <1>6, <2>3
<1> QED
  BY <1>5, <1>6

----------------------------------------------------------------------------
\* The inductive invariant

\* Writers with different locks move different branches.
OwnBranch == \A v, w \in Writer : LeafOf[v] # LeafOf[w] => Posts[v] \cap Posts[w] = {}

\* Keys that a query tells apart
KeysApart ==
  /\ \A k \in Key : k.host # Dot /\ k.query # Wild
  /\ \A k, j \in Key : k.host = j.host /\ k.query = j.query => k = j

Inside == {"cas_read", "probing", "checking", "putting", "swap", "loading"}

\* The row at the head of a writer's list is compared and not written yet.
Pending(p) ==
  \/ pc[p] \in {"probe", "probing", "check", "checking", "put"}
  \/ pc[p] = "putting" /\ rows[p] # <<>>

\* A process that works on its rows: they are rows it may append.
Working(p) ==
  /\ \A i \in 1..Len(rows[p]) :
       /\ rows[p][i].verb = "delete" => rows[p][i].val = None
       /\ p \in Writer /\ rows[p][i].key.host = Local => rows[p][i].key \in Posts[p]
  /\ pc[p] \in {"cas", "cas_read", "probe", "probing", "check", "checking", "put"} =>
       rows[p] # <<>>
  /\ pc[p] \in {"cas", "cas_read"} => rows[p][1].key.host = Local
  /\ want[p] # Wild /\ rows[p] # <<>> => rows[p][1].key.host = Local
  /\ want[p] # Wild => Len(rows[p]) <= 1 /\ pc[p] # "idle"

\* What a compare-and-append relies on: what it has read, or that what it has
\* compared is still so.
Relies(p) == pc[p] = "cas_read" \/ (want[p] # Wild /\ Pending(p))

Compared(p) ==
  /\ pc[p] = "cas_read" => got[p] = Resolve(log, rows[p][1].key)
  /\ want[p] # Wild /\ Pending(p) => Resolve(log, rows[p][1].key) = want[p]

\* A process: a session to which the file is whole is as long as the log, a
\* writer holds its lock, and what it has compared still holds.
Standing(p) ==
  /\ len[p] # -1 <=> pc[p] \in Inside
  /\ len[p] # -1 /\ view[p] = "whole" => len[p] = Len(log)
  /\ p \in Writer => pc[p] \notin {"load", "loading"}
  /\ p \in Reader => pc[p] \in {"idle", "load", "loading"}
  /\ p \in Writer /\ pc[p] # "idle" => lock[LeafOf[p]] = p
  /\ Working(p)
  /\ Compared(p)

IInv ==
  /\ TypeOK
  /\ log \in Seq(Row) /\ Len(log) <= MaxRows
  /\ \A p \in Proc : Standing(p)

LEMMA InitIInv == Init => IInv
<1> SUFFICES ASSUME Init PROVE IInv
  OBVIOUS
<1> USE ProcAssumption, BoundAssumption
<1>1. log \in Seq(Row) /\ log \in Seq(Row \cup {Hole}) /\ Len(log) = 0
  BY DEF Init
<1>2. \A p \in Proc : rows[p] = <<>> /\ Len(rows[p]) = 0
  BY DEF Init
<1>3. rows \in [Proc -> Seq(Row)]
  BY DEF Init
<1>4. TypeOK
  BY <1>1, <1>3 DEF Init, TypeOK, PC
<1>5. ASSUME NEW p \in Proc
      PROVE  Standing(p)
  BY <1>2 DEF Init, Standing, Working, Compared, Inside, Pending
<1> QED
  BY <1>1, <1>4, <1>5 DEF IInv, Init

LEMMA LogFacts ==
  ASSUME IInv
  PROVE  log \in Seq(Row) /\ Len(log) \in 0..MaxRows /\ Scan(log) = log
<1>1. log \in Seq(Row) /\ Len(log) <= MaxRows
  BY DEF IInv
<1>2. Len(log) \in Nat
  BY <1>1, LenProperties
<1> QED
  BY <1>1, <1>2, BoundAssumption, ScanSelf

LEMMA ResolveType ==
  ASSUME NEW f \in Seq(Row), NEW in
  PROVE  Resolve(f, in) \in Sha \cup {None}
<1> DEFINE S == {i \in DOMAIN f : Matches(f[i], in)}
<1>1. Len(f) \in Nat /\ DOMAIN f = 1..Len(f) /\ Scan(f) = f
  BY LenProperties, ScanSelf
<1>2. \A i \in 1..Len(f) : f[i] \in Row
  BY ElementOfSeq
<1>3. LatestIn(S) = 0 \/ LatestIn(S) \in 1..Len(f)
  <2>1. S \in SUBSET (1..Len(f))
    BY <1>1
  <2> HIDE DEF S
  <2> QED
    BY <1>1, <2>1, LatestFacts
<1>4. Resolve(f, in) = Value(f, LatestIn(S))
  BY <1>1 DEF Resolve
<1> HIDE DEF S
<1> QED
  BY <1>2, <1>3, <1>4 DEF Value, Row

\* Writers that are about at the same time have different locks.
LEMMA LocksApart ==
  ASSUME IInv, NEW v \in Writer, NEW w \in Writer, v # w, pc[v] # "idle", pc[w] # "idle"
  PROVE  LeafOf[v] # LeafOf[w]
<1>1. lock[LeafOf[v]] = v /\ lock[LeafOf[w]] = w
  BY DEF IInv, Standing, Proc
<1> QED
  BY <1>1

\* What a step of one process leaves alone
Others(p) ==
  \A q \in Proc : q # p =>
    /\ len'[q] = len[q] /\ pc'[q] = pc[q] /\ rows'[q] = rows[q]
    /\ want'[q] = want[q] /\ got'[q] = got[q]
    /\ q \in Writer /\ lock[LeafOf[q]] = q => lock'[LeafOf[q]] = q

\* The others keep their places: to a session that is open the file is whole only
\* if it has not changed, and what a comparison relies on resolves as before.
LEMMA Frame ==
  ASSUME IInv, NEW p \in Proc, Others(p), Standing(p)', TypeOK',
         log' \in Seq(Row), Len(log') <= MaxRows,
         \A q \in Proc : q # p /\ len[q] # -1 /\ view'[q] = "whole" =>
            view[q] = "whole" /\ Len(log') = Len(log),
         \A q \in Proc : q # p /\ Relies(q) =>
            Resolve(log', rows[q][1].key) = Resolve(log, rows[q][1].key)
  PROVE  IInv'
<1>1. ASSUME NEW q \in Proc, q # p
      PROVE  Standing(q)'
  <2>1. Standing(q)
    BY DEF IInv
  <2>2. /\ len'[q] = len[q] /\ pc'[q] = pc[q] /\ rows'[q] = rows[q]
        /\ want'[q] = want[q] /\ got'[q] = got[q]
        /\ q \in Writer /\ lock[LeafOf[q]] = q => lock'[LeafOf[q]] = q
    BY <1>1 DEF Others
  <2>3. Working(q)'
    BY <2>1, <2>2 DEF Standing, Working
  <2>4. Compared(q)'
    BY <1>1, <2>1, <2>2 DEF Standing, Compared, Relies, Pending
  <2> QED
    BY <1>1, <2>1, <2>2, <2>3, <2>4 DEF Standing
<1>2. \A q \in Proc : Standing(q)'
  BY <1>1
<1> QED
  BY <1>2 DEF IInv

LEMMA Quiet ==
  ASSUME IInv, NEW p \in Proc, log' = log, Others(p), Standing(p)', TypeOK',
         \A q \in Proc : q # p => view'[q] = view[q]
  PROVE  IInv'
BY Frame DEF IInv

\* A process that opens finds the log whole.
LEMMA OpenedFacts ==
  ASSUME IInv, NEW p \in Proc, Opened(p)
  PROVE  /\ len' = [len EXCEPT ![p] = Len(log)]
         /\ view' = [view EXCEPT ![p] = "whole"]
BY LogFacts DEF Opened

\* A session that closes cuts nothing off.
LEMMA ClosedFacts ==
  ASSUME IInv, ~Stale, NEW p \in Proc, pc[p] \in Inside, Closed(p)
  PROVE  /\ log' = log /\ len' = [len EXCEPT ![p] = -1]
         /\ view' = [view EXCEPT ![p] = "whole"]
<1>1. CASE view[p] = "gone"
  BY <1>1 DEF Closed
<1>2. CASE view[p] # "gone"
  <2>1. view[p] = "whole"
    BY <1>2 DEF Closed, IInv, TypeOK
  <2>2. len[p] = Len(log)
    BY <2>1 DEF IInv, Standing
  <2> QED
    BY <1>2, <2>2, LogFacts, PaddedSelf DEF Closed
<1> QED
  BY <1>1, <1>2

LEMMA ReturnKeeps ==
  ASSUME IInv, NEW p \in Proc, Return(p), log' = log, len' = [len EXCEPT ![p] = -1],
         view' = [view EXCEPT ![p] = "whole"], promise' = promise
  PROVE  IInv'
<1> USE DEF Return, Goto
<1>1. TypeOK'
  <2>1. <<>> \in Seq(Row)
    OBVIOUS
  <2>2. rows' \in [Proc -> Seq(Row)]
    BY <2>1 DEF IInv, TypeOK
  <2>3. lock' \in [Leaf -> Writer \cup {None}]
    BY DEF IInv, TypeOK
  <2>4. -1 \in -1..MaxRows
    BY BoundAssumption
  <2> QED
    BY <2>2, <2>3, <2>4 DEF IInv, TypeOK, PC
<1>2. Others(p)
  BY LeafAssumption DEF Others, IInv, TypeOK, Leaf
<1>3. rows'[p] = <<>> /\ Len(rows'[p]) = 0
  BY DEF IInv, TypeOK
<1>4. pc'[p] = "idle" /\ want'[p] = Wild /\ len'[p] = -1
  BY DEF IInv, TypeOK
<1>5. Standing(p)'
  BY <1>3, <1>4 DEF Standing, Working, Compared, Pending, Inside
<1>6. \A q \in Proc : q # p => view'[q] = view[q]
  BY DEF IInv, TypeOK
<1> QED
  BY <1>1, <1>2, <1>5, <1>6, Quiet

----------------------------------------------------------------------------
\* The steps, one by one

\* A caller that has taken its lock, with rows to append
LEMMA CallKeeps ==
  ASSUME IInv, NEW w \in Writer, NEW rs \in Seq(Row), NEW l \in {"probe", "cas", "put", "compact"},
         Call(w, rs, l), l # "compact" => rs # <<>>,
         \A i \in 1..Len(rs) :
            /\ rs[i].verb = "delete" => rs[i].val = None
            /\ rs[i].key.host = Local => rs[i].key \in Posts[w],
         l = "cas" => rs[1].key.host = Local,
         \/ l # "cas" /\ want' = want
         \/ /\ l = "cas" /\ Len(rs) = 1
            /\ want' \in [Proc -> Sha \cup {None, Wild}]
            /\ \A q \in Proc : q # w => want'[q] = want[q]
  PROVE  IInv'
<1> USE DEF Call, Goto
<1>1. w \in Proc /\ LeafOf[w] \in Leaf
  BY DEF Proc, Leaf
<1>2. TypeOK'
  <2>1. pc' \in [Proc -> PC]
    BY DEF IInv, TypeOK, PC
  <2>2. rows' \in [Proc -> Seq(Row)]
    BY DEF IInv, TypeOK
  <2>3. lock' \in [Leaf -> Writer \cup {None}]
    BY DEF IInv, TypeOK
  <2> QED
    BY <2>1, <2>2, <2>3 DEF IInv, TypeOK
<1>3. Others(w)
  BY <1>1, ProcAssumption DEF Others, IInv, TypeOK
<1>4. pc'[w] = l /\ rows'[w] = rs /\ lock'[LeafOf[w]] = w /\ len'[w] = -1 /\ want[w] = Wild
  BY <1>1 DEF IInv, TypeOK, Standing, Working, Inside
<1>5. Standing(w)'
  <2>1. want'[w] # Wild => l = "cas" /\ Len(rs) = 1
    BY <1>4
  <2>2. Working(w)'
    BY <1>1, <1>4, <2>1 DEF Working
  <2>3. Compared(w)'
    BY <1>4, <2>1 DEF Compared, Pending
  <2> QED
    BY <1>1, <1>4, <2>2, <2>3, ProcAssumption DEF Standing, Inside
<1> QED
  BY <1>1, <1>2, <1>3, <1>5, Quiet

LEMMA CalledKeeps ==
  ASSUME IInv, NEW w \in Writer, Called(w)
  PROVE  IInv'
<1>1. ASSUME NEW v \in Verb, NEW k \in Key, NEW x \in Sha \cup {None}, CallAppend(w, v, k, x)
      PROVE  IInv'
  <2> DEFINE r == [verb |-> v, key |-> k, val |-> x]
  <2>1. /\ r \in Row /\ (r.verb = "delete" => r.val = None)
        /\ r.key.host = Local => r.key \in Posts[w]
    BY <1>1 DEF Row, CallAppend
  <2>2. Call(w, <<r>>, "probe") /\ want' = want
    BY <1>1 DEF CallAppend
  <2> HIDE DEF r
  <2>3. <<r>> \in Seq(Row) /\ <<r>> # <<>> /\ Len(<<r>>) = 1 /\ <<r>>[1] = r
    BY <2>1
  <2>4. \A i \in 1..Len(<<r>>) :
          /\ <<r>>[i].verb = "delete" => <<r>>[i].val = None
          /\ <<r>>[i].key.host = Local => <<r>>[i].key \in Posts[w]
    BY <2>1, <2>3
  <2> QED
    BY <2>2, <2>3, <2>4, CallKeeps
<1>2. ASSUME NEW k \in Key, NEW old \in Sha \cup {None}, NEW new \in Sha, CallCAS(w, k, old, new)
      PROVE  IInv'
  <2> DEFINE r == [verb |-> "post", key |-> k, val |-> new]
  <2>1. /\ r \in Row /\ r.verb # "delete" /\ r.key.host = Local
        /\ r.key.host = Local => r.key \in Posts[w]
    BY <1>2 DEF Row, CallCAS
  <2>2. Call(w, <<r>>, "cas") /\ want' = [want EXCEPT ![w] = old]
    BY <1>2 DEF CallCAS
  <2> HIDE DEF r
  <2>3. <<r>> \in Seq(Row) /\ <<r>> # <<>> /\ Len(<<r>>) = 1 /\ <<r>>[1] = r
    BY <2>1
  <2>4. \A i \in 1..Len(<<r>>) :
          /\ <<r>>[i].verb = "delete" => <<r>>[i].val = None
          /\ <<r>>[i].key.host = Local => <<r>>[i].key \in Posts[w]
    BY <2>1, <2>3
  <2>5. /\ want' \in [Proc -> Sha \cup {None, Wild}]
        /\ \A q \in Proc : q # w => want'[q] = want[q]
    BY <2>2 DEF IInv, TypeOK, Proc
  <2> QED
    BY <2>1, <2>2, <2>3, <2>4, <2>5, CallKeeps
<1>3. ASSUME NEW k \in Key, NEW j \in Key, NEW x \in Sha, NEW y \in Sha,
             CallSync(w, k, j, x, y)
      PROVE  IInv'
  <2> DEFINE r == [verb |-> "get", key |-> k, val |-> x]
             s == [verb |-> "get", key |-> j, val |-> y]
  <2>1. /\ r \in Row /\ s \in Row /\ r.verb # "delete" /\ s.verb # "delete"
        /\ r.key.host # Local /\ s.key.host # Local
    BY <1>3 DEF Row, CallSync
  <2>2. Call(w, <<r, s>>, "put") /\ want' = want
    BY <1>3 DEF CallSync
  <2> HIDE DEF r, s
  <2>3. /\ <<r, s>> \in Seq(Row) /\ Len(<<r, s>>) = 2 /\ <<r, s>>[1] = r /\ <<r, s>>[2] = s
    BY <2>1
  <2>4. \A i \in 1..Len(<<r, s>>) :
          /\ <<r, s>>[i].verb = "delete" => <<r, s>>[i].val = None
          /\ <<r, s>>[i].key.host = Local => <<r, s>>[i].key \in Posts[w]
    BY <2>1, <2>3
  <2> QED
    BY <2>2, <2>3, <2>4, EmptySeq, CallKeeps
<1>4. CASE CallCompact(w)
  <2>1. Call(w, <<>>, "compact") /\ want' = want
    BY <1>4 DEF CallCompact
  <2>2. <<>> \in Seq(Row) /\ Len(<<>>) = 0
    OBVIOUS
  <2>3. \A i \in 1..Len(<<>>) :
          /\ <<>>[i].verb = "delete" => <<>>[i].val = None
          /\ <<>>[i].key.host = Local => <<>>[i].key \in Posts[w]
    BY <2>2
  <2> QED
    BY <2>1, <2>2, <2>3, CallKeeps
<1> QED
  BY <1>1, <1>2, <1>3, <1>4 DEF Called

LEMMA CallLoadKeeps ==
  ASSUME IInv, NEW r \in Reader, CallLoad(r)
  PROVE  IInv'
<1> USE DEF CallLoad, Goto
<1>1. r \in Proc /\ r \notin Writer
  BY ProcAssumption DEF Proc
<1>2. TypeOK'
  BY DEF IInv, TypeOK, PC
<1>3. Others(r)
  BY DEF Others, IInv, TypeOK
<1>4. pc'[r] = "load" /\ len'[r] = -1 /\ want[r] = Wild
  BY <1>1 DEF IInv, TypeOK, Standing, Working, Inside
<1>5. Working(r)'
  BY <1>1, <1>4 DEF IInv, Standing, Working
<1>6. Standing(r)'
  BY <1>1, <1>4, <1>5 DEF Standing, Compared, Inside, Pending
<1> QED
  BY <1>1, <1>2, <1>3, <1>6, Quiet

\* A session opened without a change to the log
LEMMA OpenKeeps ==
  ASSUME IInv, NEW p \in Proc, Opened(p), log' = log,
         NEW from, NEW to \in PC, pc[p] = from, Goto(p, to), to \in Inside,
         <<from, to>> \in {<<"cas", "cas_read">>, <<"probe", "probing">>,
                          <<"check", "checking">>, <<"put", "putting">>,
                          <<"compact", "swap">>, <<"load", "loading">>},
         to = "cas_read" => got'[p] = Resolve(log, rows[p][1].key),
         got' \in [Proc -> Sha \cup {None}], \A q \in Proc : q # p => got'[q] = got[q],
         UNCHANGED <<rows, want, lock, promise>>
  PROVE  IInv'
<1> USE DEF Goto
<1>1. /\ len' = [len EXCEPT ![p] = Len(log)]
      /\ view' = [view EXCEPT ![p] = "whole"]
  BY OpenedFacts
<1>2. Len(log) \in 0..MaxRows
  BY LogFacts
<1>3. TypeOK'
  <2>1. Len(log) \in -1..MaxRows
    BY <1>2, BoundAssumption
  <2>2. len' \in [Proc -> -1..MaxRows]
    BY <1>1, <2>1 DEF IInv, TypeOK
  <2>3. pc' \in [Proc -> PC] /\ view' \in [Proc -> {"whole", "part", "gone"}]
    BY <1>1 DEF IInv, TypeOK
  <2> QED
    BY <2>2, <2>3 DEF IInv, TypeOK
<1>4. Others(p)
  BY <1>1 DEF Others, IInv, TypeOK
<1>5. pc'[p] = to /\ len'[p] = Len(log)
  BY <1>1 DEF IInv, TypeOK
<1>6. Standing(p)'
  <2>1. Standing(p)
    BY DEF IInv
  <2>2. to # "idle" /\ from # "idle"
    OBVIOUS
  <2>3. Working(p)'
    BY <1>5, <2>1, <2>2 DEF Standing, Working
  <2>4. Pending(p)' => Pending(p)
    BY <1>5 DEF Pending
  <2>5. Compared(p)'
    BY <1>5, <2>1, <2>4 DEF Standing, Compared
  <2>6. Len(log) # -1
    BY <1>2, BoundAssumption
  <2> QED
    BY <1>5, <2>1, <2>2, <2>3, <2>5, <2>6 DEF Standing
<1>7. \A q \in Proc : q # p => view'[q] = view[q]
  BY <1>1 DEF IInv, TypeOK
<1> QED
  BY <1>3, <1>4, <1>6, <1>7, Quiet

LEMMA ReadOpenKeeps ==
  ASSUME IInv, NEW p \in Proc, NEW from, NEW to,
         <<from, to>> \in {<<"cas", "cas_read">>, <<"probe", "probing">>,
                          <<"check", "checking">>, <<"load", "loading">>},
         ReadOpen(p, from, to)
  PROVE  IInv'
<1> USE DEF ReadOpen
<1>1. to \in PC /\ to \in Inside
  BY DEF PC, Inside
<1>2. to = "cas_read" => rows[p] # <<>>
  BY DEF IInv, Standing, Working
<1>3. \A in : Resolve(log, in) \in Sha \cup {None}
  BY LogFacts, ResolveType
<1>4. /\ got' \in [Proc -> Sha \cup {None}]
      /\ \A q \in Proc : q # p => got'[q] = got[q]
      /\ to = "cas_read" => got'[p] = Resolve(log, rows[p][1].key)
  BY <1>2, <1>3 DEF IInv, TypeOK
<1> QED
  BY <1>1, <1>4, OpenKeeps

LEMMA PutOpenKeeps ==
  ASSUME IInv, NEW w \in Writer, PutOpen(w) \/ CompactOpen(w)
  PROVE  IInv'
<1>1. w \in Proc /\ got \in [Proc -> Sha \cup {None}]
  BY DEF Proc, IInv, TypeOK
<1>2. CASE PutOpen(w)
  BY <1>1, <1>2, OpenKeeps DEF PutOpen, PC, Inside
<1>3. CASE CompactOpen(w)
  BY <1>1, <1>3, OpenKeeps DEF CompactOpen, PC, Inside
<1> QED
  BY <1>2, <1>3

\* A session closed without a return
LEMMA CloseKeeps ==
  ASSUME IInv, ~Stale, NEW p \in Proc, pc[p] \in Inside, Closed(p), NEW to \in {"probe", "check", "put"},
         Goto(p, to), Pending(p) \/ (want[p] # Wild => got[p] = want[p]),
         <<pc[p], to>> \in {<<"cas_read", "probe">>, <<"probing", "check">>, <<"checking", "put">>},
         UNCHANGED <<rows, want, got, lock, promise>>
  PROVE  IInv'
<1> USE DEF Goto
<1>1. /\ log' = log /\ len' = [len EXCEPT ![p] = -1]
      /\ view' = [view EXCEPT ![p] = "whole"]
  BY ClosedFacts
<1>2. TypeOK'
  <2>1. -1 \in -1..MaxRows
    BY BoundAssumption
  <2> QED
    BY <1>1, <2>1 DEF IInv, TypeOK, PC
<1>3. Others(p)
  BY <1>1 DEF Others, IInv, TypeOK
<1>4. pc'[p] = to /\ len'[p] = -1
  BY <1>1 DEF IInv, TypeOK
<1>5. want[p] # Wild => Resolve(log, rows[p][1].key) = want[p]
  BY DEF IInv, Standing, Compared, Pending
<1>6. Standing(p)'
  <2>1. Standing(p)
    BY DEF IInv
  <2>2. rows[p] # <<>> /\ pc[p] # "idle"
    BY <2>1 DEF Standing, Working
  <2>3. Working(p)'
    BY <1>4, <2>1, <2>2 DEF Standing, Working
  <2>4. Compared(p)'
    BY <1>1, <1>4, <1>5 DEF Compared
  <2> QED
    BY <1>1, <1>4, <2>1, <2>2, <2>3, <2>4 DEF Standing, Inside
<1>7. \A q \in Proc : q # p => view'[q] = view[q]
  BY <1>1 DEF IInv, TypeOK
<1> QED
  BY <1>1, <1>2, <1>3, <1>6, <1>7, Quiet

LEMMA CasCheckKeeps ==
  ASSUME IInv, ~Stale, NEW w \in Writer, CasCheck(w)
  PROVE  IInv'
<1> USE DEF CasCheck
<1>1. w \in Proc /\ pc[w] \in Inside
  BY DEF Proc, Inside
<1>2. /\ log' = log /\ len' = [len EXCEPT ![w] = -1]
      /\ view' = [view EXCEPT ![w] = "whole"]
  BY <1>1, ClosedFacts
<1>3. CASE got[w] = want[w]
  BY <1>1, <1>3, CloseKeeps
<1>4. CASE got[w] # want[w]
  BY <1>1, <1>2, <1>4, ReturnKeeps
<1> QED
  BY <1>3, <1>4

LEMMA ProbeCloseKeeps ==
  ASSUME IInv, ~Stale, NEW w \in Writer, ProbeClose(w)
  PROVE  IInv'
BY CloseKeeps DEF ProbeClose, Proc, Inside, Pending

LEMMA CheckCloseKeeps ==
  ASSUME IInv, ~Stale, NEW w \in Writer, CheckClose(w)
  PROVE  IInv'
<1> USE DEF CheckClose
<1>1. w \in Proc /\ pc[w] \in Inside /\ Pending(w)
  BY DEF Proc, Inside, Pending
<1>2. /\ log' = log /\ len' = [len EXCEPT ![w] = -1]
      /\ view' = [view EXCEPT ![w] = "whole"]
  BY <1>1, ClosedFacts
<1>3. CASE AlreadySo(w)
  BY <1>1, <1>2, <1>3, ReturnKeeps
<1>4. CASE ~AlreadySo(w)
  BY <1>1, <1>4, CloseKeeps
<1> QED
  BY <1>3, <1>4

LEMMA CloseReturnKeeps ==
  ASSUME IInv, ~Stale, NEW p \in Proc, PutClose(p) \/ LoadClose(p) \/ Crash(p)
  PROVE  IInv'
<1>1. CASE PutClose(p)
  BY <1>1, ClosedFacts, ReturnKeeps DEF PutClose, Inside
<1>2. CASE LoadClose(p)
  BY <1>2, ClosedFacts, ReturnKeeps DEF LoadClose, Inside
<1>3. CASE Crash(p)
  BY <1>3, ReturnKeeps DEF Crash
<1> QED
  BY <1>1, <1>2, <1>3

\* A row that lands in a file that is whole to its session lands at the end.
LEMMA PutRowFacts ==
  ASSUME IInv, ~Stale, NEW w \in Writer, PutRow(w)
  PROVE  /\ rows[w] \in Seq(Row) /\ rows[w] # <<>> /\ rows[w][1] \in Row
         /\ Head(rows[w]) = rows[w][1]
         /\ log' = Append(log, rows[w][1])
         /\ len[w] = Len(log) /\ len[w] < MaxRows
         /\ view' = Left(w, "part")
<1>1. w \in Proc /\ pc[w] = "putting" /\ rows[w] # <<>> /\ rows[w] \in Seq(Row)
  BY DEF PutRow, Proc, IInv, TypeOK
<1>2. rows[w][1] \in Row /\ Head(rows[w]) = rows[w][1]
  BY <1>1, ElementOfSeq, LenProperties, EmptySeq
<1>3. /\ len[w] = Len(log) /\ Len(log) \in Nat /\ log \in Seq(Row)
      /\ view[w] = "whole"
  BY <1>1, LogFacts, BoundAssumption DEF IInv, Standing, Inside, PutRow
<1>4. log' = [Padded(log, Len(log) + 1) EXCEPT ![Len(log) + 1] = rows[w][1]]
  BY <1>2, <1>3 DEF PutRow
<1> QED
  BY <1>1, <1>2, <1>3, <1>4, PaddedAppend DEF PutRow

\* What another writer relies on is a branch of its own, and no row of this one.
LEMMA OthersRow ==
  ASSUME IInv, OwnBranch, KeysApart, NEW w \in Writer, pc[w] = "putting",
         rows[w] # <<>>, rows[w] \in Seq(Row),
         NEW q \in Proc, q # w, Relies(q)
  PROVE  ~Matches(rows[w][1], rows[q][1].key)
<1>1. Standing(q) /\ Standing(w) /\ rows[q] \in Seq(Row)
  BY DEF IInv, TypeOK, Proc
<1>2. q \in Writer /\ pc[q] # "idle"
  BY <1>1 DEF Relies, Standing, Working, Pending, Proc
<1>3. rows[q] # <<>> /\ rows[q][1].key.host = Local
  BY <1>1 DEF Relies, Standing, Working, Pending
<1>4. 1 \in 1..Len(rows[q]) /\ 1 \in 1..Len(rows[w])
  BY <1>1, <1>3, LenProperties, EmptySeq
<1>5. rows[q][1] \in Row /\ rows[w][1] \in Row
  BY <1>1, <1>4, ElementOfSeq
<1>6. rows[q][1].key \in Posts[q]
  BY <1>1, <1>2, <1>3, <1>4 DEF Standing, Working
<1>7. rows[w][1].key.host = Local => rows[w][1].key \in Posts[w]
  BY <1>1, <1>4 DEF Standing, Working
<1>8. LeafOf[q] # LeafOf[w]
  BY <1>2, LocksApart
<1>9. rows[w][1].key.host = Local => rows[w][1].key # rows[q][1].key
  BY <1>2, <1>6, <1>7, <1>8 DEF OwnBranch
<1> QED
  BY <1>3, <1>5, <1>9 DEF KeysApart, Matches, Row

LEMMA PutRowKeeps ==
  ASSUME IInv, ~Stale, OwnBranch, KeysApart, NEW w \in Writer, PutRow(w)
  PROVE  IInv'
<1> DEFINE r == rows[w][1]
           rest == SubSeq(rows[w], 2, Len(rows[w]))
<1>1. /\ rows[w] \in Seq(Row) /\ rows[w] # <<>> /\ r \in Row /\ Head(rows[w]) = r
      /\ log' = Append(log, r) /\ len[w] = Len(log) /\ len[w] < MaxRows
      /\ view' = Left(w, "part")
  BY PutRowFacts
<1>2. /\ w \in Proc /\ pc[w] = "putting" /\ len' = [len EXCEPT ![w] = @ + 1]
      /\ rows' = [rows EXCEPT ![w] = rest]
      /\ UNCHANGED <<pc, want, got, lock>>
  BY DEF PutRow, Proc
<1>3. log \in Seq(Row) /\ Len(log) \in Nat /\ MaxRows \in Nat
  BY LogFacts, BoundAssumption
<1>4. log' \in Seq(Row) /\ Len(log') = Len(log) + 1 /\ Len(log') <= MaxRows
  <2>1. Len(log') = Len(log) + 1 /\ log' \in Seq(Row)
    BY <1>1, <1>3, AppendProperties
  <2> QED
    BY <1>1, <1>3, <2>1
<1>5. /\ Len(rows[w]) \in Nat /\ Len(rows[w]) >= 1
      /\ rest \in Seq(Row) /\ Len(rest) = Len(rows[w]) - 1
      /\ \A i \in 1..Len(rest) : rest[i] = rows[w][i + 1]
  <2>1. Len(rows[w]) \in Nat /\ Len(rows[w]) >= 1
    BY <1>1, LenProperties, EmptySeq
  <2>2. \A i \in 2..Len(rows[w]) : rows[w][i] \in Row
    BY <1>1, ElementOfSeq
  <2> QED
    BY <1>1, <2>1, <2>2, SubSeqProperties
<1>6. TypeOK'
  <2>1. log' \in Seq(Row \cup {Hole})
    BY <1>4
  <2>2. len' \in [Proc -> -1..MaxRows]
    <3>1. len[w] + 1 \in -1..MaxRows
      BY <1>1, <1>3
    <3> QED
      BY <1>2, <3>1 DEF IInv, TypeOK
  <2>3. rows' \in [Proc -> Seq(Row)]
    BY <1>2, <1>5 DEF IInv, TypeOK
  <2>4. promise' \in [Key -> Sha \cup {None}]
    BY <1>1 DEF PutRow, IInv, TypeOK, Row
  <2>5. view' \in [Proc -> {"whole", "part", "gone"}]
    BY <1>1 DEF Left, IInv, TypeOK
  <2> QED
    BY <1>2, <2>1, <2>2, <2>3, <2>4, <2>5 DEF IInv, TypeOK
<1>7. Others(w)
  BY <1>2 DEF Others, IInv, TypeOK
<1>8. rows'[w] = rest /\ len'[w] = Len(log')
  BY <1>1, <1>2, <1>4 DEF IInv, TypeOK
<1>9. Standing(w)'
  <2>1. Standing(w)
    BY <1>2 DEF IInv
  <2>2. \A i \in 1..Len(rest) :
          /\ rest[i].verb = "delete" => rest[i].val = None
          /\ rest[i].key.host = Local => rest[i].key \in Posts[w]
    <3>1. ASSUME NEW i \in 1..Len(rest)
          PROVE  rest[i] = rows[w][i + 1] /\ i + 1 \in 1..Len(rows[w])
      BY <1>5
    <3> QED
      BY <2>1, <3>1 DEF Standing, Working
  <2>3. want[w] # Wild => rest = <<>> /\ Len(rest) <= 1
    <3>1. want[w] # Wild => Len(rest) = 0
      BY <1>5, <2>1 DEF Standing, Working
    <3> QED
      BY <1>5, <3>1, EmptySeq
  <2> HIDE DEF rest
  <2>4. want'[w] # Wild => ~Pending(w)'
    BY <1>2, <1>8, <2>3 DEF Pending
  <2>5. pc'[w] = "putting" /\ pc'[w] \in Inside /\ w \in Writer /\ lock' = lock /\ want' = want
    BY <1>2 DEF Inside
  <2>6. Working(w)'
    BY <1>8, <2>2, <2>3, <2>5 DEF Working
  <2>7. Compared(w)'
    BY <2>4, <2>5 DEF Compared
  <2>8. Len(log') # -1
    BY <1>3, <1>4
  <2> QED
    BY <1>2, <1>8, <2>1, <2>5, <2>6, <2>7, <2>8, ProcAssumption DEF Standing
<1>10. \A q \in Proc : q # w /\ len[q] # -1 => view'[q] # "whole"
  BY <1>1 DEF Left
<1>11. ASSUME NEW q \in Proc, q # w, Relies(q)
       PROVE  Resolve(log', rows[q][1].key) = Resolve(log, rows[q][1].key)
  <2>1. ~Matches(r, rows[q][1].key)
    BY <1>1, <1>2, <1>11, OthersRow
  <2> HIDE DEF r
  <2> QED
    BY <1>1, <1>3, <2>1, ResolveAppend
<1> QED
  BY <1>2, <1>4, <1>6, <1>7, <1>9, <1>10, <1>11, Frame

LEMMA CompactSwapFacts ==
  ASSUME IInv, ~Stale, NEW w \in Writer, CompactSwap(w)
  PROVE  log' = Compacted(log)
<1>1. w \in Proc /\ pc[w] \in Inside /\ view[w] = "whole"
  BY DEF CompactSwap, Proc, Inside
<1>2. len[w] = Len(log)
  BY <1>1 DEF IInv, Standing
<1> QED
  BY <1>2, LogFacts, PaddedSelf DEF CompactSwap

LEMMA CompactSwapKeeps ==
  ASSUME IInv, ~Stale, NEW w \in Writer, CompactSwap(w)
  PROVE  IInv'
<1> USE DEF CompactSwap, Return, Goto
<1>1. w \in Proc /\ pc[w] \in Inside
  BY DEF Proc, Inside
<1>2. log' = Compacted(log)
  BY CompactSwapFacts
<1>3. log' \in Seq(Row) /\ Len(log') \in 0..Len(log)
  BY <1>2, LogFacts, CompactedFacts
<1>4. Len(log') <= MaxRows
  BY <1>3, LogFacts, BoundAssumption
<1>5. TypeOK'
  <2>1. <<>> \in Seq(Row)
    OBVIOUS
  <2>2. rows' \in [Proc -> Seq(Row)]
    BY <2>1 DEF IInv, TypeOK
  <2>3. lock' \in [Leaf -> Writer \cup {None}]
    BY DEF IInv, TypeOK
  <2>4. -1 \in -1..MaxRows
    BY BoundAssumption
  <2>5. log' \in Seq(Row \cup {Hole})
    BY <1>3
  <2>6. view' \in [Proc -> {"whole", "part", "gone"}]
    BY DEF Left, IInv, TypeOK
  <2> QED
    BY <2>2, <2>3, <2>4, <2>5, <2>6 DEF IInv, TypeOK, PC
<1>6. Others(w)
  BY LeafAssumption DEF Others, IInv, TypeOK, Leaf
<1>7. rows'[w] = <<>> /\ Len(rows'[w]) = 0
  BY <1>1 DEF IInv, TypeOK
<1>8. pc'[w] = "idle" /\ want'[w] = Wild /\ len'[w] = -1
  BY <1>1 DEF IInv, TypeOK
<1>9. Standing(w)'
  BY <1>7, <1>8, ProcAssumption DEF Standing, Working, Compared, Pending, Inside
<1>10. \A q \in Proc : q # w /\ len[q] # -1 => view'[q] # "whole"
  BY DEF Left, IInv, TypeOK
<1>11. \A q \in Proc : Resolve(log', rows[q][1].key) = Resolve(log, rows[q][1].key)
  BY <1>2, LogFacts, CompactionKeeps
<1> QED
  BY <1>1, <1>3, <1>4, <1>5, <1>6, <1>9, <1>10, <1>11, Frame

LEMMA NextKeeps ==
  ASSUME IInv, ~Stale, OwnBranch, KeysApart, [Next]_vars
  PROVE  IInv'
<1>1. CASE UNCHANGED vars
  BY <1>1 DEF vars, IInv, TypeOK, Standing, Working, Compared, Pending
<1>2. ASSUME NEW w \in Writer, Called(w)
      PROVE  IInv'
  BY <1>2, CalledKeeps
<1>3. ASSUME NEW w \in Writer, WriterStep(w)
      PROVE  IInv'
  <2>1. w \in Proc
    BY DEF Proc
  <2>2. CASE \/ ReadOpen(w, "cas", "cas_read") \/ ReadOpen(w, "probe", "probing")
             \/ ReadOpen(w, "check", "checking")
    BY <2>1, <2>2, ReadOpenKeeps
  <2>3. CASE CasCheck(w)
    BY <2>3, CasCheckKeeps
  <2>4. CASE ProbeClose(w)
    BY <2>4, ProbeCloseKeeps
  <2>5. CASE CheckClose(w)
    BY <2>5, CheckCloseKeeps
  <2>6. CASE PutOpen(w) \/ CompactOpen(w)
    BY <2>6, PutOpenKeeps
  <2>7. CASE PutRow(w)
    BY <2>7, PutRowKeeps
  <2>8. CASE PutClose(w)
    BY <2>1, <2>8, CloseReturnKeeps
  <2>9. CASE CompactSwap(w)
    BY <2>9, CompactSwapKeeps
  <2> QED
    BY <1>3, <2>2, <2>3, <2>4, <2>5, <2>6, <2>7, <2>8, <2>9 DEF WriterStep
<1>4. ASSUME NEW r \in Reader, ReaderStep(r)
      PROVE  IInv'
  <2>1. r \in Proc
    BY DEF Proc
  <2> QED
    BY <1>4, <2>1, CallLoadKeeps, ReadOpenKeeps, CloseReturnKeeps DEF ReaderStep
<1>5. ASSUME NEW p \in Proc, Crash(p)
      PROVE  IInv'
  BY <1>5, CloseReturnKeeps
<1> QED
  BY <1>1, <1>2, <1>3, <1>4, <1>5 DEF Next

----------------------------------------------------------------------------
\* The theorems.  None of the three conditions is the code's doing: a reader's
\* session may outlive an append to its file (Stale), a push may move a branch
\* under another branch's lock (OwnBranch), a key may differ from another in its
\* path only (KeysApart).

\* Every session to which the file is whole sees the log at its true length, a
\* writer that is about holds its lock, and what it has compared still holds.
THEOREM Invariance ==
  ASSUME ~Stale, OwnBranch, KeysApart
  PROVE  Spec => []IInv
<1>1. IInv /\ [Next]_vars => IInv'
  BY NextKeeps
<1> QED
  BY InitIInv, <1>1, PTL DEF Spec

\* The type invariant.
THEOREM TypeCorrect ==
  ASSUME ~Stale, OwnBranch, KeysApart
  PROVE  Spec => []TypeOK
<1>1. IInv => TypeOK
  BY DEF IInv
<1> QED
  BY Invariance, <1>1, PTL

LEMMA NothingLostStep ==
  ASSUME IInv, ~Stale, NothingLost, KeysApart, [Next]_vars
  PROVE  NothingLost'
<1>1. ASSUME log' = log, promise' = promise
      PROVE  NothingLost'
  BY <1>1 DEF NothingLost
<1>2. ASSUME NEW w \in Writer, Called(w)
      PROVE  NothingLost'
  BY <1>1, <1>2 DEF Called, CallAppend, CallCAS, CallSync, CallCompact, Call
<1>3. ASSUME NEW w \in Writer, WriterStep(w)
      PROVE  NothingLost'
  <2>1. w \in Proc
    BY DEF Proc
  <2>2. CASE \/ ReadOpen(w, "cas", "cas_read") \/ ReadOpen(w, "probe", "probing")
             \/ ReadOpen(w, "check", "checking")
    BY <1>1, <2>2 DEF ReadOpen
  <2>3. CASE CasCheck(w)
    BY <1>1, <2>1, <2>3, ClosedFacts DEF CasCheck, Inside
  <2>4. CASE ProbeClose(w)
    BY <1>1, <2>1, <2>4, ClosedFacts DEF ProbeClose, Inside
  <2>5. CASE CheckClose(w)
    BY <1>1, <2>1, <2>5, ClosedFacts DEF CheckClose, Inside
  <2>6. CASE PutOpen(w) \/ CompactOpen(w)
    BY <1>1, <2>6 DEF PutOpen, CompactOpen
  <2>7. CASE PutRow(w)
    <3> DEFINE r == rows[w][1]
    <3>1. /\ rows[w] \in Seq(Row) /\ rows[w] # <<>> /\ r \in Row /\ Head(rows[w]) = r
          /\ log' = Append(log, r)
      BY <2>7, PutRowFacts
    <3>2. \A k \in Key :
            Resolve(log', k) = IF Matches(r, k) THEN Told(r) ELSE Resolve(log, k)
      BY <3>1, LogFacts, ResolveAppend
    <3>3. promise' = IF r.verb \in Fail THEN promise ELSE [promise EXCEPT ![r.key] = r.val]
      BY <2>7, <3>1 DEF PutRow
    <3>4. Told(r) = r.val
      <4>1. 1 \in 1..Len(rows[w])
        BY <3>1, LenProperties, EmptySeq
      <4> QED
        BY <2>1, <4>1 DEF IInv, Standing, Working, Told
    <3>5. \A k \in Key : Matches(r, k) <=> r.verb \notin Fail /\ k = r.key
      BY <3>1 DEF KeysApart, Matches, Row
    <3>6. ASSUME NEW k \in Key
          PROVE  Resolve(log', k) = promise'[k]
      <4>1. Resolve(log, k) = promise[k] /\ promise \in [Key -> Sha \cup {None}]
        BY DEF NothingLost, IInv, TypeOK
      <4> HIDE DEF r
      <4> QED
        BY <3>2, <3>3, <3>4, <3>5, <4>1
    <3> QED
      BY <3>6 DEF NothingLost
  <2>8. CASE PutClose(w)
    BY <1>1, <2>1, <2>8, ClosedFacts DEF PutClose, Inside
  <2>9. CASE CompactSwap(w)
    <3>1. log' = Compacted(log) /\ promise' = promise
      BY <2>9, CompactSwapFacts DEF CompactSwap
    <3>2. \A k : Resolve(log', k) = Resolve(log, k)
      BY <3>1, LogFacts, CompactionKeeps
    <3> QED
      BY <3>1, <3>2 DEF NothingLost
  <2> QED
    BY <1>3, <2>2, <2>3, <2>4, <2>5, <2>6, <2>7, <2>8, <2>9 DEF WriterStep
<1>4. ASSUME NEW r \in Reader, ReaderStep(r)
      PROVE  NothingLost'
  <2>1. r \in Proc
    BY DEF Proc
  <2>2. CASE CallLoad(r) \/ ReadOpen(r, "load", "loading")
    BY <1>1, <2>2 DEF CallLoad, ReadOpen
  <2>3. CASE LoadClose(r)
    BY <1>1, <2>1, <2>3, ClosedFacts DEF LoadClose, Inside
  <2> QED
    BY <1>4, <2>2, <2>3 DEF ReaderStep
<1>5. ASSUME NEW p \in Proc, Crash(p)
      PROVE  NothingLost'
  BY <1>1, <1>5 DEF Crash
<1>6. CASE UNCHANGED vars
  BY <1>1, <1>6 DEF vars
<1> QED
  BY <1>2, <1>3, <1>4, <1>5, <1>6 DEF Next

\* Each key that a query tells apart resolves, at every moment, to the value
\* last appended for it: REFSAppendVerb, REFSSyncRecord, compactions, deaths, and
\* closes of sessions whose file no other has written to meanwhile lose no row.
THEOREM NothingEverLost ==
  ASSUME ~Stale, OwnBranch, KeysApart
  PROVE  Spec => []NothingLost
<1>1. Init => NothingLost
  <2> SUFFICES ASSUME Init
               PROVE  NothingLost
    OBVIOUS
  <2>1. log = <<>> /\ log \in Seq(Row) /\ Len(log) = 0 /\ DOMAIN log = {}
    BY DEF Init
  <2>2. \A k : Resolve(log, k) = None
    BY <2>1, ScanSelf DEF Resolve, Value, LatestIn
  <2> QED
    BY <2>2 DEF Init, NothingLost
<1>2. IInv /\ NothingLost /\ [Next]_vars => NothingLost'
  BY NothingLostStep
<1> QED
  BY Invariance, <1>1, <1>2, PTL DEF Spec

\* A step that writes the row of a compare-and-append is a PutRow.
LEMMA WritesByPutRow ==
  ASSUME IInv, [Next]_vars, NEW w \in Writer, rows'[w] # rows[w], pc'[w] = "putting"
  PROVE  PutRow(w)
<1>1. /\ w \in Proc /\ Writer \cap Reader = {}
      /\ rows \in [Proc -> Seq(Row)] /\ pc \in [Proc -> PC]
  BY ProcAssumption DEF Proc, IInv, TypeOK
<1>2. ASSUME NEW p \in Proc, Return(p)
      PROVE  FALSE
  BY <1>1, <1>2 DEF Return, Goto
<1>3. ASSUME NEW v \in Writer, NEW rs, NEW l \in {"probe", "cas", "put", "compact"}, Call(v, rs, l)
      PROVE  FALSE
  BY <1>1, <1>3 DEF Call, Goto
<1>4. ASSUME NEW v \in Writer, Called(v)
      PROVE  FALSE
  BY <1>3, <1>4 DEF Called, CallAppend, CallCAS, CallSync, CallCompact
<1>5. ASSUME NEW v \in Writer, PutRow(v), v # w
      PROVE  FALSE
  BY <1>1, <1>5 DEF PutRow
<1>6. ASSUME NEW v \in Writer, WriterStep(v)
      PROVE  PutRow(w)
  <2>1. v \in Proc
    BY DEF Proc
  <2> QED
    BY <1>2, <1>5, <1>6, <2>1
    DEF WriterStep, ReadOpen, CasCheck, ProbeClose, CheckClose, PutOpen, PutClose,
        CompactOpen, CompactSwap
<1>7. ASSUME NEW r \in Reader, ReaderStep(r)
      PROVE  FALSE
  <2>1. r \in Proc
    BY DEF Proc
  <2> QED
    BY <1>2, <1>7, <2>1 DEF ReaderStep, CallLoad, ReadOpen, LoadClose
<1>8. ASSUME NEW p \in Proc, Crash(p)
      PROVE  FALSE
  BY <1>2, <1>8 DEF Crash
<1>9. CASE UNCHANGED vars
  BY <1>9 DEF vars
<1> QED
  BY <1>4, <1>6, <1>7, <1>8, <1>9 DEF Next

\* REFSCompareAndAppend writes only while the key still resolves to the value
\* it was told to expect, as long as no other lock's holder moves that branch.
THEOREM CompareAndAppendHonest ==
  ASSUME ~Stale, OwnBranch, KeysApart
  PROVE  Spec => CASHonest
<1>1. ASSUME IInv, [Next]_vars, NEW w \in Writer, want[w] # Wild, rows[w] # <<>>,
             rows'[w] = <<>>, pc'[w] = "putting"
      PROVE  Resolve(log, rows[w][1].key) = want[w]
  <2>1. pc[w] = "putting" /\ w \in Proc
    BY <1>1, WritesByPutRow DEF PutRow, Proc
  <2> QED
    BY <1>1, <2>1 DEF IInv, Standing, Compared, Pending
<1>2. IInv /\ [Next]_vars =>
        [\A w \in Writer :
           want[w] # Wild /\ rows[w] # <<>> /\ rows'[w] = <<>> /\ pc'[w] = "putting"
             => Resolve(log, rows[w][1].key) = want[w]]_vars
  BY <1>1
<1> QED
  BY Invariance, <1>2, PTL DEF Spec, CASHonest

\* REFSCompact changes nothing that REFSResolve or REFSLoad return, for every
\* form of input and every log.
THEOREM CompactionAlwaysInvisible ==
  ASSUME ~Stale, OwnBranch, KeysApart
  PROVE  Spec => CompactionInvisible
<1> DEFINE Same == /\ \A in \in Input : Resolve(log', in) = Resolve(log, in)
                   /\ \A k \in Key : Load(log', k) = Load(log, k)
<1>1. ASSUME IInv, [Next]_vars, NEW w \in Writer, pc[w] = "swap", pc'[w] = "idle", log' # log
      PROVE  Same
  <2>1. pc \in [Proc -> PC]
    BY <1>1 DEF IInv, TypeOK
  <2>2. ASSUME NEW v \in Writer, CompactSwap(v)
        PROVE  Same
    <3>1. log' = Compacted(log)
      BY <1>1, <2>2, CompactSwapFacts
    <3> QED
      BY <1>1, <3>1, LogFacts, CompactionKeeps
  <2>3. ASSUME NEW p \in Proc, Closed(p), pc[p] \in Inside
        PROVE  FALSE
    BY <1>1, <2>3, ClosedFacts
  <2>4. ASSUME NEW v \in Writer, Called(v)
        PROVE  FALSE
    BY <1>1, <2>4 DEF Called, CallAppend, CallCAS, CallSync, CallCompact, Call
  <2>5. ASSUME NEW v \in Writer, WriterStep(v)
        PROVE  CompactSwap(v)
    <3>1. v \in Proc
      BY DEF Proc
    <3>2. ASSUME PutRow(v)
          PROVE  FALSE
      BY <1>1, <3>2 DEF PutRow
    <3> QED
      BY <1>1, <2>3, <2>5, <3>1, <3>2
      DEF WriterStep, ReadOpen, CasCheck, ProbeClose, CheckClose, PutOpen, PutClose,
          CompactOpen, Inside
  <2>6. ASSUME NEW r \in Reader, ReaderStep(r)
        PROVE  FALSE
    BY <1>1, <2>3, <2>6 DEF ReaderStep, CallLoad, ReadOpen, LoadClose, Inside, Proc
  <2>7. ASSUME NEW p \in Proc, Crash(p)
        PROVE  FALSE
    BY <1>1, <2>7 DEF Crash
  <2>8. \E v \in Writer : CompactSwap(v)
    BY <1>1, <2>4, <2>5, <2>6, <2>7 DEF Next, vars
  <2> QED
    BY <2>2, <2>8
<1>2. IInv /\ [Next]_vars =>
        [(\E w \in Writer : pc[w] = "swap" /\ pc'[w] = "idle" /\ log' # log) => Same]_vars
  BY <1>1
<1> QED
  BY Invariance, <1>2, PTL DEF Spec, CompactionInvisible
=============================================================================
