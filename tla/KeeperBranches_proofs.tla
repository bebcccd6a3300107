------------------------ MODULE KeeperBranches_proofs ------------------------
(***************************************************************************)
(* File numbers in a tree of branches of any shape, whether or not         *)
(* strangers' files are in a session's registries.  As long as no session  *)
(* makes a file while another is open, each session's next number is past  *)
(* every number in use, and no two directories share one.  With one        *)
(* session at a time no entry of an index points at other bytes than its   *)
(* object's.  With no strangers, in a tree of a trunk and branches on it,  *)
(* what was put into a branch also stays readable on its line.             *)
(***************************************************************************)
EXTENDS KeeperBranches, FiniteSetTheorems, SequenceTheorems, WellFoundedInduction, TLAPS

----------------------------------------------------------------------------
\* Places in a sequence

\* Natural numbers have a least one among them.
LEMMA LeastExists ==
  ASSUME NEW T \in SUBSET Nat, T # {}
  PROVE  \E t \in T : \A u \in T : ~ (u < t)
<1>1. IsWellFoundedOn(OpToRel(<, Nat), Nat)
  BY NatLessThanWellFounded
<1>2. PICK t \in T : \A u \in T : ~ (<<u, t>> \in OpToRel(<, Nat))
  BY <1>1, WFMin
<1>3. \A u \in T : ~ (u < t)
  <2> TAKE u \in T
  <2>1. u \in Nat /\ t \in Nat
    OBVIOUS
  <2> QED
    BY <1>2, <2>1 DEF OpToRel
<1> QED
  BY <1>3

\* A set of places has a last one.
LEMMA GreatestExists ==
  ASSUME NEW n \in Nat, NEW S \in SUBSET (1..n), S # {}
  PROVE  \E m \in S : \A k \in S : k <= m
<1> DEFINE T == {n - k : k \in S}
<1>1. T \in SUBSET Nat /\ T # {}
  <2>1. \A u \in T : u \in Nat
    OBVIOUS
  <2>2. PICK k \in S : TRUE
    OBVIOUS
  <2>3. n - k \in T
    BY <2>2
  <2> QED
    BY <2>1, <2>3
<1>2. PICK t \in T : \A u \in T : ~ (u < t)
  <2> HIDE DEF T
  <2> QED
    BY <1>1, LeastExists
<1>4. PICK m \in S : t = n - m
  OBVIOUS
<1>5. \A k \in S : k <= m
  <2> TAKE k \in S
  <2>1. ~ (n - k < t)
    BY <1>2
  <2> QED
    BY <1>4, <2>1
<1> QED
  BY <1>5

LEMMA RankOrder ==
  ASSUME NEW n \in Nat, NEW S \in SUBSET (1..n), NEW i \in S, NEW j \in S, i < j
  PROVE  Rank(S, i) < Rank(S, j)
<1> DEFINE I == {k \in S : k < i}
           J == {k \in S : k < j}
<1>1. IsFiniteSet(1..n)
  BY FS_Interval
<1>2. IsFiniteSet(S)
  BY <1>1, FS_Subset
<1>3. IsFiniteSet(I) /\ IsFiniteSet(J)
  BY <1>2, FS_Subset
<1>4. I \in SUBSET J /\ i \in J /\ i \notin I
  <2>1. i \in Int /\ j \in Int /\ \A k \in S : k \in Int
    OBVIOUS
  <2>2. \A k \in S : k < i => k < j
    BY <2>1
  <2>3. I \in SUBSET J
    BY <2>2
  <2>4. i \in J
    OBVIOUS
  <2>5. i \notin I
    BY <2>1
  <2> QED
    BY <2>3, <2>4, <2>5
<1>5. Cardinality(I) <= Cardinality(J) /\ Cardinality(I) # Cardinality(J)
  <2> HIDE DEF I, J
  <2> QED
    BY <1>3, <1>4, FS_Subset
<1>6. Cardinality(I) \in Nat /\ Cardinality(J) \in Nat
  BY <1>3, FS_CardinalityType
<1> QED
  BY <1>5, <1>6 DEF Rank

LEMMA RankType ==
  ASSUME NEW n \in Nat, NEW S \in SUBSET (1..n), NEW i \in S
  PROVE  Cardinality(S) \in 0..n /\ Rank(S, i) \in 0..Cardinality(S) - 1
<1> DEFINE I == {k \in S : k < i}
<1>1. IsFiniteSet(1..n) /\ Cardinality(1..n) = n
  BY FS_Interval
<1>2. IsFiniteSet(S) /\ Cardinality(S) <= n
  BY <1>1, FS_Subset
<1>3. I \in SUBSET S /\ i \in S /\ i \notin I
  OBVIOUS
<1>4. IsFiniteSet(I) /\ Cardinality(I) <= Cardinality(S) /\ Cardinality(I) # Cardinality(S)
  <2> HIDE DEF I
  <2> QED
    BY <1>2, <1>3, FS_Subset
<1>5. Cardinality(I) \in Nat /\ Cardinality(S) \in Nat
  BY <1>2, <1>4, FS_CardinalityType
<1> QED
  BY <1>2, <1>4, <1>5 DEF Rank

\* The places of a set are counted without a gap.
LEMMA PlaceFacts ==
  ASSUME NEW n \in Nat, NEW S \in SUBSET (1..n)
  PROVE  /\ Cardinality(S) \in 0..n
         /\ \A k \in 1..Cardinality(S) : Place(S, k) \in S /\ Rank(S, Place(S, k)) = k - 1
         /\ \A i \in S : Rank(S, i) + 1 \in 1..Cardinality(S) /\ Place(S, Rank(S, i) + 1) = i
<1> DEFINE m == Cardinality(S)
           r == [i \in S |-> Rank(S, i)]
<1>1. IsFiniteSet(1..n) /\ Cardinality(1..n) = n
  BY FS_Interval
<1>2. IsFiniteSet(S) /\ m <= n /\ m \in Nat
  BY <1>1, FS_Subset, FS_CardinalityType
<1>3. IsFiniteSet(0..m-1) /\ Cardinality(0..m-1) = m
  <2> HIDE DEF m
  <2>1. m - 1 \in Int
    BY <1>2
  <2>2. IsFiniteSet(0..m-1) /\ Cardinality(0..m-1) = IF 0 > m - 1 THEN 0 ELSE (m - 1) - 0 + 1
    BY <2>1, FS_Interval
  <2> QED
    BY <1>2, <2>2
<1>4. r \in [S -> 0..m-1]
  BY RankType
<1>5. \A i, j \in S : Rank(S, i) = Rank(S, j) => i = j
  <2> SUFFICES ASSUME NEW i \in S, NEW j \in S, Rank(S, i) = Rank(S, j), i # j
               PROVE  FALSE
    OBVIOUS
  <2>1. Rank(S, i) \in Int /\ Rank(S, j) \in Int
    BY <1>2, RankType
  <2>2. CASE i < j
    <3>1. Rank(S, i) < Rank(S, j)
      BY <2>2, RankOrder
    <3> QED
      BY <2>1, <3>1
  <2>3. CASE j < i
    <3>1. Rank(S, j) < Rank(S, i)
      BY <2>3, RankOrder
    <3> QED
      BY <2>1, <3>1
  <2>4. i \in Int /\ j \in Int
    OBVIOUS
  <2> QED
    BY <2>2, <2>3, <2>4
<1>6. r \in Injection(S, 0..m-1)
  BY <1>4, <1>5 DEF Injection, IsInjective
<1>7. r \in Surjection(S, 0..m-1)
  <2> HIDE DEF r, m
  <2>1. Cardinality(S) = Cardinality(0..m-1)
    BY <1>3 DEF m
  <2> QED
    BY <1>3, <1>6, <2>1, FS_Injection
<1>8. \A k \in 1..m : \E i \in S : Rank(S, i) = k - 1
  <2> TAKE k \in 1..m
  <2>1. k - 1 \in 0..m-1
    BY <1>2
  <2>2. PICK i \in S : r[i] = k - 1
    BY <1>7, <2>1 DEF Surjection
  <2> QED
    BY <2>2
<1>9. \A k \in 1..m : Place(S, k) \in S /\ Rank(S, Place(S, k)) = k - 1
  BY <1>8 DEF Place
<1>10. ASSUME NEW i \in S
       PROVE  Rank(S, i) + 1 \in 1..m /\ Place(S, Rank(S, i) + 1) = i
  <2>1. Rank(S, i) \in 0..m-1
    BY RankType
  <2>2. Rank(S, i) + 1 \in 1..m /\ (Rank(S, i) + 1) - 1 = Rank(S, i)
    BY <1>2, <2>1
  <2>3. Place(S, Rank(S, i) + 1) \in S /\ Rank(S, Place(S, Rank(S, i) + 1)) = Rank(S, i)
    BY <1>9, <2>2
  <2> QED
    BY <1>5, <2>2, <2>3
<1> QED
  BY <1>2, <1>9, <1>10

\* The items at a set of places are items of the sequence.
LEMMA AtFacts ==
  ASSUME NEW Item, NEW n \in Nat, NEW is, NEW S \in SUBSET (1..n), \A i \in S : is[i] \in Item
  PROVE  /\ Cardinality(S) \in 0..n
         /\ At(is, S) \in Seq(Item) /\ Len(At(is, S)) = Cardinality(S)
         /\ \A k \in 1..Len(At(is, S)) : \E i \in S : At(is, S)[k] = is[i]
<1> DEFINE m == Cardinality(S)
<1>1. m \in 0..n /\ \A k \in 1..m : Place(S, k) \in S
  BY PlaceFacts
<1>2. At(is, S) = [k \in 1..m |-> is[Place(S, k)]]
  BY DEF At
<1>3. \A k \in 1..m : is[Place(S, k)] \in Item
  BY <1>1
<1> HIDE DEF m
<1>4. m \in Nat
  BY <1>1
<1>5. At(is, S) \in Seq(Item) /\ Len(At(is, S)) = m
  BY <1>2, <1>3, <1>4
<1> QED
  BY <1>1, <1>2, <1>5 DEF m

OneSession == \A p, q \in Proc : p = q

\* A step that makes a pack or a run, and a session that is the only one open.
NewFile ==
  \E b \in Branch, s \in Seqno :
    \/ pack[b][s] = None /\ pack'[b][s] # None
    \/ idx[b][s] = None /\ idx'[b][s] # None

Alone(p) == \A q \in Proc : q # p => pc[q] = "idle"

\* No session draws its number, which it does before it takes its lock, and finds
\* the number taken by another when it comes to use it.
OnTime == NewFile => \E p \in Proc : Alone(p)
Timely == [][OnTime]_vars

PackItem == [num : Seqno, dir : Branch, body : Seq(Stored)]
RunItem  == [num : Seqno, dir : Branch, body : SUBSET Entry]
Registry(Item) == [past : Seq(Item), data : Seq(Item)]

----------------------------------------------------------------------------
\* Registries hold items, whatever is loaded into them

LEMMA MaxOfFacts ==
  ASSUME NEW S \in SUBSET Seqno
  PROVE  /\ MaxOf(S) \in 0..MaxSeq
         /\ S # {} => MaxOf(S) \in S
         /\ \A n \in S : n <= MaxOf(S)
<1>1. MaxSeq \in Nat
  BY BoundAssumption
<1>2. CASE S = {}
  BY <1>1, <1>2 DEF MaxOf
<1>3. CASE S # {}
  <2>1. \E m \in S : \A k \in S : k <= m
    BY <1>1, <1>3, GreatestExists DEF Seqno
  <2>2. MaxOf(S) \in S /\ \A n \in S : n <= MaxOf(S)
    BY <1>3, <2>1 DEF MaxOf
  <2>3. MaxOf(S) \in 1..MaxSeq
    BY <2>2 DEF Seqno
  <2> QED
    BY <1>1, <2>2, <2>3
<1> QED
  BY <1>2, <1>3

LEMMA AllType ==
  ASSUME NEW Item, NEW reg \in Registry(Item)
  PROVE  All(reg) \in Seq(Item)
BY ConcatProperties DEF All, Registry

LEMMA AsideType ==
  ASSUME NEW Item, NEW reg \in Registry(Item)
  PROVE  Aside(reg) \in Registry(Item)
<1>1. All(reg) \in Seq(Item) /\ <<>> \in Seq(Item)
  BY AllType
<1> QED
  BY <1>1 DEF Aside, Registry

LEMMA LessType ==
  ASSUME NEW Item, NEW is \in Seq(Item), NEW nums
  PROVE  Less(is, nums) \in Seq(Item)
<1> DEFINE S == {i \in DOMAIN is : is[i].num \notin nums}
<1>1. Len(is) \in Nat /\ DOMAIN is = 1..Len(is) /\ \A i \in 1..Len(is) : is[i] \in Item
  BY LenProperties, ElementOfSeq
<1>2. S \in SUBSET (1..Len(is)) /\ \A i \in S : is[i] \in Item
  BY <1>1
<1> HIDE DEF S
<1>3. At(is, S) \in Seq(Item)
  BY <1>1, <1>2, AtFacts
<1> QED
  BY <1>3 DEF Less, S

LEMMA WithType ==
  ASSUME NEW Item, NEW is \in Seq(Item), NEW item \in Item
  PROVE  With(is, item) \in Seq(Item)
<1>1. Less(is, {item.num}) \in Seq(Item)
  BY LessType
<1> QED
  BY <1>1, AppendProperties DEF With

\* What a directory's files become in a registry
Fits(Item, files, b) ==
  \A s \in Seqno : files[b][s] # None => [num |-> s, dir |-> b, body |-> files[b][s]] \in Item

LEMMA ScanType ==
  ASSUME NEW Item, NEW reg \in Registry(Item), NEW files, NEW b, Fits(Item, files, b)
  PROVE  Scan(reg, files, b) \in Registry(Item)
<1> DEFINE fresh == Present(files[b]) \ Numbers(All(reg))
           items == [s \in Seqno |-> [num |-> s, dir |-> b, body |-> files[b][s]]]
<1>1. MaxSeq \in Nat /\ fresh \in SUBSET (1..MaxSeq)
  BY BoundAssumption DEF Present, Seqno
<1>2. \A s \in fresh : items[s] \in Item
  BY DEF Fits, Present
<1> HIDE DEF fresh, items
<1>3. At(items, fresh) \in Seq(Item)
  BY <1>1, <1>2, AtFacts
<1>4. reg.data \o At(items, fresh) \in Seq(Item)
  BY <1>3, ConcatProperties DEF Registry
<1>5. Scan(reg, files, b) = [reg EXCEPT !.data = @ \o At(items, fresh)]
  BY DEF Scan, fresh, items
<1> QED
  BY <1>4, <1>5 DEF Registry

\* One directory after another: by the least number of directories for which
\* the registries after each of them do not exist, or after which one is bad.
LEMMA ScanAllType ==
  ASSUME NEW Item, NEW reg \in Registry(Item), NEW files, NEW bs \in Seq(Branch),
         \A b \in Branch : Fits(Item, files, b)
  PROVE  ScanAll(reg, files, bs) \in Registry(Item)
<1> DEFINE L == Len(bs)
           R == Registry(Item)
           Step(g, i) == IF i = 0 THEN reg ELSE Scan(g[i - 1], files, bs[i])
           Chain(n, g) == g \in [0..n -> R] /\ \A i \in 0..n : g[i] = Step(g, i)
           T == {n \in 0..L : ~ \E g : Chain(n, g)}
<1>1. L \in Nat /\ \A i \in 1..L : bs[i] \in Branch
  BY LenProperties, ElementOfSeq
<1>2. \A r \in R : \A i \in 1..L : Scan(r, files, bs[i]) \in R
  BY <1>1, ScanType
<1>3. \E g : Chain(0, g)
  <2> DEFINE g == [i \in 0..0 |-> reg]
  <2>1. g \in [0..0 -> R] /\ \A i \in 0..0 : i = 0 /\ g[i] = reg
    OBVIOUS
  <2> HIDE DEF g
  <2>2. Chain(0, g)
    BY <2>1
  <2> QED
    BY <2>2
<1>4. ASSUME NEW n \in 1..L, NEW g, Chain(n - 1, g)
      PROVE  \E h : Chain(n, h)
  <2> DEFINE h == [i \in 0..n |-> IF i < n THEN g[i] ELSE Scan(g[n - 1], files, bs[n])]
  <2>1. n \in Nat /\ n - 1 \in 0..n-1
    BY <1>1
  <2>2. Scan(g[n - 1], files, bs[n]) \in R
    BY <1>2, <1>4, <2>1
  <2>3. h \in [0..n -> R]
    BY <1>4, <2>1, <2>2
  <2>4. ASSUME NEW i \in 0..n
        PROVE  h[i] = Step(h, i)
    <3>1. CASE i = 0
      BY <1>4, <2>1, <3>1
    <3>2. CASE i # 0 /\ i < n
      <4>1. i - 1 \in 0..n /\ i - 1 < n /\ i \in 0..n-1
        BY <2>1, <3>2
      <4> QED
        BY <1>4, <3>2, <4>1
    <3>3. CASE i = n
      <4>1. n - 1 \in 0..n /\ n - 1 < n /\ n # 0 /\ ~ (n < n)
        BY <2>1
      <4> QED
        BY <3>3, <4>1
    <3> QED
      BY <2>1, <3>1, <3>2, <3>3
  <2> QED
    BY <2>3, <2>4
<1>5. T = {}
  <2> SUFFICES ASSUME T # {} PROVE FALSE
    OBVIOUS
  <2>1. T \in SUBSET Nat
    BY <1>1
  <2>2. PICK n \in T : \A k \in T : ~ (k < n)
    BY <2>1, LeastExists
  <2>3. n # 0 /\ n \in 1..L /\ n - 1 \in 0..L /\ n - 1 < n
    <3>1. n \in 0..L
      OBVIOUS
    <3>2. n # 0
      BY <1>3
    <3> QED
      BY <1>1, <3>1, <3>2
  <2>4. \E g : Chain(n - 1, g)
    BY <2>2, <2>3
  <2> QED
    BY <1>4, <2>3, <2>4
<1>6. PICK g : Chain(L, g)
  BY <1>1, <1>5
<1> DEFINE u == CHOOSE u : u = [i \in 0..L |-> IF i = 0 THEN reg ELSE Scan(u[i - 1], files, bs[i])]
           B == {i \in 0..L : u[i] \notin R}
<1>7. u = [i \in 0..L |-> IF i = 0 THEN reg ELSE Scan(u[i - 1], files, bs[i])]
  <2>1. g = [i \in 0..L |-> IF i = 0 THEN reg ELSE Scan(g[i - 1], files, bs[i])]
    BY <1>6
  <2> QED
    BY <2>1
<1>8. ScanAll(reg, files, bs) = u[L]
  BY DEF ScanAll
<1> HIDE DEF u
<1>9. B = {}
  <2> SUFFICES ASSUME B # {} PROVE FALSE
    OBVIOUS
  <2>1. B \in SUBSET Nat
    BY <1>1
  <2>2. PICK n \in B : \A k \in B : ~ (k < n)
    BY <2>1, LeastExists
  <2>3. n \in 0..L /\ n # 0
    BY <1>7
  <2>4. n \in 1..L /\ n - 1 \in 0..L /\ n - 1 < n
    BY <1>1, <2>3
  <2>5. u[n - 1] \in R
    BY <2>2, <2>4
  <2>6. u[n] = Scan(u[n - 1], files, bs[n])
    BY <1>7, <2>3
  <2> QED
    BY <1>2, <2>4, <2>5, <2>6
<1> QED
  BY <1>1, <1>8, <1>9

----------------------------------------------------------------------------
\* The inductive invariant

Numbered(b) == Present(pack[b]) \cup Present(idx[b])

\* A session's next number is past every number in use.
Ahead(p) == pc[p] # "idle" => \A b \in Branch : \A s \in Numbered(b) : s < next[p]

IInv ==
  /\ TypeOK
  /\ packs \in [Proc -> Registry(PackItem)] /\ pups \in [Proc -> Registry(RunItem)]
  /\ NumbersUnique
  /\ \A p \in Proc : Ahead(p)

LEMMA ClosedType == \A Item : Closed \in Registry(Item)
<1> TAKE Item
<1>1. <<>> \in Seq(Item)
  OBVIOUS
<1> QED
  BY <1>1 DEF Closed, Registry

LEMMA InitIInv == Init => IInv
<1> SUFFICES ASSUME Init PROVE IInv
  OBVIOUS
<1>1. MaxSeq \in Nat \ {0} /\ Trunk \in Branch
  BY BoundAssumption, OrderAssumption
<1>2. \A b \in Branch : Present(pack[b]) = {} /\ Present(idx[b]) = {}
  BY DEF Init, NoFiles, Present
<1>3. /\ packs \in [Proc -> Registry(PackItem)] /\ pups \in [Proc -> Registry(RunItem)]
  BY ClosedType DEF Init
<1>4. /\ pack \in [Branch -> [Seqno -> Seq(Stored) \cup {None}]]
      /\ idx \in [Branch -> [Seqno -> (SUBSET Entry) \cup {None}]]
  BY DEF Init, NoFiles
<1>5. TypeOK
  BY <1>1, <1>4 DEF Init, TypeOK
<1> QED
  BY <1>2, <1>3, <1>5 DEF Init, IInv, NumbersUnique, Ahead

LEMMA FilesFit ==
  ASSUME TypeOK
  PROVE  \A b \in Branch : Fits(PackItem, pack, b) /\ Fits(RunItem, idx, b)
BY DEF TypeOK, Fits, PackItem, RunItem

LEMMA FrontType ==
  ASSUME NEW b \in Branch
  PROVE  Front(Line[b]) \in Seq(Branch)
<1>1. Line[b] \in Seq(Branch) /\ Len(Line[b]) \in Nat
  BY LineAssumption, LenProperties
<1>2. \A i \in 1..Len(Line[b]) - 1 : Line[b][i] \in Branch
  BY <1>1, ElementOfSeq
<1> QED
  BY <1>1, <1>2, SubSeqProperties DEF Front

LEMMA FreshType ==
  ASSUME NEW Item, NEW files, NEW b \in Branch, \A d \in Branch : Fits(Item, files, d)
  PROVE  Fresh(files, b) \in Registry(Item)
<1>1. ScanAll(Closed, files, Front(Line[b])) \in Registry(Item)
  BY FrontType, ClosedType, ScanAllType
<1>2. Aside(ScanAll(Closed, files, Front(Line[b]))) \in Registry(Item)
  BY <1>1, AsideType
<1> QED
  BY <1>2, ScanType DEF Fresh

LEMMA NumbersType ==
  ASSUME NEW is, is \in Seq(PackItem) \/ is \in Seq(RunItem)
  PROVE  Numbers(is) \in SUBSET Seqno
<1>1. ASSUME NEW Item, \A x \in Item : x.num \in Seqno, is \in Seq(Item), NEW i \in DOMAIN is
      PROVE  is[i].num \in Seqno
  <2>1. is[i] \in Item
    BY <1>1, LenProperties, ElementOfSeq
  <2> QED
    BY <1>1, <2>1
<1>2. (\A x \in PackItem : x.num \in Seqno) /\ (\A x \in RunItem : x.num \in Seqno)
  BY DEF PackItem, RunItem
<1> QED
  BY <1>1, <1>2 DEF Numbers

\* The number drawn on an open or a switch is past every number in use.
LEMMA RecomputedFacts ==
  ASSUME NEW p, NEW b, NEW ps \in Registry(PackItem), NEW rs \in Registry(RunItem)
  PROVE  /\ Recomputed(p, b, ps, rs) \in 1..MaxSeq + 1
         /\ \A d \in Branch : \A s \in Numbered(d) : s < Recomputed(p, b, ps, rs)
<1> DEFINE S == (UNION {Present(pack[d]) \cup Present(idx[d]) : d \in Branch})
                  \cup Numbers(All(ps)) \cup Numbers(All(rs))
<1>1. All(ps) \in Seq(PackItem) /\ All(rs) \in Seq(RunItem)
  BY AllType
<1>2. Numbers(All(ps)) \in SUBSET Seqno /\ Numbers(All(rs)) \in SUBSET Seqno
  BY <1>1, NumbersType
<1>3. \A d \in Branch : Present(pack[d]) \in SUBSET Seqno /\ Present(idx[d]) \in SUBSET Seqno
  BY DEF Present
<1>4. S \in SUBSET Seqno
  BY <1>2, <1>3
<1>5. \A d \in Branch : \A s \in Numbered(d) : s \in S
  BY DEF Numbered
<1>6. Recomputed(p, b, ps, rs) = 1 + MaxOf(S)
  BY DEF Recomputed
<1> HIDE DEF S
<1>7. MaxOf(S) \in 0..MaxSeq /\ \A n \in S : n <= MaxOf(S)
  BY <1>4, MaxOfFacts
<1>8. \A n \in S : n \in Int
  BY <1>4 DEF Seqno
<1>9. MaxSeq \in Nat
  BY BoundAssumption
<1> QED
  BY <1>5, <1>6, <1>7, <1>8, <1>9

\* A step that leaves the files alone keeps the invariant if its session stays
\* ahead of them.
LEMMA FilesStay ==
  ASSUME IInv, UNCHANGED <<pack, idx>>, TypeOK',
         packs' \in [Proc -> Registry(PackItem)], pups' \in [Proc -> Registry(RunItem)],
         \A p \in Proc : \/ pc'[p] = "idle"
                         \/ pc[p] # "idle" /\ next'[p] = next[p]
                         \/ \A b \in Branch : \A s \in Numbered(b) : s < next'[p]
  PROVE  IInv'
<1>1. NumbersUnique'
  BY DEF IInv, NumbersUnique, Present
<1>2. \A b \in Branch : Numbered(b)' = Numbered(b)
  BY DEF Numbered, Present
<1>3. ASSUME NEW p \in Proc
      PROVE  Ahead(p)'
  BY <1>2 DEF Ahead, IInv
<1> QED
  BY <1>1, <1>3 DEF IInv

LEMMA OpenKeeps ==
  ASSUME IInv, NEW p \in Proc, NEW b \in Branch, Open(p, b)
  PROVE  IInv'
<1> USE DEF Open
<1>1. \A d \in Branch : Fits(PackItem, pack, d) /\ Fits(RunItem, idx, d)
  BY FilesFit DEF IInv
<1>2. Fresh(pack, b) \in Registry(PackItem) /\ Fresh(idx, b) \in Registry(RunItem)
  BY <1>1, FreshType
<1>3. /\ packs' \in [Proc -> Registry(PackItem)] /\ pups' \in [Proc -> Registry(RunItem)]
      /\ packs'[p] \in Registry(PackItem) /\ pups'[p] \in Registry(RunItem)
  BY <1>2 DEF IInv
<1>4. /\ next'[p] \in 1..MaxSeq + 1 /\ next' \in [Proc -> 1..MaxSeq + 1]
      /\ \A d \in Branch : \A s \in Numbered(d) : s < next'[p]
      /\ \A q \in Proc : q # p => pc'[q] = pc[q] /\ next'[q] = next[q]
  BY <1>3, RecomputedFacts DEF IInv, TypeOK
<1>5. dirs' \subseteq Branch /\ Trunk \in dirs'
  <2>1. \A i \in DOMAIN Line[b] : Line[b][i] \in Branch
    BY LineAssumption, LenProperties, ElementOfSeq
  <2> QED
    BY <2>1 DEF IInv, TypeOK, Range
<1>6. TypeOK'
  BY <1>4, <1>5 DEF IInv, TypeOK
<1> QED
  BY <1>3, <1>4, <1>6, FilesStay

LEMMA OpenLockKeeps ==
  ASSUME IInv, NEW p \in Proc, OpenLock(p) \/ SwitchLock(p)
  PROVE  IInv'
<1>1. TypeOK'
  <2>1. CASE OpenLock(p)
    <3>1. lock' \in [Branch -> Proc \cup {None}] /\ pc' \in [Proc -> {"idle", "wait", "swap", "ready"}]
      BY <2>1 DEF IInv, TypeOK, OpenLock
    <3> QED
      BY <2>1, <3>1 DEF IInv, TypeOK, OpenLock, disk, mine
  <2>2. CASE SwitchLock(p)
    <3>1. /\ lock' \in [Branch -> Proc \cup {None}] /\ pc' \in [Proc -> {"idle", "wait", "swap", "ready"}]
          /\ leaf' \in [Proc -> Branch]
      BY <2>2 DEF IInv, TypeOK, SwitchLock
    <3> QED
      BY <2>2, <3>1 DEF IInv, TypeOK, SwitchLock, disk
  <2> QED
    BY <2>1, <2>2
<1>2. UNCHANGED <<pack, idx, packs, pups, next>> /\ pc[p] # "idle"
  BY DEF OpenLock, SwitchLock, disk, mine
<1>3. \A q \in Proc : q # p => pc'[q] = pc[q]
  <2>1. pc' = [pc EXCEPT ![p] = "ready"]
    BY DEF OpenLock, SwitchLock
  <2> QED
    BY <2>1 DEF IInv, TypeOK
<1> QED
  BY <1>1, <1>2, <1>3, FilesStay DEF IInv

LEMMA BelowType ==
  ASSUME NEW p \in Proc, NEW b \in Branch, NEW S
  PROVE  /\ Below(p, b) \in Seq(Branch)
         /\ At(Below(p, b), {i \in DOMAIN Below(p, b) : Below(p, b)[i] \in S}) \in Seq(Branch)
<1>1. ASSUME NEW ds \in Seq(Branch), NEW P \in SUBSET (DOMAIN ds)
      PROVE  At(ds, P) \in Seq(Branch)
  <2>1. Len(ds) \in Nat /\ P \in SUBSET (1..Len(ds)) /\ \A i \in P : ds[i] \in Branch
    BY <1>1, LenProperties, ElementOfSeq
  <2> QED
    BY <2>1, AtFacts
<1>2. Below(p, b) \in Seq(Branch)
  BY <1>1, LineAssumption DEF Below
<1> QED
  BY <1>1, <1>2

LEMMA SwitchKeeps ==
  ASSUME IInv, NEW p \in Proc, NEW b \in Branch, Switch(p, b) \/ SwitchFails(p, b)
  PROVE  IInv'
<1>1. \A d \in Branch : Fits(PackItem, pack, d) /\ Fits(RunItem, idx, d)
  BY FilesFit DEF IInv
<1>2. Aside(packs[p]) \in Registry(PackItem) /\ Aside(pups[p]) \in Registry(RunItem)
  BY AsideType DEF IInv
<1>3. \A ds \in Seq(Branch) : /\ ScanAll(Aside(packs[p]), pack, ds) \in Registry(PackItem)
                             /\ ScanAll(Aside(pups[p]), idx, ds) \in Registry(RunItem)
  BY <1>1, <1>2, ScanAllType
<1>4. CASE Switch(p, b)
  <2>1. /\ packs' \in [Proc -> Registry(PackItem)] /\ pups' \in [Proc -> Registry(RunItem)]
        /\ packs'[p] \in Registry(PackItem) /\ pups'[p] \in Registry(RunItem)
    BY <1>3, <1>4, BelowType DEF Switch, IInv
  <2>2. /\ next'[p] \in 1..MaxSeq + 1 /\ next' \in [Proc -> 1..MaxSeq + 1]
        /\ \A d \in Branch : \A s \in Numbered(d) : s < next'[p]
        /\ \A q \in Proc : q # p => pc'[q] = pc[q] /\ next'[q] = next[q]
    BY <1>4, <2>1, RecomputedFacts DEF Switch, IInv, TypeOK
  <2>3. TypeOK'
    BY <1>4, <2>2 DEF Switch, disk, IInv, TypeOK
  <2> QED
    BY <1>4, <2>1, <2>2, <2>3, FilesStay DEF Switch, disk
<1>5. CASE SwitchFails(p, b)
  <2> DEFINE ds == At(Below(p, b), {i \in DOMAIN Below(p, b) : Below(p, b)[i] \in dirs})
  <2>1. ds \in Seq(Branch)
    BY BelowType
  <2>2. /\ packs' = [packs EXCEPT ![p] = ScanAll(Aside(@), pack, ds)]
        /\ pups' = [pups EXCEPT ![p] = ScanAll(Aside(@), idx, ds)]
    BY <1>5 DEF SwitchFails
  <2> HIDE DEF ds
  <2>3. packs' \in [Proc -> Registry(PackItem)] /\ pups' \in [Proc -> Registry(RunItem)]
    BY <1>3, <2>1, <2>2 DEF IInv
  <2>4. TypeOK' /\ UNCHANGED <<pack, idx, pc, next>>
    BY <1>5 DEF SwitchFails, disk, IInv, TypeOK
  <2> QED
    BY <2>3, <2>4, FilesStay
<1> QED
  BY <1>4, <1>5

----------------------------------------------------------------------------
\* Steps that write files

\* A session's numbers as it has them, once it is known to be the only one.
LEMMA AheadFacts ==
  ASSUME IInv, NEW p \in Proc, pc[p] # "idle"
  PROVE  /\ next[p] \in 1..MaxSeq + 1 /\ MaxSeq \in Nat \ {0}
         /\ \A b \in Branch : \A s \in Seqno : pack[b][s] # None => s < next[p]
         /\ \A b \in Branch : \A s \in Seqno : idx[b][s] # None => s < next[p]
BY BoundAssumption DEF IInv, TypeOK, Ahead, Numbered, Present

\* A merge writes the session's next number and removes files.
LEMMA MergedFacts ==
  ASSUME NEW f \in [Branch -> [Seqno -> (SUBSET Entry) \cup {None}]], NEW b \in Branch,
         NEW d \in Seq(RunItem), NEW n \in 1..MaxSeq + 1, NEW m \in Merges(d, n)
  PROVE  LET c == Merged(f, b, d, n, m)
         IN  /\ c.idx \in [Branch -> [Seqno -> (SUBSET Entry) \cup {None}]]
             /\ c.data \in Seq(RunItem)
             /\ c.next \in {n, n + 1} /\ c.next \in 1..MaxSeq + 1
             /\ \A a \in Branch : \A s \in Seqno :
                  c.idx[a][s] # None => \/ f[a][s] # None
                                        \/ a = b /\ s = n /\ c.next = n + 1
<1>1. MaxSeq \in Nat \ {0} /\ Len(d) \in Nat
  BY BoundAssumption, LenProperties
<1>2. CASE m = 0
  BY <1>1, <1>2 DEF Merged
<1>3. CASE m # 0
  <2> DEFINE old == SubSeq(d, Len(d) - m + 1, Len(d))
             rest == SubSeq(d, 1, Len(d) - m)
             body == UNION {old[i].body : i \in DOMAIN old}
             new == [num |-> n, dir |-> b, body |-> body]
             g == [f EXCEPT ![b] = [s \in Seqno |->
                     IF s = n THEN body ELSE IF s \in Numbers(old) THEN None ELSE f[b][s]]]
  <2>1. n \in Seqno /\ m \in 2..Len(d) /\ n + 1 \in 1..MaxSeq + 1
    BY <1>1, <1>3 DEF Merges, Seqno
  <2>2. \A i \in 1..Len(d) : d[i] \in RunItem
    BY ElementOfSeq
  <2>3. Len(d) - m \in Nat /\ Len(d) - m + 1 \in 1..Len(d)
    BY <1>1, <2>1
  <2>4. old \in Seq(RunItem) /\ rest \in Seq(RunItem)
    <3>1. \A i \in Len(d) - m + 1 .. Len(d) : d[i] \in RunItem
      BY <2>2, <2>3
    <3>2. \A i \in 1 .. Len(d) - m : d[i] \in RunItem
      BY <1>1, <2>1, <2>2, <2>3
    <3>3. old \in Seq(RunItem)
      BY <1>1, <2>3, <3>1, SubSeqProperties
    <3>4. rest \in Seq(RunItem)
      BY <1>1, <2>3, <3>2, SubSeqProperties
    <3> QED
      BY <3>3, <3>4
  <2> HIDE DEF old, rest
  <2>5. ASSUME NEW i \in DOMAIN old
        PROVE  old[i].body \in SUBSET Entry
    <3>1. old[i] \in RunItem
      BY <2>4, LenProperties, ElementOfSeq
    <3> QED
      BY <3>1 DEF RunItem
  <2>6. body \in SUBSET Entry
    BY <2>5
  <2> HIDE DEF body
  <2>7. new \in RunItem
    BY <2>1, <2>6 DEF RunItem
  <2>8. Append(rest, new) \in Seq(RunItem)
    BY <2>4, <2>7, AppendProperties
  <2>9. Merged(f, b, d, n, m) = [idx |-> g, data |-> Append(rest, new), next |-> n + 1]
    BY <1>3 DEF Merged, old, rest, body
  <2>10. g \in [Branch -> [Seqno -> (SUBSET Entry) \cup {None}]]
    BY <2>6
  <2>11. \A a \in Branch : \A s \in Seqno :
           g[a][s] # None => f[a][s] # None \/ (a = b /\ s = n)
    OBVIOUS
  <2> HIDE DEF g, new
  <2> QED
    BY <2>1, <2>8, <2>9, <2>10, <2>11
<1> QED
  BY <1>2, <1>3

\* A step that writes no number but unused ones, in one directory, and goes on
\* being ahead.
LEMMA NewNumbers ==
  ASSUME IInv, OnTime, NEW p \in Proc, NEW b \in Branch, pc[p] # "idle", TypeOK',
         \A q \in Proc : q # p => pc'[q] = pc[q] /\ next'[q] = next[q],
         packs' \in [Proc -> Registry(PackItem)], pups' \in [Proc -> Registry(RunItem)],
         \A a \in Branch : \A s \in Seqno : pack'[a][s] # None =>
           \/ pack[a][s] # None
           \/ a = b /\ s >= next[p] /\ (pc'[p] # "idle" => s < next'[p]),
         \A a \in Branch : \A s \in Seqno : idx'[a][s] # None =>
           \/ idx[a][s] # None
           \/ a = b /\ s >= next[p] /\ (pc'[p] # "idle" => s < next'[p]),
         pc'[p] # "idle" => next'[p] >= next[p]
  PROVE  IInv'
<1>1. /\ next[p] \in 1..MaxSeq + 1 /\ MaxSeq \in Nat \ {0}
      /\ \A a \in Branch : \A s \in Seqno : pack[a][s] # None => s < next[p]
      /\ \A a \in Branch : \A s \in Seqno : idx[a][s] # None => s < next[p]
  BY AheadFacts
<1>2. next'[p] \in 1..MaxSeq + 1 /\ \A s \in Seqno : s \in Nat
  BY <1>1 DEF TypeOK, Seqno
<1>3. ASSUME NEW q \in Proc, q # p
      PROVE  Ahead(q)'
  <2>1. CASE NewFile
    <3>1. pc[q] = "idle"
      BY <1>3, <2>1 DEF OnTime, Alone
    <3> QED
      BY <1>3, <3>1 DEF Ahead
  <2>2. CASE ~NewFile
    <3>1. \A a \in Branch : \A s \in Seqno :
            (pack'[a][s] # None => pack[a][s] # None) /\ (idx'[a][s] # None => idx[a][s] # None)
      BY <2>2 DEF NewFile
    <3>2. Ahead(q)
      BY DEF IInv
    <3> QED
      BY <1>3, <3>1, <3>2 DEF Ahead, Numbered, Present
  <2> QED
    BY <2>1, <2>2
<1>4. Ahead(p)'
  <2> SUFFICES ASSUME pc'[p] # "idle", NEW a \in Branch, NEW s \in Seqno,
                      pack'[a][s] # None \/ idx'[a][s] # None
               PROVE  s < next'[p]
    BY DEF Ahead, Numbered, Present
  <2> QED
    BY <1>1, <1>2
<1>5. NumbersUnique'
  <2>1. \A a, d \in Branch : a # d => \A s \in Seqno :
          /\ ~ (pack[a][s] # None /\ pack[d][s] # None)
          /\ ~ (idx[a][s] # None /\ idx[d][s] # None)
    BY DEF IInv, NumbersUnique, Present
  <2>2. \A a, d \in Branch : a # d => \A s \in Seqno :
          /\ ~ (pack'[a][s] # None /\ pack'[d][s] # None)
          /\ ~ (idx'[a][s] # None /\ idx'[d][s] # None)
    BY <1>1, <1>2, <2>1
  <2> QED
    BY <2>2 DEF NumbersUnique, Present
<1>6. \A q \in Proc : Ahead(q)'
  BY <1>3, <1>4
<1> QED
  BY <1>5, <1>6 DEF IInv

\* A session writes to a pack file of its leaf below its next number, or starts
\* one at that number.
LEMMA TailFacts ==
  ASSUME IInv, NEW p \in Proc, pc[p] = "ready", NEW ps \in Registry(PackItem),
         Appends(ps) => pack[leaf[p]][TailFile(p, ps)] # None
  PROVE  \/ /\ Appends(ps) /\ TailFile(p, ps) \in Seqno
            /\ pack[leaf[p]][TailFile(p, ps)] # None /\ TailFile(p, ps) < next[p]
         \/ ~Appends(ps) /\ TailFile(p, ps) = next[p]
<1> DEFINE b == leaf[p]
           f == TailFile(p, ps)
<1>1. /\ b \in Branch /\ next[p] \in 1..MaxSeq + 1 /\ MaxSeq \in Nat \ {0}
      /\ \A a \in Branch : \A s \in Seqno : pack[a][s] # None => s < next[p]
  BY AheadFacts DEF IInv, TypeOK
<1>2. ps.data \in Seq(PackItem)
  BY DEF Registry
<1>3. CASE Appends(ps)
  <2>1. Numbers(ps.data) \in SUBSET Seqno
    BY <1>2, NumbersType
  <2>2. Numbers(ps.data) # {}
    <3>1. Len(ps.data) \in Nat /\ Len(ps.data) # 0 /\ DOMAIN ps.data = 1..Len(ps.data)
      BY <1>2, <1>3, LenProperties, EmptySeq DEF Appends
    <3>2. 1 \in DOMAIN ps.data
      BY <3>1
    <3> QED
      BY <3>2 DEF Numbers
  <2>3. f \in Seqno
    BY <1>3, <2>1, <2>2, MaxOfFacts DEF TailFile
  <2> QED
    BY <1>1, <1>3, <2>3
<1>4. CASE ~Appends(ps)
  BY <1>4 DEF TailFile
<1> QED
  BY <1>3, <1>4

LEMMA PutOnKeeps ==
  ASSUME IInv, OnTime, NEW p \in Proc, pc[p] = "ready",
         NEW ps \in Registry(PackItem), NEW rs \in Registry(RunItem),
         NEW o \in Obj, NEW base \in Obj \cup {None}, PutOn(p, ps, rs, o, base)
  PROVE  IInv'
<1> DEFINE b == leaf[p]
           f == TailFile(p, ps)
           old  == IF Appends(ps) THEN pack[b][f] ELSE <<>>
           body == Append(old, [obj |-> o, base |-> base])
           n    == IF f >= next[p] THEN f + 1 ELSE next[p]
           run  == {[obj |-> o, file |-> f, pos |-> Len(body)]}
           data == Append(rs.data, [num |-> n, dir |-> b, body |-> run])
           mid  == [idx EXCEPT ![b][n] = run]
<1>1. /\ old # None /\ Len(old) < MaxLen /\ n <= MaxSeq
      /\ pack' = [pack EXCEPT ![b][f] = body]
      /\ packs' = [packs EXCEPT ![p] =
           [ps EXCEPT !.data = With(@, [num |-> f, dir |-> b, body |-> body])]]
      /\ written' = written \cup {<<b, o>>}
      /\ UNCHANGED <<dirs, lock, pc, leaf, from, to>>
  BY DEF PutOn
<1>2. PICK m \in Merges(data, n + 1) :
        LET c == Merged(mid, b, data, n + 1, m)
        IN  /\ idx' = c.idx
            /\ pups' = [pups EXCEPT ![p] = [past |-> rs.past, data |-> c.data]]
            /\ next' = [next EXCEPT ![p] = c.next]
  BY DEF PutOn
<1>3. /\ b \in Branch /\ next[p] \in 1..MaxSeq + 1 /\ MaxSeq \in Nat \ {0} /\ MaxLen \in Nat
      /\ \A a \in Branch : \A s \in Seqno : pack[a][s] # None => s < next[p]
      /\ \A a \in Branch : \A s \in Seqno : idx[a][s] # None => s < next[p]
      /\ pack \in [Branch -> [Seqno -> Seq(Stored) \cup {None}]]
      /\ idx \in [Branch -> [Seqno -> (SUBSET Entry) \cup {None}]]
  BY AheadFacts, BoundAssumption DEF IInv, TypeOK
<1>4. /\ ps.data \in Seq(PackItem) /\ ps.past \in Seq(PackItem)
      /\ rs.data \in Seq(RunItem) /\ rs.past \in Seq(RunItem)
  BY DEF Registry
<1>5. \/ Appends(ps) /\ f \in Seqno /\ pack[b][f] # None /\ f < next[p] /\ n = next[p]
      \/ ~Appends(ps) /\ f = next[p] /\ n = next[p] + 1
  <2>1. Appends(ps) => pack[leaf[p]][TailFile(p, ps)] # None
    BY <1>1
  <2>2. \/ Appends(ps) /\ f \in Seqno /\ pack[b][f] # None /\ f < next[p]
        \/ ~Appends(ps) /\ f = next[p]
    BY <2>1, TailFacts
  <2> HIDE DEF b, f
  <2> QED
    BY <1>3, <2>2 DEF Seqno
<1>6. old \in Seq(Stored)
  <2>1. CASE Appends(ps)
    BY <1>1, <1>3, <1>5, <2>1
  <2>2. CASE ~Appends(ps)
    BY <2>2
  <2> QED
    BY <2>1, <2>2
<1> HIDE DEF old
<1>7. body \in Seq(Stored) /\ Len(body) = Len(old) + 1 /\ Len(body) \in 1..MaxLen
  <2>1. [obj |-> o, base |-> base] \in Stored
    BY DEF Stored
  <2>2. body \in Seq(Stored) /\ Len(body) = Len(old) + 1
    BY <1>6, <2>1, AppendProperties
  <2>3. Len(old) \in Nat
    BY <1>6, LenProperties
  <2> QED
    BY <1>1, <1>3, <2>2, <2>3
<1> HIDE DEF body
<1>8. f \in Seqno /\ n \in Seqno /\ f < n + 1 /\ n >= next[p] /\ n + 1 \in 1..MaxSeq + 1
  BY <1>1, <1>3, <1>5 DEF Seqno
<1> HIDE DEF f, n
<1>9. run \in SUBSET Entry
  BY <1>7, <1>8 DEF Entry
<1> HIDE DEF run
<1>10. data \in Seq(RunItem)
  <2>1. [num |-> n, dir |-> b, body |-> run] \in RunItem
    BY <1>3, <1>8, <1>9 DEF RunItem
  <2> QED
    BY <1>4, <2>1, AppendProperties
<1>11. mid \in [Branch -> [Seqno -> (SUBSET Entry) \cup {None}]]
  BY <1>3, <1>8, <1>9
<1> HIDE DEF data, mid
<1> DEFINE c == Merged(mid, b, data, n + 1, m)
<1>12. /\ c.idx \in [Branch -> [Seqno -> (SUBSET Entry) \cup {None}]]
       /\ c.data \in Seq(RunItem)
       /\ c.next \in {n + 1, n + 2} /\ c.next \in 1..MaxSeq + 1
       /\ \A a \in Branch : \A s \in Seqno :
            c.idx[a][s] # None => \/ mid[a][s] # None
                                  \/ a = b /\ s = n + 1 /\ c.next = n + 2
  <2> DEFINE k == n + 1
  <2>1. n + 2 = k + 1 /\ k \in 1..MaxSeq + 1
    BY <1>8 DEF Seqno
  <2>2. /\ c.idx \in [Branch -> [Seqno -> (SUBSET Entry) \cup {None}]]
        /\ c.data \in Seq(RunItem)
        /\ c.next \in {k, k + 1} /\ c.next \in 1..MaxSeq + 1
        /\ \A a \in Branch : \A s \in Seqno :
             c.idx[a][s] # None => \/ mid[a][s] # None
                                   \/ a = b /\ s = k /\ c.next = k + 1
    <3> HIDE DEF k
    <3>1. m \in Merges(data, k) /\ c = Merged(mid, b, data, k, m)
      BY DEF k
    <3> HIDE DEF c
    <3> QED
      BY <1>3, <1>10, <1>11, <2>1, <3>1, MergedFacts
  <2> HIDE DEF c
  <2> QED
    BY <2>1, <2>2
<1>13. /\ idx' = c.idx
       /\ pups' = [pups EXCEPT ![p] = [past |-> rs.past, data |-> c.data]]
       /\ next' = [next EXCEPT ![p] = c.next]
  BY <1>2
<1> HIDE DEF c
<1>14. next'[p] = c.next /\ next' \in [Proc -> 1..MaxSeq + 1]
  BY <1>12, <1>13 DEF IInv, TypeOK
<1>15. pack' \in [Branch -> [Seqno -> Seq(Stored) \cup {None}]]
  BY <1>1, <1>3, <1>7, <1>8
<1>16. TypeOK'
  <2>1. written' \subseteq Branch \X Obj
    BY <1>1, <1>3 DEF IInv, TypeOK
  <2> HIDE DEF b
  <2> QED
    BY <1>1, <1>12, <1>13, <1>14, <1>15, <2>1 DEF IInv, TypeOK
<1>17. packs' \in [Proc -> Registry(PackItem)] /\ pups' \in [Proc -> Registry(RunItem)]
  <2>1. [num |-> f, dir |-> b, body |-> body] \in PackItem
    BY <1>3, <1>7, <1>8 DEF PackItem
  <2>2. With(ps.data, [num |-> f, dir |-> b, body |-> body]) \in Seq(PackItem)
    BY <1>4, <2>1, WithType
  <2>3. [ps EXCEPT !.data = With(@, [num |-> f, dir |-> b, body |-> body])] \in Registry(PackItem)
    BY <2>2 DEF Registry
  <2>4. [past |-> rs.past, data |-> c.data] \in Registry(RunItem)
    BY <1>4, <1>12 DEF Registry
  <2> QED
    BY <1>1, <1>13, <2>3, <2>4 DEF IInv
<1>18. \A a \in Branch : \A s \in Seqno : pack'[a][s] # None =>
         \/ pack[a][s] # None
         \/ a = b /\ s >= next[p] /\ s < next'[p]
  <2>1. \A a \in Branch : \A s \in Seqno : pack'[a][s] # None =>
          pack[a][s] # None \/ (a = b /\ s = f)
    BY <1>1, <1>3
  <2>2. pack[b][f] # None \/ f >= next[p]
    BY <1>3, <1>5
  <2>3. f < next'[p]
    BY <1>8, <1>12, <1>14 DEF Seqno
  <2> QED
    BY <2>1, <2>2, <2>3
<1>19. \A a \in Branch : \A s \in Seqno : idx'[a][s] # None =>
         \/ idx[a][s] # None
         \/ a = b /\ s >= next[p] /\ s < next'[p]
  <2>1. \A a \in Branch : \A s \in Seqno : mid[a][s] # None =>
          idx[a][s] # None \/ (a = b /\ s = n)
    BY <1>3 DEF mid
  <2>2. n < next'[p] /\ n >= next[p] /\ n + 1 >= next[p] /\ (c.next = n + 2 => n + 1 < next'[p])
    BY <1>3, <1>8, <1>12, <1>14 DEF Seqno
  <2> QED
    BY <1>12, <1>13, <2>1, <2>2
<1>20. next'[p] >= next[p]
  BY <1>3, <1>8, <1>12, <1>14 DEF Seqno
<1>21. \A q \in Proc : q # p => pc'[q] = pc[q] /\ next'[q] = next[q]
  BY <1>1, <1>13 DEF IInv, TypeOK
<1> HIDE DEF b
<1> QED
  BY <1>3, <1>16, <1>17, <1>18, <1>19, <1>20, <1>21, NewNumbers

LEMMA PutFailsKeeps ==
  ASSUME IInv, NEW p \in Proc, pc[p] = "ready",
         NEW ps \in Registry(PackItem), NEW rs \in Registry(RunItem), PutFails(p, ps, rs)
  PROVE  IInv'
<1>1. UNCHANGED <<pack, idx, pc, next>> /\ TypeOK'
  BY DEF PutFails, disk, IInv, TypeOK
<1>2. Less(ps.data, {TailFile(p, ps)}) \in Seq(PackItem)
  BY LessType DEF Registry
<1>3. packs' \in [Proc -> Registry(PackItem)] /\ pups' \in [Proc -> Registry(RunItem)]
  BY <1>2 DEF PutFails, IInv, Registry
<1> QED
  BY <1>1, <1>3, FilesStay

LEMMA WritingKeeps ==
  ASSUME IInv, OnTime, NEW p \in Proc, Writing(p)
  PROVE  IInv'
<1>1. packs[p] \in Registry(PackItem) /\ pups[p] \in Registry(RunItem)
  BY DEF IInv
<1>2. AllPacks(p) \in Registry(PackItem) /\ AllPups(p) \in Registry(RunItem)
  <2>1. \A d \in Branch : Fits(PackItem, pack, d) /\ Fits(RunItem, idx, d)
    BY FilesFit DEF IInv
  <2> QED
    BY <1>1, <2>1, OrderAssumption, ScanAllType DEF AllPacks, AllPups
<1>3. PICK o \in Obj, base \in Obj \cup {None} : Commit(p, o, base) \/ Move(p, o, base)
  BY DEF Writing
<1>4. CASE Commit(p, o, base)
  BY <1>1, <1>4, PutOnKeeps, PutFailsKeeps DEF Commit
<1>5. CASE Move(p, o, base)
  BY <1>2, <1>5, PutOnKeeps, PutFailsKeeps DEF Move
<1> QED
  BY <1>3, <1>4, <1>5

LEMMA CreateKeeps ==
  ASSUME IInv, NEW p \in Proc, NEW b \in Branch, Create(p, b)
  PROVE  IInv'
<1>1. TypeOK' /\ UNCHANGED <<pack, idx, pc, packs, pups, next>>
  BY DEF Create, mine, IInv, TypeOK
<1> QED
  BY <1>1, FilesStay DEF IInv

LEMMA DropKeeps ==
  ASSUME IInv, OnTime, NEW p \in Proc, NEW b \in Branch, Drop(p, b)
  PROVE  IInv'
<1> USE DEF Drop
<1>1. /\ pack' \in [Branch -> [Seqno -> Seq(Stored) \cup {None}]]
      /\ idx' \in [Branch -> [Seqno -> (SUBSET Entry) \cup {None}]]
      /\ lock' \in [Branch -> Proc \cup {None}]
  BY DEF IInv, TypeOK, NoFiles
<1>2. TypeOK'
  BY <1>1 DEF IInv, TypeOK
<1>3. packs' \in [Proc -> Registry(PackItem)] /\ pups' \in [Proc -> Registry(RunItem)]
  <2>1. packs[p] \in Registry(PackItem) /\ pups[p] \in Registry(RunItem)
    BY DEF IInv
  <2>2. /\ Less(packs[p].data, Present(pack[b])) \in Seq(PackItem)
        /\ Less(pups[p].data, Present(idx[b])) \in Seq(RunItem)
    BY <2>1, LessType DEF Registry
  <2>3. /\ [packs[p] EXCEPT !.data = Less(packs[p].data, Present(pack[b]))] \in Registry(PackItem)
        /\ [pups[p] EXCEPT !.data = Less(pups[p].data, Present(idx[b]))] \in Registry(RunItem)
    BY <2>1, <2>2 DEF Registry
  <2>4. /\ packs' = [packs EXCEPT ![p] = [packs[p] EXCEPT !.data = Less(packs[p].data, Present(pack[b]))]]
        /\ pups' = [pups EXCEPT ![p] = [pups[p] EXCEPT !.data = Less(pups[p].data, Present(idx[b]))]]
    OBVIOUS
  <2> QED
    BY <2>3, <2>4 DEF IInv
<1>4. \A a \in Branch : \A s \in Seqno :
        (pack'[a][s] # None => pack[a][s] # None) /\ (idx'[a][s] # None => idx[a][s] # None)
  BY DEF IInv, TypeOK, NoFiles
<1>5. next'[p] >= next[p] /\ pc[p] # "idle"
  BY DEF IInv, TypeOK
<1> QED
  BY <1>2, <1>3, <1>4, <1>5, NewNumbers

LEMMA CloseKeeps ==
  ASSUME IInv, OnTime, NEW p \in Proc, Close(p)
  PROVE  IInv'
<1> DEFINE b == leaf[p]
           d == pups[p].data
           n == next[p]
<1>1. /\ b \in Branch /\ d \in Seq(RunItem) /\ n \in 1..MaxSeq + 1
      /\ idx \in [Branch -> [Seqno -> (SUBSET Entry) \cup {None}]]
  BY DEF IInv, TypeOK, Registry
<1>2. PICK m \in Merges(d, n) : idx' = Merged(idx, b, d, n, m).idx
  BY DEF Close
<1>3. /\ idx' \in [Branch -> [Seqno -> (SUBSET Entry) \cup {None}]]
      /\ \A a \in Branch : \A s \in Seqno :
           idx'[a][s] # None => idx[a][s] # None \/ (a = b /\ s = n)
  <2> HIDE DEF b, d, n
  <2> QED
    BY <1>1, <1>2, MergedFacts
<1>4. packs' \in [Proc -> Registry(PackItem)] /\ pups' \in [Proc -> Registry(RunItem)]
  BY ClosedType DEF Close, IInv
<1>5. TypeOK'
  <2>1. 1 \in 1..MaxSeq + 1 /\ Trunk \in Branch
    BY BoundAssumption, OrderAssumption
  <2>2. lock' \in [Branch -> Proc \cup {None}]
    BY DEF Close, IInv, TypeOK
  <2> QED
    BY <1>3, <2>1, <2>2 DEF Close, IInv, TypeOK
<1>6. /\ pc[p] # "idle" /\ pc'[p] = "idle" /\ pack' = pack
  BY DEF Close, IInv, TypeOK
<1>7. \A s \in Seqno : s = n => s >= n
  BY <1>1
<1>8. \A q \in Proc : q # p => pc'[q] = pc[q] /\ next'[q] = next[q]
  BY DEF Close, IInv, TypeOK
<1> QED
  BY <1>1, <1>3, <1>4, <1>5, <1>6, <1>7, <1>8, NewNumbers

LEMMA NextKeeps ==
  ASSUME IInv, [OnTime]_vars, [Next]_vars
  PROVE  IInv'
<1>1. CASE UNCHANGED vars
  BY <1>1 DEF vars, IInv, TypeOK, NumbersUnique, Ahead, Numbered, Present
<1>2. CASE OnTime
  <2>1. ASSUME NEW p \in Proc, Going(p) \/ Branching(p)
        PROVE  IInv'
    BY <1>2, <2>1, OpenKeeps, OpenLockKeeps, SwitchKeeps, CloseKeeps, CreateKeeps, DropKeeps
    DEF Going, Branching
  <2> QED
    BY <1>1, <1>2, <2>1, WritingKeeps DEF Next
<1> QED
  BY <1>1, <1>2

\* With one session there is no other to be late.
LEMMA OneSessionOnTime ==
  ASSUME OneSession, [Next]_vars
  PROVE  [OnTime]_vars
<1>1. CASE UNCHANGED vars
  BY <1>1
<1>2. CASE Next
  BY <1>2 DEF Next, OneSession, OnTime, Alone
<1> QED
  BY <1>1, <1>2

----------------------------------------------------------------------------
\* Whose bytes an entry points at

\* Entries that no pack file of their number contradicts.
SoundEntry ==
  {e \in Entry : \A d \in Branch :
     pack[d][e.file] # None =>
       e.pos <= Len(pack[d][e.file]) /\ pack[d][e.file][e.pos].obj = e.obj}

\* Runs below a number, with entries of a set, for packs older than the run
SoundRun(E, n) ==
  {r \in RunItem : r.num < n /\ \A e \in r.body : e \in E /\ e.file < r.num}

\* No run, on disk or in a registry, has an entry that a pack contradicts.  A
\* number that is drawn again would give an old entry a new pack; an entry's pack
\* is older than its run, and a session is ahead of its runs.
BytesSound ==
  /\ \A b \in Branch : Fits(SoundRun(SoundEntry, MaxSeq + 1), idx, b)
  /\ \A p \in Proc : pups[p] \in Registry(SoundRun(SoundEntry, next[p]))

LEMMA SeqGrows ==
  ASSUME NEW Small, NEW Large, Small \subseteq Large
  PROVE  /\ \A s \in Seq(Small) : s \in Seq(Large)
         /\ \A reg \in Registry(Small) : reg \in Registry(Large)
<1>1. ASSUME NEW s \in Seq(Small)
      PROVE  s \in Seq(Large)
  <2>1. Len(s) \in Nat /\ s \in [1..Len(s) -> Small]
    BY LenProperties
  <2>2. s \in [1..Len(s) -> Large]
    BY <2>1
  <2> QED
    BY <2>1, <2>2
<1> QED
  BY <1>1 DEF Registry

LEMMA SoundRunGrows ==
  ASSUME NEW E, NEW m \in Int, NEW n \in Int, m <= n
  PROVE  SoundRun(E, m) \subseteq SoundRun(E, n)
<1>1. ASSUME NEW r \in SoundRun(E, m)
      PROVE  r.num < n
  BY <1>1 DEF SoundRun, RunItem, Seqno
<1> QED
  BY <1>1 DEF SoundRun

\* What is good of a run under a set of entries stays good when every entry for a
\* file below the run's number stays in the set.
LEMMA SoundRunKept ==
  ASSUME NEW E, NEW F, NEW n \in Int, \A e \in E \cap Entry : e.file < n => e \in F
  PROVE  SoundRun(E, n) \subseteq SoundRun(F, n)
<1>1. ASSUME NEW r \in SoundRun(E, n), NEW e \in r.body
      PROVE  e \in F
  <2>1. e \in E \cap Entry /\ e.file \in Int /\ r.num \in Int /\ e.file < r.num /\ r.num < n
    BY <1>1 DEF SoundRun, RunItem, Entry, Seqno
  <2>2. e.file < n
    BY <2>1
  <2> QED
    BY <2>1, <2>2
<1> QED
  BY <1>1 DEF SoundRun

\* Packs below a number that only grow contradict no entry they did not
\* contradict before.
LEMMA EntriesKept ==
  ASSUME NEW n \in Int, TypeOK,
         \A d \in Branch, s \in Seqno : pack'[d][s] # None /\ s < n =>
           /\ pack[d][s] # None /\ Len(pack[d][s]) <= Len(pack'[d][s])
           /\ Len(pack'[d][s]) \in Nat
           /\ \A i \in 1..Len(pack[d][s]) : pack'[d][s][i] = pack[d][s][i]
  PROVE  \A e \in SoundEntry \cap Entry : e.file < n => e \in SoundEntry'
<1> SUFFICES ASSUME NEW e \in SoundEntry, e.file < n, NEW d \in Branch, pack'[d][e.file] # None
             PROVE  e.pos <= Len(pack'[d][e.file]) /\ pack'[d][e.file][e.pos].obj = e.obj
  BY DEF SoundEntry
<1>1. e \in Entry /\ e.file \in Seqno /\ e.pos \in 1..MaxLen
  BY DEF SoundEntry, Entry
<1> PICK s \in Seqno : s = e.file
  BY <1>1
<1>2. /\ pack[d][s] # None /\ Len(pack[d][s]) <= Len(pack'[d][s])
      /\ Len(pack'[d][s]) \in Nat
      /\ \A i \in 1..Len(pack[d][s]) : pack'[d][s][i] = pack[d][s][i]
  OBVIOUS
<1>3. e.pos <= Len(pack[d][s]) /\ pack[d][s][e.pos].obj = e.obj
  BY <1>2 DEF SoundEntry
<1>4. Len(pack[d][s]) \in Nat
  <2>1. pack[d][s] \in Seq(Stored)
    BY <1>2 DEF TypeOK
  <2> QED
    BY <2>1, LenProperties
<1>5. e.pos \in 1..Len(pack[d][s]) /\ e.pos <= Len(pack'[d][s])
  BY <1>1, <1>2, <1>3, <1>4, BoundAssumption
<1>6. pack'[d][s][e.pos] = pack[d][s][e.pos]
  BY <1>2, <1>5
<1> QED
  BY <1>3, <1>5, <1>6

\* Sound runs on disk are below the number of a session, by the invariant, and are
\* what the session may load.
LEMMA DiskBelow ==
  ASSUME NEW n \in Int, NEW E, \A b \in Branch : Fits(SoundRun(E, MaxSeq + 1), idx, b),
         \A b \in Branch : \A s \in Numbered(b) : s < n
  PROVE  \A b \in Branch : Fits(SoundRun(E, n), idx, b)
<1> SUFFICES ASSUME NEW b \in Branch, NEW s \in Seqno, idx[b][s] # None
             PROVE  [num |-> s, dir |-> b, body |-> idx[b][s]] \in SoundRun(E, n)
  BY DEF Fits
<1>1. [num |-> s, dir |-> b, body |-> idx[b][s]] \in SoundRun(E, MaxSeq + 1)
  BY DEF Fits
<1>2. s \in Numbered(b)
  BY DEF Numbered, Present
<1> QED
  BY <1>1, <1>2 DEF SoundRun

\* A number drawn past the registries is past what they hold.
LEMMA RecomputedRuns ==
  ASSUME NEW p, NEW b, NEW ps \in Registry(PackItem), NEW E, NEW n \in Int,
         NEW rs \in Registry(SoundRun(E, n)), rs \in Registry(RunItem)
  PROVE  rs \in Registry(SoundRun(E, Recomputed(p, b, ps, rs)))
<1> DEFINE S == (UNION {Present(pack[d]) \cup Present(idx[d]) : d \in Branch})
                  \cup Numbers(All(ps)) \cup Numbers(All(rs))
           k == Recomputed(p, b, ps, rs)
<1>1. All(ps) \in Seq(PackItem) /\ All(rs) \in Seq(RunItem) /\ All(rs) = rs.past \o rs.data
  BY AllType DEF All
<1>2. Numbers(All(ps)) \in SUBSET Seqno /\ Numbers(All(rs)) \in SUBSET Seqno
  BY <1>1, NumbersType
<1>3. \A d \in Branch : Present(pack[d]) \in SUBSET Seqno /\ Present(idx[d]) \in SUBSET Seqno
  BY DEF Present
<1>4. S \in SUBSET Seqno
  BY <1>2, <1>3
<1>5. k = 1 + MaxOf(S)
  BY DEF Recomputed
<1>6. \A s \in S : s < k
  <2> HIDE DEF S
  <2>1. MaxOf(S) \in 0..MaxSeq /\ \A s \in S : s <= MaxOf(S)
    BY <1>4, MaxOfFacts
  <2> QED
    BY <1>4, <1>5, <2>1, BoundAssumption DEF Seqno
<1>7. /\ rs.past \in Seq(SoundRun(E, n)) /\ rs.data \in Seq(SoundRun(E, n))
      /\ rs = [past |-> rs.past, data |-> rs.data]
  BY DEF Registry
<1>8. ASSUME NEW is \in Seq(SoundRun(E, n)), \A i \in 1..Len(is) : is[i].num \in S
      PROVE  is \in Seq(SoundRun(E, k))
  <2>1. Len(is) \in Nat /\ \A i \in 1..Len(is) : is[i] \in SoundRun(E, n)
    BY <1>8, LenProperties, ElementOfSeq
  <2>2. \A i \in 1..Len(is) : is[i].num < k
    BY <1>6, <1>8
  <2> HIDE DEF S, k
  <2>3. \A i \in 1..Len(is) : is[i] \in SoundRun(E, k)
    BY <2>1, <2>2 DEF SoundRun
  <2>4. is \in [1..Len(is) -> SoundRun(E, k)]
    <3>1. is \in [1..Len(is) -> SoundRun(E, n)]
      BY <1>8, LenProperties
    <3> QED
      BY <2>3, <3>1
  <2> QED
    BY <2>1, <2>4
<1>9. /\ \A i \in 1..Len(rs.past) : rs.past[i].num \in S
      /\ \A i \in 1..Len(rs.data) : rs.data[i].num \in S
  <2>1. rs.past \in Seq(RunItem) /\ rs.data \in Seq(RunItem)
    BY DEF Registry
  <2> PICK a \in Seq(RunItem), c \in Seq(RunItem) : a = rs.past /\ c = rs.data
    BY <2>1
  <2>2. Len(a) \in Nat /\ Len(c) \in Nat
    BY LenProperties
  <2>3. \A m, l \in Nat :
          /\ \A i \in 1..m : i \in 1..m + l /\ i <= m
          /\ \A i \in 1..l : i + m \in 1..m + l /\ ~ (i + m <= m) /\ i + m - m = i
    OBVIOUS
  <2>4. /\ Len(a \o c) = Len(a) + Len(c) /\ a \o c \in Seq(RunItem)
        /\ \A i \in 1..Len(a) + Len(c) : (a \o c)[i] = IF i <= Len(a) THEN a[i] ELSE c[i - Len(a)]
    BY ConcatProperties
  <2>5. \A i \in 1..Len(a) + Len(c) : (a \o c)[i].num \in Numbers(a \o c)
    BY <2>4, LenProperties DEF Numbers
  <2>6. \A i \in 1..Len(a) : a[i].num \in Numbers(a \o c)
    <3> TAKE i \in 1..Len(a)
    <3>1. i \in 1..Len(a) + Len(c) /\ (a \o c)[i] = a[i]
      BY <2>2, <2>4, <2>3
    <3> QED
      BY <2>5, <3>1
  <2>7. \A i \in 1..Len(c) : c[i].num \in Numbers(a \o c)
    <3> TAKE i \in 1..Len(c)
    <3>1. /\ i + Len(a) \in 1..Len(a) + Len(c) /\ ~ (i + Len(a) <= Len(a))
          /\ i + Len(a) - Len(a) = i
      BY <2>2, <2>3
    <3>2. (a \o c)[i + Len(a)] = c[i]
      BY <2>4, <3>1
    <3> QED
      BY <2>5, <3>1, <3>2
  <2>8. Numbers(a \o c) \subseteq S
    BY <1>1
  <2> QED
    BY <2>6, <2>7, <2>8
<1> HIDE DEF S, k
<1>10. rs.past \in Seq(SoundRun(E, k)) /\ rs.data \in Seq(SoundRun(E, k))
  BY <1>7, <1>8, <1>9
<1> QED
  BY <1>7, <1>10 DEF Registry, k

\* A merge takes over what its runs hold, under a number past theirs.
LEMMA MergedSound ==
  ASSUME NEW f \in [Branch -> [Seqno -> (SUBSET Entry) \cup {None}]], NEW b \in Branch,
         NEW n \in 1..MaxSeq + 1, NEW E, NEW d \in Seq(SoundRun(E, n)), NEW m \in Merges(d, n),
         \A a \in Branch : Fits(SoundRun(E, MaxSeq + 1), f, a)
  PROVE  LET c == Merged(f, b, d, n, m)
         IN  /\ \A a \in Branch : Fits(SoundRun(E, MaxSeq + 1), c.idx, a)
             /\ c.data \in Seq(SoundRun(E, c.next))
<1>1. MaxSeq \in Nat \ {0} /\ Len(d) \in Nat
  BY BoundAssumption, LenProperties
<1>2. CASE m = 0
  BY <1>1, <1>2 DEF Merged
<1>3. CASE m # 0
  <2> DEFINE old == SubSeq(d, Len(d) - m + 1, Len(d))
             rest == SubSeq(d, 1, Len(d) - m)
             body == UNION {old[i].body : i \in DOMAIN old}
             new == [num |-> n, dir |-> b, body |-> body]
             g == [f EXCEPT ![b] = [s \in Seqno |->
                     IF s = n THEN body ELSE IF s \in Numbers(old) THEN None ELSE f[b][s]]]
  <2>1. n \in Seqno /\ m \in 2..Len(d) /\ n < n + 1 /\ n < MaxSeq + 1
    BY <1>1, <1>3 DEF Merges, Seqno
  <2>2. \A i \in 1..Len(d) : d[i] \in SoundRun(E, n)
    BY ElementOfSeq
  <2>3. Len(d) - m \in Nat /\ Len(d) - m + 1 \in 1..Len(d)
    BY <1>1, <2>1
  <2>4. old \in Seq(SoundRun(E, n)) /\ rest \in Seq(SoundRun(E, n))
    <3>1. \A i \in Len(d) - m + 1 .. Len(d) : d[i] \in SoundRun(E, n)
      BY <2>2, <2>3
    <3>2. \A i \in 1 .. Len(d) - m : d[i] \in SoundRun(E, n)
      BY <1>1, <2>1, <2>2, <2>3
    <3>3. old \in Seq(SoundRun(E, n))
      BY <1>1, <2>3, <3>1, SubSeqProperties
    <3>4. rest \in Seq(SoundRun(E, n))
      BY <1>1, <2>3, <3>2, SubSeqProperties
    <3> QED
      BY <3>3, <3>4
  <2>5. Merged(f, b, d, n, m) = [idx |-> g, data |-> Append(rest, new), next |-> n + 1]
    BY <1>3 DEF Merged
  <2> HIDE DEF old, rest
  <2>6. ASSUME NEW e \in body
        PROVE  e \in Entry /\ e \in E /\ e.file < n
    <3> PICK i \in DOMAIN old : e \in old[i].body
      OBVIOUS
    <3>1. old[i] \in SoundRun(E, n)
      BY <2>4, LenProperties, ElementOfSeq
    <3>2. /\ e \in Entry /\ e \in E /\ e.file < old[i].num /\ old[i].num < n
          /\ old[i].num \in Int /\ e.file \in Int
      BY <3>1 DEF SoundRun, RunItem, Entry, Seqno
    <3> QED
      BY <3>2
  <2> HIDE DEF body
  <2>7. new \in RunItem /\ new.num = n /\ new.body = body
    BY <2>1, <2>6 DEF RunItem
  <2>8. new \in SoundRun(E, n + 1) /\ new \in SoundRun(E, MaxSeq + 1)
    BY <2>1, <2>6, <2>7 DEF SoundRun
  <2>9. Append(rest, new) \in Seq(SoundRun(E, n + 1))
    <3>1. rest \in Seq(SoundRun(E, n + 1))
      BY <2>1, <2>4, SoundRunGrows, SeqGrows
    <3> QED
      BY <2>8, <3>1, AppendProperties
  <2>10. \A a \in Branch : Fits(SoundRun(E, MaxSeq + 1), g, a)
    <3> SUFFICES ASSUME NEW a \in Branch, NEW s \in Seqno, g[a][s] # None
                 PROVE  [num |-> s, dir |-> a, body |-> g[a][s]] \in SoundRun(E, MaxSeq + 1)
      BY DEF Fits
    <3>1. CASE a = b /\ s = n
      BY <2>1, <2>8, <3>1
    <3>2. CASE ~ (a = b /\ s = n)
      <4>1. g[a][s] = f[a][s] /\ f[a][s] # None
        BY <3>2
      <4> QED
        BY <4>1 DEF Fits
    <3> QED
      BY <3>1, <3>2
  <2> HIDE DEF g, new
  <2> QED
    BY <2>5, <2>9, <2>10
<1> QED
  BY <1>2, <1>3

\* Opening and switching load what is on the disk, and draw a number past it.
LEMMA GoingSound ==
  ASSUME IInv, IInv', OneSession, BytesSound, NEW p \in Proc,
         NEW b \in Branch, Open(p, b) \/ Switch(p, b) \/ SwitchFails(p, b)
  PROVE  BytesSound'
<1> DEFINE E == SoundEntry
<1>1. SoundEntry' = E /\ UNCHANGED <<pack, idx>>
  BY DEF SoundEntry, Open, Switch, SwitchFails, disk
<1>2. \A a \in Branch : Fits(SoundRun(E, MaxSeq + 1), idx', a)
  BY <1>1 DEF BytesSound
<1> HIDE DEF E
<1>3. MaxSeq + 1 \in Int /\ next[p] \in 1..MaxSeq + 1 /\ next[p] <= MaxSeq + 1
  BY BoundAssumption DEF IInv, TypeOK
<1>4. \A a \in Branch : Fits(SoundRun(E, MaxSeq + 1), idx, a)
  BY DEF E, BytesSound
<1>5. pups'[p] \in Registry(SoundRun(E, next'[p]))
  <2>1. CASE Open(p, b)
    <3>1. Fresh(idx, b) \in Registry(SoundRun(E, MaxSeq + 1))
      BY <1>4, FreshType
    <3>2. pups'[p] \in Registry(SoundRun(E, MaxSeq + 1))
      BY <2>1, <3>1 DEF Open, IInv
    <3>3. packs'[p] \in Registry(PackItem) /\ pups'[p] \in Registry(RunItem)
      BY DEF IInv
    <3>4. next'[p] = Recomputed(p, b, packs'[p], pups'[p])
      BY <2>1 DEF Open, IInv, TypeOK
    <3> QED
      BY <1>3, <3>2, <3>3, <3>4, RecomputedRuns
  <2>2. CASE Switch(p, b)
    <3>1. pups[p] \in Registry(SoundRun(E, MaxSeq + 1))
      <4>1. pups[p] \in Registry(SoundRun(E, next[p]))
        BY DEF BytesSound, E
      <4>2. SoundRun(E, next[p]) \subseteq SoundRun(E, MaxSeq + 1)
        BY <1>3, SoundRunGrows
      <4> QED
        BY <4>1, <4>2, SeqGrows
    <3>2. ScanAll(Aside(pups[p]), idx, Below(p, b)) \in Registry(SoundRun(E, MaxSeq + 1))
      BY <1>4, <3>1, AsideType, BelowType, ScanAllType
    <3>3. pups'[p] \in Registry(SoundRun(E, MaxSeq + 1))
      BY <2>2, <3>2 DEF Switch, IInv
    <3>4. packs'[p] \in Registry(PackItem) /\ pups'[p] \in Registry(RunItem)
      BY DEF IInv
    <3>5. next'[p] = Recomputed(p, b, packs'[p], pups'[p])
      BY <2>2 DEF Switch, IInv, TypeOK
    <3> QED
      BY <1>3, <3>3, <3>4, <3>5, RecomputedRuns
  <2>3. CASE SwitchFails(p, b)
    <3> DEFINE ds == At(Below(p, b), {i \in DOMAIN Below(p, b) : Below(p, b)[i] \in dirs})
    <3>1. ds \in Seq(Branch)
      BY BelowType
    <3>2. pups' = [pups EXCEPT ![p] = ScanAll(Aside(@), idx, ds)] /\ next' = next /\ pc[p] # "idle"
      BY <2>3 DEF SwitchFails
    <3> HIDE DEF ds
    <3>3. \A a \in Branch : Fits(SoundRun(E, next[p]), idx, a)
      BY <1>3, <1>4, <3>2, DiskBelow DEF IInv, Ahead
    <3>4. pups[p] \in Registry(SoundRun(E, next[p]))
      BY DEF BytesSound, E
    <3>5. ScanAll(Aside(pups[p]), idx, ds) \in Registry(SoundRun(E, next[p]))
      BY <3>1, <3>3, <3>4, AsideType, ScanAllType
    <3> QED
      BY <3>2, <3>5 DEF IInv
  <2> QED
    BY <2>1, <2>2, <2>3
<1> QED
  BY <1>1, <1>2, <1>5 DEF BytesSound, OneSession

\* Steps that leave packs, runs and registries of runs alone
LEMMA StillSound ==
  ASSUME BytesSound, UNCHANGED <<pack, idx, pups, next>>
  PROVE  BytesSound'
BY DEF BytesSound, SoundEntry

LEMMA DropSound ==
  ASSUME IInv, IInv', OneSession, BytesSound, NEW p \in Proc, NEW b \in Branch, Drop(p, b)
  PROVE  BytesSound'
<1> PICK E, F : E = SoundEntry /\ F = SoundEntry'
  OBVIOUS
<1>1. /\ pack' = [pack EXCEPT ![b] = NoFiles] /\ idx' = [idx EXCEPT ![b] = NoFiles]
      /\ pups' = [pups EXCEPT ![p].data = Less(@, Present(idx[b]))] /\ next' = next
  BY DEF Drop
<1>2. MaxSeq + 1 \in Int /\ next[p] \in Int /\ next[p] <= MaxSeq + 1
  BY BoundAssumption DEF IInv, TypeOK
<1>3. \A d \in Branch, s \in Seqno : pack'[d][s] # None => pack[d][s] # None /\ pack'[d][s] = pack[d][s]
  BY <1>1 DEF IInv, TypeOK, NoFiles
<1>4. \A e \in E \cap Entry : e \in F
  BY <1>3 DEF SoundEntry, Entry
<1>5. SoundRun(E, MaxSeq + 1) \subseteq SoundRun(F, MaxSeq + 1) /\ SoundRun(E, next[p]) \subseteq SoundRun(F, next[p])
  BY <1>2, <1>4, SoundRunKept
<1>6. \A a \in Branch : Fits(SoundRun(F, MaxSeq + 1), idx', a)
  <2> SUFFICES ASSUME NEW a \in Branch, NEW s \in Seqno, idx'[a][s] # None
               PROVE  [num |-> s, dir |-> a, body |-> idx'[a][s]] \in SoundRun(F, MaxSeq + 1)
    BY DEF Fits
  <2>1. idx'[a][s] = idx[a][s] /\ idx[a][s] # None
    BY <1>1 DEF IInv, TypeOK, NoFiles
  <2> QED
    BY <1>5, <2>1 DEF BytesSound, Fits
<1>7. pups'[p] \in Registry(SoundRun(F, next'[p]))
  <2>1. pups[p] \in Registry(SoundRun(E, next[p]))
    BY DEF BytesSound
  <2>2. pups[p] \in Registry(SoundRun(F, next[p]))
    BY <1>5, <2>1, SeqGrows
  <2>3. Less(pups[p].data, Present(idx[b])) \in Seq(SoundRun(F, next[p]))
    BY <2>2, LessType DEF Registry
  <2>4. pups'[p] = [pups[p] EXCEPT !.data = Less(pups[p].data, Present(idx[b]))]
    BY <1>1 DEF IInv
  <2> QED
    BY <1>1, <2>2, <2>3, <2>4 DEF Registry
<1> QED
  BY <1>6, <1>7 DEF BytesSound, OneSession

LEMMA CloseSound ==
  ASSUME IInv, IInv', OneSession, BytesSound, NEW p \in Proc, Close(p)
  PROVE  BytesSound'
<1> PICK E : E = SoundEntry
  OBVIOUS
<1>1. SoundEntry' = E
  BY DEF SoundEntry, Close
<1>2. PICK m \in Merges(pups[p].data, next[p]) :
        idx' = Merged(idx, leaf[p], pups[p].data, next[p], m).idx
  BY DEF Close
<1>3. /\ leaf[p] \in Branch /\ next[p] \in 1..MaxSeq + 1
      /\ idx \in [Branch -> [Seqno -> (SUBSET Entry) \cup {None}]]
      /\ pups[p].data \in Seq(SoundRun(E, next[p]))
      /\ \A a \in Branch : Fits(SoundRun(E, MaxSeq + 1), idx, a)
  BY DEF IInv, TypeOK, BytesSound, Registry
<1>4. \A a \in Branch : Fits(SoundRun(E, MaxSeq + 1), idx', a)
  BY <1>2, <1>3, MergedSound
<1>5. pups'[p] \in Registry(SoundRun(E, next'[p]))
  BY ClosedType DEF Close, IInv
<1> QED
  BY <1>1, <1>4, <1>5 DEF BytesSound, OneSession

LEMMA PutOnSound ==
  ASSUME IInv, IInv', OneSession, BytesSound, NEW p \in Proc, pc[p] = "ready",
         NEW ps \in Registry(PackItem), NEW rs \in Registry(SoundRun(SoundEntry, next[p])),
         NEW o \in Obj, NEW base \in Obj \cup {None}, PutOn(p, ps, rs, o, base)
  PROVE  BytesSound'
<1> DEFINE E == SoundEntry
           k == next[p]
           b == leaf[p]
           f == TailFile(p, ps)
           old  == IF Appends(ps) THEN pack[b][f] ELSE <<>>
           body == Append(old, [obj |-> o, base |-> base])
           n    == IF f >= next[p] THEN f + 1 ELSE next[p]
           run  == {[obj |-> o, file |-> f, pos |-> Len(body)]}
           data == Append(rs.data, [num |-> n, dir |-> b, body |-> run])
           mid  == [idx EXCEPT ![b][n] = run]
<1> PICK F : F = SoundEntry'
  OBVIOUS
<1>1. /\ old # None /\ Len(old) < MaxLen /\ n <= MaxSeq
      /\ pack' = [pack EXCEPT ![b][f] = body]
  BY DEF PutOn
<1>2. PICK m \in Merges(data, n + 1) :
        LET c == Merged(mid, b, data, n + 1, m)
        IN  /\ idx' = c.idx
            /\ pups' = [pups EXCEPT ![p] = [past |-> rs.past, data |-> c.data]]
            /\ next' = [next EXCEPT ![p] = c.next]
  BY DEF PutOn
<1> DEFINE c == Merged(mid, b, data, n + 1, m)
<1>3. /\ idx' = c.idx /\ pups'[p] = [past |-> rs.past, data |-> c.data] /\ next'[p] = c.next
  <2>1. /\ idx' = c.idx
        /\ pups' = [pups EXCEPT ![p] = [past |-> rs.past, data |-> c.data]]
        /\ next' = [next EXCEPT ![p] = c.next]
    BY <1>2
  <2> HIDE DEF c
  <2> QED
    BY <2>1 DEF IInv, TypeOK
<1>4. m \in Merges(data, n + 1)
  BY <1>2
<1> HIDE DEF c, mid, data, run
<1>5. /\ b \in Branch /\ k \in 1..MaxSeq + 1 /\ MaxSeq \in Nat \ {0} /\ MaxLen \in Nat
      /\ \A a \in Branch : \A s \in Seqno : pack[a][s] # None => s < k
      /\ \A a \in Branch : \A s \in Seqno : idx[a][s] # None => s < k
      /\ pack \in [Branch -> [Seqno -> Seq(Stored) \cup {None}]]
      /\ idx \in [Branch -> [Seqno -> (SUBSET Entry) \cup {None}]]
  BY AheadFacts, BoundAssumption DEF IInv, TypeOK
<1>6. \/ Appends(ps) /\ f \in Seqno /\ pack[b][f] # None /\ f < k
      \/ ~Appends(ps) /\ f = k
  <2>1. Appends(ps) => pack[leaf[p]][TailFile(p, ps)] # None
    BY <1>1
  <2> QED
    BY <2>1, TailFacts
<1>7. f \in Seqno /\ n \in Seqno /\ f < n /\ k <= n /\ n + 1 \in 1..MaxSeq + 1 /\ f <= k
  <2>1. CASE f < k
    <3>1. f \in Int /\ k \in Int /\ n = k
      BY <1>5, <1>6, <2>1 DEF Seqno
    <3> HIDE DEF f, k, n
    <3> QED
      BY <1>1, <1>5, <1>6, <2>1, <3>1 DEF Seqno
  <2>2. CASE ~ (f < k)
    <3>1. f = k /\ k \in Int /\ n = f + 1
      BY <1>5, <1>6, <2>2 DEF Seqno
    <3> HIDE DEF f, k, n
    <3> QED
      BY <1>1, <1>5, <3>1 DEF Seqno
  <2> QED
    BY <2>1, <2>2
<1> HIDE DEF n
<1>8. old \in Seq(Stored) /\ (f < k => old = pack[b][f])
  <2>1. CASE Appends(ps)
    BY <1>1, <1>5, <1>6, <2>1
  <2>2. CASE ~Appends(ps)
    BY <1>5, <1>6, <2>2
  <2> QED
    BY <2>1, <2>2
<1> HIDE DEF old
<1>9. /\ body \in Seq(Stored) /\ Len(body) = Len(old) + 1 /\ Len(body) \in 1..MaxLen
      /\ body[Len(body)].obj = o /\ \A i \in 1..Len(old) : body[i] = old[i]
  <2>1. [obj |-> o, base |-> base] \in Stored
    BY DEF Stored
  <2>2. /\ body \in Seq(Stored) /\ Len(body) = Len(old) + 1
        /\ body[Len(old) + 1] = [obj |-> o, base |-> base]
        /\ \A i \in 1..Len(old) : body[i] = old[i]
    BY <1>8, <2>1, AppendProperties
  <2>3. Len(old) \in Nat
    BY <1>8, LenProperties
  <2> QED
    BY <1>1, <1>5, <2>2, <2>3
<1> HIDE DEF body, b, f, k, E
<1>10. \A e \in E \cap Entry : e.file < k => e \in F
  <2>1. \A d \in Branch, s \in Seqno : pack'[d][s] # None /\ s < k =>
          /\ pack[d][s] # None /\ Len(pack[d][s]) <= Len(pack'[d][s])
          /\ Len(pack'[d][s]) \in Nat
          /\ \A i \in 1..Len(pack[d][s]) : pack'[d][s][i] = pack[d][s][i]
    <3> TAKE d \in Branch, s \in Seqno
    <3> HAVE pack'[d][s] # None /\ s < k
    <3>1. CASE d = b /\ s = f
      <4>1. pack'[d][s] = body /\ pack[d][s] = old /\ pack[d][s] # None
        BY <1>1, <1>5, <1>8, <3>1
      <4>2. Len(old) \in Nat /\ Len(old) <= Len(body) /\ Len(body) \in Nat
        BY <1>8, <1>9, LenProperties
      <4>3. \A i \in 1..Len(pack[d][s]) : pack'[d][s][i] = pack[d][s][i]
        BY <1>9, <4>1
      <4> QED
        BY <4>1, <4>2, <4>3
    <3>2. CASE ~ (d = b /\ s = f)
      <4>1. pack'[d][s] = pack[d][s]
        BY <1>1, <1>5, <3>2
      <4>2. Len(pack[d][s]) \in Nat
        BY <1>5, <4>1, LenProperties
      <4> QED
        BY <4>1, <4>2
    <3> QED
      BY <3>1, <3>2
  <2>2. TypeOK /\ k \in Int
    BY <1>5 DEF IInv
  <2> QED
    BY <2>1, <2>2, EntriesKept DEF E
<1>11. [obj |-> o, file |-> f, pos |-> Len(body)] \in F \cap Entry
  <2> PICK e : e = [obj |-> o, file |-> f, pos |-> Len(body)]
    OBVIOUS
  <2>1. e \in Entry /\ e.file = f /\ e.pos = Len(body) /\ e.obj = o
    BY <1>7, <1>9 DEF Entry
  <2>2. pack'[b][f] = body
    BY <1>1, <1>5, <1>7
  <2>3. ASSUME NEW d \in Branch, pack'[d][f] # None
        PROVE  e.pos <= Len(pack'[d][f]) /\ pack'[d][f][e.pos].obj = e.obj
    <3>1. d = b
      <4> SUFFICES ASSUME d # b
                   PROVE  FALSE
        OBVIOUS
      <4>1. pack[d][f] # None /\ f < k /\ k \in Int
        BY <1>1, <1>5, <1>7, <2>3
      <4>2. pack[b][f] # None
        BY <1>6, <4>1
      <4> QED
        BY <1>5, <1>7, <4>1, <4>2 DEF IInv, NumbersUnique, Present
    <3> QED
      BY <1>5, <1>9, <2>1, <2>2, <3>1
  <2> QED
    BY <2>1, <2>3 DEF SoundEntry
<1>12. [num |-> n, dir |-> b, body |-> run] \in SoundRun(F, n + 1)
  <2>1. /\ [num |-> n, dir |-> b, body |-> run] \in RunItem
        /\ \A e \in run : e \in F /\ e.file < n
    BY <1>5, <1>7, <1>11 DEF RunItem, run
  <2> QED
    BY <1>7, <2>1 DEF SoundRun, Seqno
<1>13. /\ rs.past \in Seq(SoundRun(F, n + 1)) /\ rs.data \in Seq(SoundRun(F, n + 1))
       /\ rs.past \in Seq(SoundRun(F, k))
  <2>1. SoundRun(E, k) \subseteq SoundRun(F, k)
    <3>1. k \in Int
      BY <1>5
    <3> QED
      BY <1>10, <3>1, SoundRunKept
  <2>2. rs \in Registry(SoundRun(F, k))
    <3>1. rs \in Registry(SoundRun(E, k))
      BY DEF E, k
    <3> QED
      BY <2>1, <3>1, SeqGrows
  <2>3. SoundRun(F, k) \subseteq SoundRun(F, n + 1)
    <3>1. k \in Int /\ n + 1 \in Int /\ k <= n + 1
      BY <1>5, <1>7 DEF Seqno
    <3> QED
      BY <3>1, SoundRunGrows
  <2>4. rs \in Registry(SoundRun(F, n + 1))
    <3> PICK S, T : S = SoundRun(F, k) /\ T = SoundRun(F, n + 1)
      OBVIOUS
    <3>1. rs \in Registry(S) /\ S \subseteq T
      BY <2>2, <2>3
    <3>2. \A reg \in Registry(S) : reg \in Registry(T)
      BY ONLY <3>1, SeqGrows
    <3> QED
      BY <3>1, <3>2
  <2> QED
    BY <2>2, <2>4 DEF Registry
<1>14. data \in Seq(SoundRun(F, n + 1))
  BY <1>12, <1>13, AppendProperties DEF data
<1>15. \A a \in Branch : Fits(SoundRun(F, MaxSeq + 1), mid, a)
  <2>1. \A a \in Branch : Fits(SoundRun(E, k), idx, a)
    <3>1. \A a \in Branch : \A s \in Numbered(a) : s < k
      BY DEF IInv, Ahead, k
    <3>2. \A a \in Branch : Fits(SoundRun(E, MaxSeq + 1), idx, a)
      BY DEF BytesSound, E
    <3>3. k \in Int
      BY <1>5
    <3> QED
      BY <3>1, <3>2, <3>3, DiskBelow
  <2>2. SoundRun(E, k) \subseteq SoundRun(F, MaxSeq + 1)
    <3>1. SoundRun(E, k) \subseteq SoundRun(F, k)
      <4>1. k \in Int
        BY <1>5
      <4> QED
        BY <1>10, <4>1, SoundRunKept
    <3>2. SoundRun(F, k) \subseteq SoundRun(F, MaxSeq + 1)
      BY <1>5, SoundRunGrows
    <3> QED
      BY <3>1, <3>2
  <2>3. SoundRun(F, n + 1) \subseteq SoundRun(F, MaxSeq + 1)
    BY <1>5, <1>7, SoundRunGrows
  <2> SUFFICES ASSUME NEW a \in Branch, NEW s \in Seqno, mid[a][s] # None
               PROVE  [num |-> s, dir |-> a, body |-> mid[a][s]] \in SoundRun(F, MaxSeq + 1)
    BY DEF Fits
  <2>4. CASE a = b /\ s = n
    BY <1>5, <1>7, <1>12, <2>3, <2>4 DEF mid
  <2>5. CASE ~ (a = b /\ s = n)
    <3>1. mid[a][s] = idx[a][s] /\ idx[a][s] # None
      BY <1>5, <2>5 DEF mid
    <3> QED
      BY <2>1, <2>2, <3>1 DEF Fits
  <2> QED
    BY <2>4, <2>5
<1>16. mid \in [Branch -> [Seqno -> (SUBSET Entry) \cup {None}]]
  BY <1>5, <1>7, <1>11 DEF mid, run
<1>17. /\ \A a \in Branch : Fits(SoundRun(F, MaxSeq + 1), c.idx, a)
       /\ c.data \in Seq(SoundRun(F, c.next))
  <2> PICK k1 : k1 = n + 1
    OBVIOUS
  <2>1. c = Merged(mid, b, data, k1, m) /\ k1 \in 1..MaxSeq + 1
    BY <1>7 DEF c
  <2>2. data \in Seq(SoundRun(F, k1)) /\ m \in Merges(data, k1)
    BY <1>14, <1>4
  <2> QED
    BY <1>5, <1>15, <1>16, <2>1, <2>2, MergedSound
<1>18. c.next \in Int /\ n + 1 <= c.next
  BY <1>7 DEF c, Merged, Seqno
<1>19. rs.past \in Seq(SoundRun(F, c.next))
  <2>1. SoundRun(F, n + 1) \subseteq SoundRun(F, c.next)
    BY <1>7, <1>18, SoundRunGrows
  <2> QED
    BY <1>13, <2>1, SeqGrows
<1>20. /\ \A a \in Branch : Fits(SoundRun(F, MaxSeq + 1), idx', a)
       /\ pups'[p] \in Registry(SoundRun(F, next'[p]))
  BY <1>17, <1>19, <1>3 DEF Registry
<1> QED
  BY <1>20 DEF BytesSound, OneSession

\* A commit writes what the session has; a move what it has after the whole store
\* was scanned.
LEMMA WritingSound ==
  ASSUME IInv, IInv', OneSession, BytesSound, NEW p \in Proc, Writing(p)
  PROVE  BytesSound'
<1> DEFINE R == Registry(SoundRun(SoundEntry, next[p]))
<1>1. PICK o \in Obj, base \in Obj \cup {None} : Commit(p, o, base) \/ Move(p, o, base)
  BY DEF Writing
<1>2. pc[p] = "ready"
  BY <1>1 DEF Commit, Move
<1>3. packs[p] \in Registry(PackItem) /\ pups[p] \in R
  BY DEF IInv, BytesSound
<1>4. AllPacks(p) \in Registry(PackItem) /\ AllPups(p) \in R
  <2>1. \A d \in Branch : Fits(PackItem, pack, d)
    BY FilesFit DEF IInv
  <2>2. \A d \in Branch : Fits(SoundRun(SoundEntry, next[p]), idx, d)
    <3>1. next[p] \in Int /\ \A d \in Branch : \A s \in Numbered(d) : s < next[p]
      <4>1. next[p] \in 1..MaxSeq + 1 /\ pc[p] # "idle"
        BY <1>2 DEF IInv, TypeOK
      <4>2. Ahead(p)
        BY DEF IInv
      <4> QED
        BY <4>1, <4>2 DEF Ahead
    <3>2. \A d \in Branch : Fits(SoundRun(SoundEntry, MaxSeq + 1), idx, d)
      BY DEF BytesSound
    <3> QED
      BY <3>1, <3>2, DiskBelow
  <2> QED
    BY <1>3, <2>1, <2>2, OrderAssumption, ScanAllType DEF AllPacks, AllPups
<1>5. ASSUME NEW ps, NEW rs \in R, PutFails(p, ps, rs)
      PROVE  BytesSound'
  <2>1. UNCHANGED <<pack, idx, next>> /\ pups' = [pups EXCEPT ![p] = rs]
    BY <1>5 DEF PutFails, disk
  <2>2. SoundEntry' = SoundEntry
    BY <2>1 DEF SoundEntry
  <2>3. pups'[p] \in R
    BY <2>1 DEF IInv
  <2> QED
    BY <2>1, <2>2, <2>3 DEF BytesSound, OneSession
<1>6. CASE Commit(p, o, base)
  BY <1>2, <1>3, <1>5, <1>6, PutOnSound DEF Commit
<1>7. CASE Move(p, o, base)
  BY <1>2, <1>4, <1>5, <1>7, PutOnSound DEF Move
<1> QED
  BY <1>1, <1>6, <1>7

LEMMA NextSound ==
  ASSUME IInv, IInv', OneSession, BytesSound, [Next]_vars
  PROVE  BytesSound'
<1>1. CASE UNCHANGED vars
  BY <1>1, StillSound DEF vars
<1>2. ASSUME NEW p \in Proc, Going(p) \/ Branching(p)
      PROVE  BytesSound'
  <2>1. ASSUME NEW b \in Branch, Open(p, b) \/ Switch(p, b) \/ SwitchFails(p, b)
        PROVE  BytesSound'
    BY <2>1, GoingSound
  <2>2. CASE OpenLock(p) \/ SwitchLock(p)
    BY <2>2, StillSound DEF OpenLock, SwitchLock, disk, mine
  <2>3. CASE Close(p)
    BY <2>3, CloseSound
  <2>4. ASSUME NEW b \in Branch, Create(p, b)
        PROVE  BytesSound'
    BY <2>4, StillSound DEF Create, mine
  <2>5. ASSUME NEW b \in Branch, Drop(p, b)
        PROVE  BytesSound'
    BY <2>5, DropSound
  <2> QED
    BY <1>2, <2>1, <2>2, <2>3, <2>4, <2>5 DEF Going, Branching
<1> QED
  BY <1>1, <1>2, WritingSound DEF Next

LEMMA InitSound == Init => BytesSound
<1> SUFFICES ASSUME Init PROVE BytesSound
  OBVIOUS
<1>1. \A b \in Branch, s \in Seqno : idx[b][s] = None
  BY DEF Init, NoFiles
<1> QED
  BY <1>1, ClosedType DEF Init, BytesSound, Fits

\* What a fresh session has of the packs is what the disk has, a number stands for
\* one file, and what it has of the runs is sound.
LEMMA SoundMeansTrue == IInv /\ BytesSound => NoWrongBytes
<1> SUFFICES ASSUME IInv, BytesSound, NEW b \in Branch
             PROVE  LET ps == All(Fresh(pack, b)) rs == All(Fresh(idx, b))
                    IN  \A i \in DOMAIN rs : \A e \in rs[i].body :
                          Held(ps, e) # None => Held(ps, e).obj = e.obj
  BY DEF NoWrongBytes
<1> DEFINE OnDisk == {x \in PackItem : x.body = pack[x.dir][x.num] /\ x.body # None}
           Sound == SoundRun(SoundEntry, MaxSeq + 1)
<1> PICK ps, rs : ps = All(Fresh(pack, b)) /\ rs = All(Fresh(idx, b))
  OBVIOUS
<1>1. ps \in Seq(OnDisk)
  <2>1. \A d \in Branch : Fits(OnDisk, pack, d)
    BY FilesFit DEF IInv, Fits, PackItem
  <2> HIDE DEF OnDisk
  <2> QED
    BY <2>1, FreshType, AllType
<1>2. rs \in Seq(Sound)
  <2>1. \A d \in Branch : Fits(Sound, idx, d)
    BY DEF BytesSound
  <2> HIDE DEF Sound
  <2> QED
    BY <2>1, FreshType, AllType
<1> SUFFICES ASSUME NEW i \in DOMAIN rs, NEW e \in rs[i].body, Held(ps, e) # None
             PROVE  Held(ps, e).obj = e.obj
  OBVIOUS
<1>3. e \in Entry /\ e \in SoundEntry
  <2>1. rs[i] \in Sound
    <3> HIDE DEF Sound
    <3> QED
      BY <1>2, LenProperties, ElementOfSeq
  <2> QED
    BY <2>1 DEF SoundRun, RunItem
<1>4. \A j \in DOMAIN ps : ps[j] \in OnDisk
  <2> HIDE DEF OnDisk
  <2> QED
    BY <1>1, LenProperties, ElementOfSeq
<1> DEFINE is == {j \in DOMAIN ps : ps[j].num = e.file}
           j == CHOOSE j \in is : TRUE
<1>5. PICK l \in is : e.pos <= Len(ps[l].body)
  BY DEF Held
<1>6. Held(ps, e) = ps[j].body[e.pos]
  BY <1>5 DEF Held
<1>7. j \in is
  BY <1>5
<1> HIDE DEF j
<1>8. PICK d \in Branch : ps[j].body = pack[d][e.file] /\ pack[d][e.file] # None
  <2>1. ps[j] \in OnDisk /\ ps[j].num = e.file
    BY <1>4, <1>7
  <2>2. ps[j].dir \in Branch
    BY <2>1 DEF PackItem
  <2> QED
    BY <2>1, <2>2
<1> QED
  BY <1>3, <1>6, <1>8 DEF SoundEntry

----------------------------------------------------------------------------
\* What every reader of a line finds

\* The trunk, and branches on it.
Flat == \A b \in Branch : Line[b] = IF b = Trunk THEN <<Trunk>> ELSE <<Trunk, b>>

\* A directory's files at a set of numbers, in a registry.
Loads(files, b, S) == At([s \in Seqno |-> [num |-> s, dir |-> b, body |-> files[b][s]]], S)

\* Each item is the directory's file of its number; the numbers ascend.
Loaded(is, files, b) ==
  /\ \A i \in DOMAIN is : /\ is[i].num \in Seqno /\ is[i].dir = b
                          /\ is[i].body = files[b][is[i].num]
  /\ \A i, j \in DOMAIN is : i < j => is[i].num < is[j].num

LEMMA PlaceOrder ==
  ASSUME NEW n \in Nat, NEW S \in SUBSET (1..n)
  PROVE  \A i, j \in 1..Cardinality(S) : i < j => Place(S, i) < Place(S, j)
<1> SUFFICES ASSUME NEW i \in 1..Cardinality(S), NEW j \in 1..Cardinality(S), i < j
             PROVE  Place(S, i) < Place(S, j)
  OBVIOUS
<1> DEFINE x == Place(S, i)
           y == Place(S, j)
<1>1. /\ Cardinality(S) \in 0..n
      /\ x \in S /\ y \in S /\ Rank(S, x) = i - 1 /\ Rank(S, y) = j - 1
  BY PlaceFacts
<1> HIDE DEF x, y
<1>2. x \in Int /\ y \in Int /\ x # y
  BY <1>1
<1>3. ~ (y < x)
  <2> SUFFICES ASSUME y < x PROVE FALSE
    OBVIOUS
  <2>1. Rank(S, y) < Rank(S, x)
    BY <1>1, RankOrder
  <2> QED
    BY <1>1, <2>1
<1> QED
  BY <1>2, <1>3 DEF x, y

LEMMA LoadsFacts ==
  ASSUME NEW files, NEW b, NEW S \in SUBSET Seqno
  PROVE  /\ DOMAIN Loads(files, b, S) = 1..Len(Loads(files, b, S))
         /\ Len(Loads(files, b, S)) \in Nat /\ \E T : Loads(files, b, S) \in Seq(T)
         /\ Loaded(Loads(files, b, S), files, b) /\ Numbers(Loads(files, b, S)) = S
<1> DEFINE m == Cardinality(S)
           item == [s \in Seqno |-> [num |-> s, dir |-> b, body |-> files[b][s]]]
           is == Loads(files, b, S)
           T == {item[s] : s \in Seqno}
<1>1. MaxSeq \in Nat /\ S \in SUBSET (1..MaxSeq)
  BY BoundAssumption DEF Seqno
<1>2. /\ m \in Nat
      /\ \A k \in 1..m : Place(S, k) \in S /\ Rank(S, Place(S, k)) = k - 1
      /\ \A s \in S : Rank(S, s) + 1 \in 1..m /\ Place(S, Rank(S, s) + 1) = s
  BY <1>1, PlaceFacts
<1>3. is = [k \in 1..m |-> item[Place(S, k)]]
  BY DEF Loads, At
<1> HIDE DEF m, item
<1>4. is \in Seq(T) /\ Len(is) = m /\ DOMAIN is = 1..m
  <2>1. is \in [1..m -> T]
    BY <1>2, <1>3
  <2> HIDE DEF is, T
  <2> QED
    BY <1>2, <2>1
<1>5. \A k \in 1..m : is[k] = [num |-> Place(S, k), dir |-> b, body |-> files[b][Place(S, k)]]
  BY <1>2, <1>3 DEF item
<1>6. Numbers(is) = S
  <2> HIDE DEF is
  <2>1. ASSUME NEW k \in 1..m
        PROVE  is[k].num = Place(S, k)
    <3> PICK s, x : s = Place(S, k) /\ x = files[b][s]
      OBVIOUS
    <3>1. is[k] = [num |-> s, dir |-> b, body |-> x]
      BY <1>5
    <3> QED
      BY <3>1
  <2> QED
    BY <1>2, <1>4, <2>1 DEF Numbers
<1>7. \A i, j \in 1..m : i < j => Place(S, i) < Place(S, j)
  BY <1>1, PlaceOrder DEF m
<1>8. Loaded(is, files, b)
  <2> HIDE DEF is
  <2> QED
    BY <1>2, <1>4, <1>5, <1>7 DEF Loaded
<1> QED
  BY <1>2, <1>4, <1>6, <1>8

\* A chain of as many steps as are wanted
Chained(g, R, r0, L, F) ==
  g \in [0..L -> R] /\ g[0] = r0 /\ \A i \in 1..L : g[i] = F[<<i, g[i - 1]>>]

LEMMA Iterates ==
  ASSUME NEW R, NEW r0 \in R, NEW L \in Nat, NEW F \in [(1..L) \X R -> R]
  PROVE  \E g : Chained(g, R, r0, L, F)
<1> USE DEF Chained
<1> DEFINE Chain(n, g) == g \in [0..n -> R] /\ g[0] = r0 /\ \A i \in 1..n : g[i] = F[<<i, g[i - 1]>>]
           T == {n \in 0..L : ~ \E g : Chain(n, g)}
<1>1. \E g : Chain(0, g)
  <2> DEFINE g == [i \in 0..0 |-> r0]
  <2>1. g \in [0..0 -> R] /\ g[0] = r0
    OBVIOUS
  <2> HIDE DEF g
  <2>2. Chain(0, g)
    BY <2>1
  <2> QED
    BY <2>2
<1>2. ASSUME NEW n \in 1..L, NEW g, Chain(n - 1, g)
      PROVE  \E h : Chain(n, h)
  <2> DEFINE h == [i \in 0..n |-> IF i < n THEN g[i] ELSE F[<<n, g[n - 1]>>]]
  <2>1. n \in Nat /\ n - 1 \in 0..n-1 /\ 0 \in 0..n /\ 0 < n
    OBVIOUS
  <2>2. F[<<n, g[n - 1]>>] \in R
    BY <1>2, <2>1
  <2>3. h \in [0..n -> R] /\ h[0] = r0
    BY <1>2, <2>1, <2>2
  <2>4. ASSUME NEW i \in 1..n
        PROVE  h[i] = F[<<i, h[i - 1]>>]
    <3>1. CASE i < n
      <4>1. i - 1 \in 0..n /\ i - 1 < n /\ i \in 1..n-1 /\ i \in 0..n
        BY <2>1, <3>1
      <4> QED
        BY <1>2, <3>1, <4>1
    <3>2. CASE i = n
      <4>1. n - 1 \in 0..n /\ n - 1 < n /\ ~ (n < n) /\ n \in 0..n
        BY <2>1
      <4> QED
        BY <3>2, <4>1
    <3> QED
      BY <2>1, <3>1, <3>2
  <2> HIDE DEF h
  <2>5. Chain(n, h)
    BY <2>3, <2>4
  <2> QED
    BY <2>5
<1>3. T = {}
  <2> SUFFICES ASSUME T # {} PROVE FALSE
    OBVIOUS
  <2>1. T \in SUBSET Nat
    OBVIOUS
  <2>2. PICK n \in T : \A k \in T : ~ (k < n)
    BY <2>1, LeastExists
  <2>3. n \in 1..L /\ n - 1 \in 0..L /\ n - 1 < n
    <3>1. n \in 0..L /\ n # 0
      BY <1>1
    <3> QED
      BY <3>1
  <2>4. \E g : Chain(n - 1, g)
    BY <2>2, <2>3
  <2> QED
    BY <1>2, <2>3, <2>4
<1>4. L \in 0..L
  OBVIOUS
<1> QED
  BY <1>3, <1>4

\* No directory or one, as in a flat tree.
LEMMA ScanAllShort ==
  ASSUME NEW reg, NEW files, NEW b
  PROVE  ScanAll(reg, files, <<>>) = reg /\ ScanAll(reg, files, <<b>>) = Scan(reg, files, b)
<1>1. ScanAll(reg, files, <<>>) = reg
  <2> DEFINE u == CHOOSE u : u = [i \in 0..0 |-> IF i = 0 THEN reg ELSE Scan(u[i - 1], files, <<>>[i])]
  <2>1. u = [i \in 0..0 |-> IF i = 0 THEN reg ELSE Scan(u[i - 1], files, <<>>[i])]
    <3> DEFINE g == [i \in 0..0 |-> reg]
    <3>1. g = [i \in 0..0 |-> IF i = 0 THEN reg ELSE Scan(g[i - 1], files, <<>>[i])]
      OBVIOUS
    <3> QED
      BY <3>1
  <2>2. ScanAll(reg, files, <<>>) = u[0]
    BY DEF ScanAll
  <2> HIDE DEF u
  <2> QED
    BY <2>1, <2>2
<1>2. ScanAll(reg, files, <<b>>) = Scan(reg, files, b)
  <2> DEFINE u == CHOOSE u : u = [i \in 0..1 |-> IF i = 0 THEN reg ELSE Scan(u[i - 1], files, <<b>>[i])]
  <2>1. u = [i \in 0..1 |-> IF i = 0 THEN reg ELSE Scan(u[i - 1], files, <<b>>[i])]
    <3> DEFINE g == [i \in 0..1 |-> IF i = 0 THEN reg ELSE Scan(reg, files, <<b>>[i])]
    <3>1. g[0] = reg
      OBVIOUS
    <3>2. \A i \in 0..1 : i # 0 => i - 1 = 0
      OBVIOUS
    <3>3. \A i \in 0..1 : g[i] = IF i = 0 THEN reg ELSE Scan(g[i - 1], files, <<b>>[i])
      BY <3>1, <3>2
    <3>4. g = [i \in 0..1 |-> IF i = 0 THEN reg ELSE Scan(g[i - 1], files, <<b>>[i])]
      BY <3>3
    <3> QED
      BY <3>4
  <2>2. ScanAll(reg, files, <<b>>) = u[1]
    BY DEF ScanAll
  <2> HIDE DEF u
  <2>3. u[0] = reg /\ u[1] = Scan(u[0], files, <<b>>[1])
    BY <2>1
  <2> QED
    BY <2>2, <2>3
<1> QED
  BY <1>1, <1>2

----------------------------------------------------------------------------
\* What a session has of a directory

Disjoint(files) ==
  \A a, d \in Branch : a # d => Present(files[a]) \cap Present(files[d]) = {}

\* The items are files of a directory, and its newest.
Owns(is, f) ==
  /\ Numbers(is) \subseteq Present(f)
  /\ \A s \in Present(f) \ Numbers(is) : \A n \in Numbers(is) : s < n

\* A registry has all numbers of a directory or none, and all of b and the trunk.
Whole(nums, files, b) ==
  /\ \A d \in {Trunk, b} : Present(files[d]) \subseteq nums
  /\ \A d \in Branch : Present(files[d]) \subseteq nums \/ Present(files[d]) \cap nums = {}

Tidy(reg, files, b) == Owns(reg.data, files[b]) /\ Whole(Numbers(All(reg)), files, b)

LEMMA NumbersConcat ==
  ASSUME NEW Item, NEW a \in Seq(Item), NEW c \in Seq(Item)
  PROVE  Numbers(a \o c) = Numbers(a) \cup Numbers(c)
<1>1. /\ Len(a) \in Nat /\ Len(c) \in Nat /\ DOMAIN a = 1..Len(a) /\ DOMAIN c = 1..Len(c)
      /\ DOMAIN (a \o c) = 1..Len(a) + Len(c)
      /\ \A i \in 1..Len(a) + Len(c) : (a \o c)[i] = IF i <= Len(a) THEN a[i] ELSE c[i - Len(a)]
  BY ConcatProperties, LenProperties
<1> PICK m \in Nat, l \in Nat : m = Len(a) /\ l = Len(c)
  BY <1>1
<1>2. ASSUME NEW x \in Numbers(a \o c)
      PROVE  x \in Numbers(a) \cup Numbers(c)
  <2>1. PICK i \in 1..m + l : x = (a \o c)[i].num
    BY <1>1 DEF Numbers
  <2>2. CASE i <= m
    <3>1. i \in 1..m /\ x = a[i].num
      BY <1>1, <2>1, <2>2
    <3> QED
      BY <1>1, <3>1 DEF Numbers
  <2>3. CASE ~ (i <= m)
    <3>1. i - m \in 1..l /\ x = c[i - m].num
      BY <1>1, <2>1, <2>3
    <3> QED
      BY <1>1, <3>1 DEF Numbers
  <2> QED
    BY <2>2, <2>3
<1>3. ASSUME NEW x \in Numbers(a)
      PROVE  x \in Numbers(a \o c)
  <2>1. PICK i \in 1..m : x = a[i].num
    BY <1>1, <1>3 DEF Numbers
  <2>2. i \in 1..m + l /\ i <= m
    OBVIOUS
  <2>3. (a \o c)[i] = a[i]
    BY <1>1, <2>2
  <2> QED
    BY <1>1, <2>1, <2>2, <2>3 DEF Numbers
<1>4. ASSUME NEW x \in Numbers(c)
      PROVE  x \in Numbers(a \o c)
  <2>1. PICK i \in 1..l : x = c[i].num
    BY <1>1, <1>4 DEF Numbers
  <2>2. i + m \in 1..m + l /\ ~ (i + m <= m) /\ i + m - m = i
    OBVIOUS
  <2>3. (a \o c)[i + m] = c[i]
    BY <1>1, <2>2
  <2> QED
    BY <1>1, <2>1, <2>2, <2>3 DEF Numbers
<1> QED
  BY <1>2, <1>3, <1>4

LEMMA NoNumbers == Numbers(<<>>) = {}
BY DEF Numbers

LEMMA AsideFacts ==
  ASSUME NEW Item, NEW reg \in Registry(Item)
  PROVE  /\ Aside(reg).data = <<>> /\ Aside(reg) \in Registry(Item)
         /\ Numbers(All(Aside(reg))) = Numbers(All(reg))
<1>1. All(reg) \in Seq(Item) /\ Aside(reg) \in Registry(Item)
  BY AllType, AsideType
<1>2. All(Aside(reg)) = All(reg) \o <<>>
  BY DEF All, Aside
<1>3. Numbers(All(reg) \o <<>>) = Numbers(All(reg)) \cup Numbers(<<>>)
  <2>1. <<>> \in Seq(Item)
    OBVIOUS
  <2> QED
    BY <1>1, <2>1, NumbersConcat
<1> QED
  BY <1>1, <1>2, <1>3, NoNumbers DEF Aside

\* r is reg with the files of b loaded whose numbers it has not got
Scanned(Item, r, reg, files, b, fresh) ==
  /\ r \in Registry(Item) /\ r.past = reg.past
  /\ Numbers(All(r)) = Numbers(All(reg)) \cup fresh
  /\ reg.data = <<>> => r.data = Loads(files, b, fresh)

LEMMA ScanFacts ==
  ASSUME NEW Item, NEW reg \in Registry(Item), NEW files, NEW b, Fits(Item, files, b)
  PROVE  Scanned(Item, Scan(reg, files, b), reg, files, b, Present(files[b]) \ Numbers(All(reg)))
<1> PICK fresh : fresh = Present(files[b]) \ Numbers(All(reg))
  OBVIOUS
<1> PICK new : new = Loads(files, b, fresh)
  OBVIOUS
<1>1. fresh \in SUBSET Seqno /\ Numbers(new) = fresh
  <2>1. fresh \in SUBSET Seqno
    BY DEF Present
  <2> QED
    BY <2>1, LoadsFacts
<1>2. new \in Seq(Item)
  <2> DEFINE items == [s \in Seqno |-> [num |-> s, dir |-> b, body |-> files[b][s]]]
  <2>1. MaxSeq \in Nat /\ fresh \in SUBSET (1..MaxSeq)
    BY <1>1, BoundAssumption DEF Seqno
  <2>2. \A s \in fresh : items[s] \in Item
    BY DEF Fits, Present
  <2> HIDE DEF items
  <2>3. At(items, fresh) \in Seq(Item)
    BY <2>1, <2>2, AtFacts
  <2> QED
    BY <2>3 DEF Loads, items
<1> PICK r : r = Scan(reg, files, b)
  OBVIOUS
<1>3. r \in Registry(Item)
  BY ScanType
<1>4. r.past = reg.past /\ r.data = reg.data \o new
  BY DEF Scan, Loads, Registry
<1>5. reg.past \in Seq(Item) /\ reg.data \in Seq(Item)
  BY DEF Registry
<1>6. Numbers(All(r)) = Numbers(All(reg)) \cup fresh
  <2>1. Numbers(r.data) = Numbers(reg.data) \cup Numbers(new)
    BY <1>2, <1>4, <1>5, NumbersConcat
  <2>2. r.data \in Seq(Item)
    BY <1>3 DEF Registry
  <2>3. Numbers(All(r)) = Numbers(reg.past) \cup Numbers(r.data)
    <3>1. All(r) = reg.past \o r.data
      BY <1>4 DEF All
    <3> QED
      BY <1>5, <2>2, <3>1, NumbersConcat
  <2>4. Numbers(All(reg)) = Numbers(reg.past) \cup Numbers(reg.data)
    BY <1>5, NumbersConcat DEF All
  <2> QED
    BY <1>1, <2>1, <2>3, <2>4
<1>7. reg.data = <<>> => r.data = new
  BY <1>2, <1>4, ConcatEmptySeq
<1> QED
  BY <1>3, <1>4, <1>6, <1>7 DEF Scanned

\* A session that puts its DATA aside and scans a directory, when it has that
\* whole directory or none of it
LEMMA ScanTidy ==
  ASSUME NEW Item, NEW reg \in Registry(Item), NEW files, NEW b \in Branch, Fits(Item, files, b),
         Disjoint(files), reg.data = <<>>,
         b = Trunk \/ Present(files[Trunk]) \subseteq Numbers(All(reg)),
         \A d \in Branch : \/ Present(files[d]) \subseteq Numbers(All(reg))
                           \/ Present(files[d]) \cap Numbers(All(reg)) = {}
  PROVE  LET r == Scan(reg, files, b)
         IN  r \in Registry(Item) /\ Tidy(r, files, b) /\ Loaded(r.data, files, b)
<1> PICK all, fresh : all = Numbers(All(reg)) /\ fresh = Present(files[b]) \ all
  OBVIOUS
<1> PICK r : r = Scan(reg, files, b)
  OBVIOUS
<1>1. /\ r \in Registry(Item) /\ Numbers(All(r)) = all \cup fresh
      /\ r.data = Loads(files, b, fresh)
  <2>1. Scanned(Item, r, reg, files, b, fresh)
    BY ScanFacts
  <2> QED
    BY <2>1 DEF Scanned
<1>2. fresh \in SUBSET Seqno
  BY DEF Present
<1>3. Numbers(r.data) = fresh /\ Loaded(r.data, files, b)
  BY <1>1, <1>2, LoadsFacts
<1>4. fresh = {} \/ fresh = Present(files[b])
  OBVIOUS
<1>5. Owns(r.data, files[b])
  BY <1>3, <1>4 DEF Owns
<1>6. Whole(all \cup fresh, files, b)
  BY <1>4, OrderAssumption DEF Whole, Disjoint
<1> QED
  BY <1>1, <1>3, <1>5, <1>6 DEF Tidy

LEMMA FlatLine ==
  ASSUME Flat, NEW b \in Branch
  PROVE  /\ Range(Line[b]) = {Trunk, b}
         /\ Front(Line[b]) = IF b = Trunk THEN <<>> ELSE <<Trunk>>
<1>1. CASE b = Trunk
  <2>1. Line[b] = <<Trunk>> /\ Len(Line[b]) = 1
    <3>1. Line[b] = <<Trunk>>
      BY <1>1 DEF Flat
    <3> PICK t : t = Trunk
      OBVIOUS
    <3> QED
      BY <3>1
  <2>2. Range(Line[b]) = {Trunk, b}
    BY <1>1, <2>1 DEF Range
  <2>3. Front(Line[b]) = <<>>
    BY <2>1 DEF Front
  <2> QED
    BY <1>1, <2>2, <2>3
<1>2. CASE b # Trunk
  <2>1. Line[b] = <<Trunk, b>> /\ Len(Line[b]) = 2
    <3>1. Line[b] = <<Trunk, b>>
      BY <1>2 DEF Flat
    <3> PICK t : t = Trunk
      OBVIOUS
    <3> QED
      BY <3>1
  <2>2. Range(Line[b]) = {Trunk, b}
    <3>1. \A i : i \in 1..2 <=> i = 1 \/ i = 2
      OBVIOUS
    <3> QED
      BY <2>1, <3>1 DEF Range
  <2>3. Front(Line[b]) = <<Trunk>>
    <3> PICK t : t = Trunk
      OBVIOUS
    <3>1. Front(Line[b]) = SubSeq(<<t, b>>, 1, 1)
      BY <2>1 DEF Front
    <3>2. SubSeq(<<t, b>>, 1, 1) = <<t>>
      <4> PICK u, v : u = SubSeq(<<t, b>>, 1, 1) /\ v = <<t>>
        OBVIOUS
      <4>1. \A i \in 1..1 : i = 1 /\ <<t, b>>[i] = t /\ <<t, b>>[i] \in {t, b}
        OBVIOUS
      <4>2. u \in Seq({t, b}) /\ Len(u) = 1 /\ u[1] = t
        BY <4>1, SubSeqProperties
      <4>3. v \in Seq({t, b}) /\ Len(v) = 1 /\ v[1] = t
        OBVIOUS
      <4>4. \A i \in 1..Len(u) : u[i] = v[i]
        BY <4>2, <4>3
      <4> QED
        BY ONLY <4>2, <4>3, <4>4, SeqEqual, u = SubSeq(<<t, b>>, 1, 1), v = <<t>>
    <3> QED
      BY <3>1, <3>2
  <2> QED
    BY <1>2, <2>2, <2>3
<1> QED
  BY <1>1, <1>2

\* KEEPOpenBranch: the trunk as PAST, the leaf as DATA.
LEMMA FreshFacts ==
  ASSUME Flat, NEW Item, NEW files, NEW b \in Branch, \A d \in Branch : Fits(Item, files, d),
         Disjoint(files)
  PROVE  /\ Fresh(files, b) \in Registry(Item) /\ Tidy(Fresh(files, b), files, b)
         /\ Loaded(Fresh(files, b).data, files, b)
         /\ Fresh(files, b) =
              [past |-> IF b = Trunk THEN <<>> ELSE Loads(files, Trunk, Present(files[Trunk])),
               data |-> Loads(files, b, Present(files[b]))]
<1> PICK t \in Branch : t = Trunk
  BY OrderAssumption
<1>1. Closed \in Registry(Item) /\ Closed.past = <<>> /\ Closed.data = <<>>
  BY ClosedType DEF Closed
<1>2. Aside(Closed) = Closed /\ Numbers(All(Closed)) = {}
  <2>1. <<>> \o <<>> = <<>>
    OBVIOUS
  <2> QED
    BY <2>1, NoNumbers DEF Aside, All, Closed
<1>3. Front(Line[b]) = IF b = t THEN <<>> ELSE <<t>>
  BY FlatLine
<1>4. ASSUME NEW d \in Branch
      PROVE  Present(files[d]) \in SUBSET Seqno /\ Numbers(Loads(files, d, Present(files[d]))) = Present(files[d])
  <2>1. Present(files[d]) \in SUBSET Seqno
    BY DEF Present
  <2> QED
    BY <2>1, LoadsFacts
<1>5. CASE b = t
  <2>1. Fresh(files, b) = Scan(Closed, files, b)
    BY <1>2, <1>3, <1>5, ScanAllShort DEF Fresh
  <2>2. /\ Scan(Closed, files, b) \in Registry(Item) /\ Tidy(Scan(Closed, files, b), files, b)
        /\ Loaded(Scan(Closed, files, b).data, files, b)
    BY <1>1, <1>2, <1>5, ScanTidy
  <2>3. Scanned(Item, Scan(Closed, files, b), Closed, files, b, Present(files[b]) \ {})
    BY <1>1, <1>2, ScanFacts
  <2>4. Scan(Closed, files, b) = [past |-> <<>>, data |-> Loads(files, b, Present(files[b]))]
    BY <1>1, <2>3 DEF Scanned, Registry
  <2> QED
    BY <1>5, <2>1, <2>2, <2>4
<1>6. CASE b # t
  <2> PICK r : r = Scan(Closed, files, t)
    OBVIOUS
  <2>1. Fresh(files, b) = Scan(Aside(r), files, b)
    BY <1>3, <1>6, ScanAllShort DEF Fresh
  <2>2. Scanned(Item, r, Closed, files, t, Present(files[t]))
    <3>1. Present(files[t]) \ Numbers(All(Closed)) = Present(files[t])
      BY <1>2
    <3> QED
      BY <1>1, <3>1, ScanFacts
  <2>3. /\ r \in Registry(Item) /\ Numbers(All(r)) = Present(files[t])
        /\ r = [past |-> <<>>, data |-> Loads(files, t, Present(files[t]))]
    <3>1. /\ r \in Registry(Item) /\ Numbers(All(r)) = Present(files[t])
          /\ r.past = <<>> /\ r.data = Loads(files, t, Present(files[t]))
      BY <1>1, <1>2, <2>2 DEF Scanned
    <3> QED
      BY <3>1 DEF Registry
  <2>4. /\ Aside(r) \in Registry(Item) /\ Aside(r).data = <<>>
        /\ Numbers(All(Aside(r))) = Present(files[t])
    BY <2>3, AsideFacts
  <2>5. Aside(r).past = Loads(files, t, Present(files[t]))
    <3>1. r.data \in Seq(Item) /\ r.past = <<>> /\ r.data = Loads(files, t, Present(files[t]))
      BY <2>3 DEF Registry
    <3>2. Aside(r).past = <<>> \o r.data
      BY <3>1 DEF Aside, All
    <3> QED
      BY <3>1, <3>2, ConcatEmptySeq
  <2> PICK q \in Registry(Item) : q = Aside(r)
    BY <2>4
  <2>6. /\ Scan(q, files, b) \in Registry(Item) /\ Tidy(Scan(q, files, b), files, b)
        /\ Loaded(Scan(q, files, b).data, files, b)
    <3>1. \A d \in Branch : \/ Present(files[d]) \subseteq Numbers(All(q))
                            \/ Present(files[d]) \cap Numbers(All(q)) = {}
      BY <2>4 DEF Disjoint
    <3> QED
      BY <2>4, <3>1, ScanTidy
  <2>7. Scanned(Item, Scan(q, files, b), q, files, b, Present(files[b]))
    <3>1. Present(files[b]) \ Numbers(All(q)) = Present(files[b])
      BY <1>6, <2>4 DEF Disjoint
    <3> QED
      BY <3>1, ScanFacts
  <2>8. Scan(q, files, b) = [past |-> Loads(files, t, Present(files[t])),
                             data |-> Loads(files, b, Present(files[b]))]
    BY <2>4, <2>5, <2>7 DEF Scanned, Registry
  <2> QED
    BY <1>6, <2>1, <2>6, <2>8
<1> QED
  BY <1>5, <1>6

\* DATA put aside, and nothing loaded
LEMMA AsideTidy ==
  ASSUME NEW Item, NEW reg \in Registry(Item), NEW files, NEW a, NEW b, Tidy(reg, files, a),
         b \in {Trunk, a}
  PROVE  Aside(reg) \in Registry(Item) /\ Tidy(Aside(reg), files, b) /\ Loaded(Aside(reg).data, files, b)
<1>1. /\ Aside(reg) \in Registry(Item) /\ Aside(reg).data = <<>>
      /\ Numbers(All(Aside(reg))) = Numbers(All(reg))
  BY AsideFacts
<1>2. Owns(<<>>, files[b])
  BY NoNumbers DEF Owns
<1>3. Loaded(<<>>, files, b)
  BY DEF Loaded
<1>4. Whole(Numbers(All(reg)), files, b)
  BY DEF Tidy, Whole
<1> QED
  BY <1>1, <1>2, <1>3, <1>4 DEF Tidy

LEMMA FlatBelow ==
  ASSUME Flat, IInv, NEW p \in Proc, NEW b \in Branch
  PROVE  Below(p, b) = IF b \in {Trunk, leaf[p]} THEN <<>> ELSE <<b>>
<1> PICK l \in Branch : l = leaf[p]
  BY DEF IInv, TypeOK
<1> PICK t \in Branch : t = Trunk
  BY OrderAssumption
<1> PICK S : S = {i \in DOMAIN Line[b] : Line[b][i] \notin {t, l}}
  OBVIOUS
<1>1. Below(p, b) = At(Line[b], S)
  <2>1. Range(Line[leaf[p]]) = {t, l}
    BY FlatLine
  <2> QED
    BY <2>1 DEF Below
<1>2. CASE b \in {t, l}
  <2>1. S = {}
    <3>1. \A i \in DOMAIN Line[b] : Line[b][i] \in Range(Line[b])
      BY DEF Range
    <3> QED
      BY <1>2, <3>1, FlatLine
  <2>2. Cardinality(S) = 0
    BY <2>1, FS_EmptySet
  <2>3. At(Line[b], S) = <<>>
    <3>1. At(Line[b], S) = [n \in 1..0 |-> Line[b][Place(S, n)]]
      BY <2>2 DEF At
    <3>2. \A n \in 1..0 : FALSE
      OBVIOUS
    <3> QED
      BY <3>1, <3>2
  <2> QED
    BY <1>1, <1>2, <2>3
<1>3. CASE b \notin {t, l}
  <2>1. Line[b] = <<t, b>>
    BY <1>3 DEF Flat
  <2>2. S = {2}
    <3>1. DOMAIN Line[b] = {1, 2} /\ Line[b][1] = t /\ Line[b][2] = b
      BY <2>1
    <3> QED
      BY <1>3, <3>1
  <2>3. Cardinality(S) = 1
    BY <2>2, FS_Singleton
  <2>4. Place(S, 1) = 2
    <3>1. S \in SUBSET (1..2)
      BY <2>2
    <3>2. 1 \in 1..1
      OBVIOUS
    <3>3. Place(S, 1) \in S
      BY <2>3, <3>1, <3>2, PlaceFacts
    <3> QED
      BY <2>2, <3>3
  <2>5. At(Line[b], S) = <<b>>
    <3>1. Line[b][2] = b
      BY <2>1
    <3>2. At(Line[b], S) = [n \in 1..1 |-> Line[b][Place(S, n)]]
      BY <2>3 DEF At
    <3>3. \A n \in 1..1 : n = 1
      OBVIOUS
    <3>4. At(Line[b], S) = [n \in 1..1 |-> b]
      BY <2>4, <3>1, <3>2, <3>3
    <3> QED
      BY <3>4
  <2> QED
    BY <1>1, <1>3, <2>5
<1> QED
  BY <1>2, <1>3

----------------------------------------------------------------------------
\* What a session has loaded

\* The branch a session is on, or is about to be on.
Work(p) == IF pc[p] = "swap" THEN to[p] ELSE leaf[p]

\* Of every directory a session has all or nothing, of the trunk and its own all;
\* its DATA are its own directory's newest files, and its runs those on disk.
InSession(p) ==
  pc[p] # "idle" =>
    /\ Tidy(packs[p], pack, Work(p))
    /\ Tidy(pups[p], idx, Work(p)) /\ Loaded(pups[p].data, idx, Work(p))

LEMMA SwitchedTidy ==
  ASSUME Flat, IInv, NEW p \in Proc, NEW b \in Branch, b # leaf[p],
         NEW Item, NEW reg \in Registry(Item), NEW files, \A d \in Branch : Fits(Item, files, d),
         Disjoint(files), Tidy(reg, files, leaf[p])
  PROVE  LET r == ScanAll(Aside(reg), files, Below(p, b))
         IN  Tidy(r, files, b) /\ Loaded(r.data, files, b)
<1>1. CASE b = Trunk
  <2>1. ScanAll(Aside(reg), files, Below(p, b)) = Aside(reg)
    BY <1>1, FlatBelow, ScanAllShort
  <2>2. Tidy(Aside(reg), files, b) /\ Loaded(Aside(reg).data, files, b)
    BY <1>1, AsideTidy
  <2> QED
    BY <2>1, <2>2
<1>2. CASE b # Trunk
  <2>1. ScanAll(Aside(reg), files, Below(p, b)) = Scan(Aside(reg), files, b)
    BY <1>2, FlatBelow, ScanAllShort
  <2> PICK q \in Registry(Item) : q = Aside(reg)
    BY AsideFacts
  <2>2. q.data = <<>> /\ Whole(Numbers(All(q)), files, leaf[p])
    BY AsideFacts DEF Tidy
  <2>3. Tidy(Scan(q, files, b), files, b) /\ Loaded(Scan(q, files, b).data, files, b)
    BY <2>2, ScanTidy DEF Whole
  <2> QED
    BY <2>1, <2>3
<1> QED
  BY <1>1, <1>2

LEMMA UniqueMeansDisjoint == IInv => Disjoint(pack) /\ Disjoint(idx)
BY DEF IInv, NumbersUnique, Disjoint

\* Opening, switching and taking locks
LEMMA GoingLoads ==
  ASSUME Flat, IInv, OneSession, NEW p \in Proc, InSession(p), NEW b \in Branch,
         \/ Open(p, b) \/ Switch(p, b) \/ SwitchFails(p, b) \/ OpenLock(p) \/ SwitchLock(p)
         \/ Create(p, b)
  PROVE  InSession(p)' /\ UNCHANGED <<pack, idx, written>>
<1> PICK P, R : P = pack /\ R = idx
  OBVIOUS
<1>1. pack' = P /\ idx' = R /\ written' = written
  BY DEF Open, Switch, SwitchFails, OpenLock, SwitchLock, Create, disk, mine
<1>2. Disjoint(P) /\ Disjoint(R) /\ \A d \in Branch : Fits(PackItem, P, d) /\ Fits(RunItem, R, d)
  BY UniqueMeansDisjoint, FilesFit DEF IInv
<1>3. packs[p] \in Registry(PackItem) /\ pups[p] \in Registry(RunItem)
  BY DEF IInv
<1>4. CASE Open(p, b)
  <2>1. packs'[p] = Fresh(P, b) /\ pups'[p] = Fresh(R, b) /\ Work(p)' = b
    BY <1>4 DEF Open, IInv, TypeOK, Work
  <2>2. Tidy(Fresh(P, b), P, b) /\ Tidy(Fresh(R, b), R, b) /\ Loaded(Fresh(R, b).data, R, b)
    BY <1>2, FreshFacts
  <2> QED
    BY <1>1, <2>1, <2>2 DEF InSession
<1>5. CASE Switch(p, b)
  <2>1. /\ packs'[p] = ScanAll(Aside(packs[p]), P, Below(p, b))
        /\ pups'[p] = ScanAll(Aside(pups[p]), R, Below(p, b)) /\ Work(p)' = b
    BY <1>5 DEF Switch, IInv, TypeOK, Work
  <2>2. Tidy(packs[p], P, leaf[p]) /\ Tidy(pups[p], R, leaf[p]) /\ b # leaf[p]
    BY <1>5 DEF Switch, InSession, Work
  <2>3. Tidy(packs'[p], P, b) /\ Tidy(pups'[p], R, b) /\ Loaded(pups'[p].data, R, b)
    BY <1>2, <1>3, <2>1, <2>2, SwitchedTidy
  <2> QED
    BY <1>1, <2>1, <2>3 DEF InSession
<1>6. CASE SwitchFails(p, b)
  <2> DEFINE ds == At(Below(p, b), {i \in DOMAIN Below(p, b) : Below(p, b)[i] \in dirs})
  <2>1. ds = <<>>
    <3>1. Below(p, b) \in {<<>>, <<b>>} /\ b \notin dirs
      BY <1>6, FlatBelow DEF SwitchFails
    <3>2. \A i \in DOMAIN Below(p, b) : Below(p, b)[i] = b
      BY <3>1
    <3>3. {i \in DOMAIN Below(p, b) : Below(p, b)[i] \in dirs} = {}
      BY <3>1, <3>2
    <3>4. ds = [n \in 1..0 |-> Below(p, b)[Place({}, n)]]
      BY <3>3, FS_EmptySet DEF At
    <3>5. \A n \in 1..0 : FALSE
      OBVIOUS
    <3> QED
      BY <3>4, <3>5
  <2>2. packs'[p] = ScanAll(Aside(packs[p]), P, ds) /\ pups'[p] = ScanAll(Aside(pups[p]), R, ds)
    BY <1>6 DEF SwitchFails, IInv
  <2>3. packs'[p] = Aside(packs[p]) /\ pups'[p] = Aside(pups[p])
    BY <2>1, <2>2, ScanAllShort
  <2>4. Work(p)' = leaf[p] /\ Work(p) = leaf[p] /\ pc[p] # "idle"
    BY <1>6 DEF SwitchFails, Work
  <2>5. Tidy(packs[p], P, leaf[p]) /\ Tidy(pups[p], R, leaf[p])
    BY <2>4 DEF InSession
  <2>6. Tidy(packs'[p], P, leaf[p]) /\ Tidy(pups'[p], R, leaf[p]) /\ Loaded(pups'[p].data, R, leaf[p])
    BY <1>3, <2>3, <2>5, AsideTidy
  <2> QED
    BY <1>1, <2>4, <2>6 DEF InSession
<1>7. CASE OpenLock(p) \/ SwitchLock(p) \/ Create(p, b)
  <2>1. packs' = packs /\ pups' = pups /\ pc[p] # "idle"
    BY <1>7 DEF OpenLock, SwitchLock, Create, mine
  <2>2. Work(p)' = Work(p)
    BY <1>7 DEF OpenLock, SwitchLock, Create, mine, Work, IInv, TypeOK
  <2> QED
    BY <1>1, <2>1, <2>2 DEF InSession
<1> QED
  BY <1>1, <1>4, <1>5, <1>6, <1>7

----------------------------------------------------------------------------
\* Steps that write or remove files

EntriesOf(f) == UNION {f[s] : s \in Present(f)}
Entries(d)   == EntriesOf(idx[d])

Before(e, g) == e.file < g.file \/ (e.file = g.file /\ e.pos < g.pos)

\* A younger run's entries are for later places.
Climbs(f) == \A s, t \in Present(f) : s < t => \A e \in f[s], g \in f[t] : Before(e, g)

\* The delta base of what is at e is in the trunk, or earlier in the directory.
Based(d, e, o) ==
  \/ d # Trunk /\ \E g \in Entries(Trunk) : g.obj = o
  \/ \E g \in Entries(d) : g.obj = o /\ Before(g, e)

\* An entry's bytes are in its directory's pack, and so is what they are based on.
Placed(d, e) ==
  /\ pack[d][e.file] # None /\ e.pos <= Len(pack[d][e.file])
  /\ pack[d][e.file][e.pos].obj = e.obj
  /\ LET base == pack[d][e.file][e.pos].base IN base # None => Based(d, e, base)

Orderly ==
  /\ \A d \in Branch : Climbs(idx[d])
  /\ \A d \in Branch : \A e \in Entries(d) : Placed(d, e)
  /\ \A w \in written : \E e \in Entries(w[1]) : e.obj = w[2]

LEMMA LessFacts ==
  ASSUME NEW Item, NEW is \in Seq(Item), NEW X
  PROVE  /\ Less(is, X) \in Seq(Item) /\ Numbers(Less(is, X)) = Numbers(is) \ X
         /\ \A files, b : Loaded(is, files, b) => Loaded(Less(is, X), files, b)
<1> DEFINE S == {i \in DOMAIN is : is[i].num \notin X}
           m == Cardinality(S)
           ls == Less(is, X)
<1>1. Len(is) \in Nat /\ DOMAIN is = 1..Len(is)
  BY LenProperties
<1>2. S \in SUBSET (1..Len(is))
  BY <1>1
<1>3. ls = [k \in 1..m |-> is[Place(S, k)]]
  BY DEF Less, At
<1>4. ls \in Seq(Item)
  BY LessType
<1> HIDE DEF S
<1>5. /\ m \in Nat
      /\ \A k \in 1..m : Place(S, k) \in S
      /\ \A s \in S : Rank(S, s) + 1 \in 1..m /\ Place(S, Rank(S, s) + 1) = s
      /\ \A i, j \in 1..m : i < j => Place(S, i) < Place(S, j)
  <2>1. /\ Cardinality(S) \in 0..Len(is)
        /\ \A k \in 1..Cardinality(S) : Place(S, k) \in S
        /\ \A s \in S : Rank(S, s) + 1 \in 1..Cardinality(S) /\ Place(S, Rank(S, s) + 1) = s
    BY <1>1, <1>2, PlaceFacts
  <2>2. \A i, j \in 1..Cardinality(S) : i < j => Place(S, i) < Place(S, j)
    BY <1>1, <1>2, PlaceOrder
  <2> QED
    BY <1>1, <2>1, <2>2
<1> HIDE DEF m
<1>6. DOMAIN ls = 1..m /\ \A k \in 1..m : ls[k] = is[Place(S, k)]
  BY <1>3
<1> HIDE DEF ls
<1>7. Numbers(ls) = Numbers(is) \ X
  <2>1. ASSUME NEW x \in Numbers(ls)
        PROVE  x \in Numbers(is) \ X
    <3>1. PICK k \in 1..m : x = ls[k].num
      BY <1>6, <2>1 DEF Numbers
    <3>2. Place(S, k) \in DOMAIN is /\ is[Place(S, k)].num \notin X
      BY <1>5 DEF S
    <3> QED
      BY <1>6, <3>1, <3>2 DEF Numbers
  <2>2. ASSUME NEW x \in Numbers(is) \ X
        PROVE  x \in Numbers(ls)
    <3>1. PICK i \in DOMAIN is : x = is[i].num
      BY <2>2 DEF Numbers
    <3>2. i \in S
      BY <2>2, <3>1 DEF S
    <3>3. Rank(S, i) + 1 \in 1..m /\ ls[Rank(S, i) + 1] = is[i]
      BY <1>5, <1>6, <3>2
    <3> QED
      BY <1>6, <3>1, <3>3 DEF Numbers
  <2> QED
    BY <2>1, <2>2
<1>8. ASSUME NEW files, NEW b, Loaded(is, files, b)
      PROVE  Loaded(ls, files, b)
  <2>1. \A k \in 1..m : Place(S, k) \in DOMAIN is
    BY <1>5 DEF S
  <2> QED
    BY <1>5, <1>6, <1>8, <2>1 DEF Loaded
<1> QED
  BY <1>4, <1>7, <1>8 DEF ls


\* KEEPBranchDrop: what goes is of another directory than the session's DATA.
LEMMA DropTidy ==
  ASSUME NEW Item, NEW reg \in Registry(Item), NEW files, NEW g, NEW b \in Branch,
         NEW a \in Branch, b \notin {Trunk, a}, g[b] = NoFiles,
         \A d \in Branch \ {b} : g[d] = files[d], Disjoint(files), Tidy(reg, files, a),
         NEW r, r.past = reg.past, r.data = Less(reg.data, Present(files[b]))
  PROVE  Tidy(r, g, a) /\ (Loaded(reg.data, files, a) => Loaded(r.data, g, a))
<1>1. reg.past \in Seq(Item) /\ reg.data \in Seq(Item) /\ Trunk \in Branch
  BY OrderAssumption DEF Registry
<1>2. /\ r.data \in Seq(Item) /\ Numbers(r.data) = Numbers(reg.data) \ Present(files[b])
      /\ Loaded(reg.data, files, a) => Loaded(r.data, files, a)
  BY <1>1, LessFacts
<1>3. Numbers(r.data) = Numbers(reg.data)
  BY <1>2 DEF Tidy, Owns, Disjoint
<1>4. Numbers(All(r)) = Numbers(All(reg))
  <2>1. All(r) = reg.past \o r.data /\ All(reg) = reg.past \o reg.data
    BY DEF All
  <2>2. Numbers(reg.past \o r.data) = Numbers(reg.past) \cup Numbers(r.data)
    BY <1>1, <1>2, NumbersConcat
  <2>3. Numbers(reg.past \o reg.data) = Numbers(reg.past) \cup Numbers(reg.data)
    BY <1>1, NumbersConcat
  <2> QED
    BY <1>3, <2>1, <2>2, <2>3
<1>5. Present(g[b]) = {}
  BY DEF Present, NoFiles
<1>6. Owns(r.data, g[a])
  BY <1>3 DEF Tidy, Owns
<1>7. Whole(Numbers(All(r)), g, a)
  BY <1>1, <1>4, <1>5 DEF Tidy, Whole
<1>8. Loaded(r.data, files, a) => Loaded(r.data, g, a)
  BY DEF Loaded
<1> QED
  BY <1>2, <1>6, <1>7, <1>8 DEF Tidy

\* A directory after KEEPCompact: the same entries, in fewer runs.
Compacted(f, b, d, n, c) ==
  /\ \A a \in Branch \ {b} : c.idx[a] = f[a]
  /\ EntriesOf(c.idx[b]) = EntriesOf(f[b]) /\ Climbs(c.idx[b])
  /\ Loaded(c.data, c.idx, b) /\ Owns(c.data, c.idx[b])
  /\ Numbers(c.data) \subseteq Numbers(d) \cup {n}
  /\ Present(c.idx[b]) \ Numbers(c.data) \subseteq Present(f[b]) \ Numbers(d)

LEMMA CompactFacts ==
  ASSUME NEW f \in [Branch -> [Seqno -> (SUBSET Entry) \cup {None}]], NEW b \in Branch,
         NEW n \in 1..MaxSeq + 1, NEW d \in Seq(RunItem), NEW m \in Merges(d, n),
         Loaded(d, f, b), Owns(d, f[b]), Climbs(f[b]), \A s \in Present(f[b]) : s < n
  PROVE  Compacted(f, b, d, n, Merged(f, b, d, n, m))
<1> PICK L \in Nat : L = Len(d)
  BY LenProperties
<1>1. MaxSeq \in Nat \ {0} /\ DOMAIN d = 1..L /\ n \in Int
  BY BoundAssumption, LenProperties
<1>2. CASE m = 0
  <2>1. Merged(f, b, d, n, m) = [idx |-> f, data |-> d, next |-> n]
    BY <1>2 DEF Merged
  <2> QED
    BY <2>1 DEF Compacted
<1>3. CASE m # 0
  <2>1. n \in Seqno /\ m \in 2..L
    BY <1>1, <1>3 DEF Merges, Seqno
  <2>0. L - m \in Nat
    BY <2>1
  <2> PICK l \in Nat : l = L - m
    BY <2>0
  <2> DEFINE old == SubSeq(d, Len(d) - m + 1, Len(d))
             rest == SubSeq(d, 1, Len(d) - m)
             body == UNION {old[i].body : i \in DOMAIN old}
             new == [num |-> n, dir |-> b, body |-> body]
             N == Numbers(old)
             G == [s \in Seqno |-> IF s = n THEN body ELSE IF s \in N THEN None ELSE f[b][s]]
             data == Append(rest, new)
  <2>2. \A i \in 1..L : /\ d[i] \in RunItem /\ d[i].num \in Seqno /\ d[i].dir = b
                       /\ d[i].body = f[b][d[i].num] /\ d[i].num \in Present(f[b])
    BY <1>1, ElementOfSeq DEF Loaded, Owns, Numbers
  <2>3. /\ rest \in Seq(RunItem) /\ Len(rest) = l /\ \A i \in 1..l : rest[i] = d[i]
        /\ old \in Seq(RunItem) /\ DOMAIN old = 1..m /\ \A i \in 1..m : old[i] = d[l + i]
    <3>1. \A i \in 1..l : d[i] \in RunItem
      BY <2>1, <2>2
    <3>2. \A i \in l + 1..L : d[i] \in RunItem
      BY <2>2
    <3>3. rest \in Seq(RunItem) /\ Len(rest) = l /\ \A i \in 1..l : rest[i] = d[i]
      BY <3>1, SubSeqProperties
    <3>4. old \in Seq(RunItem) /\ Len(old) = m /\ \A i \in 1..m : old[i] = d[l + i]
      BY <2>1, <3>2, SubSeqProperties
    <3> HIDE DEF old, rest
    <3> QED
      BY <3>3, <3>4, LenProperties
  <2> HIDE DEF old, rest
  <2>4. \A t \in N : \E k \in l + 1..L : t = d[k].num
    <3> TAKE t \in N
    <3>1. PICK i \in 1..m : t = old[i].num
      BY <2>3 DEF Numbers
    <3>2. l + i \in l + 1..L /\ old[i] = d[l + i]
      BY <2>1, <2>3
    <3> QED
      BY <3>1, <3>2
  <2>5. \A k \in l + 1..L : d[k].num \in N /\ \E i \in 1..m : old[i] = d[k]
    <3> TAKE k \in l + 1..L
    <3>1. k - l \in 1..m /\ old[k - l] = d[k]
      BY <2>1, <2>3
    <3> QED
      BY <2>3, <3>1 DEF Numbers
  <2> HIDE DEF N
  <2>6. \A x : x \in body <=> \E t \in N : x \in f[b][t]
    <3>1. ASSUME NEW x \in body
          PROVE  \E t \in N : x \in f[b][t]
      <4>1. PICK i \in 1..m : x \in old[i].body
        BY <2>3, <3>1
      <4>2. l + i \in l + 1..L /\ l + i \in 1..L /\ old[i] = d[l + i]
        BY <2>1, <2>3
      <4> QED
        BY <2>2, <2>5, <4>1, <4>2
    <3>2. ASSUME NEW x, NEW t \in N, x \in f[b][t]
          PROVE  x \in body
      <4>1. PICK k \in l + 1..L : t = d[k].num
        BY <2>4
      <4>2. PICK i \in 1..m : old[i] = d[k]
        BY <2>5
      <4>3. k \in 1..L
        OBVIOUS
      <4> QED
        BY <2>2, <2>3, <3>2, <4>1, <4>2, <4>3
    <3> QED
      BY <3>1, <3>2
  <2>7. body \in SUBSET Entry /\ body # None
    <3>1. \A t \in N : f[b][t] \in SUBSET Entry
      BY <2>2, <2>4 DEF Present
    <3>2. body \in SUBSET Entry
      <4> HIDE DEF body
      <4> QED
        BY <2>6, <3>1
    <3> QED
      BY <3>2, NoneAssumption
  <2> HIDE DEF body
  <2>8. N \subseteq Numbers(d) /\ N \subseteq Present(f[b]) /\ n \notin N
    <3>1. N \subseteq Numbers(d) /\ N \subseteq Present(f[b])
      BY <1>1, <2>2, <2>4 DEF Numbers
    <3> QED
      BY <1>1, <3>1
  <2>9. \A s \in Present(f[b]) \ N, t \in N : s < t
    <3> SUFFICES ASSUME NEW s \in Present(f[b]) \ N, NEW t \in N PROVE s < t
      OBVIOUS
    <3>1. CASE s \notin Numbers(d)
      BY <2>8, <3>1 DEF Owns
    <3>2. CASE s \in Numbers(d)
      <4>1. PICK i \in 1..L : s = d[i].num
        BY <1>1, <3>2 DEF Numbers
      <4>2. PICK k \in l + 1..L : t = d[k].num
        BY <2>4
      <4>3. i < k
        BY <2>5, <4>1
      <4> QED
        BY <1>1, <4>1, <4>2, <4>3 DEF Loaded
    <3> QED
      BY <3>1, <3>2
  <2>10. Present(G) = (Present(f[b]) \ N) \cup {n}
    BY <2>1, <2>7 DEF Present
  <2>11. \A s \in Present(f[b]) \ N : G[s] = f[b][s] /\ s # n
    BY <1>1 DEF Present
  <2>12. G[n] = body
    BY <2>1
  <2> HIDE DEF G
  <2>13. EntriesOf(G) = EntriesOf(f[b])
    <3>1. \A x \in EntriesOf(G) : x \in EntriesOf(f[b])
      BY <2>6, <2>8, <2>10, <2>11, <2>12 DEF EntriesOf
    <3>2. \A x \in EntriesOf(f[b]) : x \in EntriesOf(G)
      BY <2>6, <2>10, <2>11, <2>12 DEF EntriesOf
    <3> QED
      BY <3>1, <3>2
  <2>14. Climbs(G)
    <3> SUFFICES ASSUME NEW s \in Present(G), NEW t \in Present(G), s < t,
                        NEW e \in G[s], NEW g \in G[t]
                 PROVE  Before(e, g)
      BY DEF Climbs
    <3>1. s # n
      <4> SUFFICES ASSUME s = n PROVE FALSE
        OBVIOUS
      <4>1. t # n
        BY <1>1
      <4>2. t \in Present(f[b]) /\ t < n /\ n < t
        BY <2>10, <4>1
      <4>3. t \in Int
        BY <4>2 DEF Present, Seqno
      <4> QED
        BY <1>1, <4>2, <4>3
    <3>2. s \in Present(f[b]) \ N /\ e \in f[b][s]
      BY <2>10, <2>11, <3>1
    <3>3. CASE t = n
      <4>1. PICK u \in N : g \in f[b][u]
        BY <2>6, <2>12, <3>3
      <4> QED
        BY <2>8, <2>9, <3>2, <4>1 DEF Climbs
    <3>4. CASE t # n
      <4>1. t \in Present(f[b]) \ N /\ g \in f[b][t]
        BY <2>10, <2>11, <3>4
      <4> QED
        BY <3>2, <4>1 DEF Climbs
    <3> QED
      BY <3>3, <3>4
  <2> PICK h : h = [f EXCEPT ![b] = G]
    OBVIOUS
  <2>15. h[b] = G /\ \A a \in Branch \ {b} : h[a] = f[a]
    OBVIOUS
  <2>16. Merged(f, b, d, n, m) = [idx |-> h, data |-> data, next |-> n + 1]
    BY <1>3 DEF Merged, old, rest, body, N, G
  <2>17. /\ DOMAIN data = 1..l + 1 /\ data[l + 1] = new
         /\ \A i \in 1..l : data[i] = d[i]
    <3>1. new \in RunItem
      BY <2>1, <2>7 DEF RunItem
    <3>2. DOMAIN data = 1..Len(rest) + 1
      BY <2>3, <3>1, AppendProperties, LenProperties
    <3> HIDE DEF new
    <3> QED
      BY <2>3, <3>1, <3>2, AppendProperties
  <2> HIDE DEF data
  <2>18. \A i \in 1..l : i \in 1..L /\ i \in 1..l + 1 /\ d[i].num \notin N /\ d[i].num < n
    <3> TAKE i \in 1..l
    <3>1. i \in 1..L /\ i \in 1..l + 1
      BY <2>1
    <3>2. d[i].num \notin N
      <4> SUFFICES ASSUME d[i].num \in N PROVE FALSE
        OBVIOUS
      <4>1. PICK k \in l + 1..L : d[i].num = d[k].num
        BY <2>4
      <4>2. i < k /\ k \in 1..L
        BY <3>1
      <4>3. d[i].num < d[k].num
        BY <1>1, <3>1, <4>2 DEF Loaded
      <4> QED
        BY <2>2, <3>1, <4>1, <4>3 DEF Seqno
    <3> QED
      BY <2>2, <3>1, <3>2
  <2>19. Numbers(data) = (Numbers(d) \ N) \cup {n}
    <3>1. ASSUME NEW x \in Numbers(data)
          PROVE  x \in (Numbers(d) \ N) \cup {n}
      <4>1. PICK i \in 1..l + 1 : x = data[i].num
        BY <2>17, <3>1 DEF Numbers
      <4>2. CASE i = l + 1
        BY <2>17, <4>1, <4>2
      <4>3. CASE i # l + 1
        <5>1. i \in 1..l
          BY <4>3
        <5> QED
          BY <1>1, <2>17, <2>18, <4>1, <5>1 DEF Numbers
      <4> QED
        BY <4>2, <4>3
    <3>2. ASSUME NEW x \in Numbers(d) \ N
          PROVE  x \in Numbers(data)
      <4>1. PICK i \in 1..L : x = d[i].num
        BY <1>1, <3>2 DEF Numbers
      <4>2. i \in 1..l
        <5>1. i \notin l + 1..L
          BY <2>5, <4>1
        <5> QED
          BY <5>1
      <4> QED
        BY <2>17, <2>18, <4>1, <4>2 DEF Numbers
    <3>3. n \in Numbers(data)
      <4>1. l + 1 \in 1..l + 1 /\ new.num = n
        OBVIOUS
      <4> QED
        BY <2>17, <4>1 DEF Numbers
    <3> QED
      BY <3>1, <3>2, <3>3
  <2>20. Loaded(data, h, b)
    <3>1. ASSUME NEW i \in 1..l + 1
          PROVE  data[i].num \in Seqno /\ data[i].dir = b /\ data[i].body = G[data[i].num]
      <4>1. CASE i = l + 1
        BY <2>1, <2>12, <2>17, <4>1
      <4>2. CASE i # l + 1
        <5>1. i \in 1..l
          BY <4>2
        <5>2. i \in 1..L /\ data[i] = d[i] /\ d[i].num \in Present(f[b]) \ N
          BY <2>2, <2>17, <2>18, <5>1
        <5> QED
          BY <2>2, <2>11, <5>2
      <4> QED
        BY <4>1, <4>2
    <3>2. ASSUME NEW i \in 1..l + 1, NEW j \in 1..l + 1, i < j
          PROVE  data[i].num < data[j].num
      <4>1. i \in 1..l /\ i \in 1..L /\ data[i] = d[i] /\ d[i].num < n
        <5>1. i \in 1..l
          BY <3>2
        <5> QED
          BY <2>17, <2>18, <5>1
      <4>2. CASE j = l + 1
        BY <2>17, <4>1, <4>2
      <4>3. CASE j # l + 1
        <5>1. j \in 1..l
          BY <4>3
        <5>2. data[j] = d[j] /\ j \in 1..L
          BY <2>17, <2>18, <5>1
        <5> QED
          BY <1>1, <3>2, <4>1, <5>2 DEF Loaded
      <4> QED
        BY <4>2, <4>3
    <3> QED
      BY <2>15, <2>17, <3>1, <3>2 DEF Loaded
  <2>21. /\ Owns(data, G)
         /\ Present(G) \ Numbers(data) \subseteq Present(f[b]) \ Numbers(d)
    <3>1. Present(G) \ Numbers(data) \subseteq Present(f[b]) \ Numbers(d)
      BY <2>10, <2>19
    <3>2. Numbers(data) \subseteq Present(G)
      BY <2>10, <2>19 DEF Owns
    <3>3. ASSUME NEW s \in Present(G) \ Numbers(data), NEW t \in Numbers(data)
          PROVE  s < t
      <4>1. s \in Present(f[b]) \ Numbers(d)
        BY <3>1, <3>3
      <4> QED
        BY <2>19, <4>1 DEF Owns
    <3> QED
      BY <3>1, <3>2, <3>3 DEF Owns
  <2>22. Numbers(data) \subseteq Numbers(d) \cup {n}
    BY <2>19
  <2> PICK c : c = [idx |-> h, data |-> data, next |-> n + 1]
    OBVIOUS
  <2>23. Compacted(f, b, d, n, c)
    <3>1. c.idx = h /\ c.data = data
      OBVIOUS
    <3> QED
      BY <2>13, <2>14, <2>15, <2>20, <2>21, <2>22, <3>1 DEF Compacted
  <2> QED
    BY <2>16, <2>23
<1> QED
  BY <1>2, <1>3

\* A run of one entry is added, and the directory compacted.
Added(f, b, d, n, e, c) ==
  /\ \A a \in Branch \ {b} : c.idx[a] = f[a]
  /\ EntriesOf(c.idx[b]) = EntriesOf(f[b]) \cup {e} /\ Climbs(c.idx[b])
  /\ Loaded(c.data, c.idx, b) /\ Owns(c.data, c.idx[b])
  /\ Numbers(c.data) \subseteq Numbers(d) \cup {n, n + 1}
  /\ Present(c.idx[b]) \ Numbers(c.data) \subseteq Present(f[b]) \ Numbers(d)

LEMMA AddedFacts ==
  ASSUME NEW f \in [Branch -> [Seqno -> (SUBSET Entry) \cup {None}]], NEW b \in Branch,
         NEW n \in Seqno, NEW d \in Seq(RunItem), NEW e \in Entry, NEW m,
         m \in Merges(Append(d, [num |-> n, dir |-> b, body |-> {e}]), n + 1),
         Loaded(d, f, b), Owns(d, f[b]), Climbs(f[b]), \A s \in Present(f[b]) : s < n,
         \A g \in EntriesOf(f[b]) : Before(g, e)
  PROVE  Added(f, b, d, n, e, Merged([f EXCEPT ![b][n] = {e}], b,
                 Append(d, [num |-> n, dir |-> b, body |-> {e}]), n + 1, m))
<1> PICK item : item = [num |-> n, dir |-> b, body |-> {e}]
  OBVIOUS
<1> PICK data : data = Append(d, item)
  OBVIOUS
<1> PICK mid : mid = [f EXCEPT ![b][n] = {e}]
  OBVIOUS
<1> PICK l \in Nat : l = Len(d)
  BY LenProperties
<1>1. n \in Int /\ n + 1 \in 1..MaxSeq + 1 /\ MaxSeq \in Nat /\ \A s \in Seqno : s \in Int
  BY BoundAssumption DEF Seqno
<1>2. item \in RunItem /\ item.num = n /\ item.dir = b /\ item.body = {e} /\ {e} # None
  BY NoneAssumption DEF RunItem
<1>3. /\ data \in Seq(RunItem) /\ DOMAIN data = 1..l + 1 /\ DOMAIN d = 1..l
      /\ data[l + 1] = item /\ \A i \in 1..l : data[i] = d[i]
  <2>1. data \in Seq(RunItem) /\ Len(data) = l + 1
    BY <1>2, AppendProperties
  <2>2. data[l + 1] = item /\ \A i \in 1..l : data[i] = d[i]
    BY <1>2, AppendProperties
  <2> QED
    BY <2>1, <2>2, LenProperties
<1>4. /\ mid \in [Branch -> [Seqno -> (SUBSET Entry) \cup {None}]]
      /\ mid[b][n] = {e} /\ \A s \in Seqno \ {n} : mid[b][s] = f[b][s]
      /\ \A a \in Branch \ {b} : mid[a] = f[a]
  OBVIOUS
<1>5. n \notin Present(f[b]) /\ Present(mid[b]) = Present(f[b]) \cup {n}
  BY <1>1, <1>2, <1>4 DEF Present
<1>6. \A s \in Present(f[b]) : s \in Seqno \ {n} /\ mid[b][s] = f[b][s]
  BY <1>4, <1>5 DEF Present
<1>7. EntriesOf(mid[b]) = EntriesOf(f[b]) \cup {e}
  <2>1. ASSUME NEW x \in EntriesOf(mid[b])
        PROVE  x \in EntriesOf(f[b]) \cup {e}
    <3>1. PICK s \in Present(mid[b]) : x \in mid[b][s]
      BY <2>1 DEF EntriesOf
    <3>2. CASE s = n
      BY <1>4, <3>1, <3>2
    <3>3. CASE s # n
      <4>1. s \in Present(f[b]) /\ x \in f[b][s]
        BY <1>5, <1>6, <3>1, <3>3
      <4> QED
        BY <4>1 DEF EntriesOf
    <3> QED
      BY <3>2, <3>3
  <2>2. \A x \in EntriesOf(f[b]) \cup {e} : x \in EntriesOf(mid[b])
    BY <1>4, <1>5, <1>6 DEF EntriesOf
  <2> QED
    BY <2>1, <2>2
<1>8. Climbs(mid[b])
  <2> SUFFICES ASSUME NEW s \in Present(mid[b]), NEW t \in Present(mid[b]), s < t,
                      NEW x \in mid[b][s], NEW y \in mid[b][t]
               PROVE  Before(x, y)
    BY DEF Climbs
  <2>1. s \in Int /\ t \in Int
    BY <1>1 DEF Present
  <2>2. s # n
    <3> SUFFICES ASSUME s = n PROVE FALSE
      OBVIOUS
    <3>1. t # n
      BY <1>1
    <3>2. t \in Present(f[b])
      BY <1>5, <3>1
    <3>3. t < n /\ n < t
      BY <3>2
    <3> QED
      BY <1>1, <2>1, <3>3
  <2>3. s \in Present(f[b]) /\ x \in f[b][s]
    BY <1>5, <1>6, <2>2
  <2>4. CASE t = n
    <3>1. y = e /\ x \in EntriesOf(f[b])
      BY <1>4, <2>3, <2>4 DEF EntriesOf
    <3> QED
      BY <3>1
  <2>5. CASE t # n
    BY <1>5, <1>6, <2>3, <2>5 DEF Climbs
  <2> QED
    BY <2>4, <2>5
<1>9. Numbers(data) = Numbers(d) \cup {n}
  <2>1. \A x \in Numbers(data) : x \in Numbers(d) \cup {n}
    <3> TAKE x \in Numbers(data)
    <3>1. PICK i \in 1..l + 1 : x = data[i].num
      BY <1>3 DEF Numbers
    <3>2. CASE i = l + 1
      BY <1>2, <1>3, <3>1, <3>2
    <3>3. CASE i # l + 1
      <4>1. i \in 1..l
        BY <3>3
      <4> QED
        BY <1>3, <3>1, <4>1 DEF Numbers
    <3> QED
      BY <3>2, <3>3
  <2>2. \A i \in 1..l : i \in 1..l + 1
    OBVIOUS
  <2>3. \A x \in Numbers(d) : x \in Numbers(data)
    BY <1>3, <2>2 DEF Numbers
  <2>4. l + 1 \in 1..l + 1
    OBVIOUS
  <2>5. n \in Numbers(data)
    BY <1>2, <1>3, <2>4 DEF Numbers
  <2> QED
    BY <2>1, <2>3, <2>5
<1>10. \A i \in 1..l : /\ d[i].num \in Present(f[b]) /\ d[i].num < n /\ d[i].dir = b
                      /\ d[i].num \in Seqno /\ d[i].body = mid[b][d[i].num]
  <2> TAKE i \in 1..l
  <2>1. d[i].num \in Present(f[b])
    BY <1>3 DEF Owns, Numbers
  <2> QED
    BY <1>3, <1>6, <2>1 DEF Loaded
<1>11. Loaded(data, mid, b)
  <2>1. ASSUME NEW i \in 1..l + 1
        PROVE  data[i].num \in Seqno /\ data[i].dir = b /\ data[i].body = mid[b][data[i].num]
    <3>1. CASE i = l + 1
      BY <1>2, <1>3, <1>4, <3>1
    <3>2. CASE i # l + 1
      <4>1. i \in 1..l
        BY <3>2
      <4> QED
        BY <1>3, <1>10, <4>1
    <3> QED
      BY <3>1, <3>2
  <2>2. ASSUME NEW i \in 1..l + 1, NEW j \in 1..l + 1, i < j
        PROVE  data[i].num < data[j].num
    <3>1. i \in 1..l
      BY <2>2
    <3>2. CASE j = l + 1
      BY <1>2, <1>3, <1>10, <3>1, <3>2
    <3>3. CASE j # l + 1
      <4>1. j \in 1..l
        BY <3>3
      <4> QED
        BY <1>3, <2>2, <3>1, <4>1 DEF Loaded
    <3> QED
      BY <3>2, <3>3
  <2> QED
    BY <1>3, <2>1, <2>2 DEF Loaded
<1>12. Owns(data, mid[b])
  <2>1. Numbers(data) \subseteq Present(mid[b])
    BY <1>5, <1>9 DEF Owns
  <2>2. ASSUME NEW s \in Present(mid[b]) \ Numbers(data), NEW t \in Numbers(data)
        PROVE  s < t
    BY <1>5, <1>9, <2>2 DEF Owns
  <2> QED
    BY <2>1, <2>2 DEF Owns
<1>13. \A s \in Present(mid[b]) : s < n + 1
  <2>1. \A s \in Present(mid[b]) : s \in Int /\ (s < n \/ s = n)
    BY <1>1, <1>5 DEF Present
  <2> QED
    BY <1>1, <2>1
<1> PICK k \in 1..MaxSeq + 1 : k = n + 1
  BY <1>1
<1> PICK c : c = Merged(mid, b, data, k, m)
  OBVIOUS
<1>14. Compacted(mid, b, data, k, c)
  <2>1. m \in Merges(data, k) /\ \A s \in Present(mid[b]) : s < k
    BY <1>13
  <2> QED
    BY <1>3, <1>4, <1>8, <1>11, <1>12, <2>1, CompactFacts
<1>15. Added(f, b, d, n, e, c)
  <2>1. Present(mid[b]) \ Numbers(data) \subseteq Present(f[b]) \ Numbers(d)
    BY <1>5, <1>9
  <2> QED
    BY <1>4, <1>7, <1>9, <1>14, <2>1 DEF Compacted, Added
<1> QED
  BY <1>15

\* What a session writes is its own directory's, and new in the tree.
Wrote(reg, files, b, r, g, new) ==
  /\ r.past = reg.past /\ Owns(r.data, g[b])
  /\ \A a \in Branch \ {b} : g[a] = files[a] /\ Present(files[a]) \cap new = {}
  /\ Numbers(r.data) \subseteq Numbers(reg.data) \cup new
  /\ Present(g[b]) \ Numbers(r.data) \subseteq Present(files[b]) \ Numbers(reg.data)

LEMMA WroteTidy ==
  ASSUME NEW Item, NEW reg \in Registry(Item), NEW files, NEW b \in Branch,
         Tidy(reg, files, b), Disjoint(files),
         NEW r \in Registry(Item), NEW g, NEW new, Wrote(reg, files, b, r, g, new)
  PROVE  Tidy(r, g, b)
<1> USE DEF Wrote
<1> PICK past, old, data : past = Numbers(reg.past) /\ old = Numbers(reg.data) /\ data = Numbers(r.data)
  OBVIOUS
<1>1. Numbers(All(reg)) = past \cup old
  <2>1. reg.past \in Seq(Item) /\ reg.data \in Seq(Item)
    BY DEF Registry
  <2> QED
    BY <2>1, NumbersConcat DEF All
<1>2. Numbers(All(r)) = past \cup data
  <2>1. r.past \in Seq(Item) /\ r.data \in Seq(Item)
    BY DEF Registry
  <2> QED
    BY <2>1, NumbersConcat DEF All
<1>3. ASSUME NEW a \in Branch \ {b}
      PROVE  /\ Present(g[a]) = Present(files[a])
             /\ Present(files[a]) \cap old = {} /\ Present(files[a]) \cap new = {}
  BY <1>3 DEF Tidy, Owns, Disjoint
<1>4. Present(g[b]) \subseteq past \cup data
  BY <1>1 DEF Tidy, Whole
<1>5. Whole(past \cup data, g, b)
  <2>1. Trunk \in Branch
    BY OrderAssumption
  <2>2. ASSUME NEW a \in Branch \ {b}
        PROVE  /\ Present(files[a]) \subseteq past \cup old => Present(g[a]) \subseteq past \cup data
               /\ Present(files[a]) \cap (past \cup old) = {} => Present(g[a]) \cap (past \cup data) = {}
    BY <1>3, <2>2
  <2> QED
    BY <1>1, <1>4, <2>1, <2>2 DEF Tidy, Whole
<1> QED
  BY <1>2, <1>5 DEF Tidy

LEMMA EntriesType == IInv => \A d \in Branch : Entries(d) \in SUBSET Entry
BY DEF IInv, TypeOK, Entries, EntriesOf, Present

\* A step that neither adds nor removes an entry
LEMMA SameEntries ==
  ASSUME Orderly, \A d \in Branch : Climbs(idx'[d]) /\ EntriesOf(idx'[d]) = EntriesOf(idx[d]),
         UNCHANGED <<pack, written>>, IInv
  PROVE  Orderly'
<1>1. \A d \in Branch : Entries(d)' = Entries(d)
  BY DEF Entries
<1>2. \A d \in Branch : \A e : Placed(d, e)' <=> Placed(d, e)
  BY <1>1, OrderAssumption DEF Placed, Based
<1>3. \A w \in written : w[1] \in Branch
  BY DEF IInv, TypeOK
<1> QED
  BY <1>1, <1>2, <1>3 DEF Orderly

LEMMA DropOrderly ==
  ASSUME IInv, Orderly, NEW p \in Proc, NEW b \in Branch, Drop(p, b)
  PROVE  Orderly'
<1>1. /\ b # Trunk /\ idx'[b] = NoFiles /\ Trunk \in Branch
      /\ \A d \in Branch \ {b} : pack'[d] = pack[d] /\ idx'[d] = idx[d]
      /\ written' = {w \in written : w[1] # b}
  BY OrderAssumption DEF Drop, IInv, TypeOK
<1>2. Present(NoFiles) = {}
  BY DEF Present, NoFiles
<1>3. \A d \in Branch \ {b} : Entries(d)' = Entries(d)
  BY <1>1 DEF Entries
<1>4. EntriesOf(NoFiles) = {} /\ Climbs(NoFiles)
  BY <1>2 DEF EntriesOf, Climbs
<1>5. \A d \in Branch \ {b} : \A e : Placed(d, e) => Placed(d, e)'
  BY <1>1, <1>3 DEF Placed, Based
<1>6. \A w \in written' : w \in written /\ w[1] \in Branch \ {b}
  BY <1>1 DEF IInv, TypeOK
<1>7. \A d \in Branch : Climbs(idx'[d])
  BY <1>1, <1>4 DEF Orderly
<1>8. \A d \in Branch : \A e \in Entries(d)' : Placed(d, e)'
  BY <1>1, <1>3, <1>4, <1>5 DEF Orderly, Entries
<1> QED
  BY <1>3, <1>6, <1>7, <1>8 DEF Orderly

\* An object is appended, and its entry is the directory's last.
LEMMA PutOrderly ==
  ASSUME IInv, Orderly, NEW b \in Branch, NEW e \in Entry, NEW base,
         \A d \in Branch, s \in Seqno : pack[d][s] # None =>
           /\ pack'[d][s] # None /\ Len(pack[d][s]) <= Len(pack'[d][s]) /\ Len(pack'[d][s]) \in Nat
           /\ \A i \in 1..Len(pack[d][s]) : pack'[d][s][i] = pack[d][s][i],
         pack'[b][e.file] # None, e.pos <= Len(pack'[b][e.file]),
         pack'[b][e.file][e.pos] = [obj |-> e.obj, base |-> base],
         base # None => \E w \in written : w[2] = base /\ w[1] \in {Trunk, b},
         \A g \in Entries(b) : Before(g, e),
         \A a \in Branch \ {b} : idx'[a] = idx[a],
         EntriesOf(idx'[b]) = EntriesOf(idx[b]) \cup {e}, Climbs(idx'[b]),
         written' = written \cup {<<b, e.obj>>}
  PROVE  Orderly'
<1>1. Entries(b)' = Entries(b) \cup {e} /\ \A a \in Branch \ {b} : Entries(a)' = Entries(a)
  BY DEF Entries
<1>2. \A d \in Branch : Entries(d) \subseteq Entries(d)' /\ Entries(d) \in SUBSET Entry
  BY <1>1, EntriesType
<1>3. Trunk \in Branch
  BY OrderAssumption
<1>4. ASSUME NEW d \in Branch, NEW g \in Entries(d)
      PROVE  Placed(d, g)'
  <2> PICK s \in Seqno, i \in 1..MaxLen : s = g.file /\ i = g.pos
    BY <1>2, <1>4 DEF Entry
  <2>1. pack[d][s] # None /\ i <= Len(pack[d][s]) /\ pack[d][s][i].obj = g.obj
    BY <1>4 DEF Orderly, Placed
  <2>2. pack[d][s][i].base # None => Based(d, g, pack[d][s][i].base)
    BY <1>4 DEF Orderly, Placed
  <2>3. Len(pack[d][s]) \in Nat
    <3>1. pack[d][s] \in Seq(Stored)
      BY <2>1 DEF IInv, TypeOK
    <3> QED
      BY <3>1, LenProperties
  <2>4. i \in 1..Len(pack[d][s])
    BY <2>1, <2>3, BoundAssumption
  <2>5. pack'[d][s] # None /\ i <= Len(pack'[d][s]) /\ pack'[d][s][i] = pack[d][s][i]
    BY <2>1, <2>3, <2>4
  <2>6. \A x : Based(d, g, x) => Based(d, g, x)'
    BY <1>2, <1>3 DEF Based
  <2> QED
    BY <2>1, <2>2, <2>5, <2>6 DEF Placed
<1>5. Placed(b, e)'
  <2> PICK h : h = pack'[b][e.file][e.pos]
    OBVIOUS
  <2>1. h.obj = e.obj /\ h.base = base
    OBVIOUS
  <2>2. base # None => Based(b, e, base)'
    <3> SUFFICES ASSUME base # None PROVE Based(b, e, base)'
      OBVIOUS
    <3>1. PICK w \in written : w[2] = base /\ w[1] \in {Trunk, b}
      OBVIOUS
    <3>2. PICK g \in Entries(w[1]) : g.obj = base
      BY <3>1 DEF Orderly
    <3>3. CASE w[1] = b
      <4>1. g \in Entries(b)' /\ Before(g, e)
        BY <1>2, <3>2, <3>3
      <4> QED
        BY <3>2, <4>1 DEF Based
    <3>4. CASE w[1] = Trunk /\ b # Trunk
      <4>1. g \in Entries(Trunk)'
        BY <1>2, <1>3, <3>2, <3>4
      <4> QED
        BY <3>2, <3>4, <4>1 DEF Based
    <3> QED
      BY <3>1, <3>3, <3>4
  <2> QED
    BY <2>1, <2>2 DEF Placed
<1>6. \A d \in Branch : \A g \in Entries(d)' : Placed(d, g)'
  BY <1>1, <1>4, <1>5
<1>7. \A w \in written' : \E g \in Entries(w[1])' : g.obj = w[2]
  <2> TAKE w \in written'
  <2>1. CASE w \in written
    <3>1. w[1] \in Branch
      BY <2>1 DEF IInv, TypeOK
    <3> QED
      BY <1>2, <2>1, <3>1 DEF Orderly
  <2>2. CASE w = <<b, e.obj>>
    <3>1. w[1] = b /\ w[2] = e.obj
      BY <2>2
    <3> QED
      BY <1>1, <3>1
  <2> QED
    BY <2>1, <2>2
<1>8. \A d \in Branch : Climbs(idx'[d])
  BY DEF Orderly
<1> QED
  BY <1>6, <1>7, <1>8 DEF Orderly

\* A pack file is written, the session's tail or a new one: r is what the session
\* has of packs then, and g what the disk has.
Tailed(p, ps, b, f, body, r, g) ==
  /\ \/ Appends(ps) /\ f = MaxOf(Numbers(ps.data)) /\ pack[b][f] # None
     \/ ~Appends(ps) /\ f = next[p]
  /\ \A a \in Branch \ {b} : g[a] = pack[a]
  /\ g[b] = [pack[b] EXCEPT ![f] = body]
  /\ r.past = ps.past /\ r.data = With(ps.data, [num |-> f, dir |-> b, body |-> body])

LEMMA TailTidy ==
  ASSUME IInv, NEW p \in Proc, pc[p] = "ready", NEW ps \in Registry(PackItem), NEW b \in Branch,
         NEW f \in Seqno, NEW body \in Seq(Stored), Tidy(ps, pack, b),
         NEW r \in Registry(PackItem), NEW g, Tailed(p, ps, b, f, body, r, g)
  PROVE  Tidy(r, g, b) /\ \A s \in Present(pack[b]) : s <= f
<1> USE DEF Tailed
<1> PICK item : item = [num |-> f, dir |-> b, body |-> body]
  OBVIOUS
<1>1. item \in PackItem /\ item.num = f
  BY DEF PackItem
<1>2. /\ next[p] \in 1..MaxSeq + 1 /\ MaxSeq \in Nat \ {0} /\ \A s \in Seqno : s \in Int
      /\ \A a \in Branch : \A s \in Seqno : pack[a][s] # None => s < next[p]
  BY AheadFacts DEF Seqno
<1>3. ps.data \in Seq(PackItem)
  BY DEF Registry
<1>4. Numbers(r.data) = Numbers(ps.data) \cup {f}
  <2> PICK ls \in Seq(PackItem) : ls = Less(ps.data, {f})
    BY <1>3, LessType
  <2>1. Numbers(ls) = Numbers(ps.data) \ {f}
    BY <1>3, LessFacts
  <2>2. r.data = Append(ls, item)
    BY <1>1 DEF With
  <2>0. Append(ls, item) = ls \o <<item>> /\ <<item>> \in Seq(PackItem)
    BY <1>1, AppendIsConcat
  <2> PICK one \in Seq(PackItem) : one = <<item>>
    BY <2>0
  <2>3. Append(ls, item) = ls \o one
    BY <2>0
  <2>4. Numbers(ls \o one) = Numbers(ls) \cup Numbers(one)
    BY ONLY NumbersConcat, ls \in Seq(PackItem), one \in Seq(PackItem)
  <2>5. Numbers(one) = {f}
    BY <1>1 DEF Numbers
  <2> QED
    BY <2>1, <2>2, <2>3, <2>4, <2>5
<1>5. Present(g[b]) = Present(pack[b]) \cup {f}
  <2>1. pack[b] \in [Seqno -> Seq(Stored) \cup {None}]
    BY DEF IInv, TypeOK
  <2>2. body # None
    BY NoneAssumption
  <2> QED
    BY <2>1, <2>2 DEF Present
<1>6. \/ f \in Numbers(ps.data) /\ f \in Present(pack[b]) /\ \A t \in Numbers(ps.data) : t <= f
      \/ Numbers(ps.data) = {} /\ f = next[p]
  <2>1. CASE Appends(ps)
    <3>1. Numbers(ps.data) \in SUBSET Seqno
      BY <1>3, NumbersType
    <3>2. Numbers(ps.data) # {}
      <4>1. Len(ps.data) \in Nat /\ Len(ps.data) # 0 /\ DOMAIN ps.data = 1..Len(ps.data)
        BY <1>3, <2>1, LenProperties, EmptySeq DEF Appends
      <4>2. 1 \in DOMAIN ps.data
        BY <4>1
      <4>3. ps.data[1].num \in Numbers(ps.data)
        BY <4>2 DEF Numbers
      <4> QED
        BY <4>3
    <3>3. f = MaxOf(Numbers(ps.data)) /\ pack[b][f] # None
      BY <2>1
    <3> QED
      BY <3>1, <3>2, <3>3, MaxOfFacts DEF Present
  <2>2. CASE ~Appends(ps)
    BY <2>2, NoNumbers DEF Appends
  <2> QED
    BY <2>1, <2>2
<1>7. \A s \in Present(pack[b]) : s <= f /\ (s \notin Numbers(ps.data) => s < f)
  <2> TAKE s \in Present(pack[b])
  <2>1. s \in Seqno /\ s \in Int /\ f \in Int /\ s < next[p]
    BY <1>2 DEF Present
  <2>2. CASE f = next[p]
    BY <2>1, <2>2
  <2>3. CASE f \in Numbers(ps.data) /\ \A t \in Numbers(ps.data) : t <= f
    <3>1. s \notin Numbers(ps.data) => s < f
      BY <2>3 DEF Tidy, Owns
    <3> QED
      BY <2>1, <2>3, <3>1
  <2> QED
    BY <1>6, <2>2, <2>3
<1>8. Owns(r.data, g[b])
  <2>1. Numbers(r.data) \subseteq Present(g[b])
    BY <1>4, <1>5 DEF Tidy, Owns
  <2>2. ASSUME NEW s \in Present(g[b]) \ Numbers(r.data), NEW t \in Numbers(r.data)
        PROVE  s < t
    BY <1>4, <1>5, <1>7, <2>2 DEF Tidy, Owns
  <2> QED
    BY <2>1, <2>2 DEF Owns
<1>9. \A a \in Branch \ {b} : Present(pack[a]) \cap {f} = {}
  <2> SUFFICES ASSUME NEW a \in Branch \ {b}, f \in Present(pack[a])
               PROVE  FALSE
    OBVIOUS
  <2>1. f < next[p] /\ f \in Int
    BY <1>2 DEF Present
  <2>2. f \in Present(pack[b])
    BY <1>2, <1>6, <2>1
  <2> QED
    BY <2>2 DEF IInv, NumbersUnique
<1>10. Present(g[b]) \ Numbers(r.data) \subseteq Present(pack[b]) \ Numbers(ps.data)
  BY <1>4, <1>5
<1>11. Tidy(r, g, b)
  <2>1. Wrote(ps, pack, b, r, g, {f})
    BY <1>4, <1>8, <1>9, <1>10 DEF Wrote
  <2> QED
    BY <2>1, WroteTidy, UniqueMeansDisjoint
<1> QED
  BY <1>7, <1>11

LEMMA PutOnLoads ==
  ASSUME Flat, IInv, IInv', OneSession, NEW p \in Proc, InSession(p), Orderly, pc[p] = "ready",
         NEW ps \in Registry(PackItem), NEW rs \in Registry(RunItem), ps = packs[p], rs = pups[p],
         NEW o \in Obj, NEW base \in Obj \cup {None},
         base # None => \E w \in written : w[2] = base /\ w[1] \in Range(Line[leaf[p]]),
         PutOn(p, ps, rs, o, base)
  PROVE  InSession(p)' /\ Orderly'
<1> DEFINE k == next[p]
           b == leaf[p]
           f == TailFile(p, ps)
           old  == IF Appends(ps) THEN pack[b][f] ELSE <<>>
           body == Append(old, [obj |-> o, base |-> base])
           n    == IF f >= next[p] THEN f + 1 ELSE next[p]
           e    == [obj |-> o, file |-> f, pos |-> Len(body)]
           data == Append(rs.data, [num |-> n, dir |-> b, body |-> {e}])
           mid  == [idx EXCEPT ![b][n] = {e}]
<1>1. /\ old # None /\ Len(old) < MaxLen /\ n <= MaxSeq
      /\ pack' = [pack EXCEPT ![b][f] = body]
      /\ packs' = [packs EXCEPT ![p] =
           [ps EXCEPT !.data = With(@, [num |-> f, dir |-> b, body |-> body])]]
      /\ written' = written \cup {<<b, o>>}
      /\ UNCHANGED <<pc, leaf, to>>
  BY DEF PutOn
<1>2. PICK m \in Merges(data, n + 1) :
        LET c == Merged(mid, b, data, n + 1, m)
        IN  /\ idx' = c.idx
            /\ pups' = [pups EXCEPT ![p] = [past |-> rs.past, data |-> c.data]]
            /\ next' = [next EXCEPT ![p] = c.next]
  BY DEF PutOn
<1> DEFINE c == Merged(mid, b, data, n + 1, m)
<1>3. /\ idx' = c.idx /\ pups'[p] = [past |-> rs.past, data |-> c.data]
      /\ packs'[p] \in Registry(PackItem) /\ pups'[p] \in Registry(RunItem)
  <2>1. /\ idx' = c.idx
        /\ pups' = [pups EXCEPT ![p] = [past |-> rs.past, data |-> c.data]]
    BY <1>2
  <2> HIDE DEF c
  <2> QED
    BY <2>1 DEF IInv
<1>4. m \in Merges(data, n + 1)
  BY <1>2
<1> HIDE DEF c, mid, data, e
<1>5. /\ k \in 1..MaxSeq + 1 /\ b \in Branch /\ MaxSeq \in Nat \ {0} /\ MaxLen \in Nat
      /\ \A a \in Branch : \A s \in Seqno : pack[a][s] # None => s < k
      /\ \A a \in Branch : \A s \in Seqno : idx[a][s] # None => s < k
      /\ pack \in [Branch -> [Seqno -> Seq(Stored) \cup {None}]]
      /\ idx \in [Branch -> [Seqno -> (SUBSET Entry) \cup {None}]]
  BY AheadFacts, BoundAssumption DEF IInv, TypeOK
<1>6. \/ Appends(ps) /\ f \in Seqno /\ pack[b][f] # None /\ f < k
      \/ ~Appends(ps) /\ f = k
  <2>1. Appends(ps) => pack[leaf[p]][TailFile(p, ps)] # None
    BY <1>1
  <2> QED
    BY <2>1, TailFacts
<1>7. f \in Seqno /\ n \in Seqno /\ f < n /\ k <= n /\ n + 1 \in 1..MaxSeq + 1 /\ f <= k
  <2>1. CASE f < k
    <3>1. f \in Int /\ k \in Int /\ n = k
      BY <1>5, <1>6, <2>1 DEF Seqno
    <3> QED
      BY <1>1, <1>5, <1>6, <2>1, <3>1 DEF Seqno
  <2>2. CASE ~ (f < k)
    <3>1. f = k /\ k \in Int /\ n = f + 1
      BY <1>5, <1>6, <2>2 DEF Seqno
    <3> QED
      BY <1>1, <1>5, <3>1 DEF Seqno
  <2> QED
    BY <2>1, <2>2
<1> HIDE DEF n
<1>8. old \in Seq(Stored) /\ (pack[b][f] # None => old = pack[b][f])
  <2> HIDE DEF b, f, k
  <2>1. CASE Appends(ps)
    BY <1>1, <1>5, <1>6, <1>7, <2>1
  <2>2. CASE ~Appends(ps)
    <3>1. f = k /\ k \in Int
      BY <1>5, <1>6, <2>2
    <3>2. pack[b][f] = None
      BY <1>5, <1>7, <3>1
    <3> QED
      BY <2>2, <3>2
  <2> QED
    BY <2>1, <2>2
<1> HIDE DEF old
<1>9. /\ body \in Seq(Stored) /\ Len(body) = Len(old) + 1 /\ Len(body) \in 1..MaxLen
      /\ body[Len(body)] = [obj |-> o, base |-> base] /\ \A i \in 1..Len(old) : body[i] = old[i]
      /\ Len(old) \in Nat /\ body # None
  <2>1. [obj |-> o, base |-> base] \in Stored
    BY DEF Stored
  <2>2. /\ body \in Seq(Stored) /\ Len(body) = Len(old) + 1
        /\ body[Len(old) + 1] = [obj |-> o, base |-> base]
        /\ \A i \in 1..Len(old) : body[i] = old[i]
    BY <1>8, <2>1, AppendProperties
  <2>3. Len(old) \in Nat
    BY <1>8, LenProperties
  <2>4. body # None
    BY <2>2, NoneAssumption
  <2>5. Len(body) \in 1..MaxLen
    BY <1>1, <1>5, <2>2, <2>3
  <2> QED
    BY <2>2, <2>3, <2>4, <2>5
<1> HIDE DEF body
<1>10. e \in Entry /\ e.obj = o /\ e.file = f /\ e.pos = Len(body)
  BY <1>7, <1>9 DEF Entry, e
<1>11. /\ Work(p) = b /\ Work(p)' = b /\ pc[p] # "idle"
       /\ Tidy(ps, pack, b) /\ Tidy(rs, idx, b) /\ Loaded(rs.data, idx, b)
  BY <1>1 DEF InSession, Work
<1>0. /\ base # None => \E w \in written : w[2] = base /\ w[1] \in {Trunk, b}
      /\ Appends(ps) => f = MaxOf(Numbers(ps.data))
      /\ k = next[p]
  BY <1>5, FlatLine DEF TailFile
<1> HIDE DEF b, f, k
<1>12. pack'[b][f] = body /\ \A d \in Branch : \A s \in Seqno : ~ (d = b /\ s = f) => pack'[d][s] = pack[d][s]
  BY <1>1, <1>5, <1>7
<1>13. Tidy(packs'[p], pack', b) /\ \A s \in Present(pack[b]) : s <= f
  <2>1. \A a \in Branch \ {b} : pack'[a] = pack[a]
    BY <1>1, <1>5
  <2>2. pack'[b] = [pack[b] EXCEPT ![f] = body]
    BY <1>1, <1>5
  <2>3. /\ packs'[p].past = ps.past
        /\ packs'[p].data = With(ps.data, [num |-> f, dir |-> b, body |-> body])
    <3> PICK x : x = With(ps.data, [num |-> f, dir |-> b, body |-> body])
      OBVIOUS
    <3>1. packs'[p] = [ps EXCEPT !.data = x]
      BY <1>1 DEF IInv
    <3> QED
      BY <3>1 DEF Registry
  <2>4. \/ Appends(ps) /\ f = MaxOf(Numbers(ps.data)) /\ pack[b][f] # None
        \/ ~Appends(ps) /\ f = next[p]
    BY <1>0, <1>6
  <2> PICK r \in Registry(PackItem) : r = packs'[p]
    BY <1>3
  <2> PICK g : g = pack'
    OBVIOUS
  <2>5. Tailed(p, ps, b, f, body, r, g)
    BY <2>1, <2>2, <2>3, <2>4 DEF Tailed
  <2>6. Tidy(r, g, b) /\ \A s \in Present(pack[b]) : s <= f
    BY <1>5, <1>7, <1>9, <1>11, <2>5, TailTidy
  <2> QED
    BY <2>6
<1>14. \A g \in EntriesOf(idx[b]) : Before(g, e)
  <2> TAKE g \in EntriesOf(idx[b])
  <2>1. g \in Entry /\ Placed(b, g)
    BY <1>5, EntriesType DEF Orderly, Entries
  <2> PICK s \in Seqno, i \in 1..MaxLen : s = g.file /\ i = g.pos
    BY <2>1 DEF Entry
  <2>2. pack[b][s] # None /\ i <= Len(pack[b][s])
    BY <2>1 DEF Placed
  <2>3. s <= f /\ s \in Int /\ f \in Int
    BY <1>7, <1>13, <2>2 DEF Present, Seqno
  <2>4. s = f => i < Len(body)
    BY <1>5, <1>8, <1>9, <2>2
  <2> QED
    BY <1>10, <2>3, <2>4 DEF Before
<1>15. Added(idx, b, rs.data, n, e, c)
  <2>1. \A s \in Present(idx[b]) : s < n
    BY <1>5, <1>7 DEF Present, Seqno
  <2>2. Owns(rs.data, idx[b]) /\ Climbs(idx[b]) /\ rs.data \in Seq(RunItem)
    BY <1>5, <1>11 DEF Tidy, Orderly, Registry
  <2>3. c = Merged([idx EXCEPT ![b][n] = {e}], b,
              Append(rs.data, [num |-> n, dir |-> b, body |-> {e}]), n + 1, m)
    BY DEF c, data, mid
  <2>4. m \in Merges(Append(rs.data, [num |-> n, dir |-> b, body |-> {e}]), n + 1)
    BY <1>4 DEF data
  <2> PICK R, d : R = idx /\ d = rs.data
    OBVIOUS
  <2>5. /\ R \in [Branch -> [Seqno -> (SUBSET Entry) \cup {None}]] /\ d \in Seq(RunItem)
        /\ m \in Merges(Append(d, [num |-> n, dir |-> b, body |-> {e}]), n + 1)
        /\ Loaded(d, R, b) /\ Owns(d, R[b]) /\ Climbs(R[b]) /\ \A s \in Present(R[b]) : s < n
        /\ \A g \in EntriesOf(R[b]) : Before(g, e)
    BY <1>5, <1>11, <1>14, <2>1, <2>2, <2>4
  <2>6. Added(R, b, d, n, e, Merged([R EXCEPT ![b][n] = {e}], b,
                 Append(d, [num |-> n, dir |-> b, body |-> {e}]), n + 1, m))
    BY <1>5, <1>7, <1>10, <2>5, AddedFacts
  <2>7. c = Merged([R EXCEPT ![b][n] = {e}], b,
              Append(d, [num |-> n, dir |-> b, body |-> {e}]), n + 1, m)
    BY <2>3
  <2> QED
    BY <2>6, <2>7
<1>16. Tidy(pups'[p], idx', b) /\ Loaded(pups'[p].data, idx', b)
  <2>1. pups'[p].past = rs.past /\ pups'[p].data = c.data
    BY <1>3
  <2>2. \A a \in Branch \ {b} : Present(idx[a]) \cap {n, n + 1} = {}
    <3> SUFFICES ASSUME NEW a \in Branch, NEW s \in Present(idx[a]), s \in {n, n + 1}
                 PROVE  FALSE
      OBVIOUS
    <3>1. s < k /\ s \in Int
      BY <1>5 DEF Present, Seqno
    <3> QED
      BY <1>5, <1>7, <3>1 DEF Seqno
  <2>3. Loaded(pups'[p].data, idx', b)
    BY <1>3, <1>15, <2>1 DEF Added
  <2> PICK r \in Registry(RunItem) : r = pups'[p]
    BY <1>3
  <2>4. Wrote(rs, idx, b, r, idx', {n, n + 1})
    BY <1>3, <1>15, <2>1, <2>2 DEF Added, Wrote
  <2>5. Tidy(r, idx', b)
    BY <1>5, <1>11, <2>4, WroteTidy, UniqueMeansDisjoint
  <2> QED
    BY <2>3, <2>5
<1>17. InSession(p)'
  BY <1>11, <1>13, <1>16 DEF InSession
<1>18. Orderly'
  <2>1. \A d \in Branch, s \in Seqno : pack[d][s] # None =>
          /\ pack'[d][s] # None /\ Len(pack[d][s]) <= Len(pack'[d][s]) /\ Len(pack'[d][s]) \in Nat
          /\ \A i \in 1..Len(pack[d][s]) : pack'[d][s][i] = pack[d][s][i]
    <3> SUFFICES ASSUME NEW d \in Branch, NEW s \in Seqno, pack[d][s] # None
                 PROVE  /\ pack'[d][s] # None /\ Len(pack[d][s]) <= Len(pack'[d][s])
                        /\ Len(pack'[d][s]) \in Nat
                        /\ \A i \in 1..Len(pack[d][s]) : pack'[d][s][i] = pack[d][s][i]
      OBVIOUS
    <3>1. CASE d = b /\ s = f
      <4>1. pack'[d][s] = body /\ pack[d][s] = old
        BY <1>8, <1>12, <3>1
      <4>2. Len(old) <= Len(body) /\ Len(body) \in Nat
        BY <1>9
      <4> QED
        BY <1>9, <4>1, <4>2
    <3>2. CASE ~ (d = b /\ s = f)
      <4>1. pack'[d][s] = pack[d][s]
        BY <1>12, <3>2
      <4>2. pack[d][s] \in Seq(Stored)
        BY <1>5
      <4>3. Len(pack[d][s]) \in Nat
        BY <4>2, LenProperties
      <4> QED
        BY <4>1, <4>3
    <3> QED
      BY <3>1, <3>2
  <2>2. /\ pack'[b][e.file] # None /\ e.pos <= Len(pack'[b][e.file])
        /\ pack'[b][e.file][e.pos] = [obj |-> e.obj, base |-> base]
    BY <1>9, <1>10, <1>12
  <2>3. base # None => \E w \in written : w[2] = base /\ w[1] \in {Trunk, b}
    BY <1>0
  <2>4. \A g \in Entries(b) : Before(g, e)
    BY <1>14 DEF Entries
  <2>5. /\ \A a \in Branch \ {b} : idx'[a] = idx[a]
        /\ EntriesOf(idx'[b]) = EntriesOf(idx[b]) \cup {e} /\ Climbs(idx'[b])
    BY <1>3, <1>15 DEF Added
  <2>6. written' = written \cup {<<b, e.obj>>}
    BY <1>1, <1>10
  <2> QED
    BY <1>5, <1>10, <2>1, <2>2, <2>3, <2>4, <2>5, <2>6, PutOrderly
<1> QED
  BY <1>17, <1>18
\* The tail pack of a session's DATA is in its leaf's directory.
LEMMA PutNeverFails ==
  ASSUME IInv, NEW p \in Proc, InSession(p), pc[p] = "ready", NEW rs
  PROVE  ~ PutFails(p, packs[p], rs)
<1> SUFFICES ASSUME PutFails(p, packs[p], rs) PROVE FALSE
  OBVIOUS
<1> PICK is \in Seq(PackItem) : is = packs[p].data
  BY DEF IInv, Registry
<1>1. is # <<>> /\ pack[leaf[p]][MaxOf(Numbers(is))] = None
  BY DEF PutFails, Appends, TailFile
<1>2. Numbers(is) \subseteq Present(pack[leaf[p]])
  BY DEF InSession, Work, Tidy, Owns
<1>3. Numbers(is) \in SUBSET Seqno /\ Numbers(is) # {}
  <2>1. Len(is) \in Nat /\ Len(is) # 0 /\ DOMAIN is = 1..Len(is)
    BY <1>1, LenProperties, EmptySeq
  <2>2. 1 \in DOMAIN is
    BY <2>1
  <2>3. is[1].num \in Numbers(is)
    BY <2>2 DEF Numbers
  <2> QED
    BY <2>3, NumbersType
<1>4. MaxOf(Numbers(is)) \in Numbers(is)
  BY <1>3, MaxOfFacts
<1> QED
  BY <1>1, <1>2, <1>4 DEF Present

LEMMA WritingLoads ==
  ASSUME Flat, IInv, IInv', OneSession, ~Strangers, NEW p \in Proc, InSession(p), Orderly,
         NEW o \in Obj, NEW base \in Obj \cup {None}, Commit(p, o, base) \/ Move(p, o, base)
  PROVE  InSession(p)' /\ Orderly'
<1> PICK ps \in Registry(PackItem), rs \in Registry(RunItem) : ps = packs[p] /\ rs = pups[p]
  BY DEF IInv
<1>1. pc[p] = "ready" /\ (PutOn(p, ps, rs, o, base) \/ PutFails(p, ps, rs))
  BY DEF Commit, Move
<1>2. base # None => \E w \in written : w[2] = base /\ w[1] \in Range(Line[leaf[p]])
  BY DEF Commit, Move, Hint
<1>3. PutOn(p, ps, rs, o, base)
  BY <1>1, PutNeverFails
<1> QED
  BY <1>1, <1>2, <1>3, PutOnLoads

LEMMA DropLoads ==
  ASSUME IInv, NEW p \in Proc, InSession(p), NEW b \in Branch, Drop(p, b)
  PROVE  InSession(p)'
<1> PICK P, R, P1, R1 : P = pack /\ R = idx /\ P1 = pack' /\ R1 = idx'
  OBVIOUS
<1> PICK ps \in Registry(PackItem), rs \in Registry(RunItem) : ps = packs[p] /\ rs = pups[p]
  BY DEF IInv
<1> PICK qs, ts : qs = packs'[p] /\ ts = pups'[p]
  OBVIOUS
<1> PICK a \in Branch : a = leaf[p]
  BY DEF IInv, TypeOK
<1>1. /\ pc[p] = "ready" /\ b \notin {Trunk, a} /\ pc' = pc /\ leaf' = leaf
      /\ P1[b] = NoFiles /\ \A d \in Branch \ {b} : P1[d] = P[d]
      /\ R1[b] = NoFiles /\ \A d \in Branch \ {b} : R1[d] = R[d]
  BY DEF Drop, IInv, TypeOK
<1>2. qs.past = ps.past /\ qs.data = Less(ps.data, Present(P[b]))
  <2>1. packs' = [packs EXCEPT ![p].data = Less(@, Present(pack[b]))]
    BY DEF Drop
  <2> QED
    BY <2>1 DEF IInv, Registry
<1>3. ts.past = rs.past /\ ts.data = Less(rs.data, Present(R[b]))
  <2>1. pups' = [pups EXCEPT ![p].data = Less(@, Present(idx[b]))]
    BY DEF Drop
  <2> QED
    BY <2>1 DEF IInv, Registry
<1>4. Disjoint(P) /\ Disjoint(R)
  BY UniqueMeansDisjoint
<1>5. Work(p) = a /\ Work(p)' = a
  BY <1>1 DEF Work
<1>6. Tidy(ps, P, a) /\ Tidy(rs, R, a) /\ Loaded(rs.data, R, a)
  BY <1>1, <1>5 DEF InSession
<1>7. Tidy(qs, P1, a)
  BY <1>1, <1>2, <1>4, <1>6, DropTidy
<1>8. Tidy(ts, R1, a) /\ Loaded(ts.data, R1, a)
  BY <1>1, <1>3, <1>4, <1>6, DropTidy
<1> QED
  BY <1>5, <1>7, <1>8 DEF InSession

LEMMA CloseLoads ==
  ASSUME IInv, OneSession, NEW p \in Proc, InSession(p), Orderly, Close(p)
  PROVE  InSession(p)' /\ Orderly'
<1>0. leaf[p] \in Branch /\ pups[p].data \in Seq(RunItem)
  BY DEF IInv, TypeOK, Registry
<1> PICK R, n : R = idx /\ n = next[p]
  OBVIOUS
<1> PICK b \in Branch, d \in Seq(RunItem) : b = leaf[p] /\ d = pups[p].data
  BY <1>0
<1>1. /\ pc[p] = "ready" /\ pc'[p] = "idle" /\ UNCHANGED <<pack, written>>
  BY DEF Close, IInv, TypeOK
<1>2. PICK m \in Merges(d, n) : idx' = Merged(R, b, d, n, m).idx
  BY DEF Close
<1>3. R \in [Branch -> [Seqno -> (SUBSET Entry) \cup {None}]] /\ n \in 1..MaxSeq + 1
  BY DEF IInv, TypeOK
<1>4. Loaded(d, R, b) /\ Owns(d, R[b])
  BY <1>1 DEF InSession, Work, Tidy
<1>5. \A a \in Branch : Climbs(R[a])
  BY DEF Orderly
<1>6. \A s \in Present(R[b]) : s < n
  BY <1>1, AheadFacts DEF Present
<1>7. Compacted(R, b, d, n, Merged(R, b, d, n, m))
  BY <1>2, <1>3, <1>4, <1>5, <1>6, CompactFacts
<1>8. /\ \A a \in Branch \ {b} : idx'[a] = R[a]
      /\ EntriesOf(idx'[b]) = EntriesOf(R[b]) /\ Climbs(idx'[b])
  BY <1>2, <1>7 DEF Compacted
<1>9. \A a \in Branch : Climbs(idx'[a]) /\ EntriesOf(idx'[a]) = EntriesOf(idx[a])
  <2> TAKE a \in Branch
  <2> QED
    BY <1>5, <1>8
<1>10. InSession(p)'
  BY <1>1 DEF InSession
<1> QED
  BY <1>1, <1>9, <1>10, SameEntries

LineInv == Orderly /\ \A p \in Proc : InSession(p)

LEMMA InitLoads == Init => LineInv
<1> SUFFICES ASSUME Init PROVE LineInv
  OBVIOUS
<1>1. \A d \in Branch : Present(idx[d]) = {}
  BY DEF Init, NoFiles, Present
<1>2. \A d \in Branch : Climbs(idx[d]) /\ Entries(d) = {}
  BY <1>1 DEF Climbs, Entries, EntriesOf
<1>3. written = {} /\ \A p \in Proc : pc[p] = "idle"
  BY DEF Init
<1> QED
  BY <1>2, <1>3 DEF LineInv, Orderly, InSession

LEMMA NextLoads ==
  ASSUME Flat, ~Strangers, OneSession, IInv, IInv', LineInv, [Next]_vars
  PROVE  LineInv'
<1>1. CASE UNCHANGED vars
  <2>1. UNCHANGED <<pack, idx, packs, pups, pc, leaf, to, written>>
    BY <1>1 DEF vars
  <2>2. \A d \in Branch : Climbs(idx'[d]) /\ EntriesOf(idx'[d]) = EntriesOf(idx[d])
    BY <2>1 DEF LineInv, Orderly
  <2>3. \A p \in Proc : Work(p)' = Work(p)
    BY <2>1 DEF Work
  <2>4. \A p \in Proc : InSession(p)'
    BY <2>1, <2>3 DEF LineInv, InSession
  <2> QED
    BY <2>1, <2>2, <2>4, SameEntries DEF LineInv
<1>2. CASE Next
  <2> PICK p \in Proc : Going(p) \/ Writing(p) \/ Branching(p)
    BY <1>2 DEF Next
  <2>1. InSession(p) /\ Orderly /\ \A q \in Proc : q = p
    BY DEF LineInv, OneSession
  <2>2. ASSUME NEW b \in Branch,
               \/ Open(p, b) \/ Switch(p, b) \/ SwitchFails(p, b) \/ OpenLock(p) \/ SwitchLock(p)
               \/ Create(p, b)
        PROVE  InSession(p)' /\ Orderly'
    <3>1. InSession(p)' /\ UNCHANGED <<pack, idx, written>>
      BY <2>1, <2>2, GoingLoads
    <3>2. \A d \in Branch : Climbs(idx'[d]) /\ EntriesOf(idx'[d]) = EntriesOf(idx[d])
      BY <2>1, <3>1 DEF Orderly
    <3> QED
      BY <2>1, <3>1, <3>2, SameEntries
  <2>3. Trunk \in Branch
    BY OrderAssumption
  <2>4. InSession(p)' /\ Orderly'
    <3>1. CASE Close(p)
      BY <2>1, <3>1, CloseLoads
    <3>2. CASE Writing(p)
      BY <2>1, <3>2, WritingLoads DEF Writing
    <3>3. CASE \E b \in Branch : Drop(p, b)
      BY <2>1, <3>3, DropLoads, DropOrderly
    <3>4. CASE \/ \E b \in Branch : Open(p, b) \/ Switch(p, b) \/ SwitchFails(p, b) \/ Create(p, b)
               \/ OpenLock(p) \/ SwitchLock(p)
      BY <2>2, <2>3, <3>4
    <3> QED
      BY <3>1, <3>2, <3>3, <3>4 DEF Going, Branching
  <2> QED
    BY <2>1, <2>4 DEF LineInv
<1> QED
  BY <1>1, <1>2

----------------------------------------------------------------------------
\* What a session finds that is opened on a branch

\* Both directories, the trunk first, each in the order of its numbers.
Viewed(is, files, d) ==
  /\ \A i \in DOMAIN is : /\ is[i].dir \in {Trunk, d} /\ is[i].num \in Present(files[is[i].dir])
                          /\ is[i].body = files[is[i].dir][is[i].num]
  /\ \A a \in {Trunk, d} : \A s \in Present(files[a]) :
       \E i \in DOMAIN is : is[i].dir = a /\ is[i].num = s
  /\ \A i, j \in DOMAIN is : i < j =>
       \/ is[i].dir = Trunk /\ is[j].dir # Trunk
       \/ is[i].dir = is[j].dir /\ is[i].num < is[j].num

LEMMA ViewFacts ==
  ASSUME Flat, NEW Item, NEW files, NEW d \in Branch, \A b \in Branch : Fits(Item, files, b),
         Disjoint(files)
  PROVE  All(Fresh(files, d)) \in Seq(Item) /\ Viewed(All(Fresh(files, d)), files, d)
<1> PICK t \in Branch : t = Trunk
  BY OrderAssumption
<1>0. PICK one, two : one = Loads(files, t, Present(files[t])) /\ two = Loads(files, d, Present(files[d]))
  OBVIOUS
<1>1. /\ Fresh(files, d) \in Registry(Item)
      /\ Fresh(files, d) = [past |-> IF d = t THEN <<>> ELSE one, data |-> two]
  BY <1>0, FreshFacts
<1>2. All(Fresh(files, d)) \in Seq(Item)
  BY <1>1, AllType
<1>8. PICK k \in Nat, l \in Nat : k = Len(one) /\ l = Len(two)
  <2>1. Present(files[t]) \in SUBSET Seqno /\ Present(files[d]) \in SUBSET Seqno
    BY DEF Present
  <2> QED
    BY <1>0, <2>1, LoadsFacts
<1>7. k = Len(one) /\ l = Len(two)
  BY <1>8
<1>3. /\ DOMAIN one = 1..k /\ Loaded(one, files, t) /\ Numbers(one) = Present(files[t])
      /\ DOMAIN two = 1..l /\ Loaded(two, files, d) /\ Numbers(two) = Present(files[d])
  <2>1. Present(files[t]) \in SUBSET Seqno /\ Present(files[d]) \in SUBSET Seqno
    BY DEF Present
  <2> QED
    BY <1>0, <1>7, <2>1, LoadsFacts
<1>4. /\ \A i \in 1..k : one[i].num \in Present(files[t])
      /\ \A i \in 1..l : two[i].num \in Present(files[d])
  BY <1>3 DEF Numbers
<1>9. /\ \A i \in 1..k : one[i].dir = t /\ one[i].body = files[t][one[i].num] /\ one[i].num \in Seqno
      /\ \A i \in 1..l : two[i].dir = d /\ two[i].body = files[d][two[i].num] /\ two[i].num \in Seqno
      /\ \A i, j \in 1..k : i < j => one[i].num < one[j].num
      /\ \A i, j \in 1..l : i < j => two[i].num < two[j].num
  BY <1>3 DEF Loaded
<1>5. CASE d = t
  <2>1. two \in Seq(Item) /\ All(Fresh(files, d)) = <<>> \o two
    BY <1>1, <1>5 DEF All, Registry
  <2>2. All(Fresh(files, d)) = two
    BY <2>1
  <2>3. Viewed(two, files, d)
    <3>1. DOMAIN two = 1..l /\ \A s \in Present(files[d]) : \E i \in 1..l : two[i].num = s
      BY <1>3 DEF Numbers
    <3> QED
      BY <1>4, <1>5, <1>9, <3>1 DEF Viewed
  <2> QED
    BY <1>2, <2>2, <2>3
<1>6. CASE d # t
  <2>1. one \in Seq(Item) /\ two \in Seq(Item) /\ All(Fresh(files, d)) = one \o two
    BY <1>1, <1>6 DEF All, Registry
  <2>0. PICK is : is = one \o two
    OBVIOUS
  <2>2. /\ DOMAIN is = 1..k + l
        /\ \A i \in 1..k + l : is[i] = IF i <= k THEN one[i] ELSE two[i - k]
    BY <1>3, <1>7, <2>0, <2>1, ConcatProperties, LenProperties
  <2>3. \A i \in 1..k : i \in 1..k + l /\ is[i] = one[i]
    BY <2>2
  <2>4. \A i \in 1..l : k + i \in 1..k + l /\ is[k + i] = two[i]
    <3> TAKE i \in 1..l
    <3>1. k + i \in 1..k + l /\ ~ (k + i <= k) /\ k + i - k = i
      OBVIOUS
    <3> QED
      BY <2>2, <3>1
  <2>5. \A i \in 1..k + l : (i \in 1..k /\ is[i] = one[i]) \/ (~ (i <= k) /\ i - k \in 1..l /\ is[i] = two[i - k])
    BY <2>2
  <2>6. \A i \in 1..k + l : /\ is[i].dir \in {t, d} /\ is[i].num \in Present(files[is[i].dir])
                            /\ is[i].body = files[is[i].dir][is[i].num]
    BY <1>4, <1>9, <2>5
  <2>7. \A s \in Present(files[t]) : \E i \in 1..k + l : is[i].dir = t /\ is[i].num = s
    <3> TAKE s \in Present(files[t])
    <3>1. PICK i \in 1..k : one[i].num = s
      BY <1>3 DEF Numbers
    <3> QED
      BY <1>9, <2>3, <3>1
  <2>8. \A s \in Present(files[d]) : \E i \in 1..k + l : is[i].dir = d /\ is[i].num = s
    <3> TAKE s \in Present(files[d])
    <3>1. PICK i \in 1..l : two[i].num = s
      BY <1>3 DEF Numbers
    <3> QED
      BY <1>9, <2>4, <3>1
  <2>9. ASSUME NEW i \in 1..k + l, NEW j \in 1..k + l, i < j
        PROVE  \/ is[i].dir = t /\ is[j].dir # t
               \/ is[i].dir = is[j].dir /\ is[i].num < is[j].num
    <3>1. CASE j <= k
      <4>1. i \in 1..k /\ j \in 1..k
        BY <2>9, <3>1
      <4>2. is[i] = one[i] /\ is[j] = one[j]
        BY <2>3, <4>1
      <4> QED
        BY <1>9, <2>9, <4>1, <4>2
    <3>2. CASE i <= k /\ ~ (j <= k)
      <4>1. i \in 1..k /\ j - k \in 1..l
        BY <2>9, <3>2
      <4>2. is[i] = one[i] /\ is[j] = two[j - k]
        BY <2>2, <3>2
      <4> QED
        BY <1>9, <1>6, <4>1, <4>2
    <3>3. CASE ~ (i <= k)
      <4>1. i - k \in 1..l /\ j - k \in 1..l /\ i - k < j - k /\ ~ (j <= k)
        BY <2>9, <3>3
      <4>2. is[i] = two[i - k] /\ is[j] = two[j - k]
        BY <2>2, <3>3, <4>1
      <4> QED
        BY <1>9, <4>1, <4>2
    <3> QED
      BY <3>1, <3>2, <3>3
  <2>10. Viewed(is, files, d)
    BY <2>2, <2>6, <2>7, <2>8, <2>9 DEF Viewed
  <2> QED
    BY <1>2, <2>0, <2>1, <2>10
<1> QED
  BY <1>5, <1>6

\* A set of entries has one of the lowest place.
LEMMA LowestEntry ==
  ASSUME NEW es \in SUBSET Entry, es # {}
  PROVE  \E e \in es : \A g \in es : e.file < g.file \/ (e.file = g.file /\ e.pos <= g.pos)
<1>1. \A e \in es : e.file \in Nat /\ e.pos \in Nat
  BY BoundAssumption DEF Entry, Seqno
<1> DEFINE F == {e.file : e \in es}
<1>2. F \in SUBSET Nat /\ F # {}
  BY <1>1
<1>3. PICK s \in F : \A u \in F : ~ (u < s)
  <2> HIDE DEF F
  <2> QED
    BY <1>2, LeastExists
<1> DEFINE P == {e.pos : e \in {x \in es : x.file = s}}
<1>4. P \in SUBSET Nat /\ P # {}
  BY <1>1
<1>5. PICK i \in P : \A u \in P : ~ (u < i)
  <2> HIDE DEF P
  <2> QED
    BY <1>4, LeastExists
<1>6. PICK e \in es : e.file = s /\ e.pos = i
  BY <1>5
<1>7. \A g \in es : e.file < g.file \/ (e.file = g.file /\ e.pos <= g.pos)
  <2> TAKE g \in es
  <2>1. ~ (g.file < s) /\ (g.file = s => ~ (g.pos < i))
    BY <1>3, <1>5
  <2> QED
    BY <1>1, <1>6, <2>1
<1> QED
  BY <1>7

InView(d) == Entries(Trunk) \cup Entries(d)

\* The order a session finds entries in
Older(e, g) ==
  \/ e \in Entries(Trunk) /\ g \notin Entries(Trunk)
  \/ (e \in Entries(Trunk) <=> g \in Entries(Trunk)) /\ Before(e, g)

LEMMA SideFacts ==
  ASSUME IInv, Orderly, NEW a \in Branch, NEW e \in Entries(a)
  PROVE  e \in Entry /\ (e \in Entries(Trunk) <=> a = Trunk)
<1>1. e \in Entry
  BY EntriesType
<1>2. ASSUME e \in Entries(Trunk), a # Trunk PROVE FALSE
  <2>1. Trunk \in Branch
    BY OrderAssumption
  <2>2. pack[a][e.file] # None /\ pack[Trunk][e.file] # None
    BY <1>2, <2>1 DEF Orderly, Placed
  <2>3. e.file \in Seqno
    BY <1>1 DEF Entry
  <2> QED
    BY <1>2, <2>1, <2>2, <2>3 DEF IInv, NumbersUnique, Present
<1> QED
  BY <1>1, <1>2

LEMMA OlderOrder ==
  ASSUME NEW e \in Entry, NEW g \in Entry, NEW h \in Entry
  PROVE  /\ ~ Older(e, e)
         /\ Older(e, g) /\ Older(g, h) => Older(e, h)
         /\ ~ Older(g, e) /\ Older(g, h) => Older(e, h)
<1>1. \A x \in Entry : x.file \in Int /\ x.pos \in Int
  BY BoundAssumption DEF Entry, Seqno
<1> QED
  BY <1>1 DEF Older, Before

LEMMA LookupFacts ==
  ASSUME IInv, Orderly, NEW d \in Branch, NEW runs \in Seq(RunItem), Viewed(runs, idx, d), NEW o,
         \E g \in InView(d) : g.obj = o
  PROVE  /\ Lookup(runs, o) \in InView(d) /\ Lookup(runs, o).obj = o
         /\ \A g \in InView(d) : g.obj = o => ~ Older(g, Lookup(runs, o))
<1> DEFINE rs == {i \in DOMAIN runs : \E e \in runs[i].body : e.obj = o}
           i0 == CHOOSE i \in rs : \A j \in rs : i <= j
           es == {e \in runs[i0].body : e.obj = o}
           Lower(x, e) == x.file < e.file \/ (x.file = e.file /\ x.pos <= e.pos)
           l == CHOOSE e \in es : \A g \in es : Lower(e, g)
<1>1. /\ \A i \in DOMAIN runs : i \in Nat /\ runs[i].dir \in {Trunk, d} /\ runs[i].num \in Seqno
         /\ runs[i].num \in Present(idx[runs[i].dir])
         /\ runs[i].body = idx[runs[i].dir][runs[i].num] /\ runs[i].body \subseteq Entries(runs[i].dir)
      /\ Trunk \in Branch
  BY OrderAssumption, LenProperties DEF Viewed, Present, Entries, EntriesOf
<1>2. \A g \in InView(d) : \E i \in DOMAIN runs : g \in runs[i].body
  <2> TAKE g \in InView(d)
  <2>1. PICK a \in {Trunk, d} : g \in Entries(a)
    BY DEF InView
  <2>2. PICK s \in Present(idx[a]) : g \in idx[a][s]
    BY <2>1 DEF Entries, EntriesOf
  <2>3. PICK i \in DOMAIN runs : runs[i].dir = a /\ runs[i].num = s
    BY <2>2 DEF Viewed
  <2> QED
    BY <1>1, <2>2, <2>3
<1>3. rs \in SUBSET Nat /\ rs # {}
  BY <1>1, <1>2
<1>4. i0 \in rs /\ \A j \in rs : i0 <= j
  <2> HIDE DEF rs
  <2>1. PICK i \in rs : \A j \in rs : ~ (j < i)
    BY <1>3, LeastExists
  <2>2. \A j \in rs : i <= j
    BY <1>3, <2>1
  <2> QED
    BY <2>2
<1> HIDE DEF i0
<1>5. /\ es \in SUBSET Entry /\ es # {} /\ \A e \in es : e \in Entries(runs[i0].dir) /\ e.obj = o
      /\ runs[i0].dir \in Branch
  <2>1. \A a \in {Trunk, d} : Entries(a) \in SUBSET Entry
    BY <1>1, EntriesType
  <2> QED
    BY <1>1, <1>4, <2>1
<1>6. l \in es /\ \A g \in es : Lower(l, g)
  <2> HIDE DEF es
  <2> QED
    BY <1>5, LowestEntry
<1>7. Lookup(runs, o) = l
  <2>1. rs # {}
    BY <1>3
  <2> QED
    BY <2>1 DEF Lookup, i0
<1> HIDE DEF l
<1>8. l \in InView(d) /\ l.obj = o /\ l \in Entry
  BY <1>1, <1>4, <1>5, <1>6 DEF InView
<1>9. ASSUME NEW g \in InView(d), g.obj = o
      PROVE  ~ Older(g, l)
  <2>1. PICK j \in DOMAIN runs : g \in runs[j].body
    BY <1>2
  <2>2. j \in rs /\ i0 <= j /\ i0 \in DOMAIN runs /\ i0 \in Int /\ j \in Int
    BY <1>1, <1>4, <1>9, <2>1
  <2> PICK a \in Branch, c \in Branch : a = runs[i0].dir /\ c = runs[j].dir
    BY <1>1, <2>2
  <2>3. l \in Entries(a) /\ g \in Entries(c) /\ l \in runs[i0].body
    BY <1>1, <1>5, <1>6, <2>1, <2>2
  <2>4. /\ (l \in Entries(Trunk) <=> a = Trunk) /\ (g \in Entries(Trunk) <=> c = Trunk)
        /\ l.file \in Int /\ l.pos \in Int /\ g.file \in Int /\ g.pos \in Int
    <3>1. /\ (l \in Entries(Trunk) <=> a = Trunk) /\ (g \in Entries(Trunk) <=> c = Trunk)
          /\ l \in Entry /\ g \in Entry
      BY <2>3, SideFacts
    <3> QED
      BY <3>1, BoundAssumption DEF Entry, Seqno
  <2>5. CASE i0 = j
    <3>1. Lower(l, g) /\ a = c
      BY <1>6, <1>9, <2>1, <2>5
    <3> QED
      BY <2>4, <3>1 DEF Older, Before
  <2>6. CASE i0 < j
    <3>1. (a = Trunk /\ c # Trunk) \/ (a = c /\ runs[i0].num < runs[j].num)
      BY <2>2, <2>6 DEF Viewed
    <3>2. ASSUME a = c, runs[i0].num < runs[j].num
          PROVE  Before(l, g)
      <4>1. /\ runs[i0].num \in Present(idx[a]) /\ runs[j].num \in Present(idx[a])
            /\ l \in idx[a][runs[i0].num] /\ g \in idx[a][runs[j].num]
        BY <1>1, <2>1, <2>2, <2>3, <3>2
      <4>2. Climbs(idx[a])
        BY DEF Orderly
      <4> QED
        BY <3>2, <4>1, <4>2 DEF Climbs
    <3> QED
      BY <2>4, <3>1, <3>2 DEF Older, Before
  <2> QED
    BY <2>2, <2>5, <2>6
<1> QED
  BY <1>7, <1>8, <1>9

\* An address that is in view has the entry's object, and its base is in view.
LEMMA HeldFacts ==
  ASSUME IInv, Orderly, NEW d \in Branch, NEW ps \in Seq(PackItem), Viewed(ps, pack, d),
         NEW e \in InView(d)
  PROVE  /\ Held(ps, e) # None /\ Held(ps, e).obj = e.obj
         /\ Held(ps, e).base # None =>
              /\ Held(ps, e).base \in Obj
              /\ \E g \in InView(d) : g.obj = Held(ps, e).base /\ Older(g, e)
<1>1. Trunk \in Branch
  BY OrderAssumption
<1>2. PICK a \in {Trunk, d} : e \in Entries(a)
  BY DEF InView
<1>3. /\ a \in Branch /\ e \in Entry /\ (e \in Entries(Trunk) <=> a = Trunk) /\ Placed(a, e)
  BY <1>1, <1>2, SideFacts DEF Orderly
<1> PICK s \in Seqno, i \in 1..MaxLen : s = e.file /\ i = e.pos
  BY <1>3 DEF Entry
<1> PICK body : body = pack[a][s]
  OBVIOUS
<1>4. body \in Seq(Stored) /\ i <= Len(body) /\ s \in Present(pack[a])
  BY <1>3 DEF Placed, Present, IInv, TypeOK
<1>5. body[i] \in Stored /\ body[i] # None
  <2>1. i \in 1..Len(body)
    BY <1>4, LenProperties, BoundAssumption
  <2> QED
    BY <1>4, <2>1, ElementOfSeq, NoneAssumption
<1>6. Held(ps, e) = body[i]
  <2> DEFINE is == {k \in DOMAIN ps : ps[k].num = s}
  <2>1. \A k \in is : ps[k].body = body
    <3> TAKE k \in is
    <3>1. ps[k].dir \in {Trunk, d} /\ s \in Present(pack[ps[k].dir]) /\ ps[k].body = pack[ps[k].dir][s]
      BY DEF Viewed
    <3>2. ps[k].dir = a
      BY <1>1, <1>3, <1>4, <3>1 DEF IInv, NumbersUnique
    <3> QED
      BY <3>1, <3>2
  <2>2. is # {}
    BY <1>4 DEF Viewed
  <2>3. /\ Held(ps, e) = IF \E k \in is : i <= Len(ps[k].body)
                           THEN ps[CHOOSE k \in is : TRUE].body[i] ELSE None
    BY DEF Held
  <2> HIDE DEF is
  <2> QED
    BY <1>4, <2>1, <2>2, <2>3
<1>7. body[i].obj = e.obj /\ (body[i].base # None => Based(a, e, body[i].base))
  BY <1>3 DEF Placed
<1>8. body[i].base # None => \E g \in InView(d) : g.obj = body[i].base /\ Older(g, e)
  <2> SUFFICES ASSUME body[i].base # None
               PROVE  \E g \in InView(d) : g.obj = body[i].base /\ Older(g, e)
    OBVIOUS
  <2>1. CASE a # Trunk /\ \E g \in Entries(Trunk) : g.obj = body[i].base
    BY <1>3, <2>1 DEF InView, Older
  <2>2. CASE \E g \in Entries(a) : g.obj = body[i].base /\ Before(g, e)
    <3>1. PICK g \in Entries(a) : g.obj = body[i].base /\ Before(g, e)
      BY <2>2
    <3>2. g \in Entries(Trunk) <=> a = Trunk
      BY <1>3, SideFacts
    <3> QED
      BY <1>2, <1>3, <3>1, <3>2 DEF InView, Older
  <2> QED
    BY <1>7, <2>1, <2>2 DEF Based
<1>9. body[i].base # None => body[i].base \in Obj
  BY <1>5 DEF Stored
<1> QED
  BY <1>5, <1>6, <1>7, <1>8, <1>9

\* One step of what Resolves does at an entry, q telling of the bases' entries
Reads(ps, runs, n, q, e) ==
  LET h == Held(ps, e)
  IN  /\ h # None /\ h.obj = e.obj
      /\ h.base # None => n > 0 /\ Lookup(runs, h.base) # None /\ q[Lookup(runs, h.base)]

LEMMA ResolvesUnfold ==
  ASSUME IsFiniteSet(Obj), NEW ps, NEW runs, \A o : Lookup(runs, o) \in Entry \cup {None}
  PROVE  \A n \in 0..Cardinality(Obj) : \A e \in Entry :
           Resolves(ps, runs)[n][e] <=> Reads(ps, runs, n, Resolves(ps, runs)[n - 1], e)
<1> PICK N \in Nat : N = Cardinality(Obj)
  BY FS_CardinalityType
<1> DEFINE Step(n, q) == [e \in Entry |-> Reads(ps, runs, n, q, e)]
           Def(r) == [n \in 0..N |-> Step(n, r[n - 1])]
<1>0. PICK M \in Nat : M = N + 1
  OBVIOUS
<1>1. PICK R : R = [Entry -> BOOLEAN]
  OBVIOUS
<1>2. \A n, q : Step(n, q) \in R
  BY <1>1 DEF Reads
<1>3. PICK none \in R : TRUE
  <2>1. [e \in Entry |-> FALSE] \in R
    BY <1>1
  <2> QED
    BY <2>1
<1>4. PICK F \in [(1..M) \X R -> R] : \A i \in 1..M : \A q \in R : F[<<i, q>>] = Step(i - 1, q)
  <2> DEFINE F == [x \in (1..M) \X R |-> Step(x[1] - 1, x[2])]
  <2> HIDE DEF Step
  <2>1. F \in [(1..M) \X R -> R]
    BY <1>2
  <2>2. \A i \in 1..M : \A q \in R : F[<<i, q>>] = Step(i - 1, q)
    OBVIOUS
  <2> QED
    BY <2>1, <2>2
<1>12. PICK g : Chained(g, R, none, M, F)
  BY Iterates
<1>5. g \in [0..M -> R] /\ g[0] = none /\ \A i \in 1..M : g[i] = F[<<i, g[i - 1]>>]
  BY <1>12 DEF Chained
<1>6. ASSUME NEW n \in 0..N
      PROVE  g[n] \in R /\ g[n + 1] = Step(n, g[n])
  <2> HIDE DEF Step
  <2>1. n + 1 \in 1..M /\ n + 1 - 1 = n /\ n \in 0..M
    BY <1>0
  <2>2. g[n] \in R
    BY <1>5, <2>1
  <2>3. g[n + 1] = F[<<n + 1, g[n]>>]
    BY <1>5, <2>1
  <2>4. F[<<n + 1, g[n]>>] = Step(n + 1 - 1, g[n])
    BY <1>4, <2>1, <2>2
  <2> QED
    BY <2>1, <2>2, <2>3, <2>4
<1> DEFINE w == [n \in 0..N |-> g[n + 1]]
<1>7. ASSUME NEW n \in 0..N
      PROVE  w[n] = Step(n, w[n - 1])
  <2>1. w[n] = Step(n, g[n])
    BY <1>6
  <2>2. CASE n = 0
    <3>1. \A x, y : Step(0, x) = Step(0, y)
      BY DEF Reads
    <3> HIDE DEF Step, w
    <3> QED
      BY <2>1, <2>2, <3>1
  <2>3. CASE n # 0
    <3>1. n - 1 \in 0..N /\ n - 1 + 1 = n
      BY <2>3
    <3>2. w[n - 1] = g[n]
      BY <3>1
    <3> QED
      BY <2>1, <3>2
  <2> QED
    BY <2>2, <2>3
<1>8. w = Def(w)
  <2> HIDE DEF Step
  <2>1. w = [n \in 0..N |-> w[n]]
    OBVIOUS
  <2> HIDE DEF w
  <2> QED
    BY <1>7, <2>1
<1> PICK r : r = Resolves(ps, runs)
  OBVIOUS
<1>9. r = CHOOSE u : u = Def(u)
  BY DEF Resolves, Reads
<1> HIDE DEF w
<1>10. r = Def(r)
  <2> HIDE DEF Def
  <2> QED
    BY <1>8, <1>9
<1>11. ASSUME NEW n \in 0..N, NEW e \in Entry
       PROVE  r[n][e] <=> Reads(ps, runs, n, r[n - 1], e)
  <2>1. r[n] = Step(n, r[n - 1])
    <3> HIDE DEF Step
    <3> QED
      BY <1>10
  <2> QED
    BY <2>1
<1> QED
  BY <1>11

\* What is in view resolves: an object's entry is based on an entry that is older,
\* so the objects whose entries are older than an object's bound its chain.
LEMMA ViewResolves ==
  ASSUME IInv, Orderly, IsFiniteSet(Obj), NEW d \in Branch,
         NEW ps \in Seq(PackItem), Viewed(ps, pack, d),
         NEW runs \in Seq(RunItem), Viewed(runs, idx, d), NEW o \in Obj,
         \E g \in InView(d) : g.obj = o
  PROVE  Gets(ps, runs, o)
<1> DEFINE Has(x) == \E g \in InView(d) : g.obj = x
           l(x) == Lookup(runs, x)
           D(x) == {y \in Obj : Has(y) /\ Older(l(y), l(x))}
           Bad(n) == \E x \in Obj : Has(x) /\ Cardinality(D(x)) <= n /\ ~ Resolves(ps, runs)[n][l(x)]
<1> PICK N \in Nat : N = Cardinality(Obj)
  BY FS_CardinalityType
<1>0. Trunk \in Branch
  BY OrderAssumption
<1>1. InView(d) \subseteq Entry
  BY <1>0, EntriesType DEF InView
<1>2. \A x : Has(x) =>
        /\ l(x) \in InView(d) /\ l(x) \in Entry /\ l(x).obj = x /\ l(x) # None
        /\ \A g \in InView(d) : g.obj = x => ~ Older(g, l(x))
  <2> SUFFICES ASSUME NEW x, Has(x)
               PROVE  /\ l(x) \in InView(d) /\ l(x) \in Entry /\ l(x).obj = x /\ l(x) # None
                      /\ \A g \in InView(d) : g.obj = x => ~ Older(g, l(x))
    OBVIOUS
  <2>1. /\ Lookup(runs, x) \in InView(d) /\ Lookup(runs, x).obj = x
        /\ \A g \in InView(d) : g.obj = x => ~ Older(g, Lookup(runs, x))
    BY LookupFacts
  <2> QED
    BY <1>1, <2>1, NoneAssumption
<1>3. \A x : l(x) \in Entry \cup {None}
  <2> TAKE x
  <2>1. CASE Has(x)
    BY <1>2, <2>1
  <2>2. CASE ~ Has(x)
    <3>1. ASSUME NEW i \in DOMAIN runs, NEW e \in runs[i].body, e.obj = x
          PROVE  FALSE
      <4>1. e \in InView(d)
        BY <3>1 DEF Viewed, InView, Entries, EntriesOf
      <4> QED
        BY <2>2, <3>1, <4>1
    <3>2. {i \in DOMAIN runs : \E e \in runs[i].body : e.obj = x} = {}
      BY <3>1
    <3>3. l(x) = None
      BY <3>2 DEF Lookup
    <3> QED
      BY <3>3
  <2> QED
    BY <2>1, <2>2
<1>4. \A x : /\ IsFiniteSet(D(x)) /\ Cardinality(D(x)) \in Nat /\ Cardinality(D(x)) <= N
  <2> TAKE x
  <2>1. D(x) \in SUBSET Obj
    OBVIOUS
  <2> HIDE DEF D
  <2> QED
    BY <2>1, FS_Subset, FS_CardinalityType
<1>5. \A n \in 0..N : \A x \in Obj : Has(x) =>
        (Resolves(ps, runs)[n][l(x)] <=> Reads(ps, runs, n, Resolves(ps, runs)[n - 1], l(x)))
  <2>1. \A n \in 0..N : \A e \in Entry :
          Resolves(ps, runs)[n][e] <=> Reads(ps, runs, n, Resolves(ps, runs)[n - 1], e)
    BY <1>3, ResolvesUnfold
  <2> HIDE DEF Has, l
  <2> QED
    BY <1>2, <2>1
<1>6. ASSUME NEW x \in Obj, NEW y \in Obj, Has(x), Has(y), \E g \in InView(d) : g.obj = y /\ Older(g, l(x))
      PROVE  Cardinality(D(y)) < Cardinality(D(x))
  <2>1. Older(l(y), l(x))
    <3> PICK g \in InView(d) : g.obj = y /\ Older(g, l(x))
      BY <1>6
    <3>1. ~ Older(g, l(y)) /\ g \in Entry /\ l(x) \in Entry /\ l(y) \in Entry
      BY <1>1, <1>2, <1>6
    <3> HIDE DEF l
    <3> QED
      BY <3>1, OlderOrder
  <2>2. y \in D(x)
    BY <1>6, <2>1
  <2>3. y \notin D(y)
    <3>1. l(y) \in Entry
      BY <1>2, <1>6
    <3> QED
      BY <3>1, OlderOrder
  <2>4. D(y) \subseteq D(x)
    <3> SUFFICES ASSUME NEW z \in D(y) PROVE z \in D(x)
      OBVIOUS
    <3>1. z \in Obj /\ Has(z) /\ Older(l(z), l(y)) /\ l(z) \in Entry /\ l(y) \in Entry /\ l(x) \in Entry
      BY <1>2, <1>6
    <3>2. Older(l(z), l(x))
      <4> HIDE DEF l
      <4> QED
        BY <2>1, <3>1, OlderOrder
    <3> QED
      BY <3>1, <3>2
  <2>5. IsFiniteSet(D(x)) /\ IsFiniteSet(D(y))
    BY <1>4
  <2> HIDE DEF D
  <2>6. Cardinality(D(y)) <= Cardinality(D(x)) /\ (Cardinality(D(y)) = Cardinality(D(x)) => D(y) = D(x))
    BY <2>4, <2>5, FS_Subset
  <2> QED
    BY <1>4, <2>2, <2>3, <2>6
<1>7. ASSUME NEW n \in 0..N, Bad(n)
      PROVE  n > 0 /\ Bad(n - 1)
  <2> PICK x \in Obj : Has(x) /\ Cardinality(D(x)) <= n /\ ~ Resolves(ps, runs)[n][l(x)]
    BY <1>7
  <2>1. ~ Reads(ps, runs, n, Resolves(ps, runs)[n - 1], l(x))
    BY <1>5
  <2> PICK h : h = Held(ps, l(x))
    OBVIOUS
  <2>2. /\ h # None /\ h.obj = l(x).obj
        /\ h.base # None => h.base \in Obj /\ \E g \in InView(d) : g.obj = h.base /\ Older(g, l(x))
    BY <1>2, HeldFacts
  <2>3. /\ h.base # None
        /\ ~ (n > 0 /\ l(h.base) # None /\ Resolves(ps, runs)[n - 1][l(h.base)])
    BY <2>1, <2>2 DEF Reads
  <2> PICK y \in Obj : y = h.base
    BY <2>2, <2>3
  <2>4. Has(y) /\ l(y) # None
    BY <1>2, <2>2, <2>3
  <2>5. Cardinality(D(y)) < Cardinality(D(x))
    BY <1>6, <2>2, <2>3, <2>4
  <2>6. Cardinality(D(y)) \in Nat /\ Cardinality(D(x)) \in Nat
    BY <1>4
  <2> HIDE DEF D, l, Has
  <2>7. n > 0 /\ Cardinality(D(y)) <= n - 1
    BY <2>5, <2>6
  <2>8. ~ Resolves(ps, runs)[n - 1][l(y)]
    BY <2>3, <2>4, <2>7
  <2> QED
    BY <2>4, <2>7, <2>8
<1>8. ~ Bad(N)
  <2> SUFFICES ASSUME Bad(N) PROVE FALSE
    OBVIOUS
  <2> DEFINE T == {n \in 0..N : Bad(n)}
  <2> HIDE DEF Bad
  <2>1. T \in SUBSET Nat /\ T # {}
    OBVIOUS
  <2>2. PICK n \in T : \A u \in T : ~ (u < n)
    <3> HIDE DEF T
    <3> QED
      BY <2>1, LeastExists
  <2>3. n > 0 /\ Bad(n - 1) /\ n \in 0..N
    BY <1>7
  <2>4. n - 1 \in T /\ n - 1 < n
    BY <2>3
  <2> QED
    BY <2>2, <2>4
<1>9. Resolves(ps, runs)[N][l(o)]
  <2>1. Cardinality(D(o)) <= N /\ Has(o)
    BY <1>4
  <2> HIDE DEF D, l, Has
  <2> QED
    BY <1>8, <2>1
<1>10. \E i \in DOMAIN runs : l(o) \in runs[i].body
  <2>1. PICK a \in {Trunk, d} : l(o) \in Entries(a)
    BY <1>2 DEF InView
  <2>2. PICK s \in Present(idx[a]) : l(o) \in idx[a][s]
    BY <2>1 DEF Entries, EntriesOf
  <2>3. PICK i \in DOMAIN runs : runs[i].dir = a /\ runs[i].num = s
    BY <2>2 DEF Viewed
  <2>4. runs[i].body = idx[a][s]
    BY <2>3 DEF Viewed
  <2> QED
    BY <2>2, <2>4
<1>11. l(o).obj = o
  BY <1>2
<1> QED
  BY <1>9, <1>10, <1>11 DEF Gets

LEMMA LineFacts ==
  ASSUME Flat, IsFiniteSet(Obj), IInv, LineInv
  PROVE  LineReadable
<1>1. Orderly
  BY DEF LineInv
<1>2. Disjoint(pack) /\ Disjoint(idx) /\ \A d \in Branch : Fits(PackItem, pack, d) /\ Fits(RunItem, idx, d)
  BY UniqueMeansDisjoint, FilesFit DEF IInv
<1>3. ASSUME NEW w \in written, NEW d \in Branch, w[1] \in Range(Line[d])
      PROVE  Readable(d, w[2])
  <2>1. w[1] \in {Trunk, d} /\ w[2] \in Obj
    BY <1>3, FlatLine DEF IInv, TypeOK
  <2>2. \E g \in InView(d) : g.obj = w[2]
    BY <1>1, <2>1 DEF Orderly, InView
  <2> PICK ps, runs : ps = All(Fresh(pack, d)) /\ runs = All(Fresh(idx, d))
    OBVIOUS
  <2>3. ps \in Seq(PackItem) /\ Viewed(ps, pack, d)
    <3> PICK P : P = pack
      OBVIOUS
    <3>1. All(Fresh(P, d)) \in Seq(PackItem) /\ Viewed(All(Fresh(P, d)), P, d)
      BY <1>2, ViewFacts
    <3> QED
      BY <3>1
  <2>4. runs \in Seq(RunItem) /\ Viewed(runs, idx, d)
    <3> PICK R : R = idx
      OBVIOUS
    <3>1. All(Fresh(R, d)) \in Seq(RunItem) /\ Viewed(All(Fresh(R, d)), R, d)
      BY <1>2, ViewFacts
    <3> QED
      BY <3>1
  <2>5. Gets(ps, runs, w[2])
    BY <1>1, <2>1, <2>2, <2>3, <2>4, ViewResolves
  <2> QED
    BY <2>5 DEF Readable
<1> QED
  BY <1>3 DEF LineReadable

----------------------------------------------------------------------------
\* The theorems.  What Timely excludes is a number drawn while another session is
\* open that then makes a file: KEEPOpenBranch and KEEPSwitchBranch draw it before
\* they lock the leaf, and sessions on two leaves hold two locks.  What Flat excludes
\* is a branch on a branch, where a switch can leave the files of the directory
\* between in DATA.

\* A session stays ahead of every file number in the tree.
THEOREM Invariance == Spec /\ Timely => []IInv
<1>1. IInv /\ [Next]_vars /\ [OnTime]_vars => IInv'
  BY NextKeeps
<1> QED
  BY InitIInv, <1>1, PTL DEF Spec, Timely

\* The type invariant.
THEOREM TypeCorrect == Spec /\ Timely => []TypeOK
<1>1. IInv => TypeOK
  BY DEF IInv
<1> QED
  BY Invariance, <1>1, PTL

\* In a tree of any shape, with any sessions open and strangers in their registries,
\* no two directories ever hold a file of one number, as long as no session makes a
\* file while another is open: keep_recompute_next_seqno looks everywhere, and a
\* switch, a failed switch, a merge or a drop leaves no session behind a number.
THEOREM NumbersAlwaysUnique == Spec /\ Timely => []NumbersUnique
<1>1. IInv => NumbersUnique
  BY DEF IInv
<1> QED
  BY Invariance, <1>1, PTL

\* One session at a time is always on time.
LEMMA OneSessionInvariance ==
  ASSUME OneSession
  PROVE  Spec => []IInv
<1>1. [Next]_vars => [OnTime]_vars
  BY OneSessionOnTime
<1> QED
  BY Invariance, <1>1, PTL DEF Spec, Timely

\* However branches are made, switched, moved between and dropped, and whatever is
\* merged, a session that is opened finds at an address in its index the object
\* that the index says, or nothing (KEEPLookup, KEEPGetPacked).
THEOREM NeverWrongBytes ==
  ASSUME OneSession
  PROVE  Spec => []NoWrongBytes
<1>1. IInv /\ IInv' /\ BytesSound /\ [Next]_vars => BytesSound'
  BY NextSound
<1>2. Spec => []IInv
  BY OneSessionInvariance
<1> QED
  BY InitSound, <1>1, <1>2, SoundMeansTrue, PTL DEF Spec

\* In a tree of a trunk and branches on it, what was put into a branch stays readable
\* to a session opened there or below, whatever was dropped, moved or merged since
\* (KEEPMoveCommits, KEEPCompact).
THEOREM LineAlwaysReadable ==
  ASSUME OneSession, ~Strangers, Flat, IsFiniteSet(Obj)
  PROVE  Spec => []LineReadable
<1>1. IInv /\ IInv' /\ LineInv /\ [Next]_vars => LineInv'
  BY NextLoads
<1>2. Spec => []IInv
  BY OneSessionInvariance
<1>3. IInv /\ LineInv => LineReadable
  BY LineFacts
<1> QED
  BY InitLoads, <1>1, <1>2, <1>3, PTL DEF Spec
==============================================================================
