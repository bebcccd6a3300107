---------------------------- MODULE Promote_proofs ----------------------------
(***************************************************************************)
(* Posts, promotes, puts and gets over a tree of branches of any shape, by *)
(* any number of worktrees.                                                *)
(***************************************************************************)
EXTENDS Promote, FiniteSetTheorems, SequenceTheorems, WellFoundedInduction, TLAPS

----------------------------------------------------------------------------
\* Commits

\* Natural numbers have a least one among them.
LEMMA LeastExists ==
  ASSUME NEW T \in SUBSET Nat, T # {}
  PROVE  \E t \in T : \A u \in T : ~ (u < t)
<1>1. IsWellFoundedOn(OpToRel(<, Nat), Nat)
  BY NatLessThanWellFounded
<1>2. PICK t \in T : \A u \in T : ~ (<<u, t>> \in OpToRel(<, Nat))
  BY <1>1, WFMin
<1>3. \A u \in T : ~ (u < t)
  <2> TAKE u \in T
  <2>1. u \in Nat /\ t \in Nat
    OBVIOUS
  <2> QED
    BY <1>2, <2>1 DEF OpToRel
<1> QED
  BY <1>3

\* A set of places has a last one.
LEMMA GreatestExists ==
  ASSUME NEW n \in Nat, NEW S \in SUBSET (1..n), S # {}
  PROVE  \E m \in S : \A k \in S : k <= m
<1> DEFINE T == {n - k : k \in S}
<1>1. T \in SUBSET Nat /\ T # {}
  <2>1. \A u \in T : u \in Nat
    OBVIOUS
  <2>2. PICK k \in S : TRUE
    OBVIOUS
  <2>3. n - k \in T
    BY <2>2
  <2> QED
    BY <2>1, <2>3
<1>2. PICK t \in T : \A u \in T : ~ (u < t)
  <2> HIDE DEF T
  <2> QED
    BY <1>1, LeastExists
<1>4. PICK m \in S : t = n - m
  OBVIOUS
<1>5. \A k \in S : k <= m
  <2> TAKE k \in S
  <2>1. ~ (n - k < t)
    BY <1>2
  <2> QED
    BY <1>4, <2>1
<1> QED
  BY <1>5

Chains == {cs \in Seq(Commit) : Grown(cs)}

\* A commit has itself and its parent's history behind it.
LEMMA AncestorsUnfold ==
  ASSUME NEW cs \in Chains
  PROVE  /\ Ancestors(cs, 0) = {}
         /\ \A c \in 1..Len(cs) : Ancestors(cs, c) = {c} \cup Ancestors(cs, cs[c].up)
<1> DEFINE L == Len(cs)
           Fixed(S) == \A i \in S : cs[i].up \in S \cup {0}
           Reached(n) == {x \in 1..L : \A S \in SUBSET (1..L) : n \in S /\ Fixed(S) => x \in S}
           f == [n \in 0..L |-> IF n = 0 THEN {} ELSE Reached(n)]
           u == CHOOSE u : u = [n \in 0..L |-> IF n = 0 THEN {} ELSE {n} \cup u[cs[n].up]]
<1>1. L \in Nat /\ \A i \in 1..L : cs[i].up \in 0..i-1 /\ cs[i].up \in 0..L /\ i \in 0..L /\ i # 0
  BY LenProperties DEF Chains, Grown
<1>2. ASSUME NEW n \in 1..L
      PROVE  Reached(n) = {n} \cup f[cs[n].up]
  <2>1. CASE cs[n].up = 0
    <3>1. Fixed({n}) /\ {n} \in SUBSET (1..L)
      BY <2>1
    <3>2. Reached(n) \subseteq {n}
      BY <3>1
    <3>3. n \in Reached(n) /\ f[0] = {}
      BY <1>1
    <3> QED
      BY <2>1, <3>2, <3>3
  <2>2. CASE cs[n].up # 0
    <3> DEFINE m == cs[n].up
    <3>1. m \in 1..L /\ m \in 0..L
      BY <1>1, <2>2
    <3>2. ASSUME NEW x \in Reached(m)
          PROVE  x \in Reached(n)
      <4>1. \A S \in SUBSET (1..L) : n \in S /\ Fixed(S) => m \in S
        BY <2>2
      <4> QED
        BY <3>2, <4>1
    <3>3. ASSUME NEW x \in Reached(n), x # n
          PROVE  x \in Reached(m)
      <4> SUFFICES ASSUME NEW S \in SUBSET (1..L), m \in S, Fixed(S)
                   PROVE  x \in S
        BY <3>3
      <4>1. Fixed(S \cup {n}) /\ S \cup {n} \in SUBSET (1..L) /\ n \in S \cup {n}
        OBVIOUS
      <4>2. x \in S \cup {n}
        BY <3>3, <4>1
      <4> QED
        BY <3>3, <4>2
    <3>4. n \in Reached(n)
      OBVIOUS
    <3>5. f[m] = Reached(m)
      BY <2>2, <3>1
    <3> HIDE DEF Reached, f
    <3>6. Reached(n) = {n} \cup Reached(m)
      BY <3>2, <3>3, <3>4
    <3> QED
      BY <3>5, <3>6
  <2> QED
    BY <2>1, <2>2
<1>3. f = [n \in 0..L |-> IF n = 0 THEN {} ELSE {n} \cup f[cs[n].up]]
  <2>1. ASSUME NEW n \in 0..L, n # 0
        PROVE  f[n] = {n} \cup f[cs[n].up]
    <3>1. n \in 1..L
      BY <1>1, <2>1
    <3>2. f[n] = Reached(n)
      BY <2>1
    <3> QED
      BY <1>2, <3>1, <3>2
  <2>2. ASSUME NEW n \in 0..L
        PROVE  f[n] = IF n = 0 THEN {} ELSE {n} \cup f[cs[n].up]
    BY <2>1
  <2>3. DOMAIN f = 0..L /\ f = [n \in 0..L |-> f[n]]
    OBVIOUS
  <2> HIDE DEF f
  <2> QED
    BY <2>2, <2>3
<1> HIDE DEF f
<1>4. u = [n \in 0..L |-> IF n = 0 THEN {} ELSE {n} \cup u[cs[n].up]]
  BY <1>3
<1>5. \A c : Ancestors(cs, c) = u[c]
  BY DEF Ancestors
<1> HIDE DEF u
<1>6. u[0] = {}
  BY <1>1, <1>4
<1>7. \A c \in 1..L : u[c] = {c} \cup u[cs[c].up]
  BY <1>1, <1>4
<1> QED
  BY <1>5, <1>6, <1>7

\* Chains are made of commits, and whoever is behind somebody behind a
\* commit is behind it.
LEMMA AncestorsFacts ==
  ASSUME NEW cs \in Chains, NEW c \in 0..Len(cs)
  PROVE  /\ Ancestors(cs, c) \subseteq 1..Len(cs)
         /\ c # 0 => c \in Ancestors(cs, c)
         /\ \A a \in Ancestors(cs, c) : Ancestors(cs, a) \subseteq Ancestors(cs, c)
<1> DEFINE L == Len(cs)
           Anc(n) == Ancestors(cs, n)
           Holds(n) == Anc(n) \subseteq 1..L /\ \A a \in Anc(n) : Anc(a) \subseteq Anc(n)
           T == {n \in 0..L : ~Holds(n)}
<1>1. L \in Nat /\ \A i \in 1..L : cs[i].up \in 0..i-1
  BY LenProperties DEF Chains, Grown
<1>2. Anc(0) = {} /\ \A n \in 1..L : Anc(n) = {n} \cup Anc(cs[n].up)
  BY AncestorsUnfold
<1> HIDE DEF Anc
<1>3. T = {}
  <2> SUFFICES ASSUME T # {} PROVE FALSE
    OBVIOUS
  <2>1. PICK n \in T : \A k \in T : ~ (k < n)
    <3>1. T \in SUBSET Nat
      BY <1>1
    <3> HIDE DEF T
    <3> QED
      BY <3>1, LeastExists
  <2>2. n \in 1..L
    BY <1>1, <1>2
  <2>3. cs[n].up \in 0..L /\ cs[n].up < n
    BY <1>1, <2>2
  <2>4. Holds(cs[n].up)
    BY <2>1, <2>3
  <2>5. Anc(n) \subseteq 1..L
    BY <1>2, <2>2, <2>4
  <2>6. \A a \in Anc(n) : Anc(a) \subseteq Anc(n)
    BY <1>2, <2>2, <2>4
  <2> QED
    BY <2>1, <2>5, <2>6
<1> QED
  BY <1>1, <1>2, <1>3 DEF Anc

\* New commits change nobody's history.
LEMMA AncestorsKept ==
  ASSUME NEW cs \in Chains, NEW ds \in Chains, NEW c \in 0..Len(cs),
         Len(cs) <= Len(ds), \A i \in 1..Len(cs) : ds[i].up = cs[i].up
  PROVE  Ancestors(ds, c) = Ancestors(cs, c)
<1> DEFINE L == Len(cs)
           Old(n) == Ancestors(cs, n)
           New(n) == Ancestors(ds, n)
           T == {n \in 0..L : New(n) # Old(n)}
<1>1. L \in Nat /\ \A i \in 1..L : cs[i].up \in 0..i-1 /\ i \in 1..Len(ds)
  BY LenProperties DEF Chains, Grown
<1>2. Old(0) = {} /\ \A n \in 1..L : Old(n) = {n} \cup Old(cs[n].up)
  BY AncestorsUnfold
<1>3. New(0) = {} /\ \A n \in 1..L : New(n) = {n} \cup New(cs[n].up)
  <2>1. New(0) = {} /\ \A n \in 1..Len(ds) : New(n) = {n} \cup New(ds[n].up)
    BY AncestorsUnfold
  <2> HIDE DEF New
  <2> QED
    BY <1>1, <2>1
<1> HIDE DEF Old, New
<1>4. T = {}
  <2> SUFFICES ASSUME T # {} PROVE FALSE
    OBVIOUS
  <2>1. PICK n \in T : \A k \in T : ~ (k < n)
    <3>1. T \in SUBSET Nat
      BY <1>1
    <3> HIDE DEF T
    <3> QED
      BY <3>1, LeastExists
  <2>2. n \in 0..L /\ New(n) # Old(n)
    OBVIOUS
  <2>3. n \in 1..L
    <3>1. n # 0
      BY <1>2, <1>3, <2>2
    <3> HIDE DEF T
    <3> QED
      BY <1>1, <2>2, <3>1
  <2>4. cs[n].up \in 0..L /\ cs[n].up < n
    BY <1>1, <2>3
  <2>5. New(cs[n].up) = Old(cs[n].up)
    BY <2>1, <2>4
  <2> QED
    BY <1>2, <1>3, <2>2, <2>3, <2>5
<1> QED
  BY <1>1, <1>4 DEF Old, New

LEMMA ParentFacts ==
  ASSUME NEW cs \in Chains, NEW i \in 1..Len(cs)
  PROVE  /\ Len(cs) \in Nat /\ cs \in Seq(Commit) /\ cs[i] \in Commit /\ cs[i].up \in 0..i-1
         /\ i # 1 => /\ cs[i].up \in 1..Len(cs) /\ cs[i].up < i
                     /\ cs[cs[i].up].tree \subseteq cs[i].tree
<1>1. Len(cs) \in Nat /\ cs \in Seq(Commit) /\ cs[i] \in Commit
  BY LenProperties, ElementOfSeq DEF Chains
<1>2. cs[i].up \in 0..i-1 /\ (i # 1 => cs[i].up # 0)
  BY DEF Chains, Grown
<1>3. i # 1 => cs[cs[i].up].tree \subseteq cs[i].tree
  BY DEF Chains, Grown
<1> QED
  BY <1>1, <1>2, <1>3

\* Everybody has the first commit behind it, and nobody behind it has more lines.
LEMMA BehindFacts ==
  ASSUME NEW cs \in Chains, NEW c \in 1..Len(cs)
  PROVE  /\ 1 \in Ancestors(cs, c)
         /\ \A a \in Ancestors(cs, c) : a \in 1..Len(cs) /\ cs[a].tree \subseteq cs[c].tree
<1> DEFINE L == Len(cs)
           Anc(n) == Ancestors(cs, n)
           Holds(n) == 1 \in Anc(n) /\ \A a \in Anc(n) : cs[a].tree \subseteq cs[n].tree
           T == {n \in 1..L : ~Holds(n)}
<1>1. L \in Nat /\ \A i \in 1..L : cs[i].up \in 0..i-1 /\ (i # 1 => cs[i].up # 0)
  BY LenProperties DEF Chains, Grown
<1>2. Anc(0) = {} /\ \A n \in 1..L : Anc(n) = {n} \cup Anc(cs[n].up)
  BY AncestorsUnfold
<1>3. Anc(c) \subseteq 1..L
  <2>1. c \in 0..L
    BY <1>1
  <2> QED
    BY <2>1, AncestorsFacts
<1> HIDE DEF Anc
<1>4. T = {}
  <2> SUFFICES ASSUME T # {} PROVE FALSE
    OBVIOUS
  <2>1. PICK n \in T : \A k \in T : ~ (k < n)
    <3>1. T \in SUBSET Nat
      BY <1>1
    <3> HIDE DEF T
    <3> QED
      BY <3>1, LeastExists
  <2>2. n \in 1..L
    OBVIOUS
  <2>3. CASE n = 1
    BY <1>1, <1>2, <2>1, <2>2, <2>3
  <2>4. CASE n # 1
    <3>1. cs[n].up \in 1..L /\ cs[n].up < n
      BY <1>1, <2>2, <2>4
    <3>2. Holds(cs[n].up)
      BY <2>1, <3>1
    <3>3. cs[cs[n].up].tree \subseteq cs[n].tree
      BY <2>2, <2>4 DEF Chains, Grown
    <3>4. Holds(n)
      BY <1>2, <2>2, <3>2, <3>3
    <3> QED
      BY <2>1, <3>4
  <2> QED
    BY <2>3, <2>4
<1>5. Holds(c)
  BY <1>4
<1> QED
  BY <1>3, <1>5 DEF Anc

\* Commits are added, and copied into more leaves.
Extended(cs, ds) ==
  /\ Len(cs) <= Len(ds)
  /\ \A i \in 1..Len(cs) :
       ds[i].up = cs[i].up /\ ds[i].tree = cs[i].tree /\ cs[i].in \subseteq ds[i].in

LEMMA ExtendedFacts ==
  ASSUME NEW cs \in Chains, NEW ds \in Chains, Extended(cs, ds), NEW c \in 0..Len(cs)
  PROVE  /\ Ancestors(ds, c) = Ancestors(cs, c) /\ c \in 0..Len(ds)
         /\ \A bs : SeenIn(cs, bs, c) => SeenIn(ds, bs, c)
<1>1. Ancestors(ds, c) = Ancestors(cs, c)
  BY AncestorsKept DEF Extended
<1>2. Ancestors(cs, c) \subseteq 1..Len(cs)
  BY AncestorsFacts
<1>3. \A bs : SeenIn(cs, bs, c) => SeenIn(ds, bs, c)
  BY <1>1, <1>2 DEF SeenIn, Extended
<1>4. Len(cs) \in Nat /\ Len(ds) \in Nat
  BY LenProperties DEF Chains
<1> QED
  BY <1>1, <1>3, <1>4 DEF Extended

\* Who can read a commit can read what is behind it.
LEMMA SeenBehind ==
  ASSUME NEW cs \in Chains, NEW c \in 0..Len(cs), NEW a \in Ancestors(cs, c), NEW bs, SeenIn(cs, bs, c)
  PROVE  SeenIn(cs, bs, a)
BY AncestorsFacts DEF SeenIn

LEMMA SeenMore ==
  ASSUME NEW cs, NEW c, NEW bs, NEW ds, bs \subseteq ds, SeenIn(cs, bs, c)
  PROVE  SeenIn(cs, ds, c)
BY DEF SeenIn

\* A new commit on a parent.
LEMMA AppendFacts ==
  ASSUME NEW cs \in Chains, NEW c \in 1..Len(cs), NEW x \in Commit,
         x.up = c, cs[c].tree \subseteq x.tree
  PROVE  LET ds == Append(cs, x)
             n == Len(cs) + 1
         IN  /\ ds \in Chains /\ Extended(cs, ds) /\ Len(ds) = n /\ ds[n] = x
             /\ \A i \in 1..Len(cs) : ds[i] = cs[i]
             /\ Ancestors(ds, n) = {n} \cup Ancestors(cs, c)
<1> DEFINE ds == Append(cs, x)
           n == Len(cs) + 1
<1>1. Len(cs) \in Nat /\ cs \in Seq(Commit)
  BY LenProperties DEF Chains
<1>2. ds \in Seq(Commit) /\ Len(ds) = n /\ ds[n] = x /\ \A i \in 1..Len(cs) : ds[i] = cs[i]
  BY <1>1, AppendProperties
<1> HIDE DEF ds
<1>3. Grown(ds)
  <2> SUFFICES ASSUME NEW i \in 1..n
               PROVE  /\ ds[i].up \in 0..i-1
                      /\ i # 1 => ds[i].up # 0 /\ ds[ds[i].up].tree \subseteq ds[i].tree
    BY <1>2 DEF Grown
  <2>1. CASE i = n
    BY <1>1, <1>2, <2>1
  <2>2. CASE i # n
    <3>1. i \in 1..Len(cs) /\ ds[i] = cs[i]
      BY <1>1, <1>2, <2>2
    <3>2. /\ cs[i].up \in 0..i-1
          /\ i # 1 => cs[i].up \in 1..Len(cs) /\ cs[cs[i].up].tree \subseteq cs[i].tree
      BY <3>1, ParentFacts
    <3> QED
      BY <1>2, <3>1, <3>2
  <2> QED
    BY <2>1, <2>2
<1>4. ds \in Chains
  BY <1>2, <1>3 DEF Chains
<1>5. Extended(cs, ds)
  BY <1>1, <1>2 DEF Extended
<1>6. Ancestors(ds, n) = {n} \cup Ancestors(ds, c)
  <2>1. n \in 1..Len(ds)
    BY <1>1, <1>2
  <2> QED
    BY <1>2, <1>4, <2>1, AncestorsUnfold
<1>7. Ancestors(ds, c) = Ancestors(cs, c)
  <2>1. c \in 0..Len(cs)
    BY <1>1
  <2> QED
    BY <1>4, <1>5, <2>1, ExtendedFacts
<1> QED
  BY <1>2, <1>4, <1>5, <1>6, <1>7 DEF ds

\* Commits copied into a leaf.
LEMMA CopiedFacts ==
  ASSUME NEW cs \in Chains, NEW S, NEW b \in Branch
  PROVE  LET ds == Copied(cs, S, b)
         IN  /\ ds \in Chains /\ Extended(cs, ds) /\ Len(ds) = Len(cs)
             /\ \A i \in 1..Len(cs) : i \in S => b \in ds[i].in
<1> DEFINE ds == Copied(cs, S, b)
<1>1. /\ Len(cs) \in Nat /\ cs \in Seq(Commit) /\ DOMAIN cs = 1..Len(cs)
      /\ \A i \in 1..Len(cs) : cs[i] \in Commit
  BY LenProperties, ElementOfSeq DEF Chains
<1>2. \A i \in 1..Len(cs) :
        /\ ds[i] \in Commit
        /\ ds[i].up = cs[i].up /\ ds[i].tree = cs[i].tree /\ cs[i].in \subseteq ds[i].in
        /\ i \in S => b \in ds[i].in
  <2> TAKE i \in 1..Len(cs)
  <2>1. ds[i] = IF i \in S THEN [cs[i] EXCEPT !.in = @ \cup {b}] ELSE cs[i]
    BY <1>1 DEF Copied
  <2>2. cs[i] \in Commit
    BY <1>1
  <2> HIDE DEF ds
  <2> QED
    BY <2>1, <2>2 DEF Commit
<1>3. ds \in Seq(Commit) /\ Len(ds) = Len(cs)
  <2>1. ds = [i \in 1..Len(cs) |-> ds[i]]
    BY <1>1 DEF Copied
  <2> HIDE DEF ds
  <2>2. ds \in [1..Len(cs) -> Commit]
    BY <1>2, <2>1
  <2>3. ds \in Seq(Commit)
    BY <1>1, <2>2
  <2> QED
    BY <1>1, <2>2, <2>3, LenProperties
<1> HIDE DEF ds
<1>4. Grown(ds)
  <2> SUFFICES ASSUME NEW i \in 1..Len(cs)
               PROVE  /\ ds[i].up \in 0..i-1
                      /\ i # 1 => ds[i].up # 0 /\ ds[ds[i].up].tree \subseteq ds[i].tree
    BY <1>3 DEF Grown
  <2>1. /\ cs[i].up \in 0..i-1
        /\ i # 1 => cs[i].up \in 1..Len(cs) /\ cs[cs[i].up].tree \subseteq cs[i].tree
    BY ParentFacts
  <2> QED
    BY <1>2, <2>1
<1> QED
  BY <1>1, <1>2, <1>3, <1>4 DEF ds, Chains, Extended

----------------------------------------------------------------------------
\* Branches

\* A branch has itself and what is above its parent above it.
LEMMA AboveUnfold ==
  /\ Above(None) = {}
  /\ \A b \in Branch : Above(b) = {b} \cup Above(Up[b])
<1> DEFINE Fixed(S) == \A i \in S : Up[i] \in S \cup {None}
           Reached(n) == {x \in Branch : \A S \in SUBSET Branch : n \in S /\ Fixed(S) => x \in S}
           D == Branch \cup {None}
           f == [n \in D |-> IF n = None THEN {} ELSE Reached(n)]
           u == CHOOSE u : u = [x \in D |-> IF x = None THEN {} ELSE {x} \cup u[Up[x]]]
<1>1. None \notin Branch /\ \A b \in Branch : Up[b] \in D
  BY UpAssumption
<1>2. ASSUME NEW n \in Branch
      PROVE  Reached(n) = {n} \cup f[Up[n]]
  <2>1. CASE Up[n] = None
    <3>1. Fixed({n}) /\ {n} \in SUBSET Branch
      BY <2>1
    <3>2. Reached(n) \subseteq {n}
      BY <3>1
    <3>3. n \in Reached(n) /\ f[None] = {}
      BY <1>1
    <3> QED
      BY <2>1, <3>2, <3>3
  <2>2. CASE Up[n] # None
    <3> DEFINE m == Up[n]
    <3>1. m \in Branch
      BY <1>1, <2>2
    <3>2. ASSUME NEW x \in Reached(m)
          PROVE  x \in Reached(n)
      <4>1. \A S \in SUBSET Branch : n \in S /\ Fixed(S) => m \in S
        BY <2>2
      <4> QED
        BY <3>2, <4>1
    <3>3. ASSUME NEW x \in Reached(n), x # n
          PROVE  x \in Reached(m)
      <4> SUFFICES ASSUME NEW S \in SUBSET Branch, m \in S, Fixed(S)
                   PROVE  x \in S
        BY <3>3
      <4>1. Fixed(S \cup {n}) /\ S \cup {n} \in SUBSET Branch /\ n \in S \cup {n}
        OBVIOUS
      <4>2. x \in S \cup {n}
        BY <3>3, <4>1
      <4> QED
        BY <3>3, <4>2
    <3>4. n \in Reached(n)
      OBVIOUS
    <3>5. f[m] = Reached(m)
      BY <2>2, <3>1
    <3> HIDE DEF Reached, f
    <3>6. Reached(n) = {n} \cup Reached(m)
      BY <3>2, <3>3, <3>4
    <3> QED
      BY <3>5, <3>6
  <2> QED
    BY <2>1, <2>2
<1>3. f = [n \in D |-> IF n = None THEN {} ELSE {n} \cup f[Up[n]]]
  <2>1. ASSUME NEW n \in D, n # None
        PROVE  f[n] = {n} \cup f[Up[n]]
    <3>1. n \in Branch
      BY <2>1
    <3>2. f[n] = Reached(n)
      BY <2>1
    <3> QED
      BY <1>2, <3>1, <3>2
  <2>2. ASSUME NEW n \in D
        PROVE  f[n] = IF n = None THEN {} ELSE {n} \cup f[Up[n]]
    BY <2>1
  <2>3. DOMAIN f = D /\ f = [n \in D |-> f[n]]
    OBVIOUS
  <2> HIDE DEF f
  <2> QED
    BY <2>2, <2>3
<1> HIDE DEF f
<1>4. u = [x \in D |-> IF x = None THEN {} ELSE {x} \cup u[Up[x]]]
  BY <1>3
<1>5. \A b : Above(b) = u[b]
  BY DEF Above
<1> HIDE DEF u
<1>6. u[None] = {}
  BY <1>4
<1>7. \A c \in Branch : u[c] = {c} \cup u[Up[c]]
  BY <1>1, <1>4
<1> QED
  BY <1>5, <1>6, <1>7

\* The way up does not come back.
LEMMA AboveFacts ==
  ASSUME NEW b \in Branch
  PROVE  /\ b \in Above(b) /\ Above(b) \subseteq Branch
         /\ \A a \in Above(b) : Above(a) \subseteq Above(b)
         /\ Up[b] # None => Up[b] \in Branch /\ Above(Up[b]) \subseteq Above(b)
         /\ b \notin Above(Up[b]) /\ Up[b] # b
<1>1. /\ None \notin Branch /\ \A x \in Branch : Up[x] \in Branch \cup {None}
      /\ \A S \in SUBSET Branch : S # {} => \E x \in S : Up[x] \notin S
  BY UpAssumption
<1>2. Above(None) = {} /\ \A x \in Branch : Above(x) = {x} \cup Above(Up[x])
  BY AboveUnfold
<1> DEFINE Holds(x) == Above(x) \subseteq Branch /\ \A a \in Above(x) : Above(a) \subseteq Above(x)
           T == {x \in Branch : ~Holds(x)}
           Z == {x \in Branch : x \in Above(Up[x])}
<1>3. T = {}
  <2> SUFFICES ASSUME T # {} PROVE FALSE
    OBVIOUS
  <2>1. PICK x \in T : Up[x] \notin T
    BY <1>1
  <2>2. Up[x] = None \/ Holds(Up[x])
    BY <1>1, <2>1
  <2>3. Holds(x)
    BY <1>2, <2>2
  <2> QED
    BY <2>1, <2>3
<1>4. \A x \in Branch : Holds(x) /\ Up[x] # x
  <2>1. \A x \in Branch : Up[x] # x
    <3> TAKE x \in Branch
    <3>1. \E y \in {x} : Up[y] \notin {x}
      BY <1>1
    <3> QED
      BY <3>1
  <2> QED
    BY <1>3, <2>1
<1> HIDE DEF T
<1>5. Z = {}
  <2> SUFFICES ASSUME Z # {} PROVE FALSE
    OBVIOUS
  <2>1. PICK x \in Z : Up[x] \notin Z
    BY <1>1
  <2>2. x \in Branch /\ x \in Above(Up[x]) /\ Up[x] \in Branch /\ Up[x] # x
    BY <1>1, <1>2, <1>4, <2>1
  <2>3. x \in Above(Up[Up[x]])
    BY <1>2, <2>2
  <2>4. Up[Up[x]] \in Branch
    BY <1>1, <1>2, <2>2, <2>3
  <2>5. Above(x) \subseteq Above(Up[Up[x]])
    BY <1>4, <2>3, <2>4
  <2>6. Up[x] \in Above(x)
    BY <1>2, <2>2
  <2> QED
    BY <2>1, <2>2, <2>5, <2>6
<1> QED
  BY <1>1, <1>2, <1>4, <1>5

----------------------------------------------------------------------------
\* The replay of commits

\* One commit more
Replay(cs, s, c, b) ==
  IF Patch(cs, c) \in s.pids THEN s
  ELSE [cs   |-> Append(s.cs,
                   [up   |-> s.head,
                    tree |-> Merged(cs[cs[c].up].tree, s.cs[s.head].tree, cs[c].tree),
                    in   |-> {b}]),
        head |-> Len(s.cs) + 1,
        pids |-> s.pids \cup {Patch(cs, c)}]

\* How far it has got after n commits: on top of the new base, all that was added
\* in one leaf, and, when the new base has the old one's lines, the lines of all
\* that was replayed.
ReplayOk(cs, from, onto, tip, b, n, s) ==
  LET H == s.cs[s.head].tree IN
  /\ s.cs \in Chains /\ Extended(cs, s.cs) /\ s.head \in 1..Len(s.cs)
  /\ \A i \in 1..Len(cs) : s.cs[i] = cs[i]
  /\ onto \in Ancestors(s.cs, s.head)
  /\ \A a \in Ancestors(s.cs, s.head) : a \in Ancestors(cs, onto) \/ s.cs[a].in = {b}
  /\ cs[from].tree \subseteq cs[onto].tree =>
       /\ \A pid \in s.pids : pid[2] \subseteq H
       /\ \A c \in Chain(cs, from, tip) : c <= n => cs[c].tree \subseteq H

LEMMA MergedTrees ==
  ASSUME NEW base, NEW ours, NEW theirs, base \subseteq theirs
  PROVE  /\ ours \subseteq Merged(base, ours, theirs)
         /\ base \subseteq ours => theirs \subseteq Merged(base, ours, theirs)
         /\ \A S : ours \subseteq S /\ theirs \subseteq S => Merged(base, ours, theirs) \subseteq S
BY DEF Merged

LEMMA ChainFacts ==
  ASSUME NEW cs \in Chains, NEW from \in 1..Len(cs), NEW tip \in 1..Len(cs),
         NEW c \in Chain(cs, from, tip)
  PROVE  /\ c \in 1..Len(cs) /\ c # 1
         /\ cs[c].up \in Chain(cs, from, tip) \/ cs[c].up \in Ancestors(cs, from)
<1>1. c \in Ancestors(cs, tip) /\ c \notin Ancestors(cs, from)
  BY DEF Chain
<1>2. c \in 1..Len(cs) /\ c # 1
  BY <1>1, BehindFacts
<1>3. cs[c].up \in 1..Len(cs) /\ Len(cs) \in Nat
  BY <1>2, ParentFacts
<1>4. Ancestors(cs, c) = {c} \cup Ancestors(cs, cs[c].up)
  BY <1>2, AncestorsUnfold
<1>5. cs[c].up \in 0..Len(cs) /\ tip \in 0..Len(cs)
  BY <1>3
<1>6. cs[c].up \in Ancestors(cs, cs[c].up)
  BY <1>3, <1>5, AncestorsFacts
<1>7. cs[c].up \in Ancestors(cs, tip)
  BY <1>1, <1>4, <1>5, <1>6, AncestorsFacts
<1> QED
  BY <1>2, <1>7 DEF Chain

LEMMA ReplayKeeps ==
  ASSUME NEW cs \in Chains, NEW from \in 1..Len(cs), NEW onto \in 1..Len(cs), NEW tip \in 1..Len(cs),
         NEW b \in Branch, NEW c \in Chain(cs, from, tip), NEW s,
         ReplayOk(cs, from, onto, tip, b, c - 1, s)
  PROVE  ReplayOk(cs, from, onto, tip, b, c, Replay(cs, s, c, b))
<1> DEFINE chain == Chain(cs, from, tip)
           up == cs[c].up
           H == s.cs[s.head].tree
<1>1. /\ s.cs \in Chains /\ Extended(cs, s.cs) /\ s.head \in 1..Len(s.cs)
      /\ \A i \in 1..Len(cs) : s.cs[i] = cs[i]
      /\ onto \in Ancestors(s.cs, s.head)
      /\ \A a \in Ancestors(s.cs, s.head) : a \in Ancestors(cs, onto) \/ s.cs[a].in = {b}
  BY DEF ReplayOk
<1>2. ASSUME cs[from].tree \subseteq cs[onto].tree
      PROVE  /\ \A pid \in s.pids : pid[2] \subseteq H
             /\ \A k \in chain : k <= c - 1 => cs[k].tree \subseteq H
  BY <1>2 DEF ReplayOk
<1>3. /\ c \in 1..Len(cs) /\ c # 1 /\ up \in 1..Len(cs) /\ up < c
      /\ cs[up].tree \subseteq cs[c].tree /\ cs[c] \in Commit
      /\ up \in chain \/ up \in Ancestors(cs, from)
  BY ChainFacts, ParentFacts
<1>4. \A k \in chain : k \in Int /\ (k <= c => k <= c - 1 \/ k = c)
  <2> TAKE k \in chain
  <2>1. k \in 1..Len(cs)
    BY ChainFacts
  <2> QED
    BY <1>3, <2>1
<1>5. cs[onto].tree \subseteq H
  <2>1. s.cs[onto].tree \subseteq H /\ s.cs[onto] = cs[onto]
    BY <1>1, BehindFacts
  <2> QED
    BY <2>1
<1>6. ASSUME cs[from].tree \subseteq cs[onto].tree
      PROVE  cs[up].tree \subseteq H
  <2>1. CASE up \in chain
    <3>1. up <= c - 1
      BY <1>3
    <3> QED
      BY <1>2, <1>6, <2>1, <3>1
  <2>2. CASE up \in Ancestors(cs, from)
    BY <1>5, <1>6, <2>2, BehindFacts
  <2> QED
    BY <1>3, <2>1, <2>2
<1>7. Patch(cs, c) = <<cs[up].tree, cs[c].tree>>
  BY <1>3 DEF Patch
<1>8. CASE Patch(cs, c) \in s.pids
  <2>1. Replay(cs, s, c, b) = s
    BY <1>8 DEF Replay
  <2>2. ASSUME cs[from].tree \subseteq cs[onto].tree
        PROVE  \A k \in chain : k <= c => cs[k].tree \subseteq H
    <3>1. cs[c].tree \subseteq H
      BY <1>2, <1>7, <1>8, <2>2
    <3> QED
      BY <1>2, <1>4, <2>2, <3>1
  <2> HIDE DEF chain
  <2> QED
    BY <1>1, <1>2, <2>1, <2>2 DEF ReplayOk, chain
<1>9. CASE Patch(cs, c) \notin s.pids
  <2> DEFINE M == Merged(cs[up].tree, H, cs[c].tree)
             x == [up |-> s.head, tree |-> M, in |-> {b}]
             r == Replay(cs, s, c, b)
             n == Len(s.cs) + 1
  <2>1. r.cs = Append(s.cs, x) /\ r.head = n /\ r.pids = s.pids \cup {Patch(cs, c)}
    BY <1>9 DEF Replay
  <2> HIDE DEF r
  <2>2. H \subseteq Lines /\ cs[c].tree \subseteq Lines /\ s.head \in Nat
    <3>1. s.cs[s.head] \in Commit
      BY <1>1, ParentFacts
    <3> QED
      BY <1>1, <1>3, <3>1 DEF Commit
  <2>3. H \subseteq M /\ (cs[up].tree \subseteq H => cs[c].tree \subseteq M) /\ M \subseteq Lines
    <3>1. PICK base : base = cs[up].tree
      OBVIOUS
    <3>2. PICK theirs : theirs = cs[c].tree
      OBVIOUS
    <3>3. base \subseteq theirs
      BY <1>3, <3>1, <3>2
    <3>4. M = Merged(base, H, theirs)
      BY <3>1, <3>2
    <3> HIDE DEF M, H
    <3> QED
      BY <2>2, <3>1, <3>2, <3>3, <3>4, MergedTrees
  <2> HIDE DEF M
  <2>4. x \in Commit /\ x.up = s.head /\ x.tree = M /\ x.in = {b} /\ s.cs[s.head].tree \subseteq x.tree
    BY <2>2, <2>3 DEF Commit
  <2> HIDE DEF x
  <2>5. /\ r.cs \in Chains /\ Extended(s.cs, r.cs) /\ Len(r.cs) = n /\ r.cs[n] = x
        /\ \A i \in 1..Len(s.cs) : r.cs[i] = s.cs[i]
        /\ Ancestors(r.cs, n) = {n} \cup Ancestors(s.cs, s.head)
    <3>1. s.cs \in Chains /\ s.head \in 1..Len(s.cs)
      BY <1>1
    <3>2. ASSUME NEW ds \in Chains, NEW h \in 1..Len(ds), x.up = h, ds[h].tree \subseteq x.tree
          PROVE  /\ Append(ds, x) \in Chains /\ Extended(ds, Append(ds, x))
                 /\ Len(Append(ds, x)) = Len(ds) + 1 /\ Append(ds, x)[Len(ds) + 1] = x
                 /\ \A i \in 1..Len(ds) : Append(ds, x)[i] = ds[i]
                 /\ Ancestors(Append(ds, x), Len(ds) + 1) = {Len(ds) + 1} \cup Ancestors(ds, h)
      BY <2>4, <3>2, AppendFacts
    <3>3. /\ Append(s.cs, x) \in Chains /\ Extended(s.cs, Append(s.cs, x))
          /\ Len(Append(s.cs, x)) = Len(s.cs) + 1 /\ Append(s.cs, x)[Len(s.cs) + 1] = x
          /\ \A i \in 1..Len(s.cs) : Append(s.cs, x)[i] = s.cs[i]
          /\ Ancestors(Append(s.cs, x), Len(s.cs) + 1) = {Len(s.cs) + 1} \cup Ancestors(s.cs, s.head)
      BY <2>4, <3>1, <3>2, Zenon
    <3> QED
      BY <2>1, <3>3, Zenon
  <2>6. /\ Len(s.cs) \in Nat /\ n \in 1..n /\ Len(cs) \in Nat /\ Len(cs) <= Len(s.cs)
        /\ \A i \in 1..Len(cs) : i \in 1..Len(s.cs)
    <3>1. Len(s.cs) \in Nat /\ Len(cs) \in Nat
      BY <1>1, LenProperties DEF Chains
    <3>2. Len(cs) <= Len(s.cs)
      BY <1>1 DEF Extended
    <3> QED
      BY <3>1, <3>2
  <2> HIDE DEF n
  <2>7. \A i \in 1..Len(cs) : r.cs[i] = cs[i]
    BY <1>1, <2>5, <2>6
  <2>8. Extended(cs, r.cs)
    <3>1. Len(cs) <= Len(r.cs)
      BY <2>5, <2>6 DEF n
    <3> QED
      BY <2>7, <3>1 DEF Extended
  <2>9. \A a \in Ancestors(r.cs, n) : a \in Ancestors(cs, onto) \/ r.cs[a].in = {b}
    <3> TAKE a \in Ancestors(r.cs, n)
    <3>1. CASE a = n
      BY <2>4, <2>5, <3>1
    <3>2. CASE a \in Ancestors(s.cs, s.head)
      <4>1. a \in 1..Len(s.cs)
        BY <1>1, <3>2, BehindFacts
      <4> QED
        BY <1>1, <2>5, <3>2, <4>1
    <3> QED
      BY <2>5, <3>1, <3>2
  <2>10. ASSUME cs[from].tree \subseteq cs[onto].tree
         PROVE  /\ \A pid \in r.pids : pid[2] \subseteq M
                /\ \A k \in chain : k <= c => cs[k].tree \subseteq M
    <3>1. cs[c].tree \subseteq M
      BY <1>6, <2>3, <2>10
    <3>2. Patch(cs, c)[2] = cs[c].tree
      BY <1>7
    <3> HIDE DEF chain, H, up
    <3>3. \A pid \in r.pids : pid[2] \subseteq M
      BY <1>2, <2>1, <2>3, <2>10, <3>1, <3>2
    <3>4. \A k \in chain : k <= c => cs[k].tree \subseteq M
      BY <1>2, <1>4, <2>3, <2>10, <3>1
    <3> QED
      BY <3>3, <3>4
  <2>11. r.head \in 1..Len(r.cs) /\ r.cs[r.head].tree = M
    BY <2>1, <2>4, <2>5, <2>6
  <2>12. onto \in Ancestors(r.cs, r.head)
    BY <1>1, <2>1, <2>5
  <2>13. ReplayOk(cs, from, onto, tip, b, c, r)
    <3> HIDE DEF chain
    <3> QED
      BY <2>1, <2>5, <2>7, <2>8, <2>9, <2>10, <2>11, <2>12 DEF ReplayOk, chain
  <2> QED
    BY <2>13 DEF r
<1> QED
  BY <1>8, <1>9

\* What a rebase makes: commits on top of the new base, all of them in one leaf.
\* If the new base has the lines of the old one, no line of the tip is lost.
LEMMA RebasedFacts ==
  ASSUME NEW cs \in Chains, NEW from \in 1..Len(cs), NEW onto \in 1..Len(cs), NEW tip \in 1..Len(cs),
         NEW b \in Branch
  PROVE  LET r == Rebased(cs, from, onto, tip, b)
         IN  /\ r.cs \in Chains /\ Extended(cs, r.cs) /\ r.head \in 1..Len(r.cs)
             /\ onto \in Ancestors(r.cs, r.head)
             /\ cs[onto].tree \subseteq r.cs[r.head].tree
             /\ \A a \in Ancestors(r.cs, r.head) : a \in Ancestors(cs, onto) \/ r.cs[a].in = {b}
             /\ cs[from].tree \subseteq cs[onto].tree =>
                  cs[tip].tree \subseteq r.cs[r.head].tree
<1> DEFINE L == Len(cs)
           chain == Chain(cs, from, tip)
           start == [cs |-> cs, head |-> onto, pids |-> {Patch(cs, a) : a \in Ancestors(cs, onto)}]
           Step(g, n) == IF n = 0 THEN start
                         ELSE IF n \in chain THEN Replay(cs, g[n-1], n, b) ELSE g[n-1]
           Ok(n, s) == ReplayOk(cs, from, onto, tip, b, n, s)
           Runs(n, g) == g = [i \in 0..n |-> g[i]] /\ \A i \in 0..n : g[i] = Step(g, i)
           T == {n \in 0..L : ~ \E g : Runs(n, g)}
           u == CHOOSE u : u = [n \in 0..L |->
                  IF n = 0 THEN start
                  ELSE IF n \in chain THEN Replay(cs, u[n-1], n, b) ELSE u[n-1]]
           B == {n \in 0..L : ~ Ok(n, u[n])}
<1>1. L \in Nat /\ L \in 0..L
  BY LenProperties DEF Chains
<1>2. \A k \in chain : k \in 1..L
  BY ChainFacts
<1>3. \E g : Runs(0, g)
  <2> DEFINE g == [i \in 0..0 |-> start]
  <2>1. g = [i \in 0..0 |-> g[i]] /\ \A i \in 0..0 : i = 0 /\ g[i] = start
    OBVIOUS
  <2> HIDE DEF g, start
  <2>2. Runs(0, g)
    BY <2>1
  <2> QED
    BY <2>2
<1> HIDE DEF start, chain
<1>4. ASSUME NEW n \in 1..L, NEW g, Runs(n - 1, g)
      PROVE  \E h : Runs(n, h)
  <2> DEFINE top == IF n \in chain THEN Replay(cs, g[n-1], n, b) ELSE g[n-1]
             h == [i \in 0..n |-> IF i < n THEN g[i] ELSE top]
  <2>1. n \in Nat /\ n - 1 \in 0..n-1 /\ n - 1 < n /\ n # 0 /\ ~ (n < n) /\ n - 1 \in 0..n /\ n \in 0..n
    BY <1>1
  <2>2. h = [i \in 0..n |-> h[i]]
    OBVIOUS
  <2>3. h[n] = top /\ h[n-1] = g[n-1]
    BY <2>1
  <2>4. \A i \in 0..n-1 : h[i] = g[i] /\ (i # 0 => i - 1 \in 0..n-1 /\ h[i-1] = g[i-1])
    BY <2>1
  <2> HIDE DEF h
  <2>5. ASSUME NEW i \in 0..n
        PROVE  h[i] = Step(h, i)
    <3>1. CASE i = n
      BY <2>1, <2>3, <3>1
    <3>2. CASE i # n
      <4>1. i \in 0..n-1
        BY <2>1, <3>2
      <4>2. g[i] = Step(g, i)
        BY <1>4, <4>1
      <4> QED
        BY <2>4, <4>1, <4>2
    <3> QED
      BY <3>1, <3>2
  <2> QED
    BY <2>2, <2>5
<1>5. T = {}
  <2> SUFFICES ASSUME T # {} PROVE FALSE
    OBVIOUS
  <2>1. PICK n \in T : \A k \in T : ~ (k < n)
    <3>1. T \in SUBSET Nat
      BY <1>1
    <3> HIDE DEF T
    <3> QED
      BY <3>1, LeastExists
  <2>2. n \in 0..L /\ ~ \E g : Runs(n, g)
    OBVIOUS
  <2> HIDE DEF Runs
  <2>3. n # 0
    BY <1>3, <2>2
  <2>4. n \in 1..L /\ n - 1 \in 0..L /\ n - 1 < n
    <3> HIDE DEF T
    <3> QED
      BY <1>1, <2>2, <2>3
  <2>5. \E g : Runs(n - 1, g)
    BY <2>1, <2>4
  <2> QED
    BY <1>4, <2>2, <2>4, <2>5
<1>6. u = [n \in 0..L |-> IF n = 0 THEN start
                          ELSE IF n \in chain THEN Replay(cs, u[n-1], n, b) ELSE u[n-1]]
  <2>1. PICK g : Runs(L, g)
    BY <1>1, <1>5
  <2>2. g = [n \in 0..L |-> IF n = 0 THEN start
                            ELSE IF n \in chain THEN Replay(cs, g[n-1], n, b) ELSE g[n-1]]
    BY <2>1
  <2> QED
    BY <2>2
<1>7. Rebased(cs, from, onto, tip, b) = u[L]
  BY DEF Rebased, Replay, start, chain
<1> HIDE DEF u
<1>8. Ok(0, u[0])
  <2>1. u[0] = start
    BY <1>1, <1>6
  <2>2. start.cs = cs /\ start.head = onto /\ start.pids = {Patch(cs, a) : a \in Ancestors(cs, onto)}
    BY DEF start
  <2>3. Extended(cs, cs)
    BY <1>1 DEF Extended
  <2>4. onto \in Ancestors(cs, onto)
    <3>1. onto \in 0..L /\ onto # 0
      BY <1>1
    <3> QED
      BY <3>1, AncestorsFacts
  <2>5. \A pid \in start.pids : pid[2] \subseteq cs[onto].tree
    <3>1. \A a : Patch(cs, a)[2] = cs[a].tree
      BY DEF Patch
    <3>2. \A a \in Ancestors(cs, onto) : cs[a].tree \subseteq cs[onto].tree
      BY BehindFacts
    <3> QED
      BY <2>2, <3>1, <3>2
  <2>6. \A k \in Chain(cs, from, tip) : ~ (k <= 0)
    <3>1. \A k \in Chain(cs, from, tip) : k \in 1..L
      BY ChainFacts
    <3> QED
      BY <1>1, <3>1
  <2>7. ReplayOk(cs, from, onto, tip, b, 0, start)
    BY <2>2, <2>3, <2>4, <2>5, <2>6 DEF ReplayOk
  <2> QED
    BY <2>1, <2>7
<1>9. ASSUME NEW n \in 1..L, Ok(n - 1, u[n - 1])
      PROVE  Ok(n, u[n])
  <2>1. n \in 0..L /\ n # 0
    BY <1>1
  <2>2. u[n] = IF n \in chain THEN Replay(cs, u[n-1], n, b) ELSE u[n-1]
    BY <1>6, <2>1
  <2>3. CASE n \in chain
    BY <1>9, <2>2, <2>3, ReplayKeeps DEF chain
  <2>4. CASE n \notin chain
    <3>1. \A k \in chain : k <= n => k <= n - 1
      BY <1>2, <2>4
    <3>2. u[n] = u[n-1]
      BY <2>2, <2>4
    <3> DEFINE s == u[n-1]
    <3>3. ReplayOk(cs, from, onto, tip, b, n - 1, s)
      BY <1>9
    <3> HIDE DEF s
    <3>4. ReplayOk(cs, from, onto, tip, b, n, s)
      BY <3>1, <3>3 DEF ReplayOk, chain
    <3> QED
      BY <3>2, <3>4 DEF s
  <2> QED
    BY <2>3, <2>4
<1> HIDE DEF Ok
<1>10. B = {}
  <2> SUFFICES ASSUME B # {} PROVE FALSE
    OBVIOUS
  <2>1. PICK n \in B : \A k \in B : ~ (k < n)
    <3>1. B \in SUBSET Nat
      BY <1>1
    <3> HIDE DEF B
    <3> QED
      BY <3>1, LeastExists
  <2>2. n \in 0..L /\ ~ Ok(n, u[n])
    OBVIOUS
  <2>3. n # 0
    BY <1>8, <2>2
  <2>4. n \in 1..L /\ n - 1 \in 0..L /\ n - 1 < n
    <3> HIDE DEF B
    <3> QED
      BY <1>1, <2>2, <2>3
  <2>5. Ok(n - 1, u[n - 1])
    BY <2>1, <2>4
  <2> QED
    BY <1>9, <2>2, <2>4, <2>5
<1> DEFINE r == u[L]
<1>11. ReplayOk(cs, from, onto, tip, b, L, r)
  BY <1>1, <1>10 DEF Ok
<1> HIDE DEF r
<1>12. /\ r.cs \in Chains /\ Extended(cs, r.cs) /\ r.head \in 1..Len(r.cs)
       /\ onto \in Ancestors(r.cs, r.head)
       /\ \A i \in 1..Len(cs) : r.cs[i] = cs[i]
       /\ \A a \in Ancestors(r.cs, r.head) : a \in Ancestors(cs, onto) \/ r.cs[a].in = {b}
  BY <1>11 DEF ReplayOk
<1>13. cs[onto].tree \subseteq r.cs[r.head].tree
  <2>1. r.cs[onto].tree \subseteq r.cs[r.head].tree
    BY <1>12, BehindFacts
  <2> QED
    BY <1>12, <2>1
<1>14. ASSUME cs[from].tree \subseteq cs[onto].tree
       PROVE  cs[tip].tree \subseteq r.cs[r.head].tree
  <2>1. CASE tip \in Chain(cs, from, tip)
    <3>1. tip <= L
      BY <1>1
    <3> QED
      BY <1>11, <1>14, <2>1, <3>1 DEF ReplayOk
  <2>2. CASE tip \notin Chain(cs, from, tip)
    <3>1. tip \in Ancestors(cs, tip)
      <4>1. tip \in 0..L /\ tip # 0
        BY <1>1
      <4> QED
        BY <4>1, AncestorsFacts
    <3>2. tip \in Ancestors(cs, from)
      BY <2>2, <3>1 DEF Chain
    <3>3. cs[tip].tree \subseteq cs[from].tree
      BY <3>2, BehindFacts
    <3> QED
      BY <1>13, <1>14, <3>3
  <2> QED
    BY <2>1, <2>2
<1> QED
  BY <1>7, <1>12, <1>13, <1>14 DEF r

\* Two commits have a latest common ancestor.
LEMMA ForkFacts ==
  ASSUME commits \in Chains, NEW a \in 1..Len(commits), NEW c \in 1..Len(commits)
  PROVE  /\ Fork(a, c) \in Behind(a) /\ Fork(a, c) \in Behind(c)
         /\ Fork(a, c) \in 1..Len(commits)
         /\ commits[Fork(a, c)].tree \subseteq commits[a].tree
<1> DEFINE S == Behind(a) \cap Behind(c)
<1>1. 1 \in S /\ S \in SUBSET (1..Len(commits))
  BY BehindFacts DEF Behind
<1>2. Len(commits) \in Nat
  BY LenProperties DEF Chains
<1>3. \A x \in S : x \in Int
  BY <1>1
<1> HIDE DEF S
<1>4. PICK m \in S : \A k \in S : k <= m
  BY <1>1, <1>2, GreatestExists
<1>5. \E x \in S : \A y \in S : x >= y
  BY <1>3, <1>4
<1>6. Last(S) \in S
  BY <1>5 DEF Last
<1>7. Fork(a, c) \in S
  BY <1>6 DEF Fork, S
<1> QED
  BY <1>1, <1>7, BehindFacts DEF S, Behind

----------------------------------------------------------------------------
\* The inductive invariant

CommitNo == 1..Len(commits)
History  == commits \in Chains /\ Len(commits) # 0

\* A branch's line has a commit's whole history, unless a put has packed commits
\* into another line.
Sees(b, c) == Siblings \/ SeenFrom(Above(b), c)

Carries(c, d) == commits[c].tree \subseteq commits[d].tree

Move == [b : Branch, old : CommitNo, new : CommitNo]

\* What the cascade has made of a branch
Recs == {r \in Move : Carries(r.old, r.new) /\ Sees(r.b, r.new)}

\* What it has yet to look at: a branch, and the tip that the branch above had
\* and has
Todo == {k \in Move : Up[k.b] # None /\ Carries(k.old, k.new) /\ Sees(Up[k.b], k.new)}
Kid  == {k \in [b : Branch, tip : CommitNo, old : CommitNo, new : CommitNo] :
           Up[k.b] # None /\ Carries(k.old, k.new) /\ Sees(Up[k.b], k.new)}

PostType ==
  [cmd : {"post"}, at : {"replay", "walk", "switch", "ref", "persist"},
   old : CommitNo, new : CommitNo, todo : Seq(SUBSET Todo), kid : Kid \cup {<<>>},
   recs : Seq(Recs), made : Seq(Recs)]

Members(s) == {s[i] : i \in 1..Len(s)}
Done(j)    == Members(j.recs) \cup Members(j.made)

\* The cascade has made this the tip of that branch.
Made(w, j, b, c) == \/ b = wt[w].b /\ c = j.new
                    \/ \E r \in Done(j) : r.b = b /\ r.new = c

\* The cascade's branches are strictly below the post's.
Under(w, b) == wt[w].b \in Above(Up[b])

\* What is done stands on what was made of the branch above, each branch once.
DoneShape(w, j) ==
  /\ \A r \in Done(j) :
       /\ Under(w, r.b)
       /\ \E c \in CommitNo : Made(w, j, Up[r.b], c) /\ (r.new = r.old \/ c \in Behind(r.new))
  /\ \A r, s \in Done(j) : r.b = s.b => r = s

\* What is to be done will stand on it, and is not done yet.
TodoShape(w, j) ==
  /\ \A i \in 1..Len(j.todo) : \A k \in j.todo[i] :
       /\ Under(w, k.b) /\ Made(w, j, Up[k.b], k.new)
       /\ \A r \in Done(j) : r.b # k.b
       /\ \A n \in 1..Len(j.todo) : \A l \in j.todo[n] : l.b = k.b => n = i /\ l = k

KidShape(w, j) ==
  /\ j.kid # <<>> /\ Under(w, j.kid.b) /\ Made(w, j, Up[j.kid.b], j.kid.new)
  /\ \A r \in Done(j) : r.b # j.kid.b
  /\ \A i \in 1..Len(j.todo) : \A k \in j.todo[i] : k.b # j.kid.b

PostShape(w, j) ==
  /\ j \in PostType
  /\ j.at = "replay" => lock[wt[w].b] = w /\ j.recs = <<>>
  /\ j.at # "replay" => Carries(j.old, j.new) /\ Sees(wt[w].b, j.new)
  /\ j.at # "persist" => j.made = <<>>
  /\ DoneShape(w, j)
  /\ j.at \in {"walk", "switch"} => TodoShape(w, j)
  /\ j.at = "switch" => KidShape(w, j)

JobType(cmd, ats) ==
  [cmd : {cmd}, at : ats, b : Branch, old : 0..Len(commits), new : 0..Len(commits)]

PutShape(w, j) ==
  /\ j \in JobType("put", {"create"})
  /\ lock[wt[w].b] = w
  /\ j.new # 0 /\ Sees(j.b, j.new) /\ Sees(j.b, wt[w].c)

PromoteShape(w, j) ==
  /\ j \in JobType("promote", {"switch", "move", "ref"})
  /\ j.old # 0 /\ Sees(j.b, j.old)
  /\ j.at = "move" => lock[j.b] = w \/ Sees(j.b, wt[w].c)
  /\ j.at = "ref" => j.new # 0 /\ Carries(j.old, j.new) /\ Sees(j.b, j.new)

SetShape(w, j) ==
  /\ j \in JobType("set", {"switch", "write"})
  /\ j.new # 0 /\ (j.old # 0 => Sees(j.b, j.old))
  /\ j.at = "write" => lock[j.b] = w

GetShape(w, j) ==
  /\ j \in JobType("get", {"switch", "check", "write"})
  /\ j.new # 0 /\ Sees(j.b, j.new)

JobShape(w, j) ==
  \/ j = Idle
  \/ PostShape(w, j) \/ PutShape(w, j) \/ PromoteShape(w, j) \/ SetShape(w, j) \/ GetShape(w, j)

\* A command holds one lock.
LockShape(w, j) ==
  IF j = Idle THEN \A b \in Branch : lock[b] # w
  ELSE \E b \in Branch : \A d \in Branch : lock[d] = w <=> d = b

TipsShape == /\ tips \in [Branch -> 0..Len(commits)]
             /\ \A b \in Branch : tips[b] # 0 => Sees(b, tips[b])
WtShape   == /\ wt \in [Wt -> [b : Branch, c : CommitNo]]
             /\ \A w \in Wt : tips[wt[w].b] # 0 /\ Sees(wt[w].b, wt[w].c)

IInv ==
  /\ History
  /\ TipsShape /\ WtShape
  /\ lock \in [Branch -> Wt \cup {None}]
  /\ DOMAIN job = Wt /\ job = [w \in Wt |-> job[w]]
  /\ \A w \in Wt : JobShape(w, job[w]) /\ LockShape(w, job[w])

----------------------------------------------------------------------------
\* What holds of the commits there were goes on holding

LEMMA GrowthFacts ==
  ASSUME commits \in Chains, commits' \in Chains, Extended(commits, commits')
  PROVE  /\ \A c \in 0..Len(commits) : /\ c \in 0..Len(commits)' /\ Behind(c)' = Behind(c)
                                      /\ \A b : Sees(b, c) => Sees(b, c)'
         /\ \A c \in CommitNo : c \in CommitNo' /\ c \in 0..Len(commits)
         /\ \A c, d \in CommitNo : Carries(c, d) => Carries(c, d)'
         /\ Len(commits) \in Nat /\ Len(commits)' \in Nat
<1>1. ASSUME NEW c \in 0..Len(commits)
      PROVE  /\ c \in 0..Len(commits') /\ Ancestors(commits', c) = Ancestors(commits, c)
             /\ \A bs : SeenIn(commits, bs, c) => SeenIn(commits', bs, c)
  BY ExtendedFacts
<1>2. Len(commits) \in Nat /\ Len(commits') \in Nat /\ Len(commits) <= Len(commits')
  BY LenProperties DEF Chains, Extended
<1>3. \A c \in CommitNo : c \in CommitNo' /\ c \in 0..Len(commits)
  BY <1>2 DEF CommitNo
<1>4. \A c, d \in CommitNo : Carries(c, d) => Carries(c, d)'
  BY DEF Carries, CommitNo, Extended
<1>5. \A c \in 0..Len(commits) : Behind(c)' = Behind(c)
  BY <1>1 DEF Behind
<1>6. \A c \in 0..Len(commits) : \A b : Sees(b, c) => Sees(b, c)'
  BY <1>1 DEF Sees, SeenFrom
<1> QED
  BY <1>1, <1>2, <1>3, <1>4, <1>5, <1>6

LEMMA MovesKept ==
  ASSUME commits \in Chains, commits' \in Chains, Extended(commits, commits')
  PROVE  Recs \subseteq Recs' /\ Todo \subseteq Todo' /\ Kid \subseteq Kid'
<1>1. /\ \A c \in CommitNo : c \in CommitNo'
      /\ \A c \in CommitNo : \A b : Sees(b, c) => Sees(b, c)'
      /\ \A c, d \in CommitNo : Carries(c, d) => Carries(c, d)'
  BY GrowthFacts
<1>2. ASSUME NEW r \in Recs
      PROVE  r \in Recs'
  <2>1. r \in Move /\ Carries(r.old, r.new) /\ Sees(r.b, r.new)
    BY DEF Recs
  <2>2. r \in Move' /\ r.old \in CommitNo /\ r.new \in CommitNo
    BY <1>1, <2>1 DEF Move
  <2> QED
    BY <1>1, <2>1, <2>2 DEF Recs
<1>3. ASSUME NEW k \in Todo
      PROVE  k \in Todo'
  <2>1. k \in Move /\ Up[k.b] # None /\ Carries(k.old, k.new) /\ Sees(Up[k.b], k.new)
    BY DEF Todo
  <2>2. k \in Move' /\ k.old \in CommitNo /\ k.new \in CommitNo
    BY <1>1, <2>1 DEF Move
  <2> QED
    BY <1>1, <2>1, <2>2 DEF Todo
<1>4. ASSUME NEW k \in Kid
      PROVE  k \in Kid'
  <2>1. /\ k \in [b : Branch, tip : CommitNo, old : CommitNo, new : CommitNo]
        /\ Up[k.b] # None /\ Carries(k.old, k.new) /\ Sees(Up[k.b], k.new)
    BY DEF Kid
  <2>2. /\ k \in [b : Branch, tip : CommitNo', old : CommitNo', new : CommitNo']
        /\ k.old \in CommitNo /\ k.new \in CommitNo
    BY <1>1, <2>1
  <2>3. Carries(k.old, k.new)' /\ Sees(Up[k.b], k.new)'
    BY <1>1, <2>1, <2>2
  <2> QED
    BY <2>1, <2>2, <2>3 DEF Kid
<1> QED
  BY <1>2, <1>3, <1>4

\* What a command has seen stays true while others work.
LEMMA ShapeKept ==
  ASSUME commits \in Chains, commits' \in Chains, Extended(commits, commits'),
         NEW w \in Wt, NEW j, JobShape(w, j), wt'[w] = wt[w], wt[w] \in [b : Branch, c : CommitNo],
         j.at = "switch" \/ \A b \in Branch : lock[b] = w => lock'[b] = w
  PROVE  JobShape(w, j)'
<1>1. /\ \A c \in 0..Len(commits) : /\ c \in 0..Len(commits)' /\ Behind(c)' = Behind(c)
                                   /\ \A b : Sees(b, c) => Sees(b, c)'
      /\ \A c \in CommitNo : c \in CommitNo' /\ c \in 0..Len(commits)
      /\ \A c, d \in CommitNo : Carries(c, d) => Carries(c, d)'
  BY GrowthFacts
<1>2. Recs \subseteq Recs' /\ Todo \subseteq Todo' /\ Kid \subseteq Kid'
  BY MovesKept
<1>3. ASSUME PostShape(w, j)
      PROVE  PostShape(w, j)'
  <2>1. j \in PostType
    BY <1>3 DEF PostShape
  <2>2. j \in PostType'
    <3>1. /\ j \in [cmd : {"post"}, at : {"replay", "walk", "switch", "ref", "persist"},
                    old : CommitNo, new : CommitNo, todo : Seq(SUBSET Todo), kid : Kid \cup {<<>>},
                    recs : Seq(Recs), made : Seq(Recs)]
      BY <2>1 DEF PostType
    <3>2. Seq(SUBSET Todo) \subseteq Seq(SUBSET (Todo')) /\ Seq(Recs) \subseteq Seq(Recs')
      BY <1>2
    <3> HIDE DEF Recs, Todo, Kid, CommitNo
    <3>3. /\ j \in [cmd : {"post"}, at : {"replay", "walk", "switch", "ref", "persist"},
                    old : CommitNo', new : CommitNo', todo : Seq(SUBSET (Todo')), kid : Kid' \cup {<<>>},
                    recs : Seq(Recs'), made : Seq(Recs')]
      BY <1>1, <1>2, <3>1, <3>2
    <3> QED
      BY <3>3 DEF PostType
  <2>3. /\ j.at = "replay" => lock'[wt[w].b] = w /\ j.recs = <<>>
        /\ j.at # "replay" => Carries(j.old, j.new)' /\ Sees(wt[w].b, j.new)'
    <3>1. j.old \in CommitNo /\ j.new \in CommitNo
      BY <2>1 DEF PostType
    <3> QED
      BY <1>1, <1>3, <3>1 DEF PostShape
  <2>4. \A b, c : Made(w, j, b, c)' <=> Made(w, j, b, c)
    BY DEF Made, Done
  <2>5. \A b : Under(w, b)' <=> Under(w, b)
    BY DEF Under
  <2>6. DoneShape(w, j)'
    <3>1. DoneShape(w, j)
      BY <1>3 DEF PostShape
    <3>2. \A r \in Done(j) : r.new \in CommitNo
      <4>1. \A i \in 1..Len(j.recs) : j.recs[i] \in Recs
        BY <2>1 DEF PostType
      <4>2. \A i \in 1..Len(j.made) : j.made[i] \in Recs
        BY <2>1 DEF PostType
      <4> QED
        BY <4>1, <4>2 DEF Done, Members, Recs, Move
    <3>3. ASSUME NEW r \in Done(j)
          PROVE  \E c \in CommitNo' : Made(w, j, Up[r.b], c)' /\ (r.new = r.old \/ c \in Behind(r.new)')
      <4>1. PICK c \in CommitNo : Made(w, j, Up[r.b], c) /\ (r.new = r.old \/ c \in Behind(r.new))
        BY <3>1 DEF DoneShape
      <4>2. Behind(r.new)' = Behind(r.new) /\ c \in CommitNo'
        BY <1>1, <3>2
      <4> QED
        BY <2>4, <4>1, <4>2
    <3>4. \A r \in Done(j) : Under(w, r.b)'
      BY <2>5, <3>1 DEF DoneShape
    <3>5. \A r, s \in Done(j) : r.b = s.b => r = s
      BY <3>1 DEF DoneShape
    <3> QED
      BY <3>3, <3>4, <3>5 DEF DoneShape, Done
  <2>7. TodoShape(w, j) => TodoShape(w, j)'
    BY <2>4, <2>5 DEF TodoShape, Done
  <2>8. KidShape(w, j) => KidShape(w, j)'
    BY <2>4, <2>5 DEF KidShape, Done
  <2> HIDE DEF PostType, DoneShape, TodoShape, KidShape, Carries, Sees
  <2> QED
    BY <1>3, <2>2, <2>3, <2>6, <2>7, <2>8 DEF PostShape
<1>4. ASSUME NEW cmd, NEW ats, j \in JobType(cmd, ats)
      PROVE  /\ j \in JobType(cmd, ats)' /\ j.new \in 0..Len(commits) /\ j.old \in 0..Len(commits)
  BY <1>1, <1>4 DEF JobType
<1>5. wt[w].b \in Branch /\ wt[w].c \in 0..Len(commits)
  BY <1>1
<1>6. ASSUME PutShape(w, j)
      PROVE  PutShape(w, j)'
  <2>1. /\ j \in JobType("put", {"create"}) /\ lock[wt[w].b] = w /\ j.new # 0
        /\ Sees(j.b, j.new) /\ Sees(j.b, wt[w].c)
    BY <1>6 DEF PutShape
  <2>2. j \in JobType("put", {"create"})' /\ j.new \in 0..Len(commits)
    BY <1>4, <2>1
  <2>3. Sees(j.b, j.new)'
    BY <1>1, <2>1, <2>2
  <2>4. Sees(j.b, wt[w].c)'
    <3>1. PICK c : c = wt[w].c
      OBVIOUS
    <3>2. Sees(j.b, c)' /\ c = wt'[w].c
      BY <1>1, <1>5, <2>1, <3>1
    <3> QED
      BY <3>2 DEF Sees, SeenFrom
  <2>5. lock'[wt'[w].b] = w
    <3>1. j.at = "create"
      BY <2>1 DEF JobType
    <3> QED
      BY <1>5, <2>1, <3>1
  <2> QED
    BY <2>1, <2>2, <2>3, <2>4, <2>5 DEF PutShape
<1>7. ASSUME PromoteShape(w, j)
      PROVE  PromoteShape(w, j)'
  <2>1. j \in JobType("promote", {"switch", "move", "ref"})
    BY <1>7 DEF PromoteShape
  <2>2. j.new # 0 => j.new \in CommitNo
    BY <1>4, <2>1 DEF CommitNo
  <2>3. j.old # 0 => j.old \in CommitNo
    BY <1>4, <2>1 DEF CommitNo
  <2>4. j.b \in Branch
    BY <2>1 DEF JobType
  <2> QED
    BY <1>1, <1>4, <1>5, <1>7, <2>1, <2>2, <2>3, <2>4 DEF PromoteShape
<1>8. ASSUME SetShape(w, j)
      PROVE  SetShape(w, j)'
  <2>1. j \in JobType("set", {"switch", "write"}) /\ j.b \in Branch
    BY <1>8 DEF SetShape, JobType
  <2> QED
    BY <1>1, <1>4, <1>8, <2>1 DEF SetShape
<1>9. ASSUME GetShape(w, j)
      PROVE  GetShape(w, j)'
  BY <1>1, <1>4, <1>9 DEF GetShape
<1> QED
  BY <1>3, <1>6, <1>7, <1>8, <1>9 DEF JobShape

----------------------------------------------------------------------------
\* What every step does to the rest

\* A command ends with no lock, holds the one it had, or moves to one that is free.
LockStep(w, j) ==
  \/ j = Idle /\ lock' = Dropped(w)
  \/ (j = Idle <=> job[w] = Idle) /\ lock' = lock
  \/ j # Idle /\ \E b \in Branch : (Free(b) \/ lock[b] = w) /\ lock' = Taken(w, b)

\* Other worktrees' locks are as they were.
LEMMA LocksKept ==
  ASSUME IInv, NEW w \in Wt, NEW j, LockStep(w, j)
  PROVE  /\ lock' \in [Branch -> Wt \cup {None}]
         /\ \A v \in Wt \ {w} : \A b \in Branch : lock'[b] = v <=> lock[b] = v
         /\ LockShape(w, j)'
<1>1. lock \in [Branch -> Wt \cup {None}] /\ LockShape(w, job[w])
  BY DEF IInv
<1>2. None \notin Wt
  BY UpAssumption
<1>3. CASE j = Idle /\ lock' = Dropped(w)
  BY <1>1, <1>2, <1>3 DEF Dropped, LockShape
<1>4. CASE (j = Idle <=> job[w] = Idle) /\ lock' = lock
  BY <1>1, <1>4 DEF LockShape
<1>5. CASE j # Idle /\ \E b \in Branch : (Free(b) \/ lock[b] = w) /\ lock' = Taken(w, b)
  <2>1. PICK b \in Branch : (Free(b) \/ lock[b] = w) /\ lock' = Taken(w, b)
    BY <1>5
  <2>2. lock' = [d \in Branch |-> IF d = b THEN w ELSE IF lock[d] = w THEN None ELSE lock[d]]
    BY <2>1 DEF Taken, Dropped
  <2>3. \A d \in Branch : lock'[d] = w <=> d = b
    BY <1>2, <2>2
  <2>4. LockShape(w, j)'
    BY <1>5, <2>3 DEF LockShape
  <2>5. \A v \in Wt \ {w} : \A d \in Branch : lock'[d] = v <=> lock[d] = v
    BY <1>2, <2>1, <2>2 DEF Free
  <2> QED
    BY <1>1, <2>2, <2>4, <2>5
<1> QED
  BY <1>3, <1>4, <1>5 DEF LockStep

\* A good step: the invariant goes on, and so does every commit.
Advance == IInv' /\ Extended(commits, commits')

\* A step that leaves its own command, the tips and its own worktree in order
\* keeps the whole.
LEMMA StepKeeps ==
  ASSUME IInv, NEW w \in Wt, NEW j,
         commits' \in Chains, Extended(commits, commits'),
         job' = [job EXCEPT ![w] = j], JobShape(w, j)', LockStep(w, j),
         TipsShape', WtShape', \A v \in Wt \ {w} : wt'[v] = wt[v]
  PROVE  Advance
<1>1. /\ lock' \in [Branch -> Wt \cup {None}]
      /\ \A v \in Wt \ {w} : \A b \in Branch : lock'[b] = v <=> lock[b] = v
      /\ LockShape(w, j)'
  BY LocksKept
<1>2. commits \in Chains /\ Len(commits) # 0 /\ WtShape
  BY DEF IInv, History
<1>3. Len(commits') # 0
  <2>1. Len(commits) \in Nat /\ Len(commits') \in Nat /\ Len(commits) <= Len(commits')
    BY <1>2, LenProperties DEF Chains, Extended
  <2> QED
    BY <1>2, <2>1
<1>4. DOMAIN job = Wt /\ job = [v \in Wt |-> job[v]]
  BY DEF IInv
<1>5. DOMAIN job' = Wt /\ job'[w] = j /\ \A v \in Wt \ {w} : job'[v] = job[v]
  BY <1>4
<1>6. job' = [v \in Wt |-> job'[v]]
  BY <1>4
<1>7. ASSUME NEW v \in Wt \ {w}
      PROVE  JobShape(v, job[v])' /\ LockShape(v, job[v])'
  <2>1. PICK k : k = job[v]
    OBVIOUS
  <2>2. k = job'[v]
    BY <1>5, <2>1
  <2>3. JobShape(v, k) /\ LockShape(v, k)
    BY <2>1 DEF IInv
  <2>4. wt'[v] = wt[v] /\ wt[v] \in [b : Branch, c : CommitNo]
    BY <1>2 DEF WtShape
  <2>5. \A b \in Branch : lock[b] = v => lock'[b] = v
    BY <1>1
  <2>6. JobShape(v, k)'
    BY <1>2, <2>3, <2>4, <2>5, ShapeKept
  <2>7. LockShape(v, k)'
    <3>1. CASE k = Idle
      BY <1>1, <2>3, <3>1 DEF LockShape
    <3>2. CASE k # Idle
      <4>1. PICK b \in Branch : \A d \in Branch : lock[d] = v <=> d = b
        BY <2>3, <3>2 DEF LockShape
      <4>2. \A d \in Branch : lock'[d] = v <=> d = b
        BY <1>1, <4>1
      <4> QED
        BY <3>2, <4>2 DEF LockShape
    <3> QED
      BY <3>1, <3>2
  <2> QED
    BY <2>2, <2>6, <2>7
<1>8. ASSUME NEW v \in Wt
      PROVE  JobShape(v, job[v])' /\ LockShape(v, job[v])'
  <2>1. CASE v = w
    BY <1>1, <1>5, <2>1
  <2>2. CASE v # w
    BY <1>7, <2>2
  <2> QED
    BY <2>1, <2>2
<1> QED
  BY <1>1, <1>3, <1>5, <1>6, <1>8 DEF IInv, History, Advance

LEMMA Unchanged ==
  ASSUME IInv, commits' = commits
  PROVE  commits' \in Chains /\ Extended(commits, commits')
<1>1. commits \in Chains /\ Len(commits) \in Nat
  BY LenProperties DEF IInv, History, Chains
<1> QED
  BY <1>1 DEF Extended

\* A tip moves to a commit that its branch's line has.
LEMMA TipsKept ==
  ASSUME IInv, commits' \in Chains, Extended(commits, commits'),
         NEW b \in Branch, NEW c, tips' = [tips EXCEPT ![b] = c],
         c = tips[b] \/ (c \in CommitNo' /\ Sees(b, c)')
  PROVE  TipsShape' /\ \A d \in Branch : tips[d] # 0 => tips'[d] # 0
<1>1. /\ commits \in Chains /\ tips \in [Branch -> 0..Len(commits)]
      /\ \A d \in Branch : tips[d] # 0 => Sees(d, tips[d])
  BY DEF IInv, History, TipsShape
<1>2. /\ \A n \in 0..Len(commits) : n \in 0..Len(commits)' /\ \A d : Sees(d, n) => Sees(d, n)'
      /\ Len(commits)' \in Nat
  BY <1>1, GrowthFacts
<1>3. ASSUME NEW d \in Branch
      PROVE  /\ tips'[d] \in 0..Len(commits)' /\ (tips[d] # 0 => tips'[d] # 0)
             /\ (tips'[d] # 0 => Sees(d, tips[d])')
  <2>1. PICK n : n = tips'[d]
    OBVIOUS
  <2>2. CASE n = tips[d]
    <3>1. n \in 0..Len(commits) /\ (n # 0 => Sees(d, n))
      BY <1>1, <2>2
    <3> QED
      BY <1>2, <2>1, <2>2, <3>1
  <2>3. CASE n # tips[d]
    <3>1. d = b /\ n = c /\ c \in CommitNo' /\ Sees(b, c)'
      BY <1>1, <2>1, <2>3
    <3>2. n # 0 /\ n \in 0..Len(commits)'
      BY <1>2, <3>1 DEF CommitNo
    <3> QED
      BY <2>1, <3>1, <3>2
  <2> QED
    BY <2>2, <2>3
<1>4. DOMAIN tips' = Branch /\ tips' = [d \in Branch |-> tips'[d]]
  BY <1>1
<1> QED
  BY <1>3, <1>4 DEF TipsShape

LEMMA TipsSame ==
  ASSUME IInv, commits' \in Chains, Extended(commits, commits'), UNCHANGED tips
  PROVE  TipsShape' /\ \A d \in Branch : tips[d] # 0 => tips'[d] # 0
<1>1. PICK b \in Branch : TRUE
  BY UpAssumption
<1>2. PICK c : c = tips[b]
  OBVIOUS
<1>3. tips' = [tips EXCEPT ![b] = c]
  BY <1>2 DEF IInv, TipsShape
<1> QED
  BY <1>2, <1>3, TipsKept

LEMMA WtSame ==
  ASSUME IInv, commits' \in Chains, Extended(commits, commits'), UNCHANGED wt,
         \A d \in Branch : tips[d] # 0 => tips'[d] # 0
  PROVE  WtShape'
<1>1. /\ commits \in Chains /\ wt \in [Wt -> [b : Branch, c : CommitNo]]
      /\ \A v \in Wt : tips[wt[v].b] # 0 /\ Sees(wt[v].b, wt[v].c)
  BY DEF IInv, History, WtShape
<1>2. /\ \A n \in 0..Len(commits) : \A d : Sees(d, n) => Sees(d, n)'
      /\ \A n \in CommitNo : n \in CommitNo' /\ n \in 0..Len(commits)
  BY <1>1, GrowthFacts
<1>3. ASSUME NEW v \in Wt
      PROVE  wt'[v] \in [b : Branch, c : CommitNo'] /\ tips'[wt'[v].b] # 0 /\ Sees(wt[v].b, wt[v].c)'
  <2>1. PICK b, c : b = wt[v].b /\ c = wt[v].c
    OBVIOUS
  <2>2. b \in Branch /\ c \in CommitNo /\ tips[b] # 0 /\ Sees(b, c) /\ wt[v] = [b |-> b, c |-> c]
    BY <1>1, <2>1
  <2>3. c \in CommitNo' /\ Sees(b, c)' /\ tips'[b] # 0
    BY <1>2, <2>2
  <2> QED
    BY <2>2, <2>3
<1>4. wt' = [v \in Wt |-> wt'[v]]
  BY <1>1
<1> QED
  BY <1>3, <1>4 DEF WtShape

\* So a step that leaves tips and worktrees alone has its own command to show.
LEMMA JobStep ==
  ASSUME IInv, NEW w \in Wt, NEW j, commits' \in Chains, Extended(commits, commits'),
         job' = [job EXCEPT ![w] = j], JobShape(w, j)', LockStep(w, j), UNCHANGED <<tips, wt>>
  PROVE  Advance
<1>1. TipsShape' /\ \A d \in Branch : tips[d] # 0 => tips'[d] # 0
  BY TipsSame
<1>2. WtShape'
  BY <1>1, WtSame
<1> QED
  BY <1>1, <1>2, StepKeeps

\* ... and one that moves a tip, that tip as well.
LEMMA TipStep ==
  ASSUME IInv, NEW w \in Wt, NEW j, commits' \in Chains, Extended(commits, commits'),
         job' = [job EXCEPT ![w] = j], JobShape(w, j)', LockStep(w, j), UNCHANGED wt,
         NEW b \in Branch, NEW c, tips' = [tips EXCEPT ![b] = c],
         c = tips[b] \/ (c \in CommitNo' /\ Sees(b, c)')
  PROVE  Advance
<1>1. TipsShape' /\ \A d \in Branch : tips[d] # 0 => tips'[d] # 0
  BY TipsKept
<1>2. WtShape'
  BY <1>1, WtSame
<1> QED
  BY <1>1, <1>2, StepKeeps

----------------------------------------------------------------------------
\* The commands, step by step

\* What is known of a command under way
LEMMA JobFacts ==
  ASSUME IInv, NEW w \in Wt
  PROVE  /\ commits \in Chains /\ Len(commits) \in Nat
         /\ wt[w].b \in Branch /\ wt[w].c \in CommitNo /\ CommitNo \subseteq 0..Len(commits)
         /\ tips[wt[w].b] # 0 /\ Sees(wt[w].b, wt[w].c)
         /\ \A b \in Branch : tips[b] \in 0..Len(commits)
         /\ \A b \in Branch : tips[b] # 0 => tips[b] \in CommitNo /\ Sees(b, tips[b])
         /\ job[w] # Idle => Leaf(w) \in Branch /\ \A b \in Branch : lock[b] = w => Leaf(w) = b
         /\ job[w].cmd = "post" => PostShape(w, job[w])
         /\ job[w].cmd = "put" => PutShape(w, job[w])
         /\ job[w].cmd = "promote" => PromoteShape(w, job[w])
         /\ job[w].cmd = "set" => SetShape(w, job[w])
         /\ job[w].cmd = "get" => GetShape(w, job[w])
<1>1. commits \in Chains /\ Len(commits) \in Nat /\ TipsShape /\ WtShape
  BY LenProperties DEF IInv, History, Chains
<1>2. CommitNo \subseteq 0..Len(commits) /\ \A n \in 0..Len(commits) : n # 0 => n \in CommitNo
  BY <1>1 DEF CommitNo
<1>3. wt[w].b \in Branch /\ wt[w].c \in CommitNo /\ tips[wt[w].b] # 0 /\ Sees(wt[w].b, wt[w].c)
  BY <1>1 DEF WtShape
<1>4. \A b \in Branch : /\ tips[b] \in 0..Len(commits)
                        /\ tips[b] # 0 => tips[b] \in CommitNo /\ Sees(b, tips[b])
  BY <1>1, <1>2 DEF TipsShape
<1>5. ASSUME job[w] # Idle
      PROVE  Leaf(w) \in Branch /\ \A b \in Branch : lock[b] = w => Leaf(w) = b
  <2>1. PICK b \in Branch : \A d \in Branch : lock[d] = w <=> d = b
    BY <1>5 DEF IInv, LockShape
  <2> QED
    BY <2>1 DEF Leaf
<1>6. PICK j : j = job[w]
  OBVIOUS
<1>7. JobShape(w, j)
  BY <1>6 DEF IInv
<1>8. /\ Idle.cmd = "none" /\ (PostShape(w, j) => j.cmd = "post")
      /\ (PutShape(w, j) => j.cmd = "put") /\ (PromoteShape(w, j) => j.cmd = "promote")
      /\ (SetShape(w, j) => j.cmd = "set") /\ (GetShape(w, j) => j.cmd = "get")
  <2>1. Idle.cmd = "none" /\ (PostShape(w, j) => j.cmd = "post")
    BY DEF Idle, PostShape, PostType
  <2>2. (PutShape(w, j) => j.cmd = "put") /\ (PromoteShape(w, j) => j.cmd = "promote")
    BY DEF PutShape, PromoteShape, JobType
  <2>3. (SetShape(w, j) => j.cmd = "set") /\ (GetShape(w, j) => j.cmd = "get")
    BY DEF SetShape, GetShape, JobType
  <2> QED
    BY <2>1, <2>2, <2>3
<1>9. /\ j.cmd = "post" => PostShape(w, j)
      /\ j.cmd = "put" => PutShape(w, j)
      /\ j.cmd = "promote" => PromoteShape(w, j)
      /\ j.cmd = "set" => SetShape(w, j)
      /\ j.cmd = "get" => GetShape(w, j)
  <2> HIDE DEF PostShape, PutShape, PromoteShape, SetShape, GetShape
  <2> QED
    BY <1>7, <1>8 DEF JobShape
<1> QED
  BY <1>1, <1>2, <1>3, <1>4, <1>5, <1>6, <1>9

\* A command in any of the shapes is not idle.
LEMMA AtWork ==
  ASSUME NEW j
  PROVE  /\ j.cmd \in {"post", "put", "promote", "set", "get"} => j # Idle
         /\ j = Idle => \A w : JobShape(w, j)'
BY DEF Idle, JobShape

\* It ends: by itself, or because it fails or dies.
LEMMA EndStep ==
  ASSUME IInv, NEW w \in Wt, commits' \in Chains, Extended(commits, commits'), End(w), UNCHANGED wt,
         \/ UNCHANGED tips
         \/ \E b \in Branch : \E c : /\ tips' = [tips EXCEPT ![b] = c]
                                     /\ c = tips[b] \/ (c \in CommitNo' /\ Sees(b, c)')
  PROVE  Advance
<1>1. job' = [job EXCEPT ![w] = Idle] /\ LockStep(w, Idle)
  BY DEF End, Go, LockStep
<1>2. PICK j : j = Idle
  OBVIOUS
<1>3. job' = [job EXCEPT ![w] = j] /\ LockStep(w, j) /\ JobShape(w, j)'
  BY <1>1, <1>2, AtWork
<1>4. CASE UNCHANGED tips
  BY <1>3, <1>4, JobStep
<1>5. CASE \E b \in Branch : \E c : /\ tips' = [tips EXCEPT ![b] = c]
                                    /\ c = tips[b] \/ (c \in CommitNo' /\ Sees(b, c)')
  <2>1. PICK b \in Branch : \E c : /\ tips' = [tips EXCEPT ![b] = c]
                                   /\ c = tips[b] \/ (c \in CommitNo' /\ Sees(b, c)')
    BY <1>5
  <2>2. PICK c : /\ tips' = [tips EXCEPT ![b] = c]
                 /\ c = tips[b] \/ (c \in CommitNo' /\ Sees(b, c)')
    BY <2>1
  <2> QED
    BY <1>3, <2>2, TipStep
<1> QED
  BY <1>4, <1>5

LEMMA DieStep ==
  ASSUME IInv, NEW w \in Wt, Die(w)
  PROVE  Advance
<1>1. commits' \in Chains /\ Extended(commits, commits')
  BY Unchanged DEF Die
<1> QED
  BY <1>1, EndStep DEF Die

\* It starts with the lock of the worktree's branch.
LEMMA StartFacts ==
  ASSUME IInv, NEW w \in Wt, NEW j, Start(w, j), j # Idle
  PROVE  job' = [job EXCEPT ![w] = j] /\ LockStep(w, j) /\ lock'[wt[w].b] = w
<1>1. lock \in [Branch -> Wt \cup {None}] /\ wt[w].b \in Branch
  BY JobFacts DEF IInv
<1>2. lock' = Taken(w, wt[w].b) /\ Free(wt[w].b) /\ job' = [job EXCEPT ![w] = j]
  BY DEF Start
<1>3. LockStep(w, j)
  BY <1>1, <1>2 DEF LockStep
<1>4. lock'[wt[w].b] = w
  BY <1>1, <1>2 DEF Taken, Dropped
<1> QED
  BY <1>2, <1>3, <1>4

\* It moves to another leaf.
LEMMA SwitchFacts ==
  ASSUME IInv, NEW w \in Wt, NEW b \in Branch, NEW at, Switch(w, b, at), NEW j, j = [job[w] EXCEPT !.at = at],
         j # Idle
  PROVE  job' = [job EXCEPT ![w] = j] /\ LockStep(w, j) /\ lock'[b] = w
<1>1. lock \in [Branch -> Wt \cup {None}]
  BY DEF IInv
<1>2. lock' = Taken(w, b) /\ (Free(b) \/ lock[b] = w) /\ job' = [job EXCEPT ![w] = j]
  BY DEF Switch, Go
<1>3. LockStep(w, j)
  BY <1>2 DEF LockStep
<1>4. lock'[b] = w
  BY <1>1, <1>2 DEF Taken, Dropped
<1> QED
  BY <1>2, <1>3, <1>4

\* A commit of the leaf's line, or one that is in the leaf
LEMMA SeesHere ==
  ASSUME NEW b \in Branch, NEW c,
         \A a \in Behind(c) : commits[a].in \cap Above(b) # {} \/ b \in commits[a].in
  PROVE  Sees(b, c)
<1>1. b \in Above(b)
  BY AboveFacts
<1> QED
  BY <1>1 DEF Sees, SeenFrom, SeenIn, Behind

\* What a branch's line has, those below have.
LEMMA SeesBelow ==
  ASSUME NEW b \in Branch, NEW d \in Branch, b \in Above(d), NEW c, Sees(b, c)
  PROVE  Sees(d, c)
<1>1. Above(b) \subseteq Above(d)
  BY AboveFacts
<1> QED
  BY <1>1, SeenMore DEF Sees, SeenFrom

----------------------------------------------------------------------------
\* put and promote

LEMMA PutStartStep ==
  ASSUME IInv, NEW w \in Wt, NEW b \in Branch, PutStart(w, b)
  PROVE  Advance
<1> DEFINE c   == wt[w].c
           p   == tips[Up[b]]
           sub == wt[w].b \in Above(b)
           r   == IF sub \/ p \in Behind(c) THEN [cs |-> commits, head |-> c]
                  ELSE IF c \in Behind(p)   THEN [cs |-> commits, head |-> p]
                  ELSE Rebased(commits, Fork(c, p), p, c, wt[w].b)
<1>1. /\ b # Trunk /\ p # 0 /\ (Siblings \/ sub \/ c \in Behind(p))
      /\ Start(w, Job("put", "create", b, 0, r.head)) /\ commits' = r.cs /\ UNCHANGED <<tips, wt>>
  BY DEF PutStart
<1>2. /\ commits \in Chains /\ Len(commits) \in Nat /\ wt[w].b \in Branch /\ c \in CommitNo
      /\ CommitNo \subseteq 0..Len(commits) /\ Sees(wt[w].b, c)
      /\ \A d \in Branch : tips[d] # 0 => tips[d] \in CommitNo /\ Sees(d, tips[d])
  BY JobFacts
<1>3. Up[b] \in Branch /\ Above(Up[b]) \subseteq Above(b)
  <2>1. Up[b] # None
    <3>1. PICK t \in Branch : Up[t] = None /\ \A d \in Branch \ {t} : Up[d] # None
      BY UpAssumption
    <3>2. Trunk = t
      BY <3>1 DEF Trunk
    <3> QED
      BY <1>1, <3>1, <3>2
  <2> QED
    BY <2>1, AboveFacts
<1>4. p \in CommitNo /\ Sees(b, p)
  <2>1. p \in CommitNo /\ Sees(Up[b], p)
    BY <1>1, <1>2, <1>3
  <2>2. Up[b] \in Above(b)
    BY <1>3, AboveFacts
  <2> QED
    BY <1>3, <2>1, <2>2, SeesBelow
<1>5. Sees(b, c)
  <2>1. CASE Siblings
    BY <2>1 DEF Sees
  <2>2. CASE sub
    BY <1>2, <2>2, SeesBelow
  <2>3. CASE c \in Behind(p)
    BY <1>2, <1>4, <2>3, SeenBehind DEF Sees, SeenFrom, Behind
  <2> QED
    BY <1>1, <2>1, <2>2, <2>3
<1>6. PICK ds, h : ds = r.cs /\ h = r.head
  OBVIOUS
<1>7. ds \in Chains /\ Extended(commits, ds) /\ h \in 1..Len(ds) /\ (Siblings \/ (ds = commits /\ h \in {c, p}))
  <2>1. Extended(commits, commits)
    BY <1>2 DEF Extended
  <2>2. CASE sub \/ p \in Behind(c)
    BY <1>2, <1>6, <2>1, <2>2 DEF CommitNo
  <2>3. CASE ~(sub \/ p \in Behind(c)) /\ c \in Behind(p)
    BY <1>2, <1>4, <1>6, <2>1, <2>3 DEF CommitNo
  <2>4. CASE ~(sub \/ p \in Behind(c)) /\ c \notin Behind(p)
    <3>1. Siblings
      BY <1>1, <2>4
    <3>2. PICK f : f = Fork(c, p)
      OBVIOUS
    <3>3. f \in 1..Len(commits)
      BY <1>2, <1>4, <3>2, ForkFacts DEF CommitNo
    <3>4. ds = Rebased(commits, f, p, c, wt[w].b).cs /\ h = Rebased(commits, f, p, c, wt[w].b).head
      BY <1>6, <2>4, <3>2
    <3>5. p \in 1..Len(commits) /\ c \in 1..Len(commits)
      BY <1>2, <1>4 DEF CommitNo
    <3>6. ds \in Chains /\ Extended(commits, ds) /\ h \in 1..Len(ds)
      BY <1>2, <3>3, <3>4, <3>5, RebasedFacts
    <3> QED
      BY <3>1, <3>6
  <2> QED
    BY <2>2, <2>3, <2>4
<1>8. PICK j : j = Job("put", "create", b, 0, h)
  OBVIOUS
<1>9. /\ j.cmd = "put" /\ j.at = "create" /\ j.b = b /\ j.new = h
      /\ j = [cmd |-> "put", at |-> "create", b |-> b, old |-> 0, new |-> h]
  BY <1>8 DEF Job
<1>10. j # Idle
  BY <1>9, AtWork
<1>11. job' = [job EXCEPT ![w] = j] /\ LockStep(w, j) /\ lock'[wt[w].b] = w
  <2>1. Start(w, j)
    BY <1>1, <1>6, <1>8
  <2> QED
    BY <1>10, <2>1, StartFacts
<1>12. commits' = ds /\ UNCHANGED <<tips, wt>>
  BY <1>1, <1>6
<1> HIDE DEF r, sub, p
<1>13. commits' \in Chains /\ Extended(commits, commits') /\ Len(commits') \in Nat
  BY <1>7, <1>12, LenProperties DEF Chains
<1>14. \A n \in 0..Len(commits) : \A d : Sees(d, n) => Sees(d, n)'
  BY <1>2, <1>13, GrowthFacts
<1>15. Sees(b, c)'
  <2>1. PICK n : n = c
    OBVIOUS
  <2>2. Sees(b, n)'
    BY <1>2, <1>5, <1>14, <2>1
  <2>3. n = c'
    BY <1>12, <2>1
  <2> QED
    BY <2>2, <2>3
<1>16. Sees(b, h)'
  <2>1. CASE Siblings
    BY <2>1 DEF Sees
  <2>2. CASE h \in {c, p}
    <3>1. h \in 0..Len(commits) /\ Sees(b, h)
      BY <1>2, <1>4, <1>5, <2>2
    <3> QED
      BY <1>14, <3>1
  <2> QED
    BY <1>7, <2>1, <2>2
<1>17. JobShape(w, j)'
  <2>1. h # 0 /\ h \in 0..Len(commits')
    BY <1>7, <1>12, <1>13
  <2>2. j \in JobType("put", {"create"})'
    BY <1>9, <1>13, <2>1 DEF JobType
  <2>3. lock'[wt'[w].b] = w
    BY <1>11, <1>12
  <2> QED
    BY <1>9, <1>15, <1>16, <2>1, <2>2, <2>3 DEF JobShape, PutShape
<1> QED
  BY <1>11, <1>12, <1>13, <1>17, JobStep

\* The value a compare-and-append leaves
LEMMA CasFacts ==
  ASSUME IInv, NEW b \in Branch, NEW old, NEW new, Cas(b, old, new)
  PROVE  \E c : /\ tips' = [tips EXCEPT ![b] = c]
                /\ (tips[b] = old => c = new) /\ (tips[b] # old => c = tips[b])
<1>1. PICK c : c = IF tips[b] = old THEN new ELSE tips[b]
  OBVIOUS
<1>2. tips' = [tips EXCEPT ![b] = c]
  BY <1>1 DEF Cas
<1> QED
  BY <1>1, <1>2

LEMMA PutRefStep ==
  ASSUME IInv, NEW w \in Wt, PutRef(w)
  PROVE  Advance
<1>1. PICK j : j = job[w]
  OBVIOUS
<1>2. /\ j.cmd = "put" /\ Cas(j.b, 0, j.new) /\ UNCHANGED <<commits, wt>>
      /\ IF tips[j.b] = 0 THEN End(w)
         ELSE /\ Go(w, [j EXCEPT !.cmd = "promote", !.at = "move", !.old = tips[j.b]])
              /\ UNCHANGED lock
  BY <1>1 DEF PutRef
<1>3. commits' \in Chains /\ Extended(commits, commits') /\ Len(commits) \in Nat
  BY <1>2, Unchanged, JobFacts
<1>4. PutShape(w, j)
  BY <1>1, <1>2, JobFacts
<1>5. /\ j \in JobType("put", {"create"}) /\ j.b \in Branch /\ j.new \in CommitNo
      /\ Sees(j.b, j.new) /\ Sees(j.b, wt[w].c)
  BY <1>3, <1>4 DEF PutShape, JobType, CommitNo
<1>6. PICK c : /\ tips' = [tips EXCEPT ![j.b] = c]
               /\ (tips[j.b] = 0 => c = j.new) /\ (tips[j.b] # 0 => c = tips[j.b])
  BY <1>2, <1>5, CasFacts
<1>7. c = tips[j.b] \/ (c \in CommitNo' /\ Sees(j.b, c)')
  BY <1>2, <1>5, <1>6 DEF CommitNo, Sees, SeenFrom
<1>8. CASE tips[j.b] = 0
  BY <1>2, <1>3, <1>5, <1>6, <1>7, <1>8, EndStep
<1>9. CASE tips[j.b] # 0
  <2>1. PICK k : k = [j EXCEPT !.cmd = "promote", !.at = "move", !.old = tips[j.b]]
    OBVIOUS
  <2>2. /\ job' = [job EXCEPT ![w] = k] /\ lock' = lock
    BY <1>2, <1>9, <2>1 DEF Go
  <2>3. tips[j.b] \in 0..Len(commits) /\ Sees(j.b, tips[j.b])
    BY <1>5, <1>9, JobFacts
  <2>4. /\ k \in JobType("promote", {"switch", "move", "ref"}) /\ k.b = j.b /\ k.old = tips[j.b]
        /\ k.at = "move" /\ k.cmd = "promote"
    <3>1. j = [cmd |-> "put", at |-> "create", b |-> j.b, old |-> j.old, new |-> j.new]
      BY <1>5 DEF JobType
    <3>2. k = [cmd |-> "promote", at |-> "move", b |-> j.b, old |-> tips[j.b], new |-> j.new]
      BY <2>1, <3>1
    <3>3. j.new \in 0..Len(commits)
      BY <1>5 DEF JobType
    <3> QED
      BY <1>5, <2>3, <3>2, <3>3 DEF JobType
  <2>5. PromoteShape(w, k)
    BY <1>5, <1>9, <2>3, <2>4 DEF PromoteShape
  <2>6. k # Idle /\ j # Idle
    BY <1>2, <2>4, AtWork
  <2>7. LockStep(w, k)
    BY <1>1, <2>2, <2>6 DEF LockStep
  <2>8. JobShape(w, k)'
    <3>1. wt'[w] = wt[w] /\ wt[w] \in [b : Branch, c : CommitNo] /\ JobShape(w, k)
      BY <1>2, <2>5 DEF IInv, WtShape, JobShape
    <3>2. \A b \in Branch : lock[b] = w => lock'[b] = w
      BY <2>2
    <3>3. commits \in Chains
      BY JobFacts
    <3> QED
      BY <1>3, <3>1, <3>2, <3>3, ShapeKept
  <2> QED
    BY <1>2, <1>3, <1>5, <1>6, <1>7, <2>2, <2>7, <2>8, TipStep
<1> QED
  BY <1>8, <1>9

\* A step that takes a command from one place to the next
LEMMA GoFacts ==
  ASSUME IInv, NEW w \in Wt, NEW j, job[w] # Idle, j # Idle, Go(w, j), UNCHANGED lock
  PROVE  job' = [job EXCEPT ![w] = j] /\ LockStep(w, j)
BY DEF Go, LockStep

\* A command whose commits are those there were and whose shape holds already
LEMMA PlainStep ==
  ASSUME IInv, NEW w \in Wt, NEW j, JobShape(w, j), job' = [job EXCEPT ![w] = j], LockStep(w, j),
         j.at = "switch" \/ \A b \in Branch : lock[b] = w => lock'[b] = w,
         UNCHANGED <<commits, tips, wt>>
  PROVE  Advance
<1>1. commits' \in Chains /\ Extended(commits, commits') /\ commits \in Chains
  BY Unchanged, JobFacts
<1>2. wt'[w] = wt[w] /\ wt[w] \in [b : Branch, c : CommitNo]
  BY DEF IInv, WtShape
<1>3. JobShape(w, j)'
  BY <1>1, <1>2, ShapeKept
<1> QED
  BY <1>1, <1>3, JobStep

LEMMA PromoteStartStep ==
  ASSUME IInv, NEW w \in Wt, NEW b \in Branch, PromoteStart(w, b)
  PROVE  Advance
<1>1. PICK j : j = Job("promote", "switch", b, tips[b], 0)
  OBVIOUS
<1>2. tips[b] # 0 /\ Start(w, j) /\ UNCHANGED <<commits, tips, wt>>
  BY <1>1 DEF PromoteStart
<1>3. /\ j = [cmd |-> "promote", at |-> "switch", b |-> b, old |-> tips[b], new |-> 0]
      /\ tips[b] \in 0..Len(commits) /\ Sees(b, tips[b]) /\ Len(commits) \in Nat
  BY <1>1, <1>2, JobFacts DEF Job
<1>4. j.cmd = "promote" /\ j.at = "switch" /\ j.b = b /\ j.old = tips[b]
  BY <1>3
<1>5. j \in JobType("promote", {"switch", "move", "ref"})
  BY <1>3 DEF JobType
<1>6. JobShape(w, j)
  BY <1>2, <1>3, <1>4, <1>5 DEF JobShape, PromoteShape
<1>7. j # Idle
  BY <1>4, AtWork
<1>8. job' = [job EXCEPT ![w] = j] /\ LockStep(w, j)
  BY <1>2, <1>7, StartFacts
<1> QED
  BY <1>2, <1>4, <1>6, <1>8, PlainStep

LEMMA PromoteSwitchStep ==
  ASSUME IInv, NEW w \in Wt, PromoteSwitch(w)
  PROVE  Advance
<1>1. PICK j : j = job[w]
  OBVIOUS
<1>2. /\ j.cmd = "promote" /\ j.at = "switch" /\ Switch(w, j.b, "move")
      /\ UNCHANGED <<commits, tips, wt>>
  BY <1>1 DEF PromoteSwitch
<1>3. PromoteShape(w, j) /\ Len(commits) \in Nat
  BY <1>1, <1>2, JobFacts
<1>4. /\ j \in JobType("promote", {"switch", "move", "ref"}) /\ j.b \in Branch
      /\ j.old # 0 /\ Sees(j.b, j.old)
  BY <1>3 DEF PromoteShape, JobType
<1>5. PICK k : k = [j EXCEPT !.at = "move"]
  OBVIOUS
<1>6. k \in JobType("promote", {"switch", "move", "ref"}) /\ k.b = j.b /\ k.old = j.old /\ k.at = "move"
      /\ k.cmd = "promote"
  BY <1>2, <1>4, <1>5 DEF JobType
<1>7. k # Idle
  BY <1>6, AtWork
<1>8. job' = [job EXCEPT ![w] = k] /\ LockStep(w, k) /\ lock'[j.b] = w
  BY <1>1, <1>2, <1>4, <1>5, <1>7, SwitchFacts
<1>9. commits' \in Chains /\ Extended(commits, commits')
  BY <1>2, Unchanged
<1>10. PromoteShape(w, k)'
  BY <1>2, <1>4, <1>6, <1>8 DEF PromoteShape, JobType, Sees, SeenFrom
<1>11. JobShape(w, k)'
  BY <1>10 DEF JobShape
<1> QED
  BY <1>2, <1>8, <1>9, <1>11, JobStep

LEMMA PromoteMoveStep ==
  ASSUME IInv, NEW w \in Wt, PromoteMove(w)
  PROVE  Advance
<1>1. PICK j, c, ff, same : /\ j = job[w] /\ c = wt[w].c
                            /\ ff \in BOOLEAN /\ same \in BOOLEAN
                            /\ ff <=> (wt[w].b \notin Above(j.b) /\ j.old \in Behind(c) \ {c})
                            /\ same <=> (wt[w].b \in Above(j.b) /\ c \in Behind(j.old) \ {j.old})
  <2>1. PICK j, c : j = job[w] /\ c = wt[w].c
    OBVIOUS
  <2>2. PICK ff : ff \in BOOLEAN /\ (ff <=> (wt[w].b \notin Above(j.b) /\ j.old \in Behind(c) \ {c}))
    BY Zenon
  <2>3. PICK same : same \in BOOLEAN /\ (same <=> (wt[w].b \in Above(j.b) /\ c \in Behind(j.old) \ {j.old}))
    BY Zenon
  <2> QED
    BY <2>1, <2>2, <2>3
<1>2. /\ j.cmd = "promote" /\ j.at = "move" /\ UNCHANGED <<tips, wt>>
      /\ commits' = IF ff THEN Copied(commits, Chain(commits, j.old, c), Leaf(w))
                    ELSE IF same THEN Copied(commits, Chain(commits, c, j.old), Leaf(w))
                    ELSE commits
      /\ IF ff \/ same
         THEN Go(w, [j EXCEPT !.at = "ref", !.new = IF ff THEN c ELSE j.old]) /\ UNCHANGED lock
         ELSE End(w)
  BY <1>1, Zenon DEF PromoteMove
<1>3. /\ PromoteShape(w, j) /\ Len(commits) \in Nat /\ commits \in Chains /\ c \in CommitNo
      /\ Leaf(w) \in Branch /\ \A b \in Branch : lock[b] = w => Leaf(w) = b
  BY <1>1, <1>2, JobFacts, AtWork
<1>4. /\ j \in JobType("promote", {"switch", "move", "ref"}) /\ j.b \in Branch
      /\ j.old \in CommitNo /\ Sees(j.b, j.old) /\ (lock[j.b] = w \/ Sees(j.b, c))
  BY <1>1, <1>2, <1>3 DEF PromoteShape, JobType, CommitNo
<1>5. PICK ds : ds = commits'
  OBVIOUS
<1>6. /\ ds \in Chains /\ Extended(commits, ds)
      /\ ff => \A i \in 1..Len(commits) : i \in Chain(commits, j.old, c) => Leaf(w) \in ds[i].in
  <2>1. PICK b \in Branch : b = Leaf(w)
    BY <1>3
  <2>2. ASSUME NEW S
        PROVE  /\ Copied(commits, S, b) \in Chains /\ Extended(commits, Copied(commits, S, b))
               /\ \A i \in 1..Len(commits) : i \in S => b \in Copied(commits, S, b)[i].in
    BY <1>3, CopiedFacts
  <2>3. Extended(commits, commits)
    BY <1>3 DEF Extended
  <2> HIDE DEF Copied, Chain
  <2>4. CASE ff
    <3>1. PICK S : S = Chain(commits, j.old, c)
      OBVIOUS
    <3>2. ds = Copied(commits, S, b)
      BY <1>2, <1>5, <2>1, <2>4, <3>1
    <3> QED
      BY <2>1, <2>2, <3>1, <3>2
  <2>5. CASE ~ff /\ same
    <3>1. PICK S : S = Chain(commits, c, j.old)
      OBVIOUS
    <3>2. ds = Copied(commits, S, b)
      BY <1>2, <1>5, <2>1, <2>5, <3>1
    <3> QED
      BY <2>1, <2>2, <2>5, <3>1, <3>2
  <2>6. CASE ~ff /\ ~same
    BY <1>2, <1>3, <1>5, <2>3, <2>6
  <2> QED
    BY <1>1, <2>4, <2>5, <2>6
<1>7. commits' \in Chains /\ Extended(commits, commits') /\ Len(commits') \in Nat
  BY <1>5, <1>6, LenProperties DEF Chains
<1>8. /\ \A n \in 0..Len(commits) : \A d : Sees(d, n) => Sees(d, n)'
      /\ \A n \in 0..Len(commits) : Behind(n)' = Behind(n)
      /\ \A n \in CommitNo : n \in CommitNo' /\ n \in 0..Len(commits)
      /\ \A n, m \in CommitNo : Carries(n, m) => Carries(n, m)'
  BY <1>3, <1>7, GrowthFacts
<1>9. CASE ~(ff \/ same)
  BY <1>2, <1>7, <1>9, EndStep
<1>10. CASE ff \/ same
  <2>1. PICK n : n = IF ff THEN c ELSE j.old
    OBVIOUS
  <2>2. PICK k : k = [j EXCEPT !.at = "ref", !.new = n]
    OBVIOUS
  <2>3. k = [cmd |-> "promote", at |-> "ref", b |-> j.b, old |-> j.old, new |-> n]
    BY <1>4, <2>2 DEF JobType
  <2>4. k.cmd = "promote" /\ k.at = "ref" /\ k.b = j.b /\ k.old = j.old /\ k.new = n
    BY <2>3
  <2>5. k # Idle /\ job[w] # Idle
    BY <1>1, <1>2, <2>4, AtWork
  <2>6. Go(w, k) /\ UNCHANGED lock
    BY <1>2, <1>10, <2>1, <2>2
  <2>7. job' = [job EXCEPT ![w] = k] /\ LockStep(w, k)
    BY <2>5, <2>6, GoFacts
  <2>8. n \in CommitNo
    BY <1>3, <1>4, <2>1
  <2>9. Carries(j.old, n)'
    <3>1. CASE ff
      <4>1. j.old \in Ancestors(commits, c) /\ n = c
        BY <1>1, <2>1, <3>1 DEF Behind
      <4>2. Carries(j.old, c)
        BY <1>3, <4>1, BehindFacts DEF Carries, CommitNo
      <4> QED
        BY <1>4, <1>8, <2>8, <4>1, <4>2
    <3>2. CASE ~ff
      BY <2>1, <3>2 DEF Carries
    <3> QED
      BY <3>1, <3>2
  <2>10. Sees(j.b, n)'
    <3>1. CASE ~ff
      BY <1>4, <1>8, <2>1, <3>1
    <3>2. CASE ff /\ Sees(j.b, c)
      BY <1>3, <1>8, <2>1, <3>2
    <3>3. CASE ff /\ lock[j.b] = w
      <4>1. n = c /\ Leaf(w) = j.b
        BY <1>3, <1>4, <2>1, <3>3
      <4>2. ASSUME NEW a \in Behind(c)', ~Siblings
            PROVE  ds[a].in \cap Above(j.b) # {} \/ j.b \in ds[a].in
        <5>1. a \in Ancestors(commits, c) /\ a \in 1..Len(commits)
          <6>1. a \in Behind(c)
            BY <1>3, <1>8, <4>2
          <6> QED
            BY <1>3, <6>1, BehindFacts DEF Behind, CommitNo
        <5>2. CASE a \in Ancestors(commits, j.old)
          <6>1. commits[a].in \cap Above(j.b) # {}
            BY <1>4, <4>2, <5>2 DEF Sees, SeenFrom, SeenIn
          <6> QED
            BY <1>6, <5>1, <6>1 DEF Extended
        <5>3. CASE a \notin Ancestors(commits, j.old)
          <6>1. a \in Chain(commits, j.old, c)
            BY <5>1, <5>3 DEF Chain
          <6> QED
            BY <1>6, <3>3, <4>1, <5>1, <6>1
        <5> QED
          BY <5>2, <5>3
      <4>3. j.b \in Above(j.b)
        BY <1>4, AboveFacts
      <4>4. ~Siblings => SeenIn(ds, Above(j.b), c)
        <5>1. Behind(c)' = Ancestors(ds, c)
          <6>1. PICK m : m = c
            OBVIOUS
          <6> QED
            BY <1>5 DEF Behind
        <5> QED
          BY <4>2, <4>3, <5>1 DEF SeenIn
      <4> QED
        BY <1>5, <4>1, <4>4 DEF Sees, SeenFrom
    <3> QED
      BY <1>1, <1>4, <3>1, <3>2, <3>3
  <2>11. JobShape(w, k)'
    <3>1. n \in 0..Len(commits') /\ j.old \in 0..Len(commits') /\ n # 0 /\ j.old # 0
      BY <1>4, <1>7, <1>8, <2>8 DEF CommitNo
    <3>2. k \in JobType("promote", {"switch", "move", "ref"})'
      BY <1>4, <2>3, <3>1 DEF JobType
    <3>3. Sees(j.b, j.old)'
      BY <1>4, <1>8
    <3> QED
      BY <2>4, <2>9, <2>10, <3>1, <3>2, <3>3 DEF JobShape, PromoteShape
  <2> QED
    BY <1>2, <1>7, <2>7, <2>11, JobStep
<1> QED
  BY <1>9, <1>10

LEMMA PromoteRefStep ==
  ASSUME IInv, NEW w \in Wt, PromoteRef(w)
  PROVE  Advance
<1>1. PICK j : j = job[w]
  OBVIOUS
<1>2. /\ j.cmd = "promote" /\ j.at = "ref" /\ Cas(j.b, j.old, j.new) /\ End(w)
      /\ UNCHANGED <<commits, wt>>
  BY <1>1 DEF PromoteRef
<1>3. commits' \in Chains /\ Extended(commits, commits') /\ PromoteShape(w, j)
  BY <1>1, <1>2, Unchanged, JobFacts
<1>4. j.b \in Branch /\ j.new \in CommitNo /\ Sees(j.b, j.new)
  BY <1>2, <1>3 DEF PromoteShape, JobType, CommitNo
<1>5. PICK c : /\ tips' = [tips EXCEPT ![j.b] = c]
               /\ (tips[j.b] = j.old => c = j.new) /\ (tips[j.b] # j.old => c = tips[j.b])
  BY <1>2, <1>4, CasFacts
<1>6. c = tips[j.b] \/ (c \in CommitNo' /\ Sees(j.b, c)')
  BY <1>2, <1>4, <1>5 DEF CommitNo, Sees, SeenFrom
<1> QED
  BY <1>2, <1>3, <1>4, <1>5, <1>6, EndStep

----------------------------------------------------------------------------
\* put of a commit, get

LEMMA SetOwnStep ==
  ASSUME IInv, NEW w \in Wt, NEW c \in 1..Len(commits), SetOwn(w, c)
  PROVE  Advance
<1>1. PICK b : b = wt[w].b
  OBVIOUS
<1>2. /\ job[w] = Idle /\ SeenFrom(Above(b), c) /\ tips' = [tips EXCEPT ![b] = c]
      /\ UNCHANGED <<commits, wt, job, lock>>
  BY <1>1 DEF SetOwn
<1>3. PICK j : j = Idle
  OBVIOUS
<1>4. job' = [job EXCEPT ![w] = j]
  BY <1>2, <1>3 DEF IInv
<1>5. LockStep(w, j) /\ JobShape(w, j)'
  BY <1>2, <1>3, AtWork DEF LockStep
<1>6. commits' \in Chains /\ Extended(commits, commits') /\ b \in Branch
  BY <1>1, <1>2, Unchanged, JobFacts
<1>7. c \in CommitNo' /\ Sees(b, c)'
  BY <1>2 DEF CommitNo, Sees, SeenFrom
<1> QED
  BY <1>2, <1>4, <1>5, <1>6, <1>7, TipStep

LEMMA SetStartStep ==
  ASSUME IInv, NEW w \in Wt, NEW b \in Branch, NEW c \in 1..Len(commits), SetStart(w, b, c)
  PROVE  Advance
<1>1. PICK j : j = Job("set", "switch", b, tips[b], c)
  OBVIOUS
<1>2. Start(w, j) /\ UNCHANGED <<commits, tips, wt>>
  BY <1>1 DEF SetStart
<1>3. /\ j = [cmd |-> "set", at |-> "switch", b |-> b, old |-> tips[b], new |-> c]
      /\ tips[b] \in 0..Len(commits) /\ Len(commits) \in Nat
      /\ tips[b] # 0 => Sees(b, tips[b])
  BY <1>1, <1>2, JobFacts DEF Job
<1>4. j.cmd = "set" /\ j.at = "switch" /\ j.b = b /\ j.old = tips[b] /\ j.new = c
  BY <1>3
<1>5. j \in JobType("set", {"switch", "write"}) /\ c # 0
  BY <1>3 DEF JobType
<1>6. JobShape(w, j)
  BY <1>3, <1>4, <1>5 DEF JobShape, SetShape
<1>7. j # Idle
  BY <1>4, AtWork
<1>8. job' = [job EXCEPT ![w] = j] /\ LockStep(w, j)
  BY <1>2, <1>7, StartFacts
<1> QED
  BY <1>2, <1>4, <1>6, <1>8, PlainStep

LEMMA SetSwitchStep ==
  ASSUME IInv, NEW w \in Wt, SetSwitch(w)
  PROVE  Advance
<1>1. PICK j : j = job[w]
  OBVIOUS
<1>2. /\ j.cmd = "set" /\ j.at = "switch" /\ Switch(w, j.b, "write") /\ UNCHANGED <<commits, tips, wt>>
  BY <1>1 DEF SetSwitch
<1>3. SetShape(w, j)
  BY <1>1, <1>2, JobFacts
<1>4. j \in JobType("set", {"switch", "write"}) /\ j.b \in Branch
  BY <1>3 DEF SetShape, JobType
<1>5. PICK k : k = [j EXCEPT !.at = "write"]
  OBVIOUS
<1>6. /\ k \in JobType("set", {"switch", "write"}) /\ k.b = j.b /\ k.old = j.old /\ k.new = j.new
      /\ k.cmd = "set"
  BY <1>2, <1>4, <1>5 DEF JobType
<1>7. k # Idle
  BY <1>6, AtWork
<1>8. job' = [job EXCEPT ![w] = k] /\ LockStep(w, k) /\ lock'[j.b] = w
  BY <1>1, <1>2, <1>4, <1>5, <1>7, SwitchFacts
<1>9. commits' \in Chains /\ Extended(commits, commits')
  BY <1>2, Unchanged
<1>10. SetShape(w, k)'
  BY <1>2, <1>3, <1>6, <1>8 DEF SetShape, JobType, Sees, SeenFrom
<1>11. JobShape(w, k)'
  BY <1>10 DEF JobShape
<1> QED
  BY <1>2, <1>8, <1>9, <1>11, JobStep

LEMMA SetWriteStep ==
  ASSUME IInv, NEW w \in Wt, SetWrite(w)
  PROVE  Advance
<1>1. PICK j : j = job[w]
  OBVIOUS
<1>2. /\ j.cmd = "set" /\ j.at = "write" /\ End(w) /\ UNCHANGED wt
      /\ commits' = Copied(commits, Chain(commits, j.old, j.new), Leaf(w))
      /\ tips' = [tips EXCEPT ![j.b] = j.new]
  BY <1>1 DEF SetWrite
<1>3. /\ SetShape(w, j) /\ commits \in Chains /\ Len(commits) \in Nat
      /\ \A b \in Branch : lock[b] = w => Leaf(w) = b
  BY <1>1, <1>2, JobFacts, AtWork
<1>4. /\ j.b \in Branch /\ j.old \in 0..Len(commits) /\ j.new \in CommitNo
      /\ (j.old # 0 => Sees(j.b, j.old)) /\ Leaf(w) = j.b
  BY <1>2, <1>3 DEF SetShape, JobType, CommitNo
<1>5. PICK S : S = Chain(commits, j.old, j.new)
  OBVIOUS
<1>6. PICK ds : ds = commits'
  OBVIOUS
<1>7. ds \in Chains /\ Extended(commits, ds) /\ \A i \in 1..Len(commits) : i \in S => j.b \in ds[i].in
  <2>1. ds = Copied(commits, S, j.b)
    BY <1>2, <1>4, <1>5, <1>6
  <2> QED
    BY <1>3, <1>4, <2>1, CopiedFacts
<1>8. /\ \A n \in 0..Len(commits) : Behind(n)' = Behind(n)
      /\ \A n \in CommitNo : n \in CommitNo' /\ n \in 0..Len(commits)
  BY <1>3, <1>6, <1>7, GrowthFacts
<1>9. ASSUME NEW a \in Behind(j.new), ~Siblings
      PROVE  ds[a].in \cap Above(j.b) # {}
  <2>1. a \in Ancestors(commits, j.new) /\ a \in 1..Len(commits)
    BY <1>3, <1>4, <1>9, BehindFacts DEF Behind, CommitNo
  <2>2. CASE a \in S
    BY <1>4, <1>7, <2>1, <2>2, AboveFacts
  <2>3. CASE a \notin S
    <3>1. a \in Ancestors(commits, j.old)
      BY <1>5, <2>1, <2>3 DEF Chain
    <3>2. j.old # 0
      BY <1>3, <3>1, AncestorsUnfold
    <3>3. commits[a].in \cap Above(j.b) # {}
      BY <1>4, <1>9, <3>1, <3>2 DEF Sees, SeenFrom, SeenIn
    <3> QED
      BY <1>7, <2>1, <3>3 DEF Extended
  <2> QED
    BY <2>2, <2>3
<1>10. Sees(j.b, j.new)'
  <2>1. Ancestors(ds, j.new) = Behind(j.new)
    <3>1. PICK n : n = j.new
      OBVIOUS
    <3> QED
      BY <1>4, <1>6, <1>8, <3>1 DEF Behind
  <2> QED
    BY <1>6, <1>9, <2>1 DEF Sees, SeenFrom, SeenIn
<1>11. commits' \in Chains /\ Extended(commits, commits') /\ j.new \in CommitNo'
  BY <1>4, <1>6, <1>7, <1>8
<1> QED
  BY <1>2, <1>4, <1>10, <1>11, EndStep

LEMMA GetStartStep ==
  ASSUME IInv, NEW w \in Wt, NEW b \in Branch, GetStart(w, b)
  PROVE  Advance
<1>1. PICK j : j = Job("get", "switch", b, 0, tips[b])
  OBVIOUS
<1>2. tips[b] # 0 /\ Start(w, j) /\ UNCHANGED <<commits, tips, wt>>
  BY <1>1 DEF GetStart
<1>3. /\ j = [cmd |-> "get", at |-> "switch", b |-> b, old |-> 0, new |-> tips[b]]
      /\ tips[b] \in 0..Len(commits) /\ Len(commits) \in Nat /\ Sees(b, tips[b])
  BY <1>1, <1>2, JobFacts DEF Job
<1>4. j.cmd = "get" /\ j.at = "switch" /\ j.b = b /\ j.new = tips[b]
  BY <1>3
<1>5. j \in JobType("get", {"switch", "check", "write"})
  BY <1>3 DEF JobType
<1>6. JobShape(w, j)
  BY <1>2, <1>3, <1>4, <1>5 DEF JobShape, GetShape
<1>7. j # Idle
  BY <1>4, AtWork
<1>8. job' = [job EXCEPT ![w] = j] /\ LockStep(w, j)
  BY <1>2, <1>7, StartFacts
<1> QED
  BY <1>2, <1>4, <1>6, <1>8, PlainStep

LEMMA GetAt ==
  ASSUME NEW w, NEW j, GetShape(w, j), NEW at \in {"switch", "check", "write"},
         NEW k, k = [j EXCEPT !.at = at]
  PROVE  GetShape(w, k) /\ k.cmd = "get" /\ k # Idle
<1>1. j \in JobType("get", {"switch", "check", "write"})
  BY DEF GetShape
<1>2. /\ k \in JobType("get", {"switch", "check", "write"}) /\ k.b = j.b /\ k.new = j.new /\ k.cmd = "get"
  BY <1>1 DEF JobType
<1> QED
  BY <1>2, AtWork DEF GetShape

LEMMA GetSwitchStep ==
  ASSUME IInv, NEW w \in Wt, GetSwitch(w)
  PROVE  Advance
<1>1. PICK j : j = job[w]
  OBVIOUS
<1>2. /\ j.cmd = "get" /\ Switch(w, j.b, "check") /\ UNCHANGED <<commits, tips, wt>>
  BY <1>1 DEF GetSwitch
<1>3. GetShape(w, j) /\ j.b \in Branch
  BY <1>1, <1>2, JobFacts DEF GetShape, JobType
<1>4. PICK k : k = [j EXCEPT !.at = "check"]
  OBVIOUS
<1>5. GetShape(w, k) /\ k # Idle
  BY <1>3, <1>4, GetAt
<1>6. job' = [job EXCEPT ![w] = k] /\ LockStep(w, k)
  BY <1>1, <1>2, <1>3, <1>4, <1>5, SwitchFacts
<1>7. commits' \in Chains /\ Extended(commits, commits')
  BY <1>2, Unchanged
<1>8. GetShape(w, k)'
  BY <1>2, <1>5 DEF GetShape, JobType, Sees, SeenFrom
<1>9. JobShape(w, k)'
  BY <1>8 DEF JobShape
<1> QED
  BY <1>2, <1>6, <1>7, <1>9, JobStep

LEMMA GetCheckStep ==
  ASSUME IInv, NEW w \in Wt, GetCheck(w)
  PROVE  Advance
<1>1. PICK j : j = job[w]
  OBVIOUS
<1>2. PICK k : k = [j EXCEPT !.at = "write"]
  OBVIOUS
<1>3. /\ j.cmd = "get" /\ UNCHANGED <<commits, tips, wt>>
      /\ (Go(w, k) /\ UNCHANGED lock) \/ End(w)
  BY <1>1, <1>2, Zenon DEF GetCheck
<1>4. commits' \in Chains /\ Extended(commits, commits')
  BY <1>3, Unchanged
<1>5. CASE End(w)
  BY <1>3, <1>4, <1>5, EndStep
<1>6. CASE Go(w, k) /\ UNCHANGED lock
  <2>1. GetShape(w, k) /\ k # Idle
    BY <1>1, <1>2, <1>3, JobFacts, GetAt
  <2>2. job[w] # Idle
    BY <1>1, <1>3, AtWork
  <2>3. job' = [job EXCEPT ![w] = k] /\ LockStep(w, k)
    BY <1>6, <2>1, <2>2, GoFacts
  <2>4. JobShape(w, k) /\ \A b \in Branch : lock[b] = w => lock'[b] = w
    BY <1>6, <2>1 DEF JobShape
  <2> QED
    BY <1>3, <2>3, <2>4, PlainStep
<1> QED
  BY <1>3, <1>5, <1>6

LEMMA GetWriteStep ==
  ASSUME IInv, NEW w \in Wt, GetWrite(w)
  PROVE  Advance
<1>1. PICK b, c : b = job[w].b /\ c = job[w].new
  OBVIOUS
<1>2. /\ job[w].cmd = "get" /\ tips' = [tips EXCEPT ![b] = c]
      /\ wt' = [wt EXCEPT ![w] = [b |-> b, c |-> c]] /\ End(w) /\ commits' = commits
  BY <1>1 DEF GetWrite
<1>3. commits' \in Chains /\ Extended(commits, commits') /\ WtShape
  BY <1>2, Unchanged DEF IInv
<1>4. b \in Branch /\ c \in CommitNo /\ Sees(b, c)
  BY <1>1, <1>2, JobFacts DEF GetShape, JobType, CommitNo
<1>5. c \in CommitNo' /\ Sees(b, c)'
  BY <1>2, <1>4 DEF CommitNo, Sees, SeenFrom
<1>6. TipsShape' /\ \A d \in Branch : tips[d] # 0 => tips'[d] # 0
  BY <1>2, <1>3, <1>4, <1>5, TipsKept
<1>7. WtShape'
  <2>1. /\ wt \in [Wt -> [b : Branch, c : CommitNo]]
        /\ \A v \in Wt : tips[wt[v].b] # 0 /\ Sees(wt[v].b, wt[v].c)
    BY <1>3 DEF WtShape
  <2>2. wt' \in [Wt -> [b : Branch, c : CommitNo]]
    BY <1>2, <1>4, <2>1
  <2>3. CommitNo' = CommitNo
    BY <1>2 DEF CommitNo
  <2>4. ASSUME NEW v \in Wt
        PROVE  tips'[wt'[v].b] # 0 /\ Sees(wt[v].b, wt[v].c)'
    <3>1. CASE v = w
      <4>1. wt'[v].b = b /\ wt'[v].c = c
        BY <1>2, <2>1, <3>1
      <4>2. tips'[b] # 0
        <5>1. tips'[b] = c
          BY <1>2, <1>4 DEF IInv, TipsShape
        <5> QED
          BY <1>4, <5>1 DEF CommitNo
      <4> QED
        BY <1>5, <4>1, <4>2
    <3>2. CASE v # w
      <4>1. wt'[v] = wt[v]
        BY <1>2, <2>1, <3>2
      <4>2. tips[wt[v].b] # 0 /\ Sees(wt[v].b, wt[v].c) /\ wt[v].b \in Branch
        BY <2>1
      <4>3. tips'[wt'[v].b] # 0
        BY <1>6, <4>1, <4>2
      <4> QED
        BY <1>2, <4>1, <4>2, <4>3 DEF Sees, SeenFrom
    <3> QED
      BY <3>1, <3>2
  <2> QED
    BY <2>2, <2>3, <2>4 DEF WtShape
<1>8. PICK j : j = Idle
  OBVIOUS
<1>9. JobShape(w, j)' /\ LockStep(w, j) /\ job' = [job EXCEPT ![w] = j]
  BY <1>2, <1>8, AtWork DEF End, Go, LockStep
<1>10. \A v \in Wt \ {w} : wt'[v] = wt[v]
  BY <1>2 DEF IInv, WtShape
<1> QED
  BY <1>3, <1>6, <1>7, <1>9, <1>10, StepKeeps

----------------------------------------------------------------------------
\* post

\* A step whose command moves a tip, the commits as they were
LEMMA PlainTipStep ==
  ASSUME IInv, NEW w \in Wt, NEW j, JobShape(w, j), job' = [job EXCEPT ![w] = j], LockStep(w, j),
         UNCHANGED <<commits, wt, lock>>, NEW b \in Branch, NEW c, tips' = [tips EXCEPT ![b] = c],
         c = tips[b] \/ (c \in CommitNo /\ Sees(b, c))
  PROVE  Advance
<1>1. commits' \in Chains /\ Extended(commits, commits') /\ commits \in Chains
  BY Unchanged, JobFacts
<1>2. wt'[w] = wt[w] /\ wt[w] \in [b : Branch, c : CommitNo]
  BY DEF IInv, WtShape
<1>3. \A d \in Branch : lock[d] = w => lock'[d] = w
  OBVIOUS
<1>4. JobShape(w, j)'
  BY <1>1, <1>2, <1>3, ShapeKept
<1>5. c = tips[b] \/ (c \in CommitNo' /\ Sees(b, c)')
  BY DEF CommitNo, Sees, SeenFrom
<1> QED
  BY <1>1, <1>4, <1>5, TipStep

\* Where a post is, and what it has of each field
LEMMA PostFields ==
  ASSUME NEW w, NEW j, PostShape(w, j)
  PROVE  /\ j = [cmd |-> "post", at |-> j.at, old |-> j.old, new |-> j.new, todo |-> j.todo,
                 kid |-> j.kid, recs |-> j.recs, made |-> j.made]
         /\ j.cmd = "post" /\ j.at \in {"replay", "walk", "switch", "ref", "persist"}
         /\ j.old \in CommitNo /\ j.new \in CommitNo /\ j.todo \in Seq(SUBSET Todo)
         /\ j.kid \in Kid \cup {<<>>} /\ j.recs \in Seq(Recs) /\ j.made \in Seq(Recs)
         /\ j # Idle
<1>1. j \in PostType
  BY DEF PostShape
<1> HIDE DEF Todo, Kid, Recs, CommitNo
<1>2. /\ j = [cmd |-> "post", at |-> j.at, old |-> j.old, new |-> j.new, todo |-> j.todo,
              kid |-> j.kid, recs |-> j.recs, made |-> j.made]
      /\ j.cmd = "post" /\ j.at \in {"replay", "walk", "switch", "ref", "persist"}
      /\ j.old \in CommitNo /\ j.new \in CommitNo /\ j.todo \in Seq(SUBSET Todo)
      /\ j.kid \in Kid \cup {<<>>} /\ j.recs \in Seq(Recs) /\ j.made \in Seq(Recs)
  BY <1>1 DEF PostType
<1>3. j # Idle
  BY <1>2, AtWork
<1> QED
  BY <1>2, <1>3

\* The head of a list is taken, or exchanged for another.
LEMMA HeadTaken ==
  ASSUME NEW S, NEW s \in Seq(S), s # <<>>, NEW x \in S
  PROVE  /\ Len(s) \in Nat /\ Len(s) >= 1 /\ Head(s) = s[1] /\ Head(s) \in S
         /\ Tail(s) \in Seq(S) /\ Len(Tail(s)) = Len(s) - 1
         /\ \A i \in 1..Len(Tail(s)) : Tail(s)[i] = s[i+1]
         /\ <<x>> \o Tail(s) \in Seq(S) /\ Len(<<x>> \o Tail(s)) = Len(s)
         /\ (<<x>> \o Tail(s))[1] = x
         /\ \A i \in 1..Len(s) : i # 1 => (<<x>> \o Tail(s))[i] = s[i]
<1>1. Len(s) \in Nat /\ Len(s) >= 1
  <2>1. Len(s) \in Nat /\ (Len(s) = 0 => s = <<>>)
    BY LenProperties, EmptySeq
  <2> QED
    BY <2>1
<1>2. /\ Head(s) = s[1] /\ s[1] \in S /\ Tail(s) \in Seq(S) /\ Len(Tail(s)) = Len(s) - 1
      /\ \A i \in 1..Len(Tail(s)) : Tail(s)[i] = s[i+1]
  BY <1>1, HeadTailProperties, ElementOfSeq
<1>3. <<x>> \in Seq(S) /\ Len(<<x>>) = 1 /\ <<x>>[1] = x
  OBVIOUS
<1>4. PICK t, u : t = <<x>> /\ u = Tail(s)
  OBVIOUS
<1>5. /\ t \o u \in Seq(S) /\ Len(t \o u) = Len(t) + Len(u)
      /\ \A i \in 1..Len(t) + Len(u) : (t \o u)[i] = IF i <= Len(t) THEN t[i] ELSE u[i - Len(t)]
  BY <1>2, <1>3, <1>4, ConcatProperties
<1>6. \A i \in 1..Len(s) : i # 1 => (t \o u)[i] = s[i]
  <2> TAKE i \in 1..Len(s)
  <2> HAVE i # 1
  <2>1. (t \o u)[i] = u[i-1] /\ i-1 \in 1..Len(u)
    BY <1>1, <1>2, <1>3, <1>4, <1>5
  <2> QED
    BY <1>1, <1>2, <1>4, <2>1
<1> QED
  BY <1>1, <1>2, <1>3, <1>4, <1>5, <1>6

LEMMA WalkReadStep ==
  ASSUME IInv, NEW w \in Wt, WalkRead(w)
  PROVE  Advance
<1>1. PICK j : j = job[w]
  OBVIOUS
<1>2. /\ j.cmd = "post" /\ j.at = "walk" /\ j.todo # <<>> /\ UNCHANGED <<commits, tips, wt, lock>>
      /\ IF Head(j.todo) = {} THEN Go(w, [j EXCEPT !.todo = Tail(@)])
         ELSE \E k \in Head(j.todo) :
            LET rest == [j EXCEPT !.todo = <<Head(@) \ {k}>> \o Tail(@)] IN
            IF tips[k.b] = 0 THEN Go(w, rest)
            ELSE Go(w, [rest EXCEPT !.at = "switch",
                         !.kid = [b |-> k.b, tip |-> tips[k.b], old |-> k.old, new |-> k.new]])
  BY <1>1 DEF WalkRead
<1>3. PostShape(w, j)
  BY <1>1, <1>2, JobFacts
<1>4. /\ j = [cmd |-> "post", at |-> j.at, old |-> j.old, new |-> j.new, todo |-> j.todo,
              kid |-> j.kid, recs |-> j.recs, made |-> j.made]
      /\ j.old \in CommitNo /\ j.new \in CommitNo /\ j.todo \in Seq(SUBSET Todo)
      /\ j.kid \in Kid \cup {<<>>} /\ j.recs \in Seq(Recs) /\ j.made \in Seq(Recs)
      /\ j # Idle
  BY <1>3, PostFields
<1>5. /\ Carries(j.old, j.new) /\ Sees(wt[w].b, j.new) /\ j.made = <<>>
      /\ DoneShape(w, j) /\ TodoShape(w, j)
  BY <1>2, <1>3 DEF PostShape
\* Whatever is left of what was to be done
<1>6. ASSUME NEW todo \in Seq(SUBSET Todo), NEW kid \in Kid \cup {<<>>}, NEW at \in {"walk", "switch"}, NEW k,
             k = [cmd |-> "post", at |-> at, old |-> j.old, new |-> j.new, todo |-> todo,
                  kid |-> kid, recs |-> j.recs, made |-> j.made],
             Go(w, k), TodoShape(w, k), at = "switch" => KidShape(w, k)
      PROVE  Advance
  <2>1. /\ k \in PostType /\ k.cmd = "post" /\ k.at = at /\ k.old = j.old /\ k.new = j.new
        /\ k.recs = j.recs /\ k.made = j.made /\ k # Idle
    <3> HIDE DEF Todo, Kid, Recs, CommitNo
    <3>1. /\ k \in PostType /\ k.cmd = "post" /\ k.at = at /\ k.old = j.old /\ k.new = j.new
          /\ k.recs = j.recs /\ k.made = j.made
      BY <1>4, <1>6 DEF PostType
    <3> QED
      BY <3>1, AtWork
  <2>2. DoneShape(w, k)
    BY <1>5, <2>1 DEF DoneShape, Done, Made
  <2>3. PostShape(w, k)
    <3> HIDE DEF PostType, DoneShape, TodoShape, KidShape, Carries, Sees
    <3> QED
      BY <1>5, <1>6, <2>1, <2>2 DEF PostShape
  <2>4. job' = [job EXCEPT ![w] = k] /\ LockStep(w, k)
    <3>1. job[w] # Idle /\ lock' = lock
      BY <1>1, <1>2, <1>4
    <3> QED
      BY <1>6, <2>1, <3>1, GoFacts
  <2>5. JobShape(w, k) /\ \A b \in Branch : lock[b] = w => lock'[b] = w
    BY <1>2, <2>3 DEF JobShape
  <2> QED
    BY <1>2, <2>4, <2>5, PlainStep
<1>7. CASE Head(j.todo) = {}
  <2>1. PICK t : t = Tail(j.todo)
    OBVIOUS
  <2>2. /\ t \in Seq(SUBSET Todo) /\ Len(t) = Len(j.todo) - 1 /\ Len(j.todo) \in Nat
        /\ \A i \in 1..Len(t) : t[i] = j.todo[i+1]
    <3>1. PICK S, s, x : S = SUBSET Todo /\ s = j.todo /\ x = {}
      OBVIOUS
    <3>2. x \in S /\ s \in Seq(S) /\ s # <<>>
      BY <1>2, <1>4, <3>1
    <3>3. /\ Tail(s) \in Seq(S) /\ Len(Tail(s)) = Len(s) - 1 /\ Len(s) \in Nat
          /\ \A i \in 1..Len(Tail(s)) : Tail(s)[i] = s[i+1]
      BY <3>2, HeadTaken
    <3> QED
      BY <2>1, <3>1, <3>3
  <2>3. PICK k : k = [j EXCEPT !.todo = t]
    OBVIOUS
  <2>4. k = [cmd |-> "post", at |-> "walk", old |-> j.old, new |-> j.new, todo |-> t,
             kid |-> j.kid, recs |-> j.recs, made |-> j.made]
    BY <1>2, <1>4, <2>3
  <2>5. k.todo = t /\ k.recs = j.recs /\ k.made = j.made /\ k.new = j.new
    BY <2>4
  <2>6. TodoShape(w, k)
    <3>1. \A i \in 1..Len(t) : i+1 \in 1..Len(j.todo) /\ t[i] = j.todo[i+1]
      BY <2>2
    <3>2. \A r : r \in Done(k) <=> r \in Done(j)
      BY <2>5 DEF Done
    <3>3. \A b, c : Made(w, k, b, c) <=> Made(w, j, b, c)
      BY <2>5, <3>2 DEF Made
    <3>4. ASSUME NEW i \in 1..Len(t), NEW x \in t[i]
          PROVE  /\ Under(w, x.b) /\ Made(w, k, Up[x.b], x.new)
                 /\ \A r \in Done(k) : r.b # x.b
                 /\ \A n \in 1..Len(t) : \A l \in t[n] : l.b = x.b => n = i /\ l = x
      <4>1. /\ Under(w, x.b) /\ Made(w, j, Up[x.b], x.new) /\ \A r \in Done(j) : r.b # x.b
            /\ \A n \in 1..Len(j.todo) : \A l \in j.todo[n] : l.b = x.b => n = i+1 /\ l = x
        BY <1>5, <3>1, <3>4 DEF TodoShape
      <4>2. ASSUME NEW n \in 1..Len(t), NEW l \in t[n], l.b = x.b
            PROVE  n = i /\ l = x
        <5>1. n+1 = i+1 /\ l = x
          BY <3>1, <4>1, <4>2
        <5> QED
          BY <2>2, <5>1
      <4> QED
        BY <3>2, <3>3, <4>1, <4>2
    <3> QED
      BY <2>5, <3>4 DEF TodoShape
  <2>7. Go(w, k)
    BY <1>2, <1>7, <2>1, <2>3
  <2> QED
    BY <1>4, <1>6, <2>2, <2>4, <2>6, <2>7
<1>8. CASE Head(j.todo) # {}
  <2>1. PICK d, t :
          /\ d \in Head(j.todo)
          /\ t = <<Head(j.todo) \ {d}>> \o Tail(j.todo)
          /\ LET rest == [j EXCEPT !.todo = t] IN
             IF tips[d.b] = 0 THEN Go(w, rest)
             ELSE Go(w, [rest EXCEPT !.at = "switch",
                          !.kid = [b |-> d.b, tip |-> tips[d.b], old |-> d.old, new |-> d.new]])
    BY <1>2, <1>8
  <2>2. /\ t \in Seq(SUBSET Todo) /\ Len(t) = Len(j.todo) /\ Len(j.todo) \in Nat /\ Len(j.todo) >= 1
        /\ t[1] = j.todo[1] \ {d} /\ \A i \in 1..Len(j.todo) : i # 1 => t[i] = j.todo[i]
        /\ d \in j.todo[1] /\ d \in Todo
    <3>1. Head(j.todo) \in SUBSET Todo
      BY <1>2, <1>4, HeadTaken
    <3>2. PICK x : x = Head(j.todo) \ {d}
      OBVIOUS
    <3>3. x \in SUBSET Todo
      BY <3>1, <3>2
    <3>4. /\ Len(j.todo) \in Nat /\ Len(j.todo) >= 1 /\ Head(j.todo) = j.todo[1]
          /\ <<x>> \o Tail(j.todo) \in Seq(SUBSET Todo) /\ Len(<<x>> \o Tail(j.todo)) = Len(j.todo)
          /\ (<<x>> \o Tail(j.todo))[1] = x
          /\ \A i \in 1..Len(j.todo) : i # 1 => (<<x>> \o Tail(j.todo))[i] = j.todo[i]
      <4>1. PICK S, s : S = SUBSET Todo /\ s = j.todo
        OBVIOUS
      <4>2. x \in S /\ s \in Seq(S) /\ s # <<>>
        BY <1>2, <1>4, <3>3, <4>1
      <4>3. /\ Len(s) \in Nat /\ Len(s) >= 1 /\ Head(s) = s[1]
            /\ <<x>> \o Tail(s) \in Seq(S) /\ Len(<<x>> \o Tail(s)) = Len(s)
            /\ (<<x>> \o Tail(s))[1] = x
            /\ \A i \in 1..Len(s) : i # 1 => (<<x>> \o Tail(s))[i] = s[i]
        BY <4>2, HeadTaken
      <4> QED
        BY <4>1, <4>3
    <3>5. t = <<x>> \o Tail(j.todo)
      BY <2>1, <3>2
    <3> QED
      BY <2>1, <3>1, <3>2, <3>4, <3>5
  <2>3. \A i \in 1..Len(t) : i \in 1..Len(j.todo) /\ t[i] \subseteq j.todo[i] /\ d \notin t[i]
    <3> TAKE i \in 1..Len(t)
    <3>1. CASE i = 1
      BY <2>2, <3>1
    <3>2. CASE i # 1
      <4>1. i \in 1..Len(j.todo) /\ t[i] = j.todo[i]
        BY <2>2, <3>2
      <4>2. 1 \in 1..Len(j.todo)
        BY <2>2
      <4>3. d \notin j.todo[i]
        BY <1>5, <2>2, <3>2, <4>1, <4>2 DEF TodoShape
      <4> QED
        BY <4>1, <4>3
    <3> QED
      BY <3>1, <3>2
  <2>4. /\ Under(w, d.b) /\ Made(w, j, Up[d.b], d.new) /\ \A r \in Done(j) : r.b # d.b
        /\ \A i \in 1..Len(t) : \A x \in t[i] : x.b # d.b
    <3>1. 1 \in 1..Len(j.todo)
      BY <2>2
    <3>2. /\ Under(w, d.b) /\ Made(w, j, Up[d.b], d.new) /\ \A r \in Done(j) : r.b # d.b
          /\ \A n \in 1..Len(j.todo) : \A l \in j.todo[n] : l.b = d.b => n = 1 /\ l = d
      BY <1>5, <2>2, <3>1 DEF TodoShape
    <3> QED
      BY <2>3, <3>2
  <2>5. ASSUME NEW k, k.todo = t, k.recs = j.recs, k.made = j.made, k.new = j.new
        PROVE  TodoShape(w, k) /\ Made(w, k, Up[d.b], d.new) /\ \A r \in Done(k) : r.b # d.b
    <3>1. \A r : r \in Done(k) <=> r \in Done(j)
      BY <2>5 DEF Done
    <3>2. \A b, c : Made(w, k, b, c) <=> Made(w, j, b, c)
      BY <2>5, <3>1 DEF Made
    <3>3. ASSUME NEW i \in 1..Len(t), NEW x \in t[i]
          PROVE  /\ Under(w, x.b) /\ Made(w, k, Up[x.b], x.new)
                 /\ \A r \in Done(k) : r.b # x.b
                 /\ \A n \in 1..Len(t) : \A l \in t[n] : l.b = x.b => n = i /\ l = x
      <4>1. i \in 1..Len(j.todo) /\ x \in j.todo[i]
        BY <2>3, <3>3
      <4>2. /\ Under(w, x.b) /\ Made(w, j, Up[x.b], x.new) /\ \A r \in Done(j) : r.b # x.b
            /\ \A n \in 1..Len(j.todo) : \A l \in j.todo[n] : l.b = x.b => n = i /\ l = x
        BY <1>5, <4>1 DEF TodoShape
      <4> QED
        BY <2>3, <3>1, <3>2, <4>2
    <3> QED
      BY <2>4, <2>5, <3>1, <3>2, <3>3 DEF TodoShape
  <2>6. CASE tips[d.b] = 0
    <3>1. PICK k : k = [j EXCEPT !.todo = t]
      OBVIOUS
    <3>2. k = [cmd |-> "post", at |-> "walk", old |-> j.old, new |-> j.new, todo |-> t,
               kid |-> j.kid, recs |-> j.recs, made |-> j.made]
      BY <1>2, <1>4, <3>1
    <3>3. k.todo = t /\ k.recs = j.recs /\ k.made = j.made /\ k.new = j.new
      BY <3>2
    <3>4. Go(w, k)
      BY <2>1, <2>6, <3>1
    <3> QED
      BY <1>4, <1>6, <2>2, <2>5, <3>2, <3>3, <3>4
  <2>7. CASE tips[d.b] # 0
    <3>1. PICK kid : kid = [b |-> d.b, tip |-> tips[d.b], old |-> d.old, new |-> d.new]
      OBVIOUS
    <3>2. kid \in Kid
      <4>1. d \in Move /\ Up[d.b] # None /\ Carries(d.old, d.new) /\ Sees(Up[d.b], d.new)
        BY <2>2 DEF Todo
      <4>2. d.b \in Branch /\ d.old \in CommitNo /\ d.new \in CommitNo
        BY <4>1 DEF Move
      <4>3. tips[d.b] \in CommitNo
        BY <2>7, <4>2, JobFacts
      <4> HIDE DEF CommitNo
      <4>4. kid \in [b : Branch, tip : CommitNo, old : CommitNo, new : CommitNo]
            /\ kid.b = d.b /\ kid.old = d.old /\ kid.new = d.new
        BY <3>1, <4>2, <4>3
      <4> QED
        BY <4>1, <4>4 DEF Kid
    <3>3. PICK rest, k : rest = [j EXCEPT !.todo = t] /\ k = [rest EXCEPT !.at = "switch", !.kid = kid]
      OBVIOUS
    <3>4. k = [cmd |-> "post", at |-> "switch", old |-> j.old, new |-> j.new, todo |-> t,
               kid |-> kid, recs |-> j.recs, made |-> j.made]
      <4>1. rest = [cmd |-> "post", at |-> j.at, old |-> j.old, new |-> j.new, todo |-> t,
                    kid |-> j.kid, recs |-> j.recs, made |-> j.made]
        BY <1>4, <3>3
      <4>2. PICK r : r = [rest EXCEPT !.at = "switch"]
        OBVIOUS
      <4>3. r = [cmd |-> "post", at |-> "switch", old |-> j.old, new |-> j.new, todo |-> t,
                 kid |-> j.kid, recs |-> j.recs, made |-> j.made]
        BY <4>1, <4>2
      <4>4. k = [r EXCEPT !.kid = kid]
        BY <3>3, <4>2
      <4> QED
        BY <4>3, <4>4
    <3>5. /\ k.todo = t /\ k.recs = j.recs /\ k.made = j.made /\ k.new = j.new /\ k.kid = kid
          /\ kid.b = d.b /\ kid.new = d.new
      BY <3>1, <3>4
    <3>6. Go(w, k)
      BY <2>1, <2>7, <3>1, <3>3
    <3>7. KidShape(w, k)
      <4>1. kid # <<>>
        <5>1. DOMAIN kid = {"b", "tip", "old", "new"} /\ DOMAIN <<>> = {}
          BY <3>1
        <5> QED
          BY <5>1
      <4> QED
        BY <2>4, <2>5, <3>5, <4>1 DEF KidShape
    <3> QED
      BY <1>4, <1>6, <2>2, <2>5, <3>2, <3>4, <3>5, <3>6, <3>7
  <2> QED
    BY <2>6, <2>7
<1> QED
  BY <1>7, <1>8

LEMMA WalkEndStep ==
  ASSUME IInv, NEW w \in Wt, WalkEnd(w)
  PROVE  Advance
<1>1. PICK j, k : j = job[w] /\ k = [j EXCEPT !.at = "ref"]
  OBVIOUS
<1>2. /\ j.cmd = "post" /\ j.at = "walk" /\ Go(w, k) /\ UNCHANGED lock
      /\ UNCHANGED <<commits, tips, wt>>
  BY <1>1 DEF WalkEnd
<1>3. PostShape(w, j)
  BY <1>1, <1>2, JobFacts
<1>4. /\ j = [cmd |-> "post", at |-> j.at, old |-> j.old, new |-> j.new, todo |-> j.todo,
              kid |-> j.kid, recs |-> j.recs, made |-> j.made]
      /\ j \in PostType /\ j # Idle
  BY <1>3, PostFields DEF PostShape
<1>5. /\ Carries(j.old, j.new) /\ Sees(wt[w].b, j.new) /\ j.made = <<>> /\ DoneShape(w, j)
  BY <1>2, <1>3 DEF PostShape
<1>6. k = [cmd |-> "post", at |-> "ref", old |-> j.old, new |-> j.new, todo |-> j.todo,
           kid |-> j.kid, recs |-> j.recs, made |-> j.made]
  BY <1>1, <1>4
<1>7. /\ k.at = "ref" /\ k.cmd = "post" /\ k.old = j.old /\ k.new = j.new /\ k.recs = j.recs
      /\ k.made = j.made
  BY <1>6
<1>8. k \in PostType
  BY <1>4, <1>6 DEF PostType
<1>9. DoneShape(w, k)
  BY <1>5, <1>7 DEF DoneShape, Done, Made
<1>10. PostShape(w, k)
  <2> HIDE DEF PostType, DoneShape, TodoShape, KidShape, Carries, Sees
  <2> QED
    BY <1>5, <1>7, <1>8, <1>9 DEF PostShape
<1>11. k # Idle /\ job[w] # Idle
  BY <1>1, <1>4, <1>7, AtWork
<1>12. job' = [job EXCEPT ![w] = k] /\ LockStep(w, k)
  BY <1>2, <1>11, GoFacts
<1>13. JobShape(w, k) /\ \A b \in Branch : lock[b] = w => lock'[b] = w
  BY <1>2, <1>10 DEF JobShape
<1> QED
  BY <1>2, <1>12, <1>13, PlainStep

LEMMA PostRefStep ==
  ASSUME IInv, NEW w \in Wt, PostRef(w)
  PROVE  Advance
<1>1. PICK j, k, b : j = job[w] /\ k = [j EXCEPT !.at = "persist"] /\ b = wt[w].b
  OBVIOUS
<1>2. /\ j.cmd = "post" /\ j.at = "ref" /\ Cas(b, j.old, j.new) /\ UNCHANGED <<commits, wt>>
      /\ IF tips[b] = j.old THEN Go(w, k) /\ UNCHANGED lock ELSE End(w)
  BY <1>1 DEF PostRef
<1>3. PostShape(w, j) /\ b \in Branch
  BY <1>1, <1>2, JobFacts
<1>4. /\ j = [cmd |-> "post", at |-> j.at, old |-> j.old, new |-> j.new, todo |-> j.todo,
              kid |-> j.kid, recs |-> j.recs, made |-> j.made]
      /\ j \in PostType /\ j # Idle /\ j.new \in CommitNo
  BY <1>3, PostFields DEF PostShape
<1>5. /\ Carries(j.old, j.new) /\ Sees(wt[w].b, j.new) /\ j.made = <<>> /\ DoneShape(w, j)
  BY <1>2, <1>3 DEF PostShape
<1>6. PICK c : /\ tips' = [tips EXCEPT ![b] = c]
               /\ (tips[b] = j.old => c = j.new) /\ (tips[b] # j.old => c = tips[b])
  BY <1>2, <1>3, CasFacts
<1>7. c = tips[b] \/ (c \in CommitNo /\ Sees(b, c))
  BY <1>1, <1>4, <1>5, <1>6
<1>8. CASE End(w)
  <2>1. commits' \in Chains /\ Extended(commits, commits')
    BY <1>2, Unchanged
  <2>2. c = tips[b] \/ (c \in CommitNo' /\ Sees(b, c)')
    BY <1>2, <1>7 DEF CommitNo, Sees, SeenFrom
  <2> QED
    BY <1>2, <1>3, <1>6, <1>8, <2>1, <2>2, EndStep
<1>9. CASE Go(w, k) /\ UNCHANGED lock
  <2>1. k = [cmd |-> "post", at |-> "persist", old |-> j.old, new |-> j.new, todo |-> j.todo,
             kid |-> j.kid, recs |-> j.recs, made |-> j.made]
    BY <1>1, <1>4
  <2>2. /\ k.at = "persist" /\ k.cmd = "post" /\ k.old = j.old /\ k.new = j.new /\ k.recs = j.recs
        /\ k.made = j.made
    BY <2>1
  <2>3. k \in PostType
    BY <1>4, <2>1 DEF PostType
  <2>4. DoneShape(w, k)
    BY <1>5, <2>2 DEF DoneShape, Done, Made
  <2>5. PostShape(w, k)
    <3> HIDE DEF PostType, DoneShape, TodoShape, KidShape, Carries, Sees
    <3> QED
      BY <1>5, <2>2, <2>3, <2>4 DEF PostShape
  <2>6. k # Idle /\ job[w] # Idle
    BY <1>1, <1>4, <2>2, AtWork
  <2>7. job' = [job EXCEPT ![w] = k] /\ LockStep(w, k)
    BY <1>9, <2>6, GoFacts
  <2>8. JobShape(w, k)
    BY <2>5 DEF JobShape
  <2> QED
    BY <1>2, <1>3, <1>6, <1>7, <1>9, <2>7, <2>8, PlainTipStep
<1> QED
  BY <1>2, <1>8, <1>9

\* A list's members are its head and its tail's.
LEMMA MembersMoved ==
  ASSUME NEW S, NEW s \in Seq(S), NEW t \in Seq(S), s # <<>>
  PROVE  /\ Head(s) \in S /\ Tail(s) \in Seq(S) /\ Append(t, Head(s)) \in Seq(S)
         /\ Head(s) \in Members(s)
         /\ Members(Tail(s)) \cup Members(Append(t, Head(s))) = Members(s) \cup Members(t)
<1>0. PICK h, u, v : h = Head(s) /\ u = Tail(s) /\ v = Append(t, h)
  OBVIOUS
<1>1. /\ Len(s) \in Nat /\ Len(s) >= 1 /\ h = s[1] /\ h \in S /\ u \in Seq(S) /\ Len(u) = Len(s) - 1
      /\ \A i \in 1..Len(u) : u[i] = s[i+1]
  BY <1>0, HeadTaken
<1>2. /\ v \in Seq(S) /\ Len(v) = Len(t) + 1 /\ Len(t) \in Nat
      /\ \A i \in 1..Len(t) : v[i] = t[i]
      /\ v[Len(t) + 1] = h
  BY <1>0, <1>1, AppendProperties, LenProperties
<1>3. ASSUME NEW x
      PROVE  x \in Members(s) <=> (x = h \/ x \in Members(u))
  <2>1. ASSUME NEW i \in 1..Len(s)
        PROVE  s[i] = h \/ \E n \in 1..Len(u) : s[i] = u[n]
    <3>1. CASE i = 1
      BY <1>1, <3>1
    <3>2. CASE i # 1
      <4>1. i-1 \in 1..Len(u) /\ u[i-1] = s[i]
        BY <1>1, <3>2
      <4> QED
        BY <4>1
    <3> QED
      BY <3>1, <3>2
  <2>2. 1 \in 1..Len(s) /\ \A n \in 1..Len(u) : n+1 \in 1..Len(s)
    BY <1>1
  <2>3. x \in Members(s) => x = h \/ x \in Members(u)
    BY <2>1 DEF Members
  <2>4. h \in Members(s)
    BY <1>1, <2>2 DEF Members
  <2>5. \A n \in 1..Len(u) : u[n] \in Members(s)
    BY <1>1, <2>2 DEF Members
  <2>6. x \in Members(u) => x \in Members(s)
    BY <2>5 DEF Members
  <2> QED
    BY <2>3, <2>4, <2>6
<1>4. ASSUME NEW x
      PROVE  x \in Members(v) <=> (x = h \/ x \in Members(t))
  <2>1. \A i \in 1..Len(v) : i \in 1..Len(t) \/ i = Len(t) + 1
    BY <1>2
  <2>2. \A i \in 1..Len(t) : i \in 1..Len(v)
    BY <1>2
  <2>3. Len(t) + 1 \in 1..Len(v)
    BY <1>2
  <2> QED
    BY <1>2, <2>1, <2>2, <2>3 DEF Members
<1>5. Members(u) \cup Members(v) = Members(s) \cup Members(t)
  BY <1>3, <1>4
<1>6. h \in Members(s)
  BY <1>3
<1> QED
  BY <1>0, <1>1, <1>2, <1>5, <1>6

LEMMA PostPersistStep ==
  ASSUME IInv, NEW w \in Wt, PostPersist(w)
  PROVE  Advance
<1>1. PICK j, r : j = job[w] /\ r = Head(j.recs)
  OBVIOUS
<1>2. PICK recs, made : recs = Tail(j.recs) /\ made = Append(j.made, r)
  OBVIOUS
<1>3. PICK k : k = [j EXCEPT !.recs = recs, !.made = made]
  OBVIOUS
<1>4. /\ j.cmd = "post" /\ j.at = "persist" /\ j.recs # <<>> /\ Cas(r.b, r.old, r.new)
      /\ Go(w, k) /\ UNCHANGED <<commits, wt, lock>>
  BY <1>1, <1>2, <1>3 DEF PostPersist
<1>5. PostShape(w, j)
  BY <1>1, <1>4, JobFacts
<1>6. /\ j = [cmd |-> "post", at |-> j.at, old |-> j.old, new |-> j.new, todo |-> j.todo,
              kid |-> j.kid, recs |-> j.recs, made |-> j.made]
      /\ j \in PostType /\ j # Idle /\ j.recs \in Seq(Recs) /\ j.made \in Seq(Recs)
  BY <1>5, PostFields DEF PostShape
<1>7. /\ Carries(j.old, j.new) /\ Sees(wt[w].b, j.new) /\ DoneShape(w, j)
  BY <1>4, <1>5 DEF PostShape
<1>8. /\ r \in Recs /\ recs \in Seq(Recs) /\ made \in Seq(Recs)
      /\ Members(recs) \cup Members(made) = Done(j)
  <2>1. PICK S, s, t : S = Recs /\ s = j.recs /\ t = j.made
    OBVIOUS
  <2>2. s \in Seq(S) /\ t \in Seq(S) /\ s # <<>>
    BY <1>4, <1>6, <2>1
  <2>3. /\ Head(s) \in S /\ Tail(s) \in Seq(S) /\ Append(t, Head(s)) \in Seq(S)
        /\ Members(Tail(s)) \cup Members(Append(t, Head(s))) = Members(s) \cup Members(t)
    BY <2>2, MembersMoved
  <2>4. /\ r \in S /\ recs \in Seq(S) /\ made \in Seq(S)
        /\ Members(recs) \cup Members(made) = Members(s) \cup Members(t)
    BY <1>1, <1>2, <2>1, <2>3
  <2> QED
    BY <2>1, <2>4 DEF Done
<1>9. k = [cmd |-> "post", at |-> "persist", old |-> j.old, new |-> j.new, todo |-> j.todo,
           kid |-> j.kid, recs |-> recs, made |-> made]
  <2>1. PICK q : q = [j EXCEPT !.recs = recs]
    OBVIOUS
  <2>2. q = [cmd |-> "post", at |-> "persist", old |-> j.old, new |-> j.new, todo |-> j.todo,
             kid |-> j.kid, recs |-> recs, made |-> j.made]
    BY <1>4, <1>6, <2>1
  <2>3. k = [q EXCEPT !.made = made]
    BY <1>3, <2>1
  <2> QED
    BY <2>2, <2>3
<1>10. /\ k.at = "persist" /\ k.cmd = "post" /\ k.old = j.old /\ k.new = j.new /\ k.recs = recs
       /\ k.made = made
  BY <1>9
<1>11. k \in PostType
  <2> HIDE DEF Recs, Todo, Kid, CommitNo
  <2> QED
    BY <1>6, <1>8, <1>9 DEF PostType
<1>12. DoneShape(w, k)
  <2>1. Done(k) = Done(j)
    BY <1>8, <1>10 DEF Done
  <2>2. \A b, c : Made(w, k, b, c) <=> Made(w, j, b, c)
    BY <1>10, <2>1 DEF Made
  <2> QED
    BY <1>7, <2>1, <2>2 DEF DoneShape
<1>13. PostShape(w, k)
  <2> HIDE DEF PostType, DoneShape, TodoShape, KidShape, Carries, Sees
  <2> QED
    BY <1>7, <1>10, <1>11, <1>12 DEF PostShape
<1>14. k # Idle /\ job[w] # Idle
  BY <1>1, <1>6, <1>10, AtWork
<1>15. job' = [job EXCEPT ![w] = k] /\ LockStep(w, k)
  BY <1>4, <1>14, GoFacts
<1>16. JobShape(w, k)
  BY <1>13 DEF JobShape
<1>17. r.b \in Branch /\ r.new \in CommitNo /\ Sees(r.b, r.new)
  BY <1>8 DEF Recs, Move
<1>18. PICK c : /\ tips' = [tips EXCEPT ![r.b] = c]
                /\ (tips[r.b] = r.old => c = r.new) /\ (tips[r.b] # r.old => c = tips[r.b])
  BY <1>4, <1>17, CasFacts
<1>19. c = tips[r.b] \/ (c \in CommitNo /\ Sees(r.b, c))
  BY <1>17, <1>18
<1> QED
  BY <1>4, <1>15, <1>16, <1>17, <1>18, <1>19, PlainTipStep

LEMMA PostRowStep ==
  ASSUME IInv, NEW w \in Wt, PostRow(w)
  PROVE  Advance
<1>1. PICK j, b, c : j = job[w] /\ b = wt[w].b /\ c = j.new
  OBVIOUS
<1>2. /\ j.cmd = "post" /\ j.at = "persist" /\ wt' = [wt EXCEPT ![w].c = c] /\ End(w)
      /\ commits' = commits /\ tips' = tips
  BY <1>1 DEF PostRow
<1>3. /\ commits' \in Chains /\ Extended(commits, commits') /\ WtShape /\ TipsShape
      /\ wt[w].b \in Branch /\ tips[b] # 0
  BY <1>1, <1>2, Unchanged, JobFacts DEF IInv
<1>4. c \in CommitNo /\ Sees(b, c)
  <2>1. PostShape(w, j)
    BY <1>1, <1>2, JobFacts
  <2> QED
    BY <1>1, <1>2, <2>1, PostFields DEF PostShape
<1>5. TipsShape'
  BY <1>2, <1>3 DEF TipsShape, Sees, SeenFrom
<1>6. WtShape'
  <2>1. /\ wt \in [Wt -> [b : Branch, c : CommitNo]]
        /\ \A v \in Wt : tips[wt[v].b] # 0 /\ Sees(wt[v].b, wt[v].c)
    BY <1>3 DEF WtShape
  <2>2. wt' = [wt EXCEPT ![w] = [b |-> b, c |-> c]]
    <3>1. wt[w] = [b |-> wt[w].b, c |-> wt[w].c]
      BY <2>1
    <3> QED
      <4>1. PICK x : x = wt[w]
        OBVIOUS
      <4>2. x = [b |-> b, c |-> wt[w].c]
        BY <1>1, <3>1, <4>1
      <4>3. [x EXCEPT !.c = c] = [b |-> b, c |-> c]
        BY <4>2
      <4>4. wt' = [wt EXCEPT ![w] = [x EXCEPT !.c = c]]
        BY <1>2, <4>1
      <4> QED
        BY <4>3, <4>4
  <2>3. wt' \in [Wt -> [b : Branch, c : CommitNo]]
    BY <1>1, <1>3, <1>4, <2>1, <2>2
  <2>4. CommitNo' = CommitNo
    BY <1>2 DEF CommitNo
  <2>5. ASSUME NEW v \in Wt
        PROVE  tips'[wt'[v].b] # 0 /\ Sees(wt[v].b, wt[v].c)'
    <3>1. CASE v = w
      <4>1. wt'[v].b = b /\ wt'[v].c = c
        BY <2>1, <2>2, <3>1
      <4> QED
        BY <1>2, <1>3, <1>4, <4>1 DEF Sees, SeenFrom
    <3>2. CASE v # w
      <4>1. wt'[v] = wt[v]
        BY <2>1, <2>2, <3>2
      <4> QED
        BY <1>2, <2>1, <4>1 DEF Sees, SeenFrom
    <3> QED
      BY <3>1, <3>2
  <2> QED
    BY <2>3, <2>4, <2>5 DEF WtShape
<1>7. PICK k : k = Idle
  OBVIOUS
<1>8. JobShape(w, k)' /\ LockStep(w, k) /\ job' = [job EXCEPT ![w] = k]
  BY <1>2, <1>7, AtWork DEF End, Go, LockStep
<1>9. \A v \in Wt \ {w} : wt'[v] = wt[v]
  BY <1>2 DEF IInv, WtShape
<1> QED
  BY <1>3, <1>5, <1>6, <1>8, <1>9, StepKeeps

LEMMA PostStartStep ==
  ASSUME IInv, NEW w \in Wt, NEW l \in Line, PostStart(w, l)
  PROVE  Advance
<1>1. PICK b, c, old, n, x, at, j :
        /\ b = wt[w].b /\ c = wt[w].c /\ old = tips[b] /\ n = Len(commits) + 1
        /\ x = [up |-> c, tree |-> commits[c].tree \cup {l}, in |-> {b}]
        /\ at = IF old \in Behind(c) THEN "ref" ELSE "replay"
        /\ j = [cmd |-> "post", old |-> old, new |-> n, at |-> at,
                todo |-> <<>>, kid |-> <<>>, recs |-> <<>>, made |-> <<>>]
  OBVIOUS
<1>2. Start(w, j) /\ commits' = Append(commits, x) /\ UNCHANGED <<tips, wt>>
  BY <1>1, Zenon DEF PostStart
<1>3. /\ commits \in Chains /\ Len(commits) \in Nat /\ b \in Branch /\ c \in CommitNo /\ old \in CommitNo
      /\ Sees(b, c) /\ Sees(b, old)
  <2>1. tips[b] # 0 /\ b \in Branch
    BY <1>1, JobFacts
  <2> QED
    BY <1>1, <2>1, JobFacts
<1>4. x \in Commit /\ x.up = c /\ commits[c].tree \subseteq x.tree /\ x.in = {b}
  <2>1. commits[c] \in Commit
    BY <1>3, ParentFacts DEF CommitNo
  <2>2. commits[c].tree \in SUBSET Lines /\ l \in Lines /\ c \in Nat
    BY <1>3, <2>1 DEF Commit, Lines, CommitNo
  <2>3. commits[c].tree \cup {l} \in SUBSET Lines /\ {b} \in (SUBSET Branch) \ {{}}
    BY <1>3, <2>2
  <2> QED
    BY <1>1, <2>2, <2>3 DEF Commit
<1>5. PICK ds : ds = Append(commits, x)
  OBVIOUS
<1>6. /\ ds \in Chains /\ Extended(commits, ds) /\ Len(ds) = n /\ ds[n] = x
      /\ Ancestors(ds, n) = {n} \cup Ancestors(commits, c)
      /\ \A i \in 1..Len(commits) : ds[i] = commits[i]
  <2>1. c \in 1..Len(commits)
    BY <1>3 DEF CommitNo
  <2>2. /\ Append(commits, x) \in Chains /\ Extended(commits, Append(commits, x))
        /\ Len(Append(commits, x)) = Len(commits) + 1 /\ Append(commits, x)[Len(commits) + 1] = x
        /\ \A i \in 1..Len(commits) : Append(commits, x)[i] = commits[i]
        /\ Ancestors(Append(commits, x), Len(commits) + 1) = {Len(commits) + 1} \cup Ancestors(commits, c)
    <3>1. PICK cs : cs = commits
      OBVIOUS
    <3>2. cs \in Chains /\ c \in 1..Len(cs) /\ cs[c].tree \subseteq x.tree
      BY <1>3, <1>4, <2>1, <3>1
    <3>3. /\ Append(cs, x) \in Chains /\ Extended(cs, Append(cs, x))
          /\ Len(Append(cs, x)) = Len(cs) + 1 /\ Append(cs, x)[Len(cs) + 1] = x
          /\ \A i \in 1..Len(cs) : Append(cs, x)[i] = cs[i]
          /\ Ancestors(Append(cs, x), Len(cs) + 1) = {Len(cs) + 1} \cup Ancestors(cs, c)
      BY <1>4, <3>2, AppendFacts
    <3> QED
      BY <3>1, <3>3
  <2> QED
    BY <1>1, <1>5, <2>2
<1>7. commits' = ds /\ commits' \in Chains /\ Extended(commits, commits')
  BY <1>2, <1>5, <1>6
<1>8. j.cmd = "post" /\ j.at = at /\ j.old = old /\ j.new = n /\ j.recs = <<>> /\ j.made = <<>>
  BY <1>1
<1>9. job' = [job EXCEPT ![w] = j] /\ LockStep(w, j) /\ lock'[b] = w
  BY <1>1, <1>2, <1>8, StartFacts, AtWork
<1>10. n \in CommitNo' /\ old \in CommitNo' /\ c \in CommitNo' /\ at \in {"replay", "ref"}
  BY <1>1, <1>3, <1>6, <1>7 DEF CommitNo
<1>11. at = "ref" => Carries(old, n)' /\ Sees(b, n)'
  <2> SUFFICES ASSUME at = "ref"
               PROVE  Carries(old, n)' /\ Sees(b, n)'
    OBVIOUS
  <2>1. old \in Ancestors(commits, c)
    BY <1>1 DEF Behind
  <2>2. commits[old].tree \subseteq commits[c].tree
    BY <1>3, <2>1, BehindFacts DEF CommitNo
  <2>3. Carries(old, n)'
    BY <1>3, <1>4, <1>6, <1>7, <2>2 DEF Carries, CommitNo
  <2>4. CASE Siblings
    BY <2>3, <2>4 DEF Sees
  <2>5. CASE ~Siblings
    <3>1. \A a \in Ancestors(commits, c) : a \in 1..Len(commits) /\ commits[a].in \cap Above(b) # {}
      BY <1>3, <2>5, BehindFacts DEF Sees, SeenFrom, SeenIn, CommitNo
    <3>2. b \in Above(b)
      BY <1>3, AboveFacts
    <3>3. \A a \in Ancestors(ds, n) : ds[a].in \cap Above(b) # {}
      BY <1>4, <1>6, <3>1, <3>2
    <3> QED
      BY <1>7, <2>3, <3>3 DEF Sees, SeenFrom, SeenIn
  <2> QED
    BY <2>4, <2>5
<1>12. PostShape(w, j)'
  <2>1. j \in PostType'
    <3>1. <<>> \in Seq(SUBSET (Todo')) /\ <<>> \in Seq(Recs')
      OBVIOUS
    <3> HIDE DEF Recs, Todo, Kid, CommitNo
    <3> QED
      BY <1>1, <1>10, <3>1 DEF PostType
  <2>2. DoneShape(w, j)'
    BY <1>8 DEF DoneShape, Done, Members
  <2>3. lock'[wt'[w].b] = w /\ wt'[w].b = b
    BY <1>1, <1>2, <1>9
  <2>4. j.at \in {"replay", "ref"} /\ (j.at = "ref" => Carries(j.old, j.new)' /\ Sees(wt[w].b, j.new)')
    <3>1. Sees(b, n)' <=> Sees(wt[w].b, j.new)'
      BY <1>8, <2>3 DEF Sees, SeenFrom
    <3> QED
      BY <1>8, <1>10, <1>11, <3>1
  <2> HIDE DEF PostType, DoneShape, TodoShape, KidShape, Carries, Sees
  <2> QED
    BY <1>8, <2>1, <2>2, <2>3, <2>4 DEF PostShape
<1>13. JobShape(w, j)'
  BY <1>12 DEF JobShape
<1> QED
  BY <1>2, <1>7, <1>9, <1>13, JobStep

LEMMA PostReplayStep ==
  ASSUME IInv, NEW w \in Wt, PostReplay(w)
  PROVE  Advance
<1>1. PICK j, b, c, lf : j = job[w] /\ b = wt[w].b /\ c = wt[w].c /\ lf = Leaf(w)
  OBVIOUS
<1>2. PICK ds, h : /\ ds = Rebased(commits, c, j.old, j.new, lf).cs
                   /\ h = Rebased(commits, c, j.old, j.new, lf).head
  OBVIOUS
<1>3. PICK todo, k : /\ todo = <<Kids(b, j.old, h)>>
                     /\ k = [j EXCEPT !.at = "walk", !.new = h, !.todo = todo]
  OBVIOUS
<1>4. /\ j.cmd = "post" /\ j.at = "replay" /\ SeenFrom(View(w, b), j.old)
      /\ commits' = ds /\ Go(w, k) /\ UNCHANGED <<tips, wt>> /\ UNCHANGED lock
  BY <1>1, <1>2, <1>3 DEF PostReplay
<1>5. PostShape(w, j)
  BY <1>1, <1>4, JobFacts
<1>6. /\ j = [cmd |-> "post", at |-> j.at, old |-> j.old, new |-> j.new, todo |-> j.todo,
              kid |-> j.kid, recs |-> j.recs, made |-> j.made]
      /\ j.old \in CommitNo /\ j.new \in CommitNo /\ j.kid \in Kid \cup {<<>>} /\ j # Idle
  BY <1>5, PostFields
<1>7. j.recs = <<>> /\ j.made = <<>> /\ lock[b] = w
  BY <1>1, <1>4, <1>5 DEF PostShape
<1>8. commits \in Chains /\ b \in Branch /\ c \in CommitNo /\ lf = b
  <2>1. commits \in Chains /\ b \in Branch /\ c \in CommitNo
    BY <1>1, JobFacts
  <2>2. \A d \in Branch : lock[d] = w => Leaf(w) = d
    BY <1>1, <1>6, JobFacts
  <2> QED
    BY <1>1, <1>7, <2>1, <2>2
<1>9. /\ ds \in Chains /\ Extended(commits, ds) /\ h \in 1..Len(ds)
      /\ j.old \in Ancestors(ds, h) /\ commits[j.old].tree \subseteq ds[h].tree
      /\ \A a \in Ancestors(ds, h) : a \in Ancestors(commits, j.old) \/ ds[a].in = {b}
  <2>1. c \in 1..Len(commits) /\ j.old \in 1..Len(commits) /\ j.new \in 1..Len(commits)
    BY <1>6, <1>8 DEF CommitNo
  <2>2. PICK r : r = Rebased(commits, c, j.old, j.new, b)
    OBVIOUS
  <2>3. /\ r.cs \in Chains /\ Extended(commits, r.cs) /\ r.head \in 1..Len(r.cs)
        /\ j.old \in Ancestors(r.cs, r.head) /\ commits[j.old].tree \subseteq r.cs[r.head].tree
        /\ \A a \in Ancestors(r.cs, r.head) : a \in Ancestors(commits, j.old) \/ r.cs[a].in = {b}
    <3>1. PICK cs, o, n : cs = commits /\ o = j.old /\ n = j.new
      OBVIOUS
    <3>2. cs \in Chains /\ c \in 1..Len(cs) /\ o \in 1..Len(cs) /\ n \in 1..Len(cs)
      BY <1>8, <2>1, <3>1
    <3>3. r = Rebased(cs, c, o, n, b)
      BY <2>2, <3>1
    <3>4. /\ r.cs \in Chains /\ Extended(cs, r.cs) /\ r.head \in 1..Len(r.cs)
          /\ o \in Ancestors(r.cs, r.head) /\ cs[o].tree \subseteq r.cs[r.head].tree
          /\ \A a \in Ancestors(r.cs, r.head) : a \in Ancestors(cs, o) \/ r.cs[a].in = {b}
      BY <1>8, <3>2, <3>3, RebasedFacts
    <3> QED
      BY <3>1, <3>4
  <2>4. ds = r.cs /\ h = r.head
    BY <1>2, <1>8, <2>2
  <2> QED
    BY <2>3, <2>4
<1>10. commits' \in Chains /\ Extended(commits, commits')
  BY <1>4, <1>9
<1>11. /\ \A n \in CommitNo : n \in CommitNo'
       /\ Kid \subseteq Kid'
  BY <1>8, <1>10, GrowthFacts, MovesKept
<1>12. h \in CommitNo' /\ j.old \in CommitNo'
  BY <1>4, <1>6, <1>9, <1>11 DEF CommitNo
<1>13. Carries(j.old, h)'
  <2>1. ds[j.old].tree = commits[j.old].tree
    BY <1>6, <1>9 DEF Extended, CommitNo
  <2> QED
    BY <1>4, <1>9, <2>1 DEF Carries
<1>14. Sees(b, h)'
  <2>1. \A a \in Ancestors(commits, j.old) : a \in 1..Len(commits) /\ commits[a].in \cap Above(b) # {}
    <3>1. View(w, b) = Above(b)
      BY <1>1 DEF View
    <3> QED
      BY <1>4, <1>6, <1>8, <3>1, BehindFacts DEF SeenFrom, SeenIn, CommitNo
  <2>2. b \in Above(b)
    BY <1>8, AboveFacts
  <2>3. \A a \in Ancestors(ds, h) : ds[a].in \cap Above(b) # {}
    BY <1>9, <2>1, <2>2 DEF Extended
  <2> QED
    BY <1>4, <2>3 DEF Sees, SeenFrom, SeenIn
<1>15. PICK q : q = Kids(b, j.old, h)
  OBVIOUS
<1>16. /\ q \subseteq Todo'
       /\ \A x \in q : Up[x.b] = b /\ x.new = h /\ x.b \in Branch
       /\ \A x, y \in q : x.b = y.b => x = y
  <2>1. ASSUME NEW x \in q
        PROVE  /\ x = [b |-> x.b, old |-> j.old, new |-> h] /\ x.b \in Branch /\ Up[x.b] = b
               /\ x.new = h /\ x.old = j.old
    BY <1>15 DEF Kids
  <2>2. b # None
    BY <1>8, UpAssumption
  <2>3. ASSUME NEW x \in q
        PROVE  x \in Todo'
    <3>1. x \in Move'
      BY <1>12, <2>1 DEF Move
    <3>2. Carries(x.old, x.new)' /\ Sees(Up[x.b], x.new)'
      BY <1>13, <1>14, <2>1
    <3> QED
      BY <2>1, <2>2, <3>1, <3>2 DEF Todo
  <2> QED
    BY <2>1, <2>3
<1>17. k = [cmd |-> "post", at |-> "walk", old |-> j.old, new |-> h, todo |-> todo,
            kid |-> j.kid, recs |-> <<>>, made |-> <<>>]
  <2>1. PICK r : r = [j EXCEPT !.at = "walk", !.new = h]
    OBVIOUS
  <2>2. r = [cmd |-> "post", at |-> "walk", old |-> j.old, new |-> h, todo |-> j.todo,
             kid |-> j.kid, recs |-> <<>>, made |-> <<>>]
    <3>1. PICK s : s = [j EXCEPT !.at = "walk"]
      OBVIOUS
    <3>2. s = [cmd |-> "post", at |-> "walk", old |-> j.old, new |-> j.new, todo |-> j.todo,
               kid |-> j.kid, recs |-> j.recs, made |-> j.made]
      BY <1>6, <3>1
    <3>3. r = [s EXCEPT !.new = h]
      BY <2>1, <3>1
    <3>4. r = [cmd |-> "post", at |-> "walk", old |-> j.old, new |-> h, todo |-> j.todo,
               kid |-> j.kid, recs |-> j.recs, made |-> j.made]
      BY <3>2, <3>3
    <3> QED
      BY <1>7, <3>4
  <2>3. k = [r EXCEPT !.todo = todo]
    BY <1>3, <2>1
  <2> QED
    BY <2>2, <2>3
<1>18. /\ k.cmd = "post" /\ k.at = "walk" /\ k.old = j.old /\ k.new = h /\ k.todo = <<q>>
       /\ k.recs = <<>> /\ k.made = <<>>
  <2>1. todo = <<q>>
    BY <1>3, <1>15
  <2>2. /\ k.cmd = "post" /\ k.at = "walk" /\ k.old = j.old /\ k.new = h /\ k.todo = todo
        /\ k.recs = <<>> /\ k.made = <<>>
    BY <1>17
  <2> QED
    BY <2>1, <2>2
<1>19. PostShape(w, k)'
  <2>1. k \in PostType'
    <3>1. todo \in Seq(SUBSET (Todo')) /\ <<>> \in Seq(Recs')
      BY <1>3, <1>15, <1>16
    <3> HIDE DEF Recs, Todo, Kid, CommitNo
    <3>2. j.kid \in Kid' \cup {<<>>}
      BY <1>6, <1>11
    <3> QED
      BY <1>12, <1>17, <3>1, <3>2 DEF PostType
  <2>2. wt'[w].b = b
    BY <1>1, <1>4
  <2>3. DoneShape(w, k)'
    BY <1>18 DEF DoneShape, Done, Members
  <2>4. TodoShape(w, k)'
    <3>1. Len(k.todo) = 1 /\ k.todo[1] = q
      BY <1>18
    <3>2. Done(k) = {}
      BY <1>18 DEF Done, Members
    <3>3. b \in Above(b)
      BY <1>8, AboveFacts
    <3>4. ASSUME NEW x \in q
          PROVE  Under(w, x.b)' /\ Made(w, k, Up[x.b], x.new)'
      BY <1>16, <1>18, <2>2, <3>3 DEF Under, Made
    <3> QED
      BY <1>16, <3>1, <3>2, <3>4 DEF TodoShape, Done, Members
  <2>5. Carries(k.old, k.new)' /\ Sees(wt[w].b, k.new)'
    BY <1>13, <1>14, <1>18, <2>2 DEF Carries, Sees, SeenFrom
  <2> HIDE DEF PostType, DoneShape, TodoShape, KidShape, Carries, Sees
  <2> QED
    BY <1>18, <2>1, <2>3, <2>4, <2>5 DEF PostShape
<1>20. k # Idle /\ job[w] # Idle
  BY <1>1, <1>6, <1>18, AtWork
<1>21. job' = [job EXCEPT ![w] = k] /\ LockStep(w, k)
  BY <1>4, <1>20, GoFacts
<1>22. JobShape(w, k)'
  BY <1>19 DEF JobShape
<1> QED
  BY <1>4, <1>10, <1>21, <1>22, JobStep

\* What the cascade makes of one branch
Replayed(kid) ==
  IF kid.tip \in Behind(kid.new) THEN [cs |-> commits, head |-> kid.tip]
  ELSE Rebased(commits, Fork(kid.old, kid.tip), kid.new, kid.tip, kid.b)

LEMMA WalkReplayFacts ==
  ASSUME IInv, NEW w \in Wt, NEW j, NEW kid, NEW ds, NEW h, j = job[w], kid = j.kid,
         PostShape(w, j), j.at = "switch", SeenFrom(View(w, kid.b), kid.tip),
         ds = Replayed(kid).cs, h = Replayed(kid).head
  PROVE  /\ kid \in Kid /\ ds \in Chains /\ Extended(commits, ds) /\ h \in 1..Len(ds)
         /\ commits[kid.tip].tree \subseteq ds[h].tree
         /\ Siblings \/ SeenIn(ds, Above(kid.b), h)
         /\ h = kid.tip \/ kid.new \in Ancestors(ds, h)
<1>1. kid \in Kid /\ Under(w, kid.b)
  <2>1. KidShape(w, j) /\ j.kid \in Kid \cup {<<>>}
    BY PostFields DEF PostShape
  <2> QED
    BY <2>1 DEF KidShape
<1>2. /\ kid.b \in Branch /\ kid.tip \in 1..Len(commits) /\ kid.old \in 1..Len(commits)
      /\ kid.new \in 1..Len(commits) /\ Up[kid.b] \in Branch /\ Carries(kid.old, kid.new)
      /\ Sees(Up[kid.b], kid.new) /\ Above(Up[kid.b]) \subseteq Above(kid.b)
  <2>1. /\ kid.b \in Branch /\ kid.tip \in 1..Len(commits) /\ kid.old \in 1..Len(commits)
        /\ kid.new \in 1..Len(commits) /\ Up[kid.b] # None /\ Carries(kid.old, kid.new)
        /\ Sees(Up[kid.b], kid.new)
    BY <1>1 DEF Kid, CommitNo
  <2>2. Up[kid.b] \in Branch /\ Above(Up[kid.b]) \subseteq Above(kid.b)
    BY <2>1, AboveFacts
  <2> QED
    BY <2>1, <2>2
<1>3. commits \in Chains /\ Len(commits) \in Nat
  BY JobFacts
<1>4. Extended(commits, commits)
  BY <1>3 DEF Extended
<1>5. CASE kid.tip \in Behind(kid.new)
  <2>1. ds = commits /\ h = kid.tip
    BY <1>5 DEF Replayed
  <2>2. SeenIn(commits, Above(kid.b), kid.tip)
    <3>1. wt[w].b \in Above(Up[kid.b])
      BY <1>1 DEF Under
    <3>2. Above(wt[w].b) \subseteq Above(Up[kid.b])
      BY <1>2, <3>1, AboveFacts
    <3>3. View(w, kid.b) = Above(kid.b)
      BY <1>2, <3>2 DEF View
    <3> QED
      BY <3>3 DEF SeenFrom
  <2> QED
    BY <1>1, <1>2, <1>3, <1>4, <2>1, <2>2
<1>6. CASE kid.tip \notin Behind(kid.new)
  <2>1. PICK f, o, t, n, b, cs : /\ f = Fork(kid.old, kid.tip) /\ o = kid.old /\ t = kid.tip /\ n = kid.new
                                 /\ b = kid.b /\ cs = commits
    OBVIOUS
  <2>2. cs \in Chains /\ f \in 1..Len(cs) /\ o \in 1..Len(cs) /\ t \in 1..Len(cs) /\ n \in 1..Len(cs) /\ b \in Branch
    BY <1>2, <1>3, <2>1, ForkFacts
  <2>3. cs[f].tree \subseteq cs[n].tree
    <3>1. commits[f].tree \subseteq commits[o].tree
      BY <1>2, <1>3, <2>1, ForkFacts
    <3> QED
      BY <1>2, <2>1, <3>1 DEF Carries
  <2>4. PICK r : r = Rebased(cs, f, n, t, b)
    OBVIOUS
  <2>5. ds = r.cs /\ h = r.head
    BY <1>6, <2>1, <2>4 DEF Replayed
  <2>6. /\ r.cs \in Chains /\ Extended(cs, r.cs) /\ r.head \in 1..Len(r.cs)
        /\ n \in Ancestors(r.cs, r.head)
        /\ cs[n].tree \subseteq r.cs[r.head].tree
        /\ \A a \in Ancestors(r.cs, r.head) : a \in Ancestors(cs, n) \/ r.cs[a].in = {b}
    BY <2>2, <2>4, RebasedFacts
  <2>8. cs[t].tree \subseteq r.cs[r.head].tree
    BY <2>2, <2>3, <2>4, RebasedFacts, Zenon
  <2>7. ASSUME ~Siblings
        PROVE  SeenIn(ds, Above(kid.b), h)
    <3>1. \A a \in Ancestors(cs, n) : a \in 1..Len(cs) /\ cs[a].in \cap Above(b) # {}
      BY <1>2, <2>1, <2>2, <2>7, BehindFacts DEF Sees, SeenFrom, SeenIn
    <3>2. b \in Above(b)
      BY <2>2, AboveFacts
    <3>3. \A a \in Ancestors(r.cs, r.head) : r.cs[a].in \cap Above(b) # {}
      BY <2>6, <3>1, <3>2 DEF Extended
    <3> QED
      BY <2>1, <2>5, <3>3 DEF SeenIn
  <2> QED
    BY <1>1, <2>1, <2>5, <2>6, <2>7, <2>8
<1> QED
  BY <1>5, <1>6

LEMMA WalkReplayStep ==
  ASSUME IInv, NEW w \in Wt, WalkReplay(w)
  PROVE  Advance
<1>1. PICK j, kid, ds, h :
        /\ j = job[w] /\ kid = j.kid
        /\ ds = Replayed(kid).cs /\ h = Replayed(kid).head
  OBVIOUS
<1>2. PICK q, rec, recs, todo :
        /\ q = Kids(kid.b, kid.tip, h) /\ rec = [b |-> kid.b, old |-> kid.tip, new |-> h]
        /\ recs = Append(j.recs, rec) /\ todo = <<q>> \o j.todo
  OBVIOUS
<1>3. PICK k : k = [j EXCEPT !.at = "walk", !.recs = recs, !.todo = todo]
  OBVIOUS
<1>4. /\ j.cmd = "post" /\ j.at = "switch" /\ (Free(kid.b) \/ lock[kid.b] = w)
      /\ SeenFrom(View(w, kid.b), kid.tip) /\ lock' = Taken(w, kid.b) /\ commits' = ds
      /\ job' = [job EXCEPT ![w] = k] /\ UNCHANGED <<tips, wt>>
  BY <1>1, <1>2, <1>3, Zenon DEF WalkReplay, Below, Go, Replayed
<1>5. PostShape(w, j)
  BY <1>1, <1>4, JobFacts
<1>6. /\ j = [cmd |-> "post", at |-> j.at, old |-> j.old, new |-> j.new, todo |-> j.todo,
              kid |-> j.kid, recs |-> j.recs, made |-> j.made]
      /\ j.old \in CommitNo /\ j.new \in CommitNo /\ j.todo \in Seq(SUBSET Todo)
      /\ j.recs \in Seq(Recs) /\ j # Idle
  BY <1>5, PostFields
<1>7. /\ Carries(j.old, j.new) /\ Sees(wt[w].b, j.new) /\ j.made = <<>>
      /\ DoneShape(w, j) /\ TodoShape(w, j) /\ KidShape(w, j)
  BY <1>4, <1>5 DEF PostShape
<1>8. /\ kid \in Kid /\ ds \in Chains /\ Extended(commits, ds) /\ h \in 1..Len(ds)
      /\ commits[kid.tip].tree \subseteq ds[h].tree
      /\ Siblings \/ SeenIn(ds, Above(kid.b), h)
      /\ h = kid.tip \/ kid.new \in Ancestors(ds, h)
  BY <1>1, <1>4, <1>5, WalkReplayFacts, Zenon
<1>9. commits' \in Chains /\ Extended(commits, commits') /\ commits \in Chains
  BY <1>4, <1>8, JobFacts
<1>10. /\ \A n \in CommitNo : n \in CommitNo'
       /\ \A n \in CommitNo : Behind(n)' = Behind(n)
       /\ \A n \in CommitNo : \A b : Sees(b, n) => Sees(b, n)'
       /\ \A n, m \in CommitNo : Carries(n, m) => Carries(n, m)'
       /\ Recs \subseteq Recs' /\ Todo \subseteq Todo' /\ Kid \subseteq Kid'
  <2>1. \A n \in CommitNo : n \in 0..Len(commits)
    BY <1>9, GrowthFacts
  <2> QED
    BY <1>9, <2>1, GrowthFacts, MovesKept
<1>11. /\ kid.b \in Branch /\ kid.tip \in CommitNo /\ kid.new \in CommitNo /\ Up[kid.b] \in Branch
       /\ kid.b \notin Above(Up[kid.b]) /\ Up[kid.b] # kid.b /\ Above(Up[kid.b]) \subseteq Above(kid.b)
  <2>1. kid.b \in Branch /\ kid.tip \in CommitNo /\ kid.new \in CommitNo /\ Up[kid.b] # None
    BY <1>8 DEF Kid
  <2> QED
    BY <2>1, AboveFacts
<1>12. Under(w, kid.b) /\ Made(w, j, Up[kid.b], kid.new)
  BY <1>1, <1>7 DEF KidShape
<1>13. \A r \in Done(j) : r.b # kid.b
  BY <1>1, <1>7 DEF KidShape
<1>14. \A i \in 1..Len(j.todo) : \A x \in j.todo[i] : x.b # kid.b
  BY <1>1, <1>7 DEF KidShape
<1>15. h \in CommitNo' /\ Carries(kid.tip, h)' /\ Sees(kid.b, h)'
  <2>1. h \in CommitNo'
    BY <1>4, <1>8 DEF CommitNo
  <2>2. ds[kid.tip].tree = commits[kid.tip].tree
    BY <1>8, <1>11 DEF Extended, CommitNo
  <2>3. Carries(kid.tip, h)'
    BY <1>4, <1>8, <2>2 DEF Carries
  <2>4. Sees(kid.b, h)'
    BY <1>4, <1>8 DEF Sees, SeenFrom
  <2> QED
    BY <2>1, <2>3, <2>4
<1>16. /\ q \subseteq Todo'
       /\ \A x \in q : Up[x.b] = kid.b /\ x.new = h /\ x.b \in Branch
       /\ \A x, y \in q : x.b = y.b => x = y
  <2>1. ASSUME NEW x \in q
        PROVE  /\ x = [b |-> x.b, old |-> kid.tip, new |-> h] /\ x.b \in Branch /\ Up[x.b] = kid.b
               /\ x.new = h /\ x.old = kid.tip
    BY <1>2 DEF Kids
  <2>2. kid.b # None
    BY <1>11, UpAssumption
  <2>3. ASSUME NEW x \in q
        PROVE  x \in Todo'
    <3>1. x \in Move'
      BY <1>10, <1>11, <1>15, <2>1 DEF Move
    <3>2. Carries(x.old, x.new)' /\ Sees(Up[x.b], x.new)'
      BY <1>15, <2>1
    <3> QED
      BY <2>1, <2>2, <3>1, <3>2 DEF Todo
  <2> QED
    BY <2>1, <2>3
<1>17. rec \in Recs' /\ rec.b = kid.b /\ rec.new = h /\ rec.old = kid.tip
  <2>1. rec.b = kid.b /\ rec.new = h /\ rec.old = kid.tip
    BY <1>2
  <2>2. rec \in Move'
    BY <1>2, <1>10, <1>11, <1>15 DEF Move
  <2> QED
    BY <1>15, <2>1, <2>2 DEF Recs
<1>18. k = [cmd |-> "post", at |-> "walk", old |-> j.old, new |-> j.new, todo |-> todo,
            kid |-> kid, recs |-> recs, made |-> <<>>]
  <2>1. PICK r : r = [j EXCEPT !.at = "walk"]
    OBVIOUS
  <2>6. PICK s : s = [r EXCEPT !.recs = recs]
    OBVIOUS
  <2>2. r = [cmd |-> "post", at |-> "walk", old |-> j.old, new |-> j.new, todo |-> j.todo,
             kid |-> j.kid, recs |-> j.recs, made |-> j.made]
    BY <1>6, <2>1
  <2>3. s = [cmd |-> "post", at |-> "walk", old |-> j.old, new |-> j.new, todo |-> j.todo,
             kid |-> j.kid, recs |-> recs, made |-> j.made]
    BY <2>2, <2>6
  <2>4. k = [s EXCEPT !.todo = todo]
    BY <1>3, <2>1, <2>6
  <2>5. k = [cmd |-> "post", at |-> "walk", old |-> j.old, new |-> j.new, todo |-> todo,
             kid |-> j.kid, recs |-> recs, made |-> j.made]
    BY <2>3, <2>4
  <2> QED
    BY <1>1, <1>7, <2>5
<1>19. /\ k.cmd = "post" /\ k.at = "walk" /\ k.old = j.old /\ k.new = j.new /\ k.todo = todo
       /\ k.recs = recs /\ k.made = <<>>
  BY <1>18
\* The lists
<1>20. /\ todo \in Seq(SUBSET (Todo')) /\ Len(todo) = Len(j.todo) + 1 /\ Len(j.todo) \in Nat
       /\ todo[1] = q /\ \A i \in 1..Len(todo) : i # 1 => i-1 \in 1..Len(j.todo) /\ todo[i] = j.todo[i-1]
  <2>1. PICK S, s, t : S = SUBSET (Todo') /\ s = <<q>> /\ t = j.todo
    OBVIOUS
  <2>2. s \in Seq(S) /\ t \in Seq(S) /\ Len(s) = 1 /\ s[1] = q
    BY <1>6, <1>10, <1>16, <2>1
  <2>3. /\ s \o t \in Seq(S) /\ Len(s \o t) = Len(s) + Len(t)
        /\ \A i \in 1..Len(s) + Len(t) : (s \o t)[i] = IF i <= Len(s) THEN s[i] ELSE t[i - Len(s)]
    BY <2>2, ConcatProperties
  <2>4. todo = s \o t /\ Len(t) \in Nat
    BY <1>2, <2>1, <2>2, LenProperties
  <2>5. \A i \in 1..Len(todo) : i # 1 => i-1 \in 1..Len(t) /\ todo[i] = t[i-1]
    BY <2>2, <2>3, <2>4
  <2>6. todo[1] = q
    BY <2>2, <2>3, <2>4
  <2> QED
    BY <2>1, <2>2, <2>3, <2>4, <2>5, <2>6
<1>21. recs \in Seq(Recs') /\ Done(k) = Done(j) \cup {rec}
  <2>1. PICK S, t : S = Recs' /\ t = j.recs
    OBVIOUS
  <2>2. t \in Seq(S) /\ rec \in S
    BY <1>6, <1>10, <1>17, <2>1
  <2>3. /\ recs \in Seq(S) /\ Len(recs) = Len(t) + 1 /\ Len(t) \in Nat
        /\ \A i \in 1..Len(t) : recs[i] = t[i]
        /\ recs[Len(t) + 1] = rec
    BY <1>2, <2>1, <2>2, AppendProperties, LenProperties
  <2>4. Members(recs) = Members(t) \cup {rec}
    <3>1. \A i \in 1..Len(recs) : i \in 1..Len(t) \/ i = Len(t) + 1
      BY <2>3
    <3>2. (\A i \in 1..Len(t) : i \in 1..Len(recs)) /\ Len(t) + 1 \in 1..Len(recs)
      BY <2>3
    <3>3. \A x \in Members(recs) : x \in Members(t) \/ x = rec
      BY <2>3, <3>1 DEF Members
    <3>4. rec \in Members(recs)
      BY <2>3, <3>2 DEF Members
    <3>5. \A x \in Members(t) : x \in Members(recs)
      BY <2>3, <3>2 DEF Members
    <3> QED
      BY <3>3, <3>4, <3>5
  <2> QED
    BY <1>7, <1>19, <2>1, <2>3, <2>4 DEF Done
<1>22. \A b, c : Made(w, j, b, c) => Made(w, k, b, c)
  BY <1>19, <1>21 DEF Made
\* Nothing that is done, or to be done already, is below this branch.
<1>23. \A c : ~ Made(w, j, kid.b, c)
  <2>1. wt[w].b # kid.b
    BY <1>11, <1>12 DEF Under
  <2> QED
    BY <1>13, <2>1 DEF Made
<1>24. \A x \in q, r \in Done(j) : r.b # x.b
  BY <1>7, <1>16, <1>23 DEF DoneShape
<1>25. \A x \in q : \A i \in 1..Len(j.todo) : \A y \in j.todo[i] : y.b # x.b
  BY <1>7, <1>16, <1>23 DEF TodoShape
<1>26. wt' = wt /\ (\A b : Under(w, b)' <=> Under(w, b)) /\ \A b, c : Made(w, k, b, c)' <=> Made(w, k, b, c)
  BY <1>4 DEF Under, Made, Done, Members
<1>27. DoneShape(w, k)'
  <2>1. ASSUME NEW r \in Done(k)
        PROVE  /\ Under(w, r.b)
               /\ \E c \in CommitNo' : Made(w, k, Up[r.b], c) /\ (r.new = r.old \/ c \in Behind(r.new)')
    <3>1. CASE r \in Done(j)
      <4>1. /\ Under(w, r.b)
            /\ \E c \in CommitNo : Made(w, j, Up[r.b], c) /\ (r.new = r.old \/ c \in Behind(r.new))
        BY <1>7, <3>1 DEF DoneShape
      <4>2. PICK c \in CommitNo : Made(w, j, Up[r.b], c) /\ (r.new = r.old \/ c \in Behind(r.new))
        BY <4>1
      <4>3. r.new \in CommitNo
        BY <1>6, <1>7, <3>1 DEF Done, Members, Recs, Move
      <4>4. Behind(r.new)' = Behind(r.new)
        BY <1>10, <4>3
      <4> QED
        BY <1>10, <1>22, <4>1, <4>2, <4>4
    <3>2. CASE r = rec
      <4>1. Made(w, k, Up[r.b], kid.new) /\ kid.new \in CommitNo'
        BY <1>10, <1>11, <1>12, <1>17, <1>22, <3>2
      <4>2. r.new = r.old \/ kid.new \in Behind(r.new)'
        BY <1>4, <1>8, <1>17, <3>2 DEF Behind
      <4> QED
        BY <1>12, <1>17, <3>2, <4>1, <4>2
    <3> QED
      BY <1>21, <3>1, <3>2
  <2>2. \A r, s \in Done(k) : r.b = s.b => r = s
    BY <1>7, <1>13, <1>17, <1>21 DEF DoneShape
  <2> QED
    BY <1>26, <2>1, <2>2 DEF DoneShape, Done, Members
<1>28. TodoShape(w, k)
  <2>1. ASSUME NEW i \in 1..Len(todo), NEW x \in todo[i]
        PROVE  /\ Under(w, x.b) /\ Made(w, k, Up[x.b], x.new)
               /\ \A r \in Done(k) : r.b # x.b
               /\ \A n \in 1..Len(todo) : \A l \in todo[n] : l.b = x.b => n = i /\ l = x
    <3>1. CASE i = 1
      <4>1. x \in q
        BY <1>20, <2>1, <3>1
      <4>2. Under(w, x.b)
        <5>1. wt[w].b \in Above(kid.b)
          BY <1>11, <1>12 DEF Under
        <5> QED
          BY <1>16, <4>1, <5>1 DEF Under
      <4>3. Made(w, k, Up[x.b], x.new)
        BY <1>16, <1>17, <1>21, <4>1 DEF Made
      <4>4. \A r \in Done(k) : r.b # x.b
        <5>1. x.b # kid.b
          BY <1>16, <1>11, <4>1
        <5> QED
          BY <1>17, <1>21, <1>24, <4>1, <5>1
      <4>5. ASSUME NEW n \in 1..Len(todo), NEW l \in todo[n], l.b = x.b
            PROVE  n = i /\ l = x
        <5>1. n = 1
          BY <1>20, <1>25, <4>1, <4>5
        <5> QED
          BY <1>16, <1>20, <3>1, <4>1, <4>5, <5>1
      <4> QED
        BY <4>2, <4>3, <4>4, <4>5
    <3>2. CASE i # 1
      <4>1. i-1 \in 1..Len(j.todo) /\ x \in j.todo[i-1]
        BY <1>20, <2>1, <3>2
      <4>2. /\ Under(w, x.b) /\ Made(w, j, Up[x.b], x.new) /\ \A r \in Done(j) : r.b # x.b
            /\ \A n \in 1..Len(j.todo) : \A l \in j.todo[n] : l.b = x.b => n = i-1 /\ l = x
        BY <1>7, <4>1 DEF TodoShape
      <4>3. \A r \in Done(k) : r.b # x.b
        BY <1>14, <1>17, <1>21, <4>1, <4>2
      <4>4. ASSUME NEW n \in 1..Len(todo), NEW l \in todo[n], l.b = x.b
            PROVE  n = i /\ l = x
        <5>1. n # 1
          <6>1. n = 1 => l \in q
            BY <1>20, <4>4
          <6> QED
            BY <1>25, <4>1, <4>4, <6>1
        <5>2. n-1 = i-1 /\ l = x
          BY <1>20, <4>2, <4>4, <5>1
        <5> QED
          BY <1>20, <5>2
      <4> QED
        BY <1>22, <4>2, <4>3, <4>4
    <3> QED
      BY <3>1, <3>2
  <2> QED
    BY <1>19, <2>1 DEF TodoShape
<1>29. TodoShape(w, k)'
  BY <1>26, <1>28 DEF TodoShape, Done, Members
<1>30. k \in PostType'
  <2>1. <<>> \in Seq(Recs')
    OBVIOUS
  <2> HIDE DEF Recs, Todo, Kid, CommitNo
  <2>2. kid \in Kid' /\ j.old \in CommitNo' /\ j.new \in CommitNo'
    BY <1>6, <1>8, <1>10
  <2> QED
    BY <1>18, <1>20, <1>21, <2>1, <2>2 DEF PostType
<1>31. Carries(k.old, k.new)' /\ Sees(wt[w].b, k.new)'
  <2>1. PICK o, n, b : o = j.old /\ n = j.new /\ b = wt[w].b
    OBVIOUS
  <2>2. Carries(o, n)' /\ Sees(b, n)'
    BY <1>6, <1>7, <1>10, <2>1
  <2> QED
    BY <1>4, <1>19, <2>1, <2>2 DEF Carries, Sees, SeenFrom
<1>32. PostShape(w, k)'
  <2> HIDE DEF PostType, DoneShape, TodoShape, KidShape, Carries, Sees
  <2> QED
    BY <1>19, <1>27, <1>29, <1>30, <1>31 DEF PostShape
<1>33. k # Idle
  BY <1>19, AtWork
<1>34. LockStep(w, k)
  BY <1>4, <1>11, <1>33 DEF LockStep
<1>35. JobShape(w, k)'
  BY <1>32 DEF JobShape
<1> QED
  BY <1>4, <1>9, <1>34, <1>35, JobStep

----------------------------------------------------------------------------
\* The theorems

LEMMA InitIInv == Init => IInv
<1> SUFFICES ASSUME Init
             PROVE  IInv
  OBVIOUS
<1>1. /\ commits = Store /\ tips = Heads /\ job = [w \in Wt |-> Idle] /\ lock = [b \in Branch |-> None]
      /\ wt \in [Wt -> {[b |-> b, c |-> Heads[b]] : b \in {x \in Branch : Heads[x] # 0}}]
  BY DEF Init
<1>2. Trunk \in Branch
  <2>1. \E t \in Branch : Up[t] = None
    BY UpAssumption
  <2> QED
    BY <2>1 DEF Trunk
<1>3. /\ Store \in Chains /\ Heads \in [Branch -> 0..Len(Store)] /\ Heads[Trunk] # 0
      /\ \A b \in Branch : Heads[b] # 0 => SeenIn(Store, Above(b), Heads[b])
  BY StoreAssumption DEF Chains
<1>4. Len(Store) \in Nat
  BY <1>3, LenProperties DEF Chains
<1>5. History
  <2>1. Heads[Trunk] \in 0..Len(Store) /\ Heads[Trunk] # 0
    BY <1>2, <1>3
  <2> QED
    BY <1>1, <1>3, <1>4, <2>1 DEF History
<1>6. TipsShape
  BY <1>1, <1>3 DEF TipsShape, Sees, SeenFrom
<1>7. WtShape
  <2>1. ASSUME NEW w \in Wt
        PROVE  wt[w] \in [b : Branch, c : CommitNo] /\ tips[wt[w].b] # 0 /\ Sees(wt[w].b, wt[w].c)
    <3>1. PICK b \in Branch : Heads[b] # 0 /\ wt[w] = [b |-> b, c |-> Heads[b]]
      BY <1>1
    <3>2. Heads[b] \in CommitNo
      BY <1>1, <1>3, <1>4, <3>1 DEF CommitNo
    <3>3. wt[w].b = b /\ wt[w].c = Heads[b]
      BY <3>1
    <3> QED
      BY <1>1, <1>3, <3>1, <3>2, <3>3 DEF Sees, SeenFrom
  <2>2. wt = [w \in Wt |-> wt[w]]
    BY <1>1
  <2> QED
    BY <2>1, <2>2 DEF WtShape
<1>8. lock \in [Branch -> Wt \cup {None}] /\ DOMAIN job = Wt /\ job = [w \in Wt |-> job[w]]
  BY <1>1
<1>9. ASSUME NEW w \in Wt
      PROVE  JobShape(w, job[w]) /\ LockShape(w, job[w])
  <2>1. job[w] = Idle /\ \A b \in Branch : lock[b] # w
    BY <1>1, UpAssumption
  <2> QED
    BY <2>1 DEF JobShape, LockShape
<1> QED
  BY <1>5, <1>6, <1>7, <1>8, <1>9 DEF IInv

LEMMA NextIInv == IInv /\ [Next]_vars => Advance
<1> SUFFICES ASSUME IInv, [Next]_vars
             PROVE  Advance
  OBVIOUS
<1>1. CASE UNCHANGED vars
  <2>1. IInv'
    <3>1. commits' \in Chains /\ Extended(commits, commits') /\ commits \in Chains /\ Len(commits) # 0
      BY <1>1, Unchanged DEF vars, IInv, History
    <3>2. TipsShape' /\ WtShape'
      BY <1>1, <3>1, TipsSame, WtSame DEF vars
    <3>3. /\ lock' \in [Branch -> Wt \cup {None}] /\ DOMAIN job' = Wt
          /\ job' = [w \in Wt |-> job'[w]] /\ commits' = commits
      BY <1>1 DEF vars, IInv
    <3>4. ASSUME NEW w \in Wt
          PROVE  JobShape(w, job[w])' /\ LockShape(w, job[w])'
      <4>1. PICK j : j = job[w] /\ j = job'[w]
        BY <1>1 DEF vars
      <4>2. JobShape(w, j) /\ LockShape(w, j) /\ wt'[w] = wt[w] /\ wt[w] \in [b : Branch, c : CommitNo]
        BY <1>1, <4>1 DEF vars, IInv, WtShape
      <4>3. \A b \in Branch : lock[b] = w => lock'[b] = w
        BY <1>1 DEF vars
      <4>4. JobShape(w, j)'
        BY <3>1, <4>2, <4>3, ShapeKept
      <4>5. LockShape(w, j)'
        BY <1>1, <4>2 DEF vars, LockShape
      <4> QED
        BY <4>1, <4>4, <4>5
    <3> QED
      BY <3>1, <3>2, <3>3, <3>4 DEF IInv, History
  <2>2. Extended(commits, commits')
    BY <1>1, Unchanged DEF vars
  <2> QED
    BY <2>1, <2>2 DEF Advance
<1>2. ASSUME NEW w \in Wt, NEW l \in Line, PostStart(w, l)
      PROVE  Advance
  BY <1>2, PostStartStep
<1>3. ASSUME NEW w \in Wt, Post(w)
      PROVE  Advance
  BY <1>3, PostReplayStep, WalkReadStep, WalkReplayStep, WalkEndStep, PostRefStep, PostPersistStep,
     PostRowStep DEF Post
<1>4. ASSUME NEW w \in Wt, NEW b \in Branch, PutStart(w, b) \/ PromoteStart(w, b)
      PROVE  Advance
  BY <1>4, PutStartStep, PromoteStartStep
<1>5. ASSUME NEW w \in Wt, PutRef(w) \/ PromoteSwitch(w) \/ PromoteMove(w) \/ PromoteRef(w)
      PROVE  Advance
  BY <1>5, PutRefStep, PromoteSwitchStep, PromoteMoveStep, PromoteRefStep
<1>6. ASSUME NEW w \in Wt, NEW c \in 1..Len(commits),
             SetOwn(w, c) \/ (\E b \in Branch : SetStart(w, b, c))
      PROVE  Advance
  BY <1>6, SetOwnStep, SetStartStep
<1>7. ASSUME NEW w \in Wt, SetSwitch(w) \/ SetWrite(w)
      PROVE  Advance
  BY <1>7, SetSwitchStep, SetWriteStep
<1>8. ASSUME NEW w \in Wt, NEW b \in Goto, GetStart(w, b)
      PROVE  Advance
  <2>1. b \in Branch
    BY GotoAssumption
  <2> QED
    BY <1>8, <2>1, GetStartStep
<1>9. ASSUME NEW w \in Wt, GetSwitch(w) \/ GetCheck(w) \/ GetWrite(w)
      PROVE  Advance
  BY <1>9, GetSwitchStep, GetCheckStep, GetWriteStep
<1>10. ASSUME NEW w \in Wt, Die(w)
       PROVE  Advance
  BY <1>10, DieStep
<1> QED
  BY <1>1, <1>2, <1>3, <1>4, <1>5, <1>6, <1>7, <1>8, <1>9, <1>10 DEF Next

\* The inductive invariant holds in every reachable state: what a command has
\* seen of commits, tips and locks stays true whatever the others do.
THEOREM Invariance ==
  Spec => []IInv
<1>1. IInv /\ [Next]_vars => IInv'
  BY NextIInv DEF Advance
<1> QED
  BY <1>1, InitIInv, PTL DEF Spec

\* KEEPOpenBranch, KEEPSwitchBranch: every variable keeps its type, and a command
\* holds the lock of one leaf and no other, from its start to its end.
THEOREM TypeCorrect ==
  Spec => []TypeOK
<1>1. IInv => TypeOK
  <2> SUFFICES ASSUME IInv
               PROVE  TypeOK
    OBVIOUS
  <2>1. /\ commits \in Seq(Commit) /\ Grown(commits) /\ TipsShape /\ WtShape
        /\ lock \in [Branch -> Wt \cup {None}]
    BY DEF IInv, History, Chains
  <2>2. \A i \in 1..Len(commits) : commits[i].up \in 0..i-1
    BY <2>1 DEF Grown
  <2>3. ASSUME NEW w \in Wt
        PROVE  Cardinality({b \in Branch : lock[b] = w}) = IF job[w] = Idle THEN 0 ELSE 1
    <3>1. LockShape(w, job[w])
      BY DEF IInv
    <3>2. CASE job[w] = Idle
      <4>1. {b \in Branch : lock[b] = w} = {}
        BY <3>1, <3>2 DEF LockShape
      <4> QED
        BY <3>2, <4>1, FS_EmptySet
    <3>3. CASE job[w] # Idle
      <4>1. PICK b \in Branch : \A d \in Branch : lock[d] = w <=> d = b
        BY <3>1, <3>3 DEF LockShape
      <4>2. {d \in Branch : lock[d] = w} = {b}
        BY <4>1
      <4> QED
        BY <3>3, <4>2, FS_Singleton
    <3> QED
      BY <3>2, <3>3
  <2> QED
    BY <2>1, <2>2, <2>3 DEF TypeOK, TipsShape, WtShape, CommitNo
<1> QED
  BY <1>1, Invariance, PTL

\* KEEPMoveCommits: unless a put has packed commits into another line, every
\* branch can be read by a session that opens it alone, whoever posts, promotes,
\* sets, gets or dies.
THEOREM AlwaysReadable ==
  ~Siblings => (Spec => []Readable)
<1> SUFFICES ASSUME ~Siblings
             PROVE  Spec => []Readable
  OBVIOUS
<1>1. IInv => Readable
  BY DEF IInv, TipsShape, Sees, Readable
<1> QED
  BY <1>1, Invariance, PTL

\* post_cascade_walk: what a cascade moves stands on what it made of the branch
\* above, over a tree of branches of any depth and width.
THEOREM AlwaysStacked ==
  Spec => []Stacked
<1>1. IInv => Stacked
  <2> SUFFICES ASSUME IInv, NEW w \in Wt, job[w].cmd = "post", job[w].at = "persist",
                      NEW i \in 1..Len(job[w].made)
               PROVE  LET r == job[w].made[i]
                          up == {m \in {job[w].made[n] : n \in 1..i} : m.b = Up[r.b]}
                          base == IF Up[r.b] = wt[w].b THEN {job[w].new} ELSE {m.new : m \in up}
                      IN  r.new = r.old \/ base \subseteq Behind(r.new)
    BY Zenon DEF Stacked
  <2> SUFFICES ASSUME NEW j, j = job[w], NEW r, r = j.made[i]
               PROVE  LET up == {m \in {j.made[n] : n \in 1..i} : m.b = Up[r.b]}
                          base == IF Up[r.b] = wt[w].b THEN {j.new} ELSE {m.new : m \in up}
                      IN  r.new = r.old \/ base \subseteq Behind(r.new)
    BY Zenon
  <2>1. PostShape(w, j)
    BY JobFacts
  <2>2. DoneShape(w, j) /\ j.made \in Seq(Recs) /\ j.recs \in Seq(Recs)
    BY <2>1, PostFields DEF PostShape
  <2>3. Len(j.made) \in Nat /\ \A n \in 1..i : n \in 1..Len(j.made)
    BY <2>2, LenProperties
  <2>4. \A n \in 1..i : j.made[n] \in Done(j)
    BY <2>3 DEF Done, Members
  <2>5. r \in Done(j)
    BY DEF Done, Members
  <2>6. PICK c : Made(w, j, Up[r.b], c) /\ (r.new = r.old \/ c \in Behind(r.new))
    BY <2>2, <2>5 DEF DoneShape
  <2>7. \A m \in Done(j) : m.b # wt[w].b
    <3> TAKE m \in Done(j)
    <3>1. m.b \in Branch
      BY <2>2 DEF Done, Members, Recs, Move
    <3>2. wt[w].b \in Above(Up[m.b])
      BY <2>2 DEF DoneShape, Under
    <3> QED
      BY <3>1, <3>2, AboveFacts
  <2>8. CASE Up[r.b] = wt[w].b
    <3>1. c = j.new
      BY <2>6, <2>7, <2>8 DEF Made
    <3> QED
      BY <2>6, <2>8, <3>1
  <2>9. CASE Up[r.b] # wt[w].b
    <3>1. PICK s \in Done(j) : s.b = Up[r.b] /\ s.new = c
      BY <2>6, <2>9 DEF Made
    <3>2. \A n \in 1..i : j.made[n].b = Up[r.b] => j.made[n] = s
      BY <2>2, <2>4, <3>1 DEF DoneShape
    <3> QED
      BY <2>6, <2>9, <3>1, <3>2
  <2> QED
    BY <2>8, <2>9
<1> QED
  BY <1>1, Invariance, PTL

\* What a compare-and-append with a commit that carries the old tip's lines does
LEMMA CasKeeps ==
  ASSUME IInv, Extended(commits, commits'), NEW b \in Branch, NEW old, NEW new, Cas(b, old, new),
         tips[b] = old /\ old # 0 => new \in CommitNo /\ Carries(old, new)
  PROVE  \A d \in Branch : tips[d] = 0 \/ commits[tips[d]].tree \subseteq commits'[tips'[d]].tree
<1>1. PICK c : /\ tips' = [tips EXCEPT ![b] = c]
               /\ (tips[b] = old => c = new) /\ (tips[b] # old => c = tips[b])
  BY CasFacts
<1>2. ASSUME NEW d \in Branch, tips[d] # 0
      PROVE  commits[tips[d]].tree \subseteq commits'[tips'[d]].tree
  <2>1. PICK n : n = tips'[d]
    OBVIOUS
  <2>2. tips[d] \in 1..Len(commits) /\ tips \in [Branch -> 0..Len(commits)]
    BY <1>2, JobFacts DEF IInv, TipsShape, History, CommitNo
  <2>3. CASE n = tips[d]
    BY <2>1, <2>2, <2>3 DEF Extended
  <2>4. CASE n # tips[d]
    <3>1. d = b /\ tips[b] = old /\ n = new
      BY <1>1, <2>1, <2>2, <2>4
    <3>2. commits[tips[d]].tree \subseteq commits[n].tree /\ n \in 1..Len(commits)
      BY <1>2, <3>1 DEF Carries, CommitNo
    <3> QED
      BY <2>1, <3>2 DEF Extended
  <2> QED
    BY <2>3, <2>4
<1> QED
  BY <1>2

\* POSTCommit, POSTPromote, PUTSetBranch: no step of a post, a cascade, a promote
\* or a put that makes a branch takes a line away from any branch's tip.
THEOREM PostAlwaysKeeps ==
  Spec => PostKeeps
<1>1. ASSUME IInv, [Next]_vars
      PROVE  [Keeps({"get", "set"}) \/ (\E w \in Wt, c \in 1..Len(commits) : SetOwn(w, c))]_vars
  <2> DEFINE Kept == \A b \in Branch :
                       tips[b] = 0 \/ commits[tips[b]].tree \subseteq commits'[tips'[b]].tree
             Other == \E w \in Wt : job[w].cmd \in {"get", "set"} /\ job'[w] = Idle
  <2>1. Extended(commits, commits')
    BY <1>1, NextIInv DEF Advance
  <2>2. UNCHANGED tips => Kept
    <3>1. \A b \in Branch : tips[b] # 0 => tips[b] \in 1..Len(commits)
      BY <1>1, JobFacts DEF CommitNo, IInv, TipsShape, History
    <3> QED
      BY <2>1, <3>1 DEF Extended
  <2>3. ASSUME NEW w \in Wt, PostRef(w) \/ PostPersist(w) \/ PutRef(w) \/ PromoteRef(w)
        PROVE  Kept
    <3>1. PICK j : j = job[w]
      OBVIOUS
    <3>2. CASE PostRef(w)
      <4>1. PICK b : b = wt[w].b
        OBVIOUS
      <4>2. j.cmd = "post" /\ j.at = "ref" /\ Cas(b, j.old, j.new)
        BY <3>1, <3>2, <4>1 DEF PostRef
      <4>3. PostShape(w, j) /\ b \in Branch
        BY <1>1, <3>1, <4>1, <4>2, JobFacts
      <4>4. j.new \in CommitNo /\ Carries(j.old, j.new)
        BY <4>2, <4>3, PostFields DEF PostShape
      <4> QED
        BY <1>1, <2>1, <4>2, <4>3, <4>4, CasKeeps
    <3>3. CASE PostPersist(w)
      <4>1. PICK r : r = Head(j.recs)
        OBVIOUS
      <4>2. j.cmd = "post" /\ j.recs # <<>> /\ Cas(r.b, r.old, r.new)
        BY <3>1, <3>3, <4>1 DEF PostPersist
      <4>3. j.recs \in Seq(Recs)
        BY <1>1, <3>1, <4>2, JobFacts, PostFields
      <4>4. r \in Recs
        <5>1. PICK S, s : S = Recs /\ s = j.recs
          OBVIOUS
        <5>2. s \in Seq(S) /\ s # <<>>
          BY <4>2, <4>3, <5>1
        <5> QED
          BY <4>1, <5>1, <5>2, MembersMoved
      <4>5. r.b \in Branch /\ r.new \in CommitNo /\ Carries(r.old, r.new)
        BY <4>4 DEF Recs, Move
      <4> QED
        BY <1>1, <2>1, <4>2, <4>5, CasKeeps
    <3>4. CASE PutRef(w)
      <4>1. j.cmd = "put" /\ Cas(j.b, 0, j.new)
        BY <3>1, <3>4 DEF PutRef
      <4>2. j.b \in Branch
        BY <1>1, <3>1, <4>1, JobFacts DEF PutShape, JobType
      <4>3. PICK z : z = 0
        OBVIOUS
      <4> QED
        BY <1>1, <2>1, <4>1, <4>2, <4>3, CasKeeps
    <3>5. CASE PromoteRef(w)
      <4>1. j.cmd = "promote" /\ j.at = "ref" /\ Cas(j.b, j.old, j.new)
        BY <3>1, <3>5 DEF PromoteRef
      <4>2. PromoteShape(w, j) /\ Len(commits) \in Nat
        BY <1>1, <3>1, <4>1, JobFacts
      <4>3. j.b \in Branch /\ j.new \in CommitNo /\ Carries(j.old, j.new)
        BY <4>1, <4>2 DEF PromoteShape, JobType, CommitNo
      <4> QED
        BY <1>1, <2>1, <4>1, <4>3, CasKeeps
    <3> QED
      BY <2>3, <3>2, <3>3, <3>4, <3>5
  <2>4. ASSUME NEW w \in Wt, SetWrite(w) \/ GetWrite(w)
        PROVE  Other
    <3>1. job[w].cmd \in {"get", "set"} /\ End(w)
      BY <2>4 DEF SetWrite, GetWrite
    <3>2. job'[w] = Idle
      BY <1>1, <3>1 DEF End, Go, IInv
    <3> QED
      BY <3>1, <3>2
  <2> HIDE DEF Kept
  <2>5. CASE UNCHANGED vars
    BY <2>5
  <2>6. CASE Next
    <3>1. PICK w \in Wt :
            \/ \E l \in Line : PostStart(w, l)
            \/ Post(w)
            \/ \E b \in Branch : PutStart(w, b) \/ PromoteStart(w, b)
            \/ PutRef(w) \/ PromoteSwitch(w) \/ PromoteMove(w) \/ PromoteRef(w)
            \/ \E c \in 1..Len(commits) : SetOwn(w, c) \/ (\E b \in Branch : SetStart(w, b, c))
            \/ SetSwitch(w) \/ SetWrite(w)
            \/ \E b \in Goto : GetStart(w, b)
            \/ GetSwitch(w) \/ GetCheck(w) \/ GetWrite(w)
            \/ Die(w)
      BY <2>6 DEF Next
    <3>2. CASE \/ \E l \in Line : PostStart(w, l)
               \/ \E b \in Branch : PutStart(w, b) \/ PromoteStart(w, b)
               \/ PromoteSwitch(w) \/ PromoteMove(w) \/ SetSwitch(w)
               \/ \E c \in 1..Len(commits) : \E b \in Branch : SetStart(w, b, c)
               \/ \E b \in Goto : GetStart(w, b)
               \/ GetSwitch(w) \/ GetCheck(w) \/ Die(w)
               \/ PostReplay(w) \/ WalkRead(w) \/ WalkReplay(w) \/ WalkEnd(w) \/ PostRow(w)
      <4>1. UNCHANGED tips
        BY <3>2 DEF PostStart, PutStart, PromoteStart, PromoteSwitch, PromoteMove, SetSwitch, SetStart,
          GetStart, GetSwitch, GetCheck, Die, PostReplay, WalkRead, WalkReplay, WalkEnd, PostRow
      <4> QED
        BY <2>2, <4>1 DEF Keeps, Kept
    <3>3. CASE PostRef(w) \/ PostPersist(w) \/ PutRef(w) \/ PromoteRef(w)
      BY <2>3, <3>3 DEF Keeps, Kept
    <3>4. CASE SetWrite(w) \/ GetWrite(w)
      BY <2>4, <3>4 DEF Keeps
    <3>5. CASE \E c \in 1..Len(commits) : SetOwn(w, c)
      BY <3>5
    <3> QED
      BY <3>1, <3>2, <3>3, <3>4, <3>5 DEF Post
  <2> QED
    BY <1>1, <2>5, <2>6
<1> QED
  BY <1>1, Invariance, PTL DEF Spec, PostKeeps

=============================================================================
