--------------------------- MODULE Worktree_proofs ---------------------------
(***************************************************************************)
(* Proofs about the worktree: whatever the user, the other worktrees and   *)
(* deaths do between its steps, as long as the user does not edit a file   *)
(* while a command handles it.                                             *)
(***************************************************************************)
EXTENDS Worktree, FiniteSetTheorems, SequenceTheorems, WellFoundedInduction, TLAPS

----------------------------------------------------------------------------
\* Places in a sequence

\* Natural numbers have a least one among them.
LEMMA LeastExists ==
  ASSUME NEW T \in SUBSET Nat, T # {}
  PROVE  \E t \in T : \A u \in T : ~ (u < t)
<1>1. IsWellFoundedOn(OpToRel(<, Nat), Nat)
  BY NatLessThanWellFounded
<1>2. PICK t \in T : \A u \in T : ~ (<<u, t>> \in OpToRel(<, Nat))
  BY <1>1, WFMin
<1>3. \A u \in T : ~ (u < t)
  <2> TAKE u \in T
  <2>1. u \in Nat /\ t \in Nat
    OBVIOUS
  <2> QED
    BY <1>2, <2>1 DEF OpToRel
<1> QED
  BY <1>3

\* A set of places has a last one.
LEMMA GreatestExists ==
  ASSUME NEW n \in Nat, NEW S \in SUBSET (1..n), S # {}
  PROVE  \E m \in S : \A k \in S : k <= m
<1> DEFINE T == {n - k : k \in S}
<1>1. T \in SUBSET Nat /\ T # {}
  <2>1. \A u \in T : u \in Nat
    OBVIOUS
  <2>2. PICK k \in S : TRUE
    OBVIOUS
  <2>3. n - k \in T
    BY <2>2
  <2> QED
    BY <2>1, <2>3
<1>2. PICK t \in T : \A u \in T : ~ (u < t)
  <2> HIDE DEF T
  <2> QED
    BY <1>1, LeastExists
<1>4. PICK m \in S : t = n - m
  OBVIOUS
<1>5. \A k \in S : k <= m
  <2> TAKE k \in S
  <2>1. ~ (n - k < t)
    BY <1>2
  <2> QED
    BY <1>4, <2>1
<1> QED
  BY <1>5

----------------------------------------------------------------------------
\* Ancestry

Histories == {cs \in Seq([up : Nat, tree : [Path -> Blob \cup {None}]]) :
                \A i \in 1..Len(cs) : cs[i].up \in 0..i-1}

\* A commit has itself and its parent's history behind it.
LEMMA AncestorsUnfold ==
  ASSUME NEW cs \in Histories
  PROVE  /\ AncestorsIn(cs, 0) = {}
         /\ \A c \in 1..Len(cs) : AncestorsIn(cs, c) = {c} \cup AncestorsIn(cs, cs[c].up)
<1> DEFINE L == Len(cs)
           Fixed(S) == \A i \in S : cs[i].up \in S \cup {0}
           Reached(n) == {x \in 1..L : \A S \in SUBSET (1..L) : n \in S /\ Fixed(S) => x \in S}
           f == [n \in 0..L |-> IF n = 0 THEN {} ELSE Reached(n)]
           u == CHOOSE u : u = [n \in 0..L |-> IF n = 0 THEN {} ELSE {n} \cup u[cs[n].up]]
<1>1. L \in Nat /\ \A i \in 1..L : cs[i].up \in 0..i-1 /\ cs[i].up \in 0..L /\ i \in 0..L /\ i # 0
  <2>1. L \in Nat /\ \A i \in 1..L : cs[i].up \in 0..i-1
    BY LenProperties DEF Histories
  <2> HIDE DEF L, Fixed, Reached, f, u
  <2> QED
    BY <2>1
<1>2. ASSUME NEW n \in 1..L
      PROVE  Reached(n) = {n} \cup f[cs[n].up]
  <2>1. CASE cs[n].up = 0
    <3>1. Fixed({n}) /\ {n} \in SUBSET (1..L)
      BY <2>1
    <3>2. Reached(n) \subseteq {n}
      BY <3>1
    <3>3. n \in Reached(n) /\ f[0] = {}
      BY <1>1
    <3> QED
      BY <2>1, <3>2, <3>3
  <2>2. CASE cs[n].up # 0
    <3> DEFINE m == cs[n].up
    <3>1. m \in 1..L /\ m \in 0..L
      BY <1>1, <2>2
    <3>2. ASSUME NEW x \in Reached(m)
          PROVE  x \in Reached(n)
      <4>1. \A S \in SUBSET (1..L) : n \in S /\ Fixed(S) => m \in S
        BY <2>2
      <4> QED
        BY <3>2, <4>1
    <3>3. ASSUME NEW x \in Reached(n), x # n
          PROVE  x \in Reached(m)
      <4> SUFFICES ASSUME NEW S \in SUBSET (1..L), m \in S, Fixed(S)
                   PROVE  x \in S
        BY <3>3
      <4>1. Fixed(S \cup {n}) /\ S \cup {n} \in SUBSET (1..L) /\ n \in S \cup {n}
        OBVIOUS
      <4>2. x \in S \cup {n}
        BY <3>3, <4>1
      <4> QED
        BY <3>3, <4>2
    <3>4. n \in Reached(n)
      OBVIOUS
    <3>5. f[m] = Reached(m)
      BY <2>2, <3>1
    <3> HIDE DEF Reached, f
    <3>6. Reached(n) = {n} \cup Reached(m)
      BY <3>2, <3>3, <3>4
    <3> QED
      BY <3>5, <3>6
  <2> QED
    BY <2>1, <2>2
<1>3. f = [n \in 0..L |-> IF n = 0 THEN {} ELSE {n} \cup f[cs[n].up]]
  <2>1. ASSUME NEW n \in 0..L, n # 0
        PROVE  f[n] = {n} \cup f[cs[n].up]
    <3>1. n \in 1..L
      BY <1>1, <2>1
    <3>2. f[n] = Reached(n)
      BY <2>1
    <3> QED
      BY <1>2, <3>1, <3>2
  <2>2. ASSUME NEW n \in 0..L
        PROVE  f[n] = IF n = 0 THEN {} ELSE {n} \cup f[cs[n].up]
    BY <2>1
  <2>3. DOMAIN f = 0..L /\ f = [n \in 0..L |-> f[n]]
    OBVIOUS
  <2> HIDE DEF f
  <2> QED
    BY <2>2, <2>3
<1> HIDE DEF f
<1>4. u = [n \in 0..L |-> IF n = 0 THEN {} ELSE {n} \cup u[cs[n].up]]
  BY <1>3
<1>5. \A c : AncestorsIn(cs, c) = u[c]
  BY DEF AncestorsIn
<1> HIDE DEF u
<1>6. u[0] = {}
  BY <1>1, <1>4
<1>7. \A c \in 1..L : u[c] = {c} \cup u[cs[c].up]
  BY <1>1, <1>4
<1> QED
  BY <1>5, <1>6, <1>7

\* Histories are made of commits, and whoever is behind somebody behind a
\* commit is behind it.
LEMMA AncestorsFacts ==
  ASSUME NEW cs \in Histories, NEW c \in 0..Len(cs)
  PROVE  /\ AncestorsIn(cs, c) \subseteq 1..Len(cs)
         /\ c # 0 => c \in AncestorsIn(cs, c)
         /\ \A a \in AncestorsIn(cs, c) : AncestorsIn(cs, a) \subseteq AncestorsIn(cs, c)
<1> DEFINE L == Len(cs)
           Anc(n) == AncestorsIn(cs, n)
           Holds(n) == Anc(n) \subseteq 1..L /\ \A a \in Anc(n) : Anc(a) \subseteq Anc(n)
           T == {n \in 0..L : ~Holds(n)}
<1>1. L \in Nat /\ \A i \in 1..L : cs[i].up \in 0..i-1
  BY LenProperties DEF Histories
<1>2. Anc(0) = {} /\ \A n \in 1..L : Anc(n) = {n} \cup Anc(cs[n].up)
  BY AncestorsUnfold
<1> HIDE DEF Anc
<1>3. T = {}
  <2> SUFFICES ASSUME T # {} PROVE FALSE
    OBVIOUS
  <2>1. PICK n \in T : \A k \in T : ~ (k < n)
    <3>1. T \in SUBSET Nat
      BY <1>1
    <3> HIDE DEF T
    <3> QED
      BY <3>1, LeastExists
  <2>2. n \in 1..L
    BY <1>1, <1>2
  <2>3. cs[n].up \in 0..L /\ cs[n].up < n
    BY <1>1, <2>2
  <2>4. Holds(cs[n].up)
    BY <2>1, <2>3
  <2>5. Anc(n) \subseteq 1..L
    BY <1>2, <2>2, <2>4
  <2>6. \A a \in Anc(n) : Anc(a) \subseteq Anc(n)
    BY <1>2, <2>2, <2>4
  <2> QED
    BY <2>1, <2>5, <2>6
<1> QED
  BY <1>1, <1>2, <1>3 DEF Anc

\* A new commit changes nobody's history.
LEMMA AncestorsAppend ==
  ASSUME NEW cs \in Histories, NEW ds \in Histories, NEW c \in 0..Len(cs),
         Len(ds) = Len(cs) + 1, \A i \in 1..Len(cs) : ds[i] = cs[i]
  PROVE  AncestorsIn(ds, c) = AncestorsIn(cs, c)
<1> DEFINE L == Len(cs)
           Old(n) == AncestorsIn(cs, n)
           New(n) == AncestorsIn(ds, n)
           T == {n \in 0..L : New(n) # Old(n)}
<1>1. L \in Nat /\ \A i \in 1..L : cs[i].up \in 0..i-1 /\ i \in 1..L + 1
  BY LenProperties DEF Histories
<1>2. Old(0) = {} /\ \A n \in 1..L : Old(n) = {n} \cup Old(cs[n].up)
  BY AncestorsUnfold
<1>3. New(0) = {} /\ \A n \in 1..L : New(n) = {n} \cup New(cs[n].up)
  <2>1. New(0) = {} /\ \A n \in 1..Len(ds) : New(n) = {n} \cup New(ds[n].up)
    BY AncestorsUnfold
  <2> HIDE DEF New
  <2> QED
    BY <1>1, <2>1
<1> HIDE DEF Old, New
<1>4. T = {}
  <2> SUFFICES ASSUME T # {} PROVE FALSE
    OBVIOUS
  <2>1. PICK n \in T : \A k \in T : ~ (k < n)
    <3>1. T \in SUBSET Nat
      BY <1>1
    <3> HIDE DEF T
    <3> QED
      BY <3>1, LeastExists
  <2>2. n \in 0..L /\ New(n) # Old(n)
    OBVIOUS
  <2>3. n \in 1..L
    <3>1. n # 0
      BY <1>2, <1>3, <2>2
    <3> HIDE DEF T
    <3> QED
      BY <1>1, <2>2, <3>1
  <2>4. cs[n].up \in 0..L /\ cs[n].up < n
    BY <1>1, <2>3
  <2>5. New(cs[n].up) = Old(cs[n].up)
    BY <2>1, <2>4
  <2> QED
    BY <1>2, <1>3, <2>2, <2>3, <2>5
<1> QED
  BY <1>1, <1>4 DEF Old, New

----------------------------------------------------------------------------
\* The inductive invariant

Tree  == [Path -> Blob \cup {None}]
Entry == [v : {"get", "post", "put", "delete"}, p : Path \cup {0}, c : Nat]
Files == [b : Blob, at : -1..MaxRows]

GetRun ==
  [cmd : {"get"}, c : 1..Len(commits), base : Tree, at : 1..Len(log),
   force : BOOLEAN, tipped : BOOLEAN, noop : SUBSET Path, merge : SUBSET Path,
   write : SUBSET Path, unlink : SUBSET Path, open : SUBSET Path, text : Blob]
\* A put between a row and its stamp
PutRun ==
  {r \in [cmd : {"put"}, todo : (SUBSET Path) \ {{}}, bare : BOOLEAN, row : BOOLEAN] :
     r.row => log[Len(log)].v = "put"}
DeleteRun == [cmd : {"delete"}, todo : (SUBSET Path) \ {{}}]
PostRun ==
  [cmd : {"post"}, at : {"feed", "replay", "ref", "row", "stamp"}, base : 1..Len(commits),
   tree : Tree, add : SUBSET Path, new : 0..Len(commits), replay : BOOLEAN]

Logged ==
  /\ log \in Seq(Entry) /\ Len(log) \in 1..MaxRows /\ log[1].v = "get"
  /\ \A i \in 1..Len(log) :
       IF log[i].v \in {"get", "post"} THEN log[i].c \in 1..Len(commits)
                                       ELSE log[i].p \in Path

\* Every file of every commit is in the keeper, on the branch or not.
Committed ==
  /\ commits \in Histories /\ tip \in 1..Len(commits) /\ stored \in SUBSET Blob
  /\ \A i \in 1..Len(commits) : \A p \in Path :
       commits[i].tree[p] # None => commits[i].tree[p] \in stored

\* The stamp of a row to come is a post's, until the row is there.
Filed ==
  /\ disk \in [Path -> Files \cup {None}]
  /\ \A p \in Path : OnDisk(p) =>
       /\ disk[p].at \in -1..Len(log)
       /\ disk[p].at = -1 => run.cmd = "post" /\ run.at # "stamp"

Running == drift \in BOOLEAN /\ run \in {Idle} \cup GetRun \cup PutRun \cup DeleteRun \cup PostRun

\* What a get has yet to change
Waiting == IF run.cmd = "get" THEN (run.write \ run.noop) \cup run.merge \cup run.unlink ELSE {}

Sound(p) == p \in Tracked /\ OnDisk(p) /\ Clean(p) => disk[p].b = Base[p]

\* A forced get makes good what a death left behind.
Vouched    == ~drift \/ (run.cmd = "get" /\ run.force)
StampsTrue == Vouched => \A p \in Path \ Waiting : Sound(p)

\* The file that a get is at
Turn(r) == Least(IF r.write # {} THEN r.write ELSE r.merge)

\* A get that is not forced changes no file that is the user's alone, and a
\* file to be merged has no row's stamp.
GetShape ==
  run.cmd = "get" =>
    /\ Cur = run.c
    /\ run.force => run.noop = {} /\ run.merge = {}
    /\ run.noop \cap (run.merge \cup run.unlink) = {}
    /\ run.write \cap (run.merge \cup run.unlink) = {} /\ run.merge \cap run.unlink = {}
    /\ \A p \in run.write : commits[run.c].tree[p] # None
    /\ \A p \in run.merge : run.base[p] # None /\ (OnDisk(p) => ~Known(p))
    /\ ~run.force => \A p \in ((run.write \ run.noop) \cup run.unlink) \ run.open :
                       OnDisk(p) /\ ~Known(p) => disk[p].b \in stored
    /\ run.open \subseteq run.write \cup run.merge /\ run.open \subseteq {Turn(run)}
    /\ \A p \in run.open \cap run.write : run.text = commits[run.c].tree[p]
    /\ ~run.tipped /\ ~Rewind => run.c = tip

\* The tree that the scan made is made of the files and of the tree before.
ScanShape ==
  LET old == commits[run.base].tree IN
  /\ Cur = run.base /\ Len(log) < MaxRows
  /\ \A p \in run.add : OnDisk(p) /\ disk[p].at # -1 /\ run.tree[p] = disk[p].b
  /\ \A p \in Path \ run.add : run.tree[p] \in {None, old[p]}
  /\ \A p \in Path : OnDisk(p) /\ disk[p].at = -1 => disk[p].b = old[p]

PostShape ==
  run.cmd = "post" =>
    /\ run.at # "stamp" => ScanShape
    /\ run.at \in {"feed", "ref"} /\ ~run.replay => tip \in AncestorsIn(commits, run.base)
    /\ run.at # "feed" => run.new # 0
    /\ run.at = "replay" => run.replay
    /\ run.at \in {"ref", "row"} /\ ~run.replay =>
         commits[run.new] = [up |-> run.base, tree |-> run.tree]
    /\ run.at = "ref" /\ run.replay =>
         run.new = tip \/ commits[run.new] = [up |-> tip, tree |-> Replayed]
    /\ run.at = "stamp" /\ ~drift =>
         \A p \in run.add : OnDisk(p) => disk[p].b = Base[p]

IInv == Logged /\ Committed /\ Filed /\ Running /\ StampsTrue /\ GetShape /\ PostShape

----------------------------------------------------------------------------
\* The state's parts

LEMMA Nothing == /\ \A b \in Blob : b # None
                 /\ \A f \in Files : f # None /\ f.b \in Blob /\ f.at \in -1..MaxRows
                 /\ \A b \in Blob, at \in -1..MaxRows : File(b, at) \in Files
  BY PathAssumption, FileAssumption DEF Files, File

LEMMA LeastFacts ==
  ASSUME NEW S \in SUBSET Path, S # {}
  PROVE  Least(S) \in S
<1>1. S \in SUBSET Nat
  BY PathAssumption
<1>2. PICK t \in S : \A u \in S : ~ (u < t)
  BY <1>1, LeastExists
<1>3. \A u \in S : t <= u
  BY <1>1, <1>2
<1> QED
  BY <1>3 DEF Least

LEMMA LastFacts ==
  ASSUME NEW n \in Nat, NEW S \in SUBSET (1..n), S # {}
  PROVE  Last(S) \in S /\ \A k \in S : k <= Last(S)
<1>1. \E m \in S : \A k \in S : m >= k
  <2>1. PICK m \in S : \A k \in S : k <= m
    BY GreatestExists
  <2>2. \A k \in S : m >= k
    BY <2>1
  <2> QED
    BY <2>2
<1>2. \A y \in S : Last(S) >= y /\ Last(S) \in S
  BY <1>1 DEF Last
<1> QED
  BY <1>2

\* The commit that the log is at
LEMMA CurFacts ==
  ASSUME Logged
  PROVE  /\ Last(Rows({"get", "post"})) \in Rows({"get", "post"})
         /\ \A i \in Rows({"get", "post"}) : i <= Last(Rows({"get", "post"}))
         /\ Cur \in 1..Len(commits)
<1>1. Len(log) \in Nat /\ 1 \in 1..Len(log)
  BY BoundAssumption DEF Logged
<1>2. Rows({"get", "post"}) \in SUBSET (1..Len(log)) /\ 1 \in Rows({"get", "post"})
  BY <1>1 DEF Rows, Logged
<1>3. /\ Last(Rows({"get", "post"})) \in Rows({"get", "post"})
      /\ \A i \in Rows({"get", "post"}) : i <= Last(Rows({"get", "post"}))
  BY <1>1, <1>2, LastFacts
<1> QED
  BY <1>3 DEF Cur, Rows, Logged

LEMMA BaseFacts ==
  ASSUME Logged, Committed
  PROVE  /\ \A i \in 1..Len(commits) : commits[i] \in [up : Nat, tree : Tree]
         /\ \A i \in 1..Len(commits) : commits[i].up \in 0..i-1
         /\ Base \in Tree
         /\ \A p \in Tracked : Base[p] \in stored
<1>1. commits \in Seq([up : Nat, tree : Tree]) /\ Cur \in 1..Len(commits)
  BY CurFacts DEF Committed, Histories, Tree
<1>2. \A i \in 1..Len(commits) : commits[i] \in [up : Nat, tree : Tree]
  BY <1>1, ElementOfSeq
<1>3. \A i \in 1..Len(commits) : commits[i].up \in 0..i-1
  BY DEF Committed, Histories
<1>4. Base \in Tree
  BY <1>1, <1>2 DEF Base
<1>5. \A p \in Tracked : Base[p] \in stored
  BY <1>1 DEF Committed, Base, Tracked
<1> QED
  BY <1>2, <1>3, <1>4, <1>5

\* A row more
LEMMA RowAppended ==
  ASSUME Logged, NEW row \in Entry, log' = Append(log, row), Len(log) < MaxRows,
         1..Len(commits) \subseteq 1..Len(commits'),
         IF row.v \in {"get", "post"} THEN row.c \in 1..Len(commits') ELSE row.p \in Path
  PROVE  /\ Logged'
         /\ Len(log') = Len(log) + 1 /\ Len(log) \in Nat \ {0}
         /\ \A i \in 1..Len(log) : log'[i] = log[i]
         /\ log'[Len(log) + 1] = row
         /\ Cur' = IF row.v \in {"get", "post"} THEN row.c ELSE Cur
<1>1. /\ log' \in Seq(Entry) /\ Len(log') = Len(log) + 1
      /\ \A i \in 1..Len(log) : log'[i] = log[i]
      /\ log'[Len(log) + 1] = row /\ Len(log) \in 1..MaxRows /\ Len(log) \in Nat \ {0}
  BY AppendProperties, BoundAssumption DEF Logged
<1>2. 1..Len(log') = 1..Len(log) \cup {Len(log) + 1}
  BY <1>1
<1>3. 1 \in 1..Len(log) /\ log'[1].v = "get"
  BY <1>1 DEF Logged
<1>4. Logged'
  <2>1. Len(log') \in 1..MaxRows
    BY <1>1, BoundAssumption
  <2>2. ASSUME NEW i \in 1..Len(log')
        PROVE  IF log'[i].v \in {"get", "post"} THEN log'[i].c \in 1..Len(commits')
                                                ELSE log'[i].p \in Path
    BY <1>1, <1>2 DEF Logged
  <2> QED
    BY <1>1, <1>3, <2>1, <2>2 DEF Logged
<1> DEFINE G == {"get", "post"}
<1>5. CASE row.v \in G
  <2>1. Len(log) + 1 \in Rows(G)' /\ Rows(G)' \in SUBSET (1..Len(log'))
    BY <1>1, <1>5 DEF Rows
  <2>2. Len(log') \in Nat
    BY <1>1
  <2>3. Last(Rows(G)') \in Rows(G)' /\ Len(log) + 1 <= Last(Rows(G)')
    BY <2>1, <2>2, LastFacts
  <2>4. Last(Rows(G)') \in 1..Len(log) + 1
    BY <1>1, <2>1, <2>3
  <2>5. Last(Rows(G)') = Len(log) + 1
    BY <1>1, <2>3, <2>4
  <2> QED
    BY <1>1, <1>4, <1>5, <2>5 DEF Cur
<1>6. CASE row.v \notin G
  <2>1. Rows(G)' = Rows(G)
    BY <1>1, <1>2, <1>6 DEF Rows
  <2>2. Last(Rows(G)) \in 1..Len(log)
    BY CurFacts DEF Rows
  <2>3. Last(Rows(G)') = Last(Rows(G))
    BY <2>1
  <2>4. Cur' = log'[Last(Rows(G)')].c /\ Cur = log[Last(Rows(G))].c
    BY DEF Cur
  <2> QED
    BY <1>1, <1>4, <1>6, <2>2, <2>3, <2>4
<1> QED
  BY <1>5, <1>6

\* A commit more
LEMMA CommitAppended ==
  ASSUME Logged, Committed, NEW new, commits' = Append(commits, new),
         new \in [up : 0..Len(commits), tree : Tree],
         stored \subseteq stored', stored' \in SUBSET Blob, tip' \in 1..Len(commits'),
         \A p \in Path : new.tree[p] # None => new.tree[p] \in stored'
  PROVE  /\ Committed'
         /\ Len(commits) \in Nat \ {0} /\ Len(commits') = Len(commits) + 1
         /\ 1..Len(commits) \subseteq 1..Len(commits') /\ Len(commits) + 1 \in 1..Len(commits')
         /\ \A i \in 1..Len(commits) : commits'[i] = commits[i]
         /\ commits'[Len(commits) + 1] = new
         /\ \A c \in 0..Len(commits) : AncestorsIn(commits', c) = AncestorsIn(commits, c)
         /\ AncestorsIn(commits', Len(commits) + 1)
              = {Len(commits) + 1} \cup AncestorsIn(commits, new.up)
<1> DEFINE C == [up : Nat, tree : Tree]
<1>1. Len(commits) \in Nat \ {0}
  BY CurFacts
<1>2. new \in C /\ commits \in Seq(C)
  BY <1>1 DEF Committed, Histories, Tree
<1>3. /\ commits' \in Seq(C) /\ Len(commits') = Len(commits) + 1
      /\ \A i \in 1..Len(commits) : commits'[i] = commits[i]
      /\ commits'[Len(commits) + 1] = new
  BY <1>2, AppendProperties
<1>4. 1..Len(commits') = 1..Len(commits) \cup {Len(commits) + 1}
  BY <1>1, <1>3
<1>5. new.up \in 0..(Len(commits) + 1) - 1 /\ new.up \in 0..Len(commits)
  BY <1>1
<1>6. commits \in Histories /\ commits' \in Histories
  <2>1. \A i \in 1..Len(commits') : commits'[i].up \in 0..i-1
    BY <1>3, <1>4, <1>5 DEF Committed, Histories
  <2> QED
    BY <1>3, <2>1 DEF Committed, Histories, Tree
<1>7. Committed'
  BY <1>3, <1>4, <1>6 DEF Committed
<1>8. \A c \in 0..Len(commits) : AncestorsIn(commits', c) = AncestorsIn(commits, c)
  BY <1>3, <1>6, AncestorsAppend
<1>9. AncestorsIn(commits', Len(commits) + 1)
        = {Len(commits) + 1} \cup AncestorsIn(commits', commits'[Len(commits) + 1].up)
  BY <1>4, <1>6, AncestorsUnfold
<1> QED
  BY <1>1, <1>3, <1>4, <1>5, <1>7, <1>8, <1>9

----------------------------------------------------------------------------
\* What most steps have in common

LEMMA RunKinds ==
  ASSUME Running
  PROVE  /\ run.cmd = "get" => run \in GetRun
         /\ run.cmd = "put" => run \in PutRun
         /\ run.cmd = "delete" => run \in DeleteRun
         /\ run.cmd = "post" => run \in PostRun
         /\ run = Idle => run.cmd = "none"
  BY DEF Running, Idle, GetRun, PutRun, DeleteRun, PostRun

LEMMA Still ==
  ASSUME log' = log, commits' = commits
  PROVE  Cur' = Cur /\ Base' = Base /\ Tracked' = Tracked
         /\ (Logged => Logged') /\ (Committed /\ tip' = tip /\ stored' = stored => Committed')
  BY DEF Cur, Rows, Base, Tracked, Logged, Committed

\* A file that keeps its stamp keeps its worth, and one without a row's stamp
\* claims nothing.
LEMMA SoundStays ==
  ASSUME Filed, NEW p \in Path, Sound(p), Base'[p] = Base[p],
         \A i \in 1..Len(log) : log'[i] = log[i], Len(log) \in Nat,
         disk'[p] = disk[p] \/ disk'[p] = None \/ ~ (disk'[p].at > 0)
  PROVE  Sound(p)'
<1>1. p \in Tracked' <=> p \in Tracked
  BY DEF Tracked
<1>2. SUFFICES ASSUME p \in Tracked, disk'[p] = disk[p], disk[p] # None, disk[p].at > 0,
                      log'[disk[p].at].v \in {"get", "post"}
               PROVE  disk[p].b = Base[p]
  BY <1>1 DEF Sound, OnDisk, Clean, Known
<1>3. disk[p].at \in 1..Len(log)
  BY <1>2 DEF Filed, OnDisk
<1> QED
  BY <1>2, <1>3 DEF Sound, OnDisk, Clean, Known

\* Between commands, and in those that only add rows
LEMMA Quiet ==
  ASSUME Logged', Committed', drift' \in BOOLEAN, disk' \in [Path -> Files \cup {None}],
         \A p \in Path : disk'[p] # None => disk'[p].at \in 0..Len(log'),
         run' \in {Idle} \cup PutRun' \cup DeleteRun,
         ~drift' => \A p \in Path : Sound(p)'
  PROVE  IInv'
<1>1. run'.cmd \in {"none", "put", "delete"} /\ Running'
  BY DEF Idle, PutRun, DeleteRun, Running
<1>2. run'.cmd # "get" /\ run'.cmd # "post"
  BY <1>1
<1>3. Filed'
  <2>1. Len(log') \in Nat
    BY BoundAssumption DEF Logged
  <2>2. \A p \in Path : disk'[p] # None => disk'[p].at \in -1..Len(log') /\ disk'[p].at # -1
    BY <2>1
  <2> QED
    BY <2>2 DEF Filed, OnDisk
<1>4. StampsTrue'
  BY <1>2 DEF StampsTrue, Vouched
<1>5. GetShape' /\ PostShape'
  BY <1>2 DEF GetShape, PostShape
<1> QED
  BY <1>1, <1>3, <1>4, <1>5 DEF IInv

\* A state in which no command runs, or one that only adds rows
LEMMA QuietNow ==
  ASSUME IInv, run \in {Idle} \cup PutRun \cup DeleteRun
  PROVE  /\ \A p \in Path : disk[p] # None =>
              disk[p] \in Files /\ disk[p].b \in Blob /\ disk[p].at \in 0..Len(log)
         /\ ~drift => \A p \in Path : Sound(p)
         /\ Len(log) \in Nat \ {0}
         /\ drift \in BOOLEAN
<1>1. run.cmd # "get" /\ run.cmd # "post"
  BY DEF Idle, PutRun, DeleteRun
<1>2. Len(log) \in Nat \ {0}
  BY BoundAssumption DEF IInv, Logged
<1>3. \A p \in Path : disk[p] # None => disk[p] \in Files /\ disk[p].at \in 0..Len(log)
  BY <1>1, <1>2 DEF IInv, Filed, OnDisk
<1>4. ~drift => \A p \in Path : Sound(p)
  BY <1>1 DEF IInv, StampsTrue, Vouched, Waiting
<1> QED
  BY <1>2, <1>3, <1>4, Nothing DEF IInv, Running

----------------------------------------------------------------------------
\* The beginning

LEMMA Begins == Init => IInv
<1> SUFFICES ASSUME Init
             PROVE  IInv
  OBVIOUS
<1> DEFINE t == [p \in Path |-> IF p = Least(Path) THEN {} ELSE None]
           one == [up |-> 0, tree |-> t]
           row == Row("get", 0, 1)
<1>1. /\ commits = <<one>> /\ stored = {{}} /\ log = <<row>> /\ tip = 1 /\ run = Idle
      /\ drift = FALSE
      /\ disk = [p \in Path |-> IF t[p] = None THEN None ELSE File(t[p], 1)]
  BY DEF Init
<1>2. {} \in Blob /\ t \in Tree
  BY DEF Blob, Tree
<1>3. /\ commits \in Seq([up : Nat, tree : Tree]) /\ Len(commits) = 1 /\ commits[1] = one
      /\ 1..Len(commits) = {1}
  BY <1>1, <1>2
<1>4. row \in Entry /\ log \in Seq(Entry) /\ Len(log) = 1 /\ log[1] = row
  BY <1>1 DEF Row, Entry
<1>5. Logged
  BY <1>3, <1>4, BoundAssumption DEF Logged, Row
<1>6. Committed
  <2>1. \A p \in Path : one.tree[p] # None => one.tree[p] \in stored
    BY <1>1
  <2>2. one.up \in 0..1-1
    OBVIOUS
  <2>3. \A i \in 1..Len(commits) : commits[i].up \in 0..i-1
    BY <1>3, <2>2
  <2>4. commits \in Histories
    BY <1>3, <2>3 DEF Histories, Tree
  <2> QED
    BY <1>1, <1>2, <1>3, <2>1, <2>4 DEF Committed
<1>7. \A p \in Path : disk[p] \in Files \cup {None} /\ (disk[p] # None => disk[p].at = 1 /\ disk[p].b = t[p])
  <2> SUFFICES ASSUME NEW p \in Path, t[p] # None
               PROVE  File(t[p], 1) \in Files
    BY <1>1 DEF File
  <2> QED
    BY <1>2, Nothing, BoundAssumption DEF Tree
<1>8. Cur = 1 /\ Base = t
  <2>1. Cur \in 1..Len(commits)
    BY <1>5, CurFacts
  <2>2. Cur = 1
    BY <1>3, <2>1
  <2>3. commits[1].tree = t
    BY <1>1
  <2> QED
    BY <2>2, <2>3 DEF Base
<1>9. Filed
  BY <1>1, <1>4, <1>7 DEF Filed, OnDisk
<1>10. StampsTrue /\ GetShape /\ PostShape /\ Running
  BY <1>1, <1>7, <1>8 DEF StampsTrue, Sound, OnDisk, GetShape, PostShape, Running, Idle
<1> QED
  BY <1>5, <1>6, <1>9, <1>10 DEF IInv

----------------------------------------------------------------------------
\* get

LEMMA GetStarts ==
  ASSUME IInv, NEW c \in 1..Len(commits), NEW force \in BOOLEAN, Get(c, force)
  PROVE  IInv'
<1> DEFINE t == commits[c].tree
           row == Row("get", 0, c)
<1>1. /\ run = Idle /\ Len(log) < MaxRows /\ (c = tip \/ Rewind) /\ ~Refused(t, force)
      /\ log' = Append(log, row)
      /\ tip' = tip /\ commits' = commits /\ stored' = stored /\ disk' = disk /\ drift' = drift
  BY DEF Get
<1>2. run' = [cmd |-> "get", c |-> c, base |-> Base, at |-> Len(log) + 1,
              force |-> force, tipped |-> FALSE, open |-> {}, text |-> {},
              noop |-> Noops(t, force), merge |-> Merges(t, force),
              write |-> {p \in Path : t[p] # None} \ Merges(t, force),
              unlink |-> Unlinks(t, force)]
  BY DEF Get
<1>3. Logged /\ Committed /\ Filed /\ Running /\ run.cmd = "none"
  BY <1>1, RunKinds DEF IInv
<1>4. t \in Tree /\ Base \in Tree /\ \A p \in Tracked : Base[p] \in stored
  BY <1>3, BaseFacts
<1>5. /\ Logged' /\ Len(log') = Len(log) + 1 /\ Len(log) \in Nat \ {0}
      /\ \A i \in 1..Len(log) : log'[i] = log[i]
      /\ Cur' = c
  <2>1. c \in Nat /\ 1..Len(commits) \subseteq 1..Len(commits')
    BY <1>1
  <2>2. row \in Entry /\ row.v \in {"get", "post"} /\ row.c = c
    BY <2>1 DEF Row, Entry
  <2> HIDE DEF row
  <2> QED
    BY <1>1, <1>3, <2>1, <2>2, RowAppended
<1>6. Base' = t
  BY <1>1, <1>5 DEF Base
<1>7. Committed'
  BY <1>1, <1>3 DEF Committed
<1>8. Filed'
  <2>1. \A p \in Path : disk[p] # None => disk[p].at \in 0..Len(log)
    BY <1>1, QuietNow
  <2> QED
    BY <1>1, <1>3, <1>5, <2>1 DEF Filed, OnDisk
<1>9. Running'
  <2>1. Noops(t, force) \in SUBSET Path /\ Merges(t, force) \in SUBSET Path
        /\ Unlinks(t, force) \in SUBSET Path
    BY DEF Noops, Merges, Unlinks, Changed
  <2>2. Len(log) + 1 \in 1..Len(log')
    BY <1>5
  <2>3. run' \in GetRun'
    BY <1>1, <1>2, <1>4, <2>1, <2>2 DEF GetRun, Blob
  <2> QED
    BY <1>1, <1>3, <2>3 DEF Running
<1>10. StampsTrue'
  <2> SUFFICES ASSUME Vouched', NEW p \in Path, p \notin Waiting', p \in Tracked'
               PROVE  Sound(p)'
    BY DEF StampsTrue, Sound
  <2>1. t[p] # None
    BY <1>6 DEF Tracked
  <2>2. p \in Noops(t, force)
    BY <1>2, <2>1 DEF Waiting
  <2>3. ~force /\ t[p] = Base[p]
    BY <2>2 DEF Noops, Changed
  <2>4. ~drift
    BY <1>1, <1>2, <2>3 DEF Vouched
  <2>5. Sound(p)
    BY <1>1, <2>4, QuietNow
  <2> QED
    BY <1>1, <1>3, <1>5, <1>6, <2>3, <2>5, SoundStays
<1>11. GetShape'
  <2>1. force => Noops(t, force) = {} /\ Merges(t, force) = {}
    BY DEF Noops, Merges
  <2>2. Noops(t, force) \cap (Merges(t, force) \cup Unlinks(t, force)) = {}
    BY DEF Noops, Merges, Unlinks
  <2>3. \A p \in Merges(t, force) : Base[p] # None /\ ~Known(p)
    BY <1>1 DEF Merges, Refused, Changed, Dirty
  <2>4. ASSUME ~force, NEW p \in Path, p \in Dirty,
               p \notin Noops(t, force), p \notin Merges(t, force)
        PROVE  disk[p].b \in stored
    <3>1. p \in Changed(t)
      BY <2>4 DEF Noops
    <3>2. Base[p] # None /\ Base[p] = disk[p].b
      BY <1>1, <2>4, <3>1 DEF Merges, Refused
    <3> QED
      BY <1>4, <3>2 DEF Tracked
  <2>5. ASSUME ~force, NEW p \in (run'.write \ run'.noop) \cup run'.unlink,
               OnDisk(p), ~Known(p)
        PROVE  disk[p].b \in stored
    <3>1. p \in Path /\ p \in Dirty
      BY <1>2, <2>5 DEF Unlinks, Changed, Dirty
    <3>2. p \notin Noops(t, force) /\ p \notin Merges(t, force)
      BY <1>2, <2>2, <2>5 DEF Unlinks
    <3> QED
      BY <2>4, <2>5, <3>1, <3>2
  <2>6. ~Rewind => c = tip
    BY <1>1
  <2>7. \A p \in run'.write : t[p] # None
    BY <1>2
  <2>8. /\ run'.c = c /\ run'.force = force /\ run'.base = Base
        /\ run'.noop = Noops(t, force) /\ run'.merge = Merges(t, force)
        /\ run'.unlink = Unlinks(t, force) /\ run'.open = {}
    BY <1>2
  <2>9. \A p \in Path : (OnDisk(p)' <=> OnDisk(p)) /\ (Known(p)' <=> Known(p))
    BY <1>1 DEF OnDisk, Known
  <2>10. /\ run'.write \in SUBSET Path /\ run'.unlink \in SUBSET Path
         /\ run'.merge \in SUBSET Path
    BY <1>2 DEF Unlinks, Changed, Merges
  <2>11. /\ run'.write \cap (run'.merge \cup run'.unlink) = {}
         /\ run'.merge \cap run'.unlink = {}
    BY <1>2 DEF Unlinks
  <2> HIDE DEF t
  <2> QED
    BY <1>1, <1>5, <2>1, <2>2, <2>3, <2>5, <2>6, <2>7, <2>8, <2>9, <2>10, <2>11 DEF GetShape, t
<1>12. PostShape'
  BY <1>2 DEF PostShape
<1> QED
  BY <1>5, <1>7, <1>8, <1>9, <1>10, <1>11, <1>12 DEF IInv

\* A step of a get changes the files of a set, which then are as they should
\* be.  It is through with some of them, and holds the others open.
LEMMA GetGoesOn ==
  ASSUME IInv, run.cmd = "get", NEW r \in GetRun, NEW D \in SUBSET Path, NEW E \in SUBSET D,
         GetOn(r),
         r.c = run.c, r.base = run.base, r.force = run.force, r.noop = run.noop, r.tipped,
         r.write = run.write \ E, r.merge = run.merge \ E, r.unlink = run.unlink \ E,
         D \ E \subseteq r.open, run.open \subseteq r.open \cup E,
         r.open \subseteq r.write \cup r.merge, r.open \subseteq {Turn(r)},
         \A p \in r.open \cap r.write : r.text = commits[r.c].tree[p],
         log' = log, commits' = commits, stored' = stored, tip' \in 1..Len(commits),
         disk' \in [Path -> Files \cup {None}],
         \A p \in Path : disk'[p] # None => disk'[p].at \in 0..Len(log),
         \A p \in Path \ D : disk'[p] = disk[p],
         \A p \in D \ E : disk'[p] # None => disk'[p].at = 0,
         Vouched => \A p \in E : Sound(p)'
  PROVE  IInv'
<1>1. Logged' /\ Cur' = Cur /\ Base' = Base /\ Logged /\ Filed /\ Committed /\ Running
  BY Still DEF IInv
<1>2. Committed'
  BY <1>1 DEF Committed
<1>3. \A i \in 1..Len(log) : log'[i] = log[i]
  OBVIOUS
<1>4. Len(log) \in Nat
  BY <1>1, BoundAssumption DEF Logged
<1>5. ASSUME Vouched, NEW p \in Path, p \notin (r.write \ r.noop) \cup r.merge \cup r.unlink
      PROVE  Sound(p)'
  <2>1. CASE p \in E
    BY <1>5, <2>1
  <2>2. CASE p \in D \ E
    BY <2>2 DEF Sound, OnDisk, Clean, Known
  <2>3. CASE p \notin D
    <3>1. p \notin Waiting
      BY <1>5, <2>3 DEF Waiting
    <3>2. Sound(p)
      BY <1>5, <3>1 DEF IInv, StampsTrue
    <3> QED
      BY <1>1, <1>3, <1>4, <2>3, <3>2, SoundStays
  <2> QED
    BY <2>1, <2>2, <2>3
<1>6. CASE r.write \cup r.merge \cup r.unlink # {}
  <2>1. run' = r /\ drift' = drift /\ run'.cmd = "get"
    BY <1>6 DEF GetOn, GetRun
  <2>2. Running'
    BY <1>1, <2>1 DEF Running, GetRun
  <2>3. Filed'
    <3>1. \A p \in Path : disk'[p] # None => disk'[p].at \in -1..Len(log') /\ disk'[p].at # -1
      BY <1>4
    <3> QED
      BY <3>1 DEF Filed, OnDisk
  <2>4. StampsTrue'
    <3>1. Vouched' <=> Vouched
      BY <2>1 DEF Vouched
    <3>2. Waiting' = (r.write \ r.noop) \cup r.merge \cup r.unlink
      BY <2>1 DEF Waiting
    <3> QED
      BY <1>5, <3>1, <3>2 DEF StampsTrue
  <2>5. GetShape'
    <3>1. GetShape
      BY DEF IInv
    <3>2. ASSUME ~r.force, NEW p \in ((r.write \ r.noop) \cup r.unlink) \ r.open,
                 OnDisk(p)', ~Known(p)'
          PROVE  disk'[p].b \in stored
      <4>1. p \notin E
        BY <3>2
      <4>2. p \in Path \ D /\ p \notin run.open
        BY <3>2, <4>1 DEF GetRun
      <4>3. p \in ((run.write \ run.noop) \cup run.unlink) \ run.open
        BY <3>2, <4>2
      <4> QED
        BY <3>1, <3>2, <4>2, <4>3 DEF GetShape, OnDisk, Known
    <3>3. \A p \in r.write : commits[r.c].tree[p] # None
      BY <3>1 DEF GetShape
    <3>4. \A p \in r.merge : r.base[p] # None
      BY <3>1 DEF GetShape
    <3>5. /\ Cur = r.c /\ (r.force => r.noop = {} /\ r.merge = {})
          /\ r.noop \cap (r.merge \cup r.unlink) = {}
          /\ r.write \cap (r.merge \cup r.unlink) = {} /\ r.merge \cap r.unlink = {}
      BY <3>1 DEF GetShape
    <3>6. ASSUME NEW p \in r.merge, OnDisk(p)'
          PROVE  ~Known(p)'
      <4>1. p \in Path /\ p \notin E /\ p \in run.merge
        BY <3>6 DEF GetRun
      <4> QED
        BY <3>1, <3>6, <4>1 DEF GetShape, OnDisk, Known
    <3> QED
      BY <1>1, <2>1, <3>2, <3>3, <3>4, <3>5, <3>6 DEF GetShape, Turn
  <2>6. PostShape'
    BY <2>1 DEF PostShape
  <2> QED
    BY <1>1, <1>2, <2>2, <2>3, <2>4, <2>5, <2>6 DEF IInv
<1>7. CASE r.write \cup r.merge \cup r.unlink = {}
  <2>1. run' = Idle /\ drift' = (drift /\ ~r.force)
    BY <1>7 DEF GetOn
  <2>2. drift' \in BOOLEAN /\ (~drift' => Vouched)
    BY <1>1, <2>1 DEF Running, Vouched, GetRun
  <2>3. \A p \in Path : ~drift' => Sound(p)'
    BY <1>5, <1>7, <2>2
  <2> QED
    BY <1>1, <1>2, <2>1, <2>2, <2>3, Quiet
<1> QED
  BY <1>6, <1>7

\* What a get step knows of the state
LEMMA GetKnows ==
  ASSUME IInv, run.cmd = "get"
  PROVE  /\ run \in GetRun /\ Logged /\ Committed /\ Filed /\ Len(log) \in Nat /\ GetShape
         /\ commits[run.c].tree \in Tree /\ Base = commits[run.c].tree
         /\ \A p \in Path : disk[p] # None =>
              disk[p] \in Files /\ disk[p].b \in Blob /\ disk[p].at \in 0..Len(log)
<1>1. run \in GetRun /\ Logged /\ Committed /\ Filed /\ GetShape
  BY RunKinds DEF IInv
<1>2. Len(log) \in Nat
  BY <1>1, BoundAssumption DEF Logged
<1>3. run.c \in 1..Len(commits)
  BY <1>1 DEF GetRun
<1>4. \A p \in Path : disk[p] # None =>
        disk[p] \in Files /\ disk[p].b \in Blob /\ disk[p].at \in 0..Len(log)
  BY <1>1, <1>2, Nothing DEF Filed, OnDisk
<1>5. Cur = run.c
  BY <1>1 DEF GetShape
<1>6. Base = commits[run.c].tree /\ commits[run.c].tree \in Tree
  BY <1>1, <1>5, BaseFacts DEF Base
<1> QED
  BY <1>1, <1>2, <1>4, <1>6

\* A file that is no row's
LEMMA EmptyStamp ==
  ASSUME NEW b \in Blob
  PROVE  /\ File(b, 0) \in Files /\ File(b, 0) # None
         /\ File(b, 0).at = 0 /\ File(b, 0).b = b
<1>1. 0 \in -1..MaxRows
  BY BoundAssumption
<1> QED
  BY <1>1, Nothing DEF File

\* The text of a merge
LEMMA MergeTextType ==
  ASSUME IInv, run.cmd = "get", NEW p \in run.merge,
         OnDisk(p) \/ commits[run.c].tree[p] # None
  PROVE  /\ MergeText(p) \in Blob /\ run.base[p] \in Blob /\ p \in Path
         /\ OnDisk(p) => disk[p].b \ run.base[p] \subseteq MergeText(p)
<1> DEFINE t == commits[run.c].tree[p]
<1>1. /\ run \in GetRun /\ GetShape /\ commits[run.c].tree \in Tree /\ p \in Path
      /\ OnDisk(p) => disk[p].b \in Blob
  BY GetKnows DEF GetRun, OnDisk
<1>2. run.base[p] \in Blob /\ t \in Blob \cup {None}
  BY <1>1 DEF GetShape, GetRun, Tree
<1>3. CASE t = None
  BY <1>1, <1>2, <1>3 DEF MergeText
<1>4. CASE t # None /\ OnDisk(p)
  <2>1. MergeText(p) = Merged(run.base[p], disk[p].b, t)
    BY <1>4 DEF MergeText
  <2> QED
    BY <1>1, <1>2, <1>4, <2>1 DEF Blob, Merged
<1>5. CASE t # None /\ ~OnDisk(p)
  BY <1>1, <1>2, <1>5 DEF MergeText
<1> QED
  BY <1>1, <1>2, <1>3, <1>4, <1>5

LEMMA GetTips ==
  ASSUME IInv, GetTip
  PROVE  IInv'
<1> DEFINE r == [run EXCEPT !.tipped = TRUE]
<1>1. /\ run.cmd = "get" /\ tip' = run.c /\ GetOn(r)
      /\ log' = log /\ commits' = commits /\ stored' = stored /\ disk' = disk
  BY DEF GetTip
<1>2. run \in GetRun /\ Filed /\ GetShape
  BY <1>1, GetKnows
<1>3. /\ r \in GetRun /\ r.c = run.c /\ r.base = run.base /\ r.force = run.force
      /\ r.noop = run.noop /\ r.tipped /\ r.write = run.write /\ r.merge = run.merge
      /\ r.unlink = run.unlink /\ r.open = run.open /\ r.text = run.text
      /\ run.c \in 1..Len(commits)
  BY <1>2 DEF GetRun
<1>4. disk' \in [Path -> Files \cup {None}] /\ tip' \in 1..Len(commits)
  BY <1>1, <1>2, <1>3 DEF Filed
<1>5. \A p \in Path : disk'[p] # None => disk'[p].at \in 0..Len(log)
  BY <1>1, GetKnows
<1> DEFINE D == {}
<1>6. /\ D \in SUBSET Path /\ D \in SUBSET D /\ r.write = run.write \ D
      /\ r.merge = run.merge \ D /\ r.unlink = run.unlink \ D /\ (Vouched => \A p \in D : Sound(p)')
      /\ D \ D \subseteq r.open /\ run.open \subseteq r.open \cup D
  BY <1>3
<1>7. /\ r.open \subseteq r.write \cup r.merge /\ r.open \subseteq {Turn(r)}
      /\ \A p \in r.open \cap r.write : r.text = commits[r.c].tree[p]
  BY <1>1, <1>2, <1>3 DEF GetShape, Turn
<1> HIDE DEF r, D
<1>8. \A p \in D \ D : disk'[p] # None => disk'[p].at = 0
  OBVIOUS
<1> QED
  BY <1>1, <1>3, <1>4, <1>5, <1>6, <1>7, <1>8, GetGoesOn

\* A file that is written is emptied or unlinked first.
LEMMA GetOpened ==
  ASSUME IInv, run.cmd = "get", run.tipped, run.open = {},
         NEW p \in run.write \cup run.merge, p = Turn(run),
         NEW t \in Blob, p \in run.write => t = commits[run.c].tree[p],
         run' = [run EXCEPT !.open = {p}, !.text = t], drift' = drift,
         NEW f \in Files \cup {None}, f # None => f.at = 0, disk' = [disk EXCEPT ![p] = f],
         log' = log, commits' = commits, stored' = stored, tip' = tip
  PROVE  IInv'
<1> DEFINE r == [run EXCEPT !.open = {p}, !.text = t]
           D == {p}
           E == {}
<1>1. run \in GetRun /\ Filed /\ Committed /\ GetShape /\ Len(log) \in Nat
  BY GetKnows
<1>2. p \in Path
  BY <1>1 DEF GetRun
<1>3. /\ r \in GetRun /\ r.c = run.c /\ r.base = run.base /\ r.force = run.force
      /\ r.noop = run.noop /\ r.tipped /\ r.write = run.write /\ r.merge = run.merge
      /\ r.unlink = run.unlink /\ r.open = D /\ r.text = t
  BY <1>1, <1>2 DEF GetRun
<1>4. GetOn(r)
  <2>1. r.write \cup r.merge \cup r.unlink # {}
    BY <1>3
  <2> QED
    BY <2>1 DEF GetOn
<1>5. disk \in [Path -> Files \cup {None}]
  BY <1>1 DEF Filed
<1>6. /\ disk' \in [Path -> Files \cup {None}] /\ disk'[p] = f
      /\ \A q \in Path \ D : disk'[q] = disk[q]
  BY <1>2, <1>5
<1>7. \A q \in Path : disk'[q] # None => disk'[q].at \in 0..Len(log)
  <2>1. disk'[p] # None => disk'[p].at \in 0..Len(log)
    BY <1>1, <1>6
  <2> QED
    BY <1>6, <2>1, GetKnows
<1>8. \A q \in D \ E : disk'[q] # None => disk'[q].at = 0
  BY <1>6
<1>9. /\ D \in SUBSET Path /\ E \in SUBSET D /\ D \ E \subseteq r.open
      /\ r.write = run.write \ E /\ r.merge = run.merge \ E /\ r.unlink = run.unlink \ E
      /\ run.open \subseteq r.open \cup E /\ r.open \subseteq r.write \cup r.merge
      /\ r.open \subseteq {Turn(r)}
      /\ \A q \in r.open \cap r.write : r.text = commits[r.c].tree[q]
      /\ tip' \in 1..Len(commits) /\ (Vouched => \A q \in E : Sound(q)')
  BY <1>1, <1>2, <1>3 DEF Committed, Turn
<1> HIDE DEF r, D, E
<1>10. /\ r \in GetRun /\ r.c = run.c /\ r.base = run.base /\ r.force = run.force
       /\ r.noop = run.noop /\ r.tipped
  BY <1>3
<1>11. /\ disk' \in [Path -> Files \cup {None}]
       /\ \A q \in Path \ D : disk'[q] = disk[q]
  BY <1>6
<1> QED
  BY ONLY IInv, run.cmd = "get", log' = log, commits' = commits, stored' = stored,
     <1>4, <1>7, <1>8, <1>9, <1>10, <1>11, GetGoesOn

\* Then it is done with.
LEMMA GetDone ==
  ASSUME IInv, run.cmd = "get", run.tipped, NEW p \in run.write \cup run.merge,
         run.open \subseteq {p}, Wrote(run, p),
         NEW f \in Files \cup {None}, f # None => f.at \in 0..Len(log),
         disk' = [disk EXCEPT ![p] = f], Vouched => Sound(p)',
         log' = log, commits' = commits, stored' = stored, tip' = tip
  PROVE  IInv'
<1> DEFINE r == [run EXCEPT !.write = @ \ {p}, !.merge = @ \ {p}, !.open = {}, !.text = {}]
           D == {p}
<1>1. run \in GetRun /\ Filed /\ Committed /\ GetShape
  BY GetKnows
<1>2. p \in Path /\ p \notin run.unlink /\ {} \in Blob
  BY <1>1 DEF GetRun, GetShape, Blob
<1>3. /\ r \in GetRun /\ r.c = run.c /\ r.base = run.base /\ r.force = run.force
      /\ r.noop = run.noop /\ r.tipped /\ r.write = run.write \ D /\ r.merge = run.merge \ D
      /\ r.unlink = run.unlink /\ r.open = {}
  BY <1>1, <1>2 DEF GetRun
<1>4. GetOn(r)
  BY DEF Wrote
<1>5. disk \in [Path -> Files \cup {None}]
  BY <1>1 DEF Filed
<1>6. /\ disk' \in [Path -> Files \cup {None}] /\ disk'[p] = f
      /\ \A q \in Path \ D : disk'[q] = disk[q]
  BY <1>2, <1>5
<1>7. \A q \in Path : disk'[q] # None => disk'[q].at \in 0..Len(log)
  BY <1>6, GetKnows
<1>8. /\ D \in SUBSET Path /\ D \in SUBSET D /\ D \ D \subseteq r.open
      /\ r.unlink = run.unlink \ D /\ run.open \subseteq r.open \cup D
      /\ r.open \subseteq r.write \cup r.merge /\ r.open \subseteq {Turn(r)}
      /\ \A q \in r.open \cap r.write : r.text = commits[r.c].tree[q]
      /\ tip' \in 1..Len(commits) /\ (Vouched => \A q \in D : Sound(q)')
      /\ \A q \in D \ D : disk'[q] # None => disk'[q].at = 0
  BY <1>1, <1>2, <1>3 DEF Committed
<1> HIDE DEF r, D
<1> QED
  BY <1>3, <1>4, <1>6, <1>7, <1>8, GetGoesOn

LEMMA GetOpens ==
  ASSUME IInv, GetOpen
  PROVE  IInv'
<1> PICK p : p = Least(run.write)
  OBVIOUS
<1> DEFINE t == commits[run.c].tree[p]
<1>1. /\ run.cmd = "get" /\ run.tipped /\ run.write # {} /\ run.open = {}
      /\ run' = [run EXCEPT !.open = {p}, !.text = t] /\ drift' = drift
      /\ log' = log /\ commits' = commits /\ stored' = stored /\ tip' = tip
  BY DEF GetOpen
<1>2. PICK f \in {None} \cup {File(part, 0) : part \in SUBSET t} : disk' = [disk EXCEPT ![p] = f]
  BY DEF GetOpen
<1>3. p \in run.write /\ p \in Path /\ t \in Blob
  <2>1. run \in GetRun /\ GetShape /\ commits[run.c].tree \in Tree
    BY <1>1, GetKnows
  <2>2. p \in run.write /\ p \in Path
    BY <1>1, <2>1, LeastFacts DEF GetRun
  <2> QED
    BY <1>1, <2>1, <2>2 DEF GetShape, Tree
<1>4. f \in Files \cup {None} /\ (f # None => f.at = 0)
  BY <1>2, <1>3, EmptyStamp DEF Blob
<1>5. p = Turn(run)
  BY <1>1 DEF Turn
<1> HIDE DEF t
<1> QED
  BY <1>1, <1>2, <1>3, <1>4, <1>5, GetOpened DEF t

LEMMA GetTruncates ==
  ASSUME IInv, GetTruncate
  PROVE  IInv'
<1> PICK p : p = Least(run.merge)
  OBVIOUS
<1> DEFINE t == MergeText(p)
<1>1. /\ run.cmd = "get" /\ run.tipped /\ run.merge # {} /\ run.open = {} /\ run.write = {}
      /\ OnDisk(p) \/ commits[run.c].tree[p] # None
      /\ run' = [run EXCEPT !.open = {p}, !.text = t] /\ drift' = drift
      /\ log' = log /\ commits' = commits /\ stored' = stored /\ tip' = tip
  BY DEF GetTruncate
<1>2. PICK part \in SUBSET t : disk' = [disk EXCEPT ![p] = File(part, 0)]
  BY DEF GetTruncate
<1>3. p \in run.merge /\ p \in Path
  BY <1>1, GetKnows, LeastFacts DEF GetRun
<1>4. t \in Blob
  BY <1>1, <1>3, MergeTextType
<1>5. File(part, 0) \in Files \cup {None} /\ File(part, 0).at = 0
  BY <1>2, <1>4, EmptyStamp DEF Blob
<1>6. p = Turn(run) /\ (p \in run.write => t = commits[run.c].tree[p])
  BY <1>1 DEF Turn
<1> HIDE DEF t
<1> QED
  BY <1>1, <1>2, <1>3, <1>4, <1>5, <1>6, GetOpened

LEMMA GetWrites ==
  ASSUME IInv, GetWrite
  PROVE  IInv'
<1> PICK p : p = Least(run.write)
  OBVIOUS
<1>1. /\ run.cmd = "get" /\ run.tipped /\ run.write # {} /\ Wrote(run, p)
      /\ log' = log /\ commits' = commits /\ stored' = stored /\ tip' = tip
  BY DEF GetWrite
<1>2. /\ run \in GetRun /\ Filed /\ GetShape /\ Logged /\ Len(log) \in Nat
      /\ Base = commits[run.c].tree /\ Base' = Base
  BY <1>1, GetKnows, Still
<1>3. p \in run.write /\ p \in Path
  BY <1>1, <1>2, LeastFacts DEF GetRun
<1>4. disk \in [Path -> Files \cup {None}]
  BY <1>2 DEF Filed
<1>5. CASE run.open = {} /\ p \in run.noop /\ OnDisk(p) /\ disk' = disk
  <2> DEFINE f == disk[p]
  <2>1. disk' = [disk EXCEPT ![p] = f] /\ f \in Files \cup {None}
    BY <1>3, <1>4, <1>5
  <2>2. f # None => f.at \in 0..Len(log)
    BY <1>1, <1>3, GetKnows
  <2>3. p \notin Waiting
    BY <1>1, <1>2, <1>5 DEF GetShape, Waiting
  <2>4. Vouched => Sound(p)
    BY <1>3, <2>3 DEF IInv, StampsTrue
  <2>5. Vouched => Sound(p)'
    BY <1>1, <1>2, <1>3, <1>5, <2>4, SoundStays
  <2> HIDE DEF f
  <2> QED
    BY <1>1, <1>3, <1>5, <2>1, <2>2, <2>5, GetDone
<1>6. CASE run.open = {p} /\ disk' = [disk EXCEPT ![p] = File(run.text, run.at)]
  <2> DEFINE f == File(run.text, run.at)
  <2>1. run.text = Base[p] /\ run.text \in Blob /\ run.at \in 1..Len(log)
    BY <1>1, <1>2, <1>3, <1>6 DEF GetShape, GetRun
  <2>2. run.at \in -1..MaxRows /\ run.at \in 0..Len(log)
    BY <1>2, <2>1, BoundAssumption DEF Logged
  <2>3. f \in Files \cup {None} /\ f.at \in 0..Len(log) /\ f.b = run.text
    BY <2>1, <2>2, Nothing DEF File
  <2>4. disk'[p].b = Base'[p]
    BY <1>2, <1>3, <1>4, <1>6, <2>1, <2>3
  <2>5. Sound(p)'
    BY <2>4 DEF Sound
  <2> HIDE DEF f
  <2> QED
    BY <1>1, <1>3, <1>6, <2>3, <2>5, GetDone DEF f
<1> QED
  BY <1>5, <1>6 DEF GetWrite

LEMMA GetMerges ==
  ASSUME IInv, GetMerge
  PROVE  IInv'
<1> PICK p : p = Least(run.merge)
  OBVIOUS
<1>1. /\ run.cmd = "get" /\ run.tipped /\ run.write = {} /\ run.merge # {} /\ Wrote(run, p)
      /\ log' = log /\ commits' = commits /\ stored' = stored /\ tip' = tip
  BY DEF GetMerge
<1>2. /\ run \in GetRun /\ Filed /\ GetShape /\ Logged /\ Len(log) \in Nat
  BY <1>1, GetKnows
<1>3. p \in run.merge /\ p \in Path
  BY <1>1, <1>2, LeastFacts DEF GetRun
<1>4. disk \in [Path -> Files \cup {None}]
  BY <1>2 DEF Filed
<1>5. run.open \subseteq {p}
  BY <1>1, <1>2 DEF Turn, GetShape
<1>6. CASE disk' = disk
  <2> DEFINE f == disk[p]
  <2>1. disk' = [disk EXCEPT ![p] = f] /\ f \in Files \cup {None}
    BY <1>3, <1>4, <1>6
  <2>2. f # None => f.at \in 0..Len(log)
    BY <1>1, <1>3, GetKnows
  <2>3. Sound(p)'
    BY <1>1, <1>2, <1>3, <1>6 DEF GetShape, Sound, OnDisk, Clean, Known
  <2> HIDE DEF f
  <2> QED
    BY <1>1, <1>3, <1>5, <2>1, <2>2, <2>3, GetDone
<1>7. CASE disk' = [disk EXCEPT ![p] = File(run.text, 0)]
  <2> DEFINE f == File(run.text, 0)
  <2>1. f \in Files /\ f.at = 0
    BY <1>2, EmptyStamp DEF GetRun
  <2>2. 0 \in 0..Len(log)
    BY <1>2
  <2>3. disk'[p].at = 0
    BY <1>3, <1>4, <1>7, <2>1
  <2>4. Sound(p)'
    BY <2>3 DEF Sound, OnDisk, Clean, Known
  <2> HIDE DEF f
  <2> QED
    BY <1>1, <1>3, <1>5, <1>7, <2>1, <2>2, <2>4, GetDone DEF f
<1> QED
  BY <1>6, <1>7 DEF GetMerge

LEMMA GetUnlinks ==
  ASSUME IInv, GetUnlink
  PROVE  IInv'
<1> PICK p : p = Least(run.unlink)
  OBVIOUS
<1> DEFINE r == [run EXCEPT !.unlink = @ \ {p}]
           D == {p}
<1>1. /\ run.cmd = "get" /\ run.tipped /\ run.unlink # {} /\ GetOn(r)
      /\ disk' = [disk EXCEPT ![p] = None] /\ run.write \cup run.merge = {}
      /\ log' = log /\ commits' = commits /\ stored' = stored /\ tip' = tip
  BY DEF GetUnlink
<1>2. run \in GetRun /\ Filed /\ Committed /\ GetShape
  BY <1>1, GetKnows
<1>3. p \in run.unlink /\ p \in Path /\ run.open = {}
  BY <1>1, <1>2, LeastFacts DEF GetRun, GetShape
<1>4. /\ r \in GetRun /\ r.c = run.c /\ r.base = run.base /\ r.force = run.force
      /\ r.noop = run.noop /\ r.tipped /\ r.write = run.write /\ r.merge = run.merge
      /\ r.unlink = run.unlink \ D /\ r.open = {}
  BY <1>1, <1>2, <1>3 DEF GetRun
<1>5. disk \in [Path -> Files \cup {None}]
  BY <1>2 DEF Filed
<1>6. /\ disk' \in [Path -> Files \cup {None}] /\ disk'[p] = None
      /\ \A q \in Path \ D : disk'[q] = disk[q]
  BY <1>1, <1>3, <1>5
<1>7. \A q \in Path : disk'[q] # None => disk'[q].at \in 0..Len(log)
  BY <1>1, <1>6, GetKnows
<1>8. Sound(p)'
  BY <1>6 DEF Sound, OnDisk
<1>9. /\ D \in SUBSET Path /\ D \in SUBSET D /\ r.write = run.write \ D
      /\ r.merge = run.merge \ D /\ D \ D \subseteq r.open /\ run.open \subseteq r.open \cup D
      /\ r.open \subseteq r.write \cup r.merge /\ r.open \subseteq {Turn(r)}
      /\ \A q \in r.open \cap r.write : r.text = commits[r.c].tree[q]
      /\ \A q \in D \ D : disk'[q] # None => disk'[q].at = 0
  BY <1>1, <1>3, <1>4
<1>10. tip' \in 1..Len(commits) /\ (Vouched => \A q \in D : Sound(q)')
  BY <1>1, <1>2, <1>8 DEF Committed
<1> HIDE DEF r, D
<1> QED
  BY <1>1, <1>4, <1>6, <1>7, <1>9, <1>10, GetGoesOn

----------------------------------------------------------------------------
\* put, delete, and what happens between commands

\* A step that changes one file at most
LEMMA Calm ==
  ASSUME IInv, run \in {Idle} \cup PutRun \cup DeleteRun,
         run' \in {Idle} \cup PutRun' \cup DeleteRun, drift' = drift,
         Logged', Committed', Base' = Base, Len(log) <= Len(log'),
         \A i \in 1..Len(log) : log'[i] = log[i],
         NEW p \in Path, disk' \in [Path -> Files \cup {None}],
         \A q \in Path \ {p} : disk'[q] = disk[q],
         disk'[p] # None => disk'[p].at \in 0..Len(log'),
         ~drift => Sound(p)'
  PROVE  IInv'
<1>1. Len(log) \in Nat /\ Len(log') \in Nat
  BY BoundAssumption DEF IInv, Logged
<1>2. \A q \in Path : disk'[q] # None => disk'[q].at \in 0..Len(log')
  BY <1>1, QuietNow
<1>3. ASSUME ~drift, NEW q \in Path
      PROVE  Sound(q)'
  <2>1. CASE q = p
    BY <1>3, <2>1
  <2>2. CASE q # p
    <3>1. Sound(q) /\ Filed
      BY <1>3, QuietNow DEF IInv
    <3> QED
      BY <1>1, <2>2, <3>1, SoundStays
  <2> QED
    BY <2>1, <2>2
<1>4. drift' \in BOOLEAN
  BY QuietNow
<1> QED
  BY <1>2, <1>3, <1>4, Quiet

\* ... and one that changes none
LEMMA CalmFiles ==
  ASSUME IInv, run \in {Idle} \cup PutRun \cup DeleteRun,
         run' \in {Idle} \cup PutRun' \cup DeleteRun, drift' = drift,
         Logged', Committed', Base' = Base, Len(log) <= Len(log'),
         \A i \in 1..Len(log) : log'[i] = log[i], disk' = disk
  PROVE  IInv'
<1>1. Len(log) \in Nat /\ Len(log') \in Nat /\ Filed
  BY BoundAssumption DEF IInv, Logged
<1>2. \A q \in Path : disk'[q] # None => disk'[q].at \in 0..Len(log')
  BY <1>1, QuietNow
<1>3. ASSUME ~drift, NEW q \in Path
      PROVE  Sound(q)'
  <2>1. Sound(q)
    BY <1>3, QuietNow
  <2> QED
    BY <1>1, <2>1, SoundStays
<1>4. drift' \in BOOLEAN /\ disk' \in [Path -> Files \cup {None}]
  BY <1>1, QuietNow DEF Filed
<1> QED
  BY <1>2, <1>3, <1>4, Quiet

LEMMA PutStarts ==
  ASSUME IInv, NEW S \in SUBSET Path, S # {}, NEW bare \in BOOLEAN, Put(S, bare)
  PROVE  IInv'
<1>1. /\ run = Idle /\ run' = [cmd |-> "put", todo |-> S, bare |-> bare, row |-> FALSE]
      /\ disk' = disk
      /\ log' = log /\ commits' = commits /\ stored' = stored /\ tip' = tip /\ drift' = drift
  BY DEF Put
<1>2. run' \in PutRun'
  BY <1>1 DEF PutRun
<1>3. Logged' /\ Committed' /\ Base' = Base /\ Len(log) <= Len(log')
  BY <1>1, Still, QuietNow DEF IInv
<1> QED
  BY <1>1, <1>2, <1>3, CalmFiles

LEMMA RestType ==
  ASSUME NEW p
  PROVE  /\ run \in PutRun /\ ~run.row => Rest(run.todo \ {p}) \in {Idle} \cup PutRun
         /\ run \in DeleteRun => Rest(run.todo \ {p}) \in {Idle} \cup DeleteRun
  BY DEF Rest, PutRun, DeleteRun

\* A file gets the stamp of a row.
LEMMA Stamped ==
  ASSUME Filed, NEW p \in Path, OnDisk(p), NEW at \in 0..MaxRows,
         disk' = [disk EXCEPT ![p].at = at]
  PROVE  /\ disk' \in [Path -> Files \cup {None}]
         /\ disk'[p] # None /\ disk'[p].at = at /\ disk'[p].b = disk[p].b
         /\ \A q \in Path \ {p} : disk'[q] = disk[q]
<1>1. at \in -1..MaxRows /\ disk \in [Path -> Files \cup {None}] /\ disk[p] \in Files
  BY BoundAssumption DEF Filed, OnDisk
<1>2. [disk[p] EXCEPT !.at = at] \in Files
  BY <1>1 DEF Files
<1>3. disk' = [disk EXCEPT ![p] = [disk[p] EXCEPT !.at = at]]
  OBVIOUS
<1>4. disk'[p] = [disk[p] EXCEPT !.at = at]
  BY <1>1, <1>3
<1>5. disk' \in [Path -> Files \cup {None}] /\ \A q \in Path \ {p} : disk'[q] = disk[q]
  BY <1>1, <1>2, <1>3
<1>6. disk'[p].at = at /\ disk'[p].b = disk[p].b
  BY <1>1, <1>4 DEF Files
<1> QED
  BY <1>2, <1>4, <1>5, <1>6, Nothing

LEMMA Puts ==
  ASSUME IInv, PutOne
  PROVE  IInv'
<1> PICK p : p = Least(run.todo)
  OBVIOUS
<1> DEFINE skip  == ~OnDisk(p) \/ (run.bare /\ Clean(p))
           same  == run.bare /\ ~skip /\ disk[p].b = Base[p]
           stage == ~skip /\ ~same
           row   == Row("put", p, 0)
<1>1. /\ run.cmd = "put" /\ ~run.row /\ (stage => Len(log) < MaxRows)
      /\ log'  = IF stage THEN Append(log, row) ELSE log
      /\ disk' = IF same THEN [disk EXCEPT ![p].at = Last(Rows({"get", "post"}))] ELSE disk
      /\ run'  = IF stage THEN [run EXCEPT !.row = TRUE] ELSE Rest(run.todo \ {p})
      /\ commits' = commits /\ stored' = stored /\ tip' = tip /\ drift' = drift
  BY DEF PutOne
<1>2. Logged /\ Committed /\ Filed /\ run \in PutRun
  BY <1>1, RunKinds DEF IInv
<1>3. p \in Path
  BY <1>1, <1>2, LeastFacts DEF PutRun
<1>4. Len(log) \in Nat /\ Len(log) <= MaxRows
  BY <1>2, BoundAssumption DEF Logged
<1>5. CASE stage
  <2>1. disk' = disk /\ run' = [run EXCEPT !.row = TRUE]
    BY <1>1, <1>5
  <2>2. /\ Logged' /\ Len(log') = Len(log) + 1 /\ Cur' = Cur
        /\ \A i \in 1..Len(log) : log'[i] = log[i]
        /\ log'[Len(log) + 1].v = "put"
    <3>1. row \in Entry /\ row.v = "put" /\ row.p = p
      BY <1>3 DEF Row, Entry
    <3>2. 1..Len(commits) \subseteq 1..Len(commits')
      BY <1>1
    <3> HIDE DEF row, stage
    <3> QED
      BY <1>1, <1>2, <1>3, <1>5, <3>1, <3>2, RowAppended
  <2>3. Base' = Base /\ Committed' /\ Len(log) <= Len(log')
    BY <1>1, <1>2, <1>4, <2>2 DEF Base, Committed
  <2>4. run' \in PutRun'
    BY <1>2, <2>1, <2>2 DEF PutRun
  <2> QED
    BY <1>1, <1>2, <2>1, <2>2, <2>3, <2>4, CalmFiles
<1>6. CASE ~stage
  <2>1. log' = log /\ run' \in {Idle} \cup PutRun
    BY <1>1, <1>2, <1>6, RestType
  <2>2. run' \in {Idle} \cup PutRun'
    BY <2>1 DEF PutRun
  <2>3. Logged' /\ Base' = Base /\ Committed' /\ Len(log) <= Len(log')
    BY <1>1, <1>2, <1>4, <2>1, Still
  <2>4. CASE ~same
    <3>1. disk' = disk
      BY <1>1, <2>4
    <3> QED
      BY <1>1, <1>2, <2>1, <2>2, <2>3, <3>1, CalmFiles
  <2>5. CASE same
    <3> DEFINE at == Last(Rows({"get", "post"}))
    <3>1. at \in 0..Len(log') /\ at \in 0..MaxRows
      BY <1>2, <1>4, <2>1, BoundAssumption, CurFacts DEF Rows
    <3> HIDE DEF at
    <3>2. disk' = [disk EXCEPT ![p].at = at] /\ OnDisk(p)
      BY <1>1, <2>5 DEF at
    <3>3. /\ disk' \in [Path -> Files \cup {None}]
          /\ disk'[p] # None /\ disk'[p].at = at /\ disk'[p].b = disk[p].b
          /\ \A q \in Path \ {p} : disk'[q] = disk[q]
      BY <1>2, <1>3, <3>1, <3>2, Stamped
    <3>4. Sound(p)'
      BY <2>3, <2>5, <3>3 DEF Sound
    <3> QED
      BY <1>1, <1>2, <1>3, <2>1, <2>2, <2>3, <3>1, <3>3, <3>4, Calm
  <2> QED
    BY <2>4, <2>5
<1> QED
  BY <1>5, <1>6

LEMMA PutStamps ==
  ASSUME IInv, PutStamp
  PROVE  IInv'
<1> PICK p : p = Least(run.todo)
  OBVIOUS
<1>1. /\ run.cmd = "put" /\ run.row
      /\ disk' = IF OnDisk(p) THEN [disk EXCEPT ![p].at = Len(log)] ELSE disk
      /\ run' = IF run.todo = {p} THEN Idle
                ELSE [run EXCEPT !.todo = @ \ {p}, !.row = FALSE]
      /\ log' = log /\ commits' = commits /\ stored' = stored /\ tip' = tip /\ drift' = drift
  BY DEF PutStamp
<1>2. Logged /\ Committed /\ Filed /\ run \in PutRun
  BY <1>1, RunKinds DEF IInv
<1>3. p \in run.todo /\ p \in Path /\ run.todo \in SUBSET Path
  BY <1>1, <1>2, LeastFacts DEF PutRun
<1>4. run' \in {Idle} \cup PutRun'
  <2>1. run.todo # {p} => run.todo \ {p} \in (SUBSET Path) \ {{}}
    BY <1>3
  <2> QED
    BY <1>1, <1>2, <2>1 DEF PutRun
<1>5. Logged' /\ Base' = Base /\ Committed' /\ Len(log) <= Len(log') /\ Len(log) \in 0..MaxRows
  BY <1>1, <1>2, Still, BoundAssumption DEF Logged
<1>6. CASE ~OnDisk(p)
  <2>1. disk' = disk
    BY <1>1, <1>6
  <2> QED
    BY <1>1, <1>2, <1>4, <1>5, <2>1, CalmFiles
<1>7. CASE OnDisk(p)
  <2>1. /\ disk' \in [Path -> Files \cup {None}]
        /\ disk'[p] # None /\ disk'[p].at = Len(log) /\ disk'[p].b = disk[p].b
        /\ \A q \in Path \ {p} : disk'[q] = disk[q]
    BY <1>1, <1>2, <1>3, <1>5, <1>7, Stamped
  <2>2. log'[disk'[p].at].v = "put"
    BY <1>1, <1>2, <2>1 DEF PutRun
  <2>3. Sound(p)'
    BY <2>2 DEF Sound, Clean
  <2>4. disk'[p].at \in 0..Len(log')
    BY <1>1, <1>5, <2>1
  <2> QED
    BY <1>1, <1>2, <1>3, <1>4, <1>5, <2>1, <2>3, <2>4, Calm
<1> QED
  BY <1>6, <1>7

LEMMA Deletes ==
  ASSUME IInv, NEW S \in SUBSET Path, S # {}, run = Idle,
         run' = [cmd |-> "delete", todo |-> S], UNCHANGED <<log, tip, commits, stored, drift>>,
         disk' = disk \/ \E p \in Path : disk' = [disk EXCEPT ![p] = None]
  PROVE  IInv'
<1>1. run' \in DeleteRun
  BY DEF DeleteRun
<1>2. Logged' /\ Committed' /\ Base' = Base /\ Filed /\ Len(log) <= Len(log')
  BY Still, QuietNow DEF IInv
<1>3. disk \in [Path -> Files \cup {None}]
  BY <1>2 DEF Filed
<1>4. CASE disk' = disk
  BY <1>1, <1>2, <1>4, CalmFiles
<1>5. ASSUME NEW p \in Path, disk' = [disk EXCEPT ![p] = None]
      PROVE  IInv'
  <2>1. /\ disk' \in [Path -> Files \cup {None}] /\ \A q \in Path \ {p} : disk'[q] = disk[q]
        /\ disk'[p] = None
    BY <1>3, <1>5
  <2>2. Sound(p)'
    BY <2>1 DEF Sound, OnDisk
  <2> QED
    BY <1>1, <1>2, <2>1, <2>2, Calm
<1> QED
  BY <1>4, <1>5

LEMMA DeleteRows ==
  ASSUME IInv, DeleteRow
  PROVE  IInv'
<1> PICK p : p = Least(run.todo)
  OBVIOUS
<1> DEFINE row == Row("delete", p, 0)
<1>1. /\ run.cmd = "delete" /\ Len(log) < MaxRows /\ log' = Append(log, row)
      /\ run' = Rest(run.todo \ {p})
      /\ disk' = disk /\ commits' = commits /\ stored' = stored /\ tip' = tip /\ drift' = drift
  BY DEF DeleteRow
<1>2. Logged /\ Committed /\ Filed /\ run \in DeleteRun
  BY <1>1, RunKinds DEF IInv
<1>3. p \in Path /\ run' \in {Idle} \cup DeleteRun
  BY <1>1, <1>2, LeastFacts, RestType DEF DeleteRun
<1>4. /\ Logged' /\ Len(log') = Len(log) + 1 /\ Cur' = Cur /\ Len(log) \in Nat
      /\ \A i \in 1..Len(log) : log'[i] = log[i]
  <2>1. row \in Entry /\ row.v = "delete" /\ row.p = p
    BY <1>3 DEF Row, Entry
  <2>2. 1..Len(commits) \subseteq 1..Len(commits')
    BY <1>1
  <2> HIDE DEF row
  <2> QED
    BY <1>1, <1>2, <1>3, <2>1, <2>2, RowAppended
<1>5. Base' = Base /\ Committed' /\ Len(log) <= Len(log')
  BY <1>1, <1>2, <1>4 DEF Base, Committed
<1> QED
  BY <1>1, <1>2, <1>3, <1>4, <1>5, CalmFiles

LEMMA Edits ==
  ASSUME IInv, ~EditDuring, NEW p \in Path,
         (\E b \in Mine : Edit(p, b)) \/ Remove(p)
  PROVE  IInv'
<1>1. /\ run = Idle /\ run' = Idle /\ log' = log /\ tip' = tip /\ commits' = commits
      /\ stored' = stored /\ drift' = drift
  BY DEF Edit, Remove, MayEdit
<1>2. Logged' /\ Committed' /\ Base' = Base /\ Filed /\ Len(log) <= Len(log')
      /\ Len(log) \in Nat
  BY <1>1, Still, QuietNow DEF IInv
<1>3. PICK f \in Files \cup {None} : disk' = [disk EXCEPT ![p] = f] /\ (f # None => f.at = 0)
  <2>1. CASE Remove(p)
    BY <2>1 DEF Remove
  <2>2. ASSUME NEW b \in Mine, Edit(p, b)
        PROVE  \E f \in Files \cup {None} :
                 disk' = [disk EXCEPT ![p] = f] /\ (f # None => f.at = 0)
    <3>1. b \in Blob /\ 0 \in -1..MaxRows
      BY BlobAssumption, BoundAssumption
    <3>2. File(b, 0) \in Files /\ File(b, 0).at = 0
      BY <3>1, Nothing DEF File
    <3> QED
      BY <2>2, <3>2 DEF Edit
  <2> QED
    BY <2>1, <2>2
<1>4. /\ disk' \in [Path -> Files \cup {None}] /\ \A q \in Path \ {p} : disk'[q] = disk[q]
      /\ disk'[p] = f
  BY <1>2, <1>3 DEF Filed
<1>5. disk'[p] # None => disk'[p].at \in 0..Len(log')
  BY <1>1, <1>2, <1>3, <1>4
<1>6. Sound(p)'
  BY <1>3, <1>4 DEF Sound, OnDisk, Clean, Known
<1> QED
  BY <1>1, <1>2, <1>4, <1>5, <1>6, Calm

\* What another worktree's commit does to the history
LEMMA OtherCommit ==
  ASSUME Logged, Committed, NEW p \in Path, NEW b \in Theirs \cup {None}, Other(p, b)
  PROVE  /\ Committed' /\ Logged' /\ Base' = Base
         /\ AncestorsIn(commits, tip) \subseteq AncestorsIn(commits', tip')
<1> DEFINE tree == [commits[tip].tree EXCEPT ![p] = b]
           new == [up |-> tip, tree |-> tree]
<1>1. /\ commits' = Append(commits, new) /\ stored' = stored \cup ({b} \ {None})
      /\ tip' = Len(commits) + 1 /\ log' = log
  BY DEF Other
<1>2. tip \in 1..Len(commits) /\ commits[tip].tree \in Tree /\ Len(commits) \in Nat
      /\ Cur \in 1..Len(commits)
  BY BaseFacts, CurFacts DEF Committed
<1>3. b \in Blob \cup {None} /\ stored \in SUBSET Blob
  BY BlobAssumption DEF Committed
<1>4. tree \in Tree /\ \A q \in Path : tree[q] # None => tree[q] \in stored'
  BY <1>1, <1>2, <1>3 DEF Tree, Committed
<1>5. new \in [up : 0..Len(commits), tree : Tree] /\ new.tree = tree /\ new.up = tip
  BY <1>2, <1>4
<1>6. stored \subseteq stored' /\ stored' \in SUBSET Blob
  BY <1>1, <1>3
<1> HIDE DEF new, tree
<1>7. Len(commits') = Len(commits) + 1
  BY <1>1, <1>2, <1>5, AppendProperties DEF Committed, Histories, Tree
<1>8. tip' \in 1..Len(commits')
  BY <1>1, <1>2, <1>7
<1>9. /\ Committed'
      /\ 1..Len(commits) \subseteq 1..Len(commits')
      /\ \A i \in 1..Len(commits) : commits'[i] = commits[i]
      /\ \A c \in 0..Len(commits) : AncestorsIn(commits', c) = AncestorsIn(commits, c)
      /\ AncestorsIn(commits', Len(commits) + 1)
           = {Len(commits) + 1} \cup AncestorsIn(commits', new.up)
  BY <1>1, <1>4, <1>5, <1>6, <1>8, CommitAppended
<1>10. Logged'
  BY <1>1, <1>9 DEF Logged
<1>11. Base' = Base
  <2>1. Cur' = Cur
    BY <1>1 DEF Cur, Rows
  <2> QED
    BY <1>2, <1>9, <2>1 DEF Base
<1>12. tip \in 0..Len(commits)
  BY <1>2
<1> QED
  BY <1>1, <1>5, <1>9, <1>10, <1>11, <1>12

LEMMA Others ==
  ASSUME IInv, NEW p \in Path, NEW b \in Theirs \cup {None}, Other(p, b)
  PROVE  IInv'
<1>1. run = Idle /\ run' = Idle /\ log' = log /\ disk' = disk /\ drift' = drift
  BY DEF Other
<1>2. Logged' /\ Committed' /\ Base' = Base
  BY OtherCommit DEF IInv
<1>3. Len(log) <= Len(log')
  BY <1>1, QuietNow
<1> QED
  BY <1>1, <1>2, <1>3, CalmFiles

\* The stamps of a row that will not come become no row's, or the row's.
LEMMA Settles ==
  ASSUME Filed, Logged, NEW at \in 0..MaxRows,
         disk' = [p \in Path |-> IF OnDisk(p) /\ disk[p].at = Pending
                                 THEN File(disk[p].b, at) ELSE disk[p]]
  PROVE  /\ disk' \in [Path -> Files \cup {None}]
         /\ \A p \in Path : disk'[p] # None =>
              /\ disk[p] # None /\ disk'[p].b = disk[p].b
              /\ \/ disk[p].at = -1 /\ disk'[p].at = at
                 \/ disk[p].at \in 0..Len(log) /\ disk'[p] = disk[p]
         /\ \A p \in Path : disk[p] # None => disk'[p] # None
<1>1. \A p \in Path : disk[p] # None =>
        disk[p] \in Files /\ disk[p].b \in Blob /\ disk[p].at \in -1..Len(log)
  BY Nothing DEF Filed, OnDisk
<1>2. at \in -1..MaxRows /\ Len(log) \in Nat
  BY BoundAssumption DEF Logged
<1>3. \A p \in Path : disk[p] # None =>
        /\ File(disk[p].b, at) \in Files /\ File(disk[p].b, at) # None
        /\ File(disk[p].b, at).b = disk[p].b /\ File(disk[p].b, at).at = at
  BY <1>1, <1>2, Nothing DEF File
<1>4. \A p \in Path : disk[p] # None /\ disk[p].at # -1 => disk[p].at \in 0..Len(log)
  BY <1>1, <1>2
<1>5. disk \in [Path -> Files \cup {None}]
  BY DEF Filed
<1> QED
  BY <1>1, <1>3, <1>4, <1>5 DEF OnDisk, Pending

LEMMA Crashes ==
  ASSUME IInv, Crash
  PROVE  IInv'
<1>1. /\ run' = Idle /\ log' = log /\ tip' = tip /\ commits' = commits /\ stored' = stored
      /\ disk' = [p \in Path |-> IF OnDisk(p) /\ disk[p].at = Pending
                                 THEN File(disk[p].b, 0) ELSE disk[p]]
      /\ drift' = (drift \/ run.cmd = "get")
  BY DEF Crash
<1>2. Logged' /\ Committed' /\ Base' = Base /\ Filed /\ Logged /\ Running
  BY <1>1, Still DEF IInv
<1>3. 0 \in 0..MaxRows /\ Len(log) \in Nat
  BY <1>2, BoundAssumption DEF Logged
<1>4. /\ disk' \in [Path -> Files \cup {None}]
      /\ \A p \in Path : disk'[p] # None =>
           \/ disk'[p].at = 0
           \/ disk[p].at \in 0..Len(log) /\ disk'[p] = disk[p]
  BY <1>1, <1>2, <1>3, Settles
<1>5. \A p \in Path : disk'[p] # None => disk'[p].at \in 0..Len(log')
  BY <1>1, <1>3, <1>4
<1>6. ASSUME ~drift', NEW p \in Path
      PROVE  Sound(p)'
  <2>1. Sound(p)
    BY <1>1, <1>6 DEF IInv, StampsTrue, Vouched, Waiting
  <2>2. \A i \in 1..Len(log) : log'[i] = log[i]
    BY <1>1
  <2>3. disk'[p] = disk[p] \/ disk'[p] = None \/ ~ (disk'[p].at > 0)
    BY <1>4
  <2> QED
    BY <1>2, <1>3, <2>1, <2>2, <2>3, SoundStays
<1>7. drift' \in BOOLEAN
  BY <1>1, <1>2 DEF Running
<1> QED
  BY <1>1, <1>2, <1>4, <1>5, <1>6, <1>7, Quiet

----------------------------------------------------------------------------
\* post

LEMMA FateFacts ==
  ASSUME NEW p \in Path
  PROVE  /\ Fate(p) \in {"keep", "add", "drop", "none"}
         /\ Fate(p) = "add" => OnDisk(p)
         /\ Fate(p) = "keep" => p \in Tracked
         /\ Fate(p) = "drop" => p \in Named("delete") \/ ~OnDisk(p)
  BY DEF Fate

LEMMA Scans ==
  ASSUME IInv, PostScan
  PROVE  IInv'
<1> DEFINE fate == [p \in Path |-> Fate(p)]
           tree == TreeOf(fate)
           add  == {p \in Path : fate[p] = "add"}
           at   == IF tree = Base THEN 0 ELSE Pending
           job  == [cmd |-> "post", at |-> "feed", base |-> Cur, tree |-> tree,
                    add |-> add, new |-> 0, replay |-> NeedsRebase]
           anew == {p \in Drifted : fate[p] = "keep"}
<1>1. /\ run = Idle /\ Len(log) < MaxRows
      /\ run' = IF tree = Base THEN Idle ELSE job
      /\ log' = log /\ tip' = tip /\ commits' = commits /\ stored' = stored /\ drift' = drift
  BY DEF PostScan
<1>2. /\ Logged' /\ Committed' /\ Base' = Base /\ Cur' = Cur /\ Filed /\ Logged /\ Committed
      /\ Base \in Tree /\ Cur \in 1..Len(commits) /\ Len(log) \in Nat
  BY <1>1, Still, QuietNow, BaseFacts, CurFacts DEF IInv
<1>3. \A p \in Path : disk[p] # None =>
        disk[p] \in Files /\ disk[p].b \in Blob /\ disk[p].at \in 0..Len(log)
  BY <1>1, QuietNow
<1>4. \A p \in Path : /\ fate[p] = "add"  => OnDisk(p) /\ tree[p] = disk[p].b
                      /\ fate[p] = "keep" => tree[p] = Base[p]
                      /\ fate[p] \notin {"add", "keep"} => tree[p] = None
  BY FateFacts DEF TreeOf
<1>5. tree \in Tree
  <2>1. tree = [p \in Path |-> tree[p]]
    BY DEF TreeOf
  <2>2. \A p \in Path : tree[p] \in Blob \cup {None}
    BY <1>2, <1>3, <1>4 DEF OnDisk, Tree
  <2> HIDE DEF tree
  <2> QED
    BY <2>1, <2>2 DEF Tree
<1>6. \A p \in Path : disk'[p] \in {None, disk[p]} \/ (p \in anew /\ disk'[p] = File(disk[p].b, at))
  <2>1. disk' = [p \in Path |->
          CASE fate[p] = "drop" -> None
            [] p \in Drifted /\ ~(Named("put") \cup Named("delete") # {}) /\ fate[p] = "keep" ->
                 File(disk[p].b, at)
            [] OTHER -> disk[p]]
    BY DEF PostScan
  <2> HIDE DEF fate, tree, at
  <2> QED
    BY <2>1
<1>7. \A p \in Path : fate[p] = "add" => disk'[p] = disk[p]
  <2>1. disk' = [p \in Path |->
          CASE fate[p] = "drop" -> None
            [] p \in Drifted /\ ~(Named("put") \cup Named("delete") # {}) /\ fate[p] = "keep" ->
                 File(disk[p].b, at)
            [] OTHER -> disk[p]]
    BY DEF PostScan
  <2> HIDE DEF fate, tree, at
  <2> QED
    BY <2>1
<1>8. \A p \in anew : /\ p \in Path /\ disk[p] # None /\ disk[p].b = Base[p]
                      /\ fate[p] = "keep"
  BY DEF Drifted, Dirty, Tracked, OnDisk
<1>9. at \in -1..0 /\ at \in -1..MaxRows /\ (tree = Base => at = 0)
  BY BoundAssumption DEF Pending
<1>10. DOMAIN disk' = Path /\ disk' = [p \in Path |-> disk'[p]]
  BY DEF PostScan
<1> HIDE DEF fate, tree, at, anew
<1>11. \A p \in anew : /\ File(disk[p].b, at) \in Files /\ File(disk[p].b, at).at = at
                       /\ File(disk[p].b, at).b = Base[p]
  BY <1>3, <1>8, <1>9, Nothing DEF File
<1>12. disk' \in [Path -> Files \cup {None}]
  <2>1. \A p \in Path : disk'[p] \in Files \cup {None}
    BY <1>3, <1>6, <1>11
  <2> QED
    BY <1>10, <2>1
<1>13. \A p \in Path : disk'[p] # None =>
         \/ disk[p] # None /\ disk'[p] = disk[p] /\ disk'[p].at \in 0..Len(log)
         \/ disk'[p].at = at /\ disk'[p].b = Base[p]
  BY <1>3, <1>6, <1>11
<1>14. ASSUME ~drift, NEW p \in Path
       PROVE  Sound(p)'
  <2>1. Sound(p)
    BY <1>1, <1>14, QuietNow
  <2>2. \A i \in 1..Len(log) : log'[i] = log[i]
    BY <1>1
  <2>3. disk'[p] = disk[p] \/ disk'[p] = None \/ ~ (disk'[p].at > 0)
    BY <1>9, <1>13
  <2> QED
    BY <1>2, <2>1, <2>2, <2>3, SoundStays
<1>15. CASE tree = Base
  <2>1. run' = Idle /\ drift' \in BOOLEAN
    BY <1>1, <1>15, QuietNow
  <2>2. \A p \in Path : disk'[p] # None => disk'[p].at \in 0..Len(log')
    BY <1>1, <1>2, <1>9, <1>13, <1>15
  <2>3. ~drift' => \A p \in Path : Sound(p)'
    BY <1>1, <1>14
  <2> QED
    BY <1>2, <1>12, <2>1, <2>2, <2>3, Quiet
<1>16. CASE tree # Base
  <2>1. run' = job
    BY <1>1, <1>16
  <2>2. /\ run'.cmd = "post" /\ run'.at = "feed" /\ run'.base = Cur /\ run'.tree = tree
        /\ run'.add = add /\ run'.replay = NeedsRebase
    BY <2>1
  <2>3. Running'
    <3>1. NeedsRebase \in BOOLEAN /\ 0 \in 0..Len(commits)
      BY <1>2 DEF NeedsRebase
    <3>2. run' \in PostRun'
      BY <1>1, <1>2, <1>5, <2>1, <3>1 DEF PostRun
    <3> QED
      BY <1>1, <3>2, QuietNow DEF Running
  <2>4. Filed'
    <3>1. \A p \in Path : disk'[p] # None => disk'[p].at \in -1..Len(log)
      BY <1>2, <1>9, <1>13
    <3> QED
      BY <1>1, <1>12, <2>2, <3>1 DEF Filed, OnDisk
  <2>5. StampsTrue'
    BY <1>1, <1>14, <2>2 DEF StampsTrue, Vouched
  <2>6. GetShape'
    BY <2>2 DEF GetShape
  <2>7. ScanShape'
    <3> DEFINE old == commits[Cur].tree
    <3>1. old = Base /\ commits'[run'.base].tree = old
      BY <1>1, <2>2 DEF Base
    <3>2. \A p \in add : disk'[p] # None /\ disk'[p].at # -1 /\ tree[p] = disk'[p].b
      BY <1>2, <1>3, <1>4, <1>7 DEF OnDisk
    <3>3. \A p \in Path \ add : tree[p] \in {None, old[p]}
      BY <1>4, <3>1
    <3>4. \A p \in Path : disk'[p] # None /\ disk'[p].at = -1 => disk'[p].b = old[p]
      BY <1>2, <1>13, <3>1
    <3> HIDE DEF old, add
    <3> QED
      BY <1>1, <1>2, <2>2, <3>1, <3>2, <3>3, <3>4 DEF ScanShape, OnDisk
  <2>8. PostShape'
    <3>1. ~run'.replay => tip \in AncestorsIn(commits, Cur)
      BY <2>2 DEF NeedsRebase, Ancestors
    <3>2. AncestorsIn(commits', run'.base) = AncestorsIn(commits, Cur)
      BY <1>1, <2>2
    <3> QED
      BY <1>1, <2>2, <2>7, <3>1, <3>2 DEF PostShape
  <2> QED
    BY <1>2, <2>3, <2>4, <2>5, <2>6, <2>8 DEF IInv
<1> QED
  BY <1>15, <1>16

\* What a post's step knows of the state
LEMMA PostKnows ==
  ASSUME IInv, run.cmd = "post"
  PROVE  /\ run \in PostRun /\ Logged /\ Committed /\ Filed /\ PostShape
         /\ Len(log) \in Nat /\ Len(commits) \in Nat /\ tip \in 1..Len(commits)
         /\ drift \in BOOLEAN
         /\ ~drift => \A p \in Path : Sound(p)
<1>1. run \in PostRun /\ Logged /\ Committed /\ Filed /\ PostShape /\ drift \in BOOLEAN
  BY RunKinds DEF IInv, Running
<1>2. Len(log) \in Nat
  BY <1>1, BoundAssumption DEF Logged
<1>3. Len(commits) \in Nat /\ tip \in 1..Len(commits)
  BY <1>1, CurFacts DEF Committed
<1>4. ~drift => \A p \in Path : Sound(p)
  BY DEF IInv, StampsTrue, Vouched, Waiting
<1> QED
  BY <1>1, <1>2, <1>3, <1>4

\* A step of a post that adds a commit or none, and touches no file or row
LEMMA PostGoesOn ==
  ASSUME IInv, run.cmd = "post", run.at # "stamp",
         log' = log, disk' = disk, drift' = drift,
         Committed', Len(commits) <= Len(commits'), Len(commits') \in Nat,
         \A i \in 1..Len(commits) : commits'[i] = commits[i],
         NEW at \in {"replay", "ref", "row"}, NEW new \in 1..Len(commits'),
         run' = [run EXCEPT !.at = at, !.new = new]
  PROVE  /\ Logged' /\ Filed' /\ Running' /\ StampsTrue' /\ GetShape' /\ ScanShape'
         /\ run'.cmd = "post" /\ run'.at = at /\ run'.new = new /\ run'.base = run.base
         /\ run'.tree = run.tree /\ run'.replay = run.replay /\ run'.add = run.add
<1>1. /\ run \in PostRun /\ Logged /\ Committed /\ Filed /\ PostShape
      /\ Len(log) \in Nat /\ Len(commits) \in Nat
  BY PostKnows
<1>2. /\ run' \in PostRun'
      /\ run'.cmd = "post" /\ run'.at = at /\ run'.new = new /\ run'.base = run.base
      /\ run'.tree = run.tree /\ run'.replay = run.replay /\ run'.add = run.add
      /\ run.base \in 1..Len(commits)
  <2>1. /\ run.cmd = "post" /\ run.base \in 1..Len(commits) /\ run.tree \in Tree
        /\ run.add \in SUBSET Path /\ run.replay \in BOOLEAN
    BY <1>1 DEF PostRun
  <2>2. run' = [cmd |-> run.cmd, at |-> at, base |-> run.base, tree |-> run.tree,
                add |-> run.add, new |-> new, replay |-> run.replay]
    BY <1>1 DEF PostRun
  <2>3. run.base \in 1..Len(commits') /\ new \in 0..Len(commits')
    BY <1>1, <2>1
  <2> QED
    BY <2>1, <2>2, <2>3 DEF PostRun
<1>3. Logged'
  BY <1>1 DEF Logged
<1>4. Filed' /\ Running'
  BY <1>1, <1>2, PostKnows DEF Filed, Running, OnDisk
<1>5. Cur' = Cur /\ Cur \in 1..Len(commits)
  BY <1>1, CurFacts DEF Cur, Rows
<1>6. Base' = Base
  BY <1>5 DEF Base
<1>7. StampsTrue'
  <2> SUFFICES ASSUME ~drift, NEW p \in Path
               PROVE  Sound(p)'
    BY <1>2 DEF StampsTrue, Vouched
  <2>1. Sound(p) /\ \A i \in 1..Len(log) : log'[i] = log[i]
    BY PostKnows
  <2> QED
    BY <1>1, <1>6, <2>1, SoundStays
<1>8. GetShape'
  BY <1>2 DEF GetShape
<1>9. ScanShape'
  <2>1. ScanShape
    BY <1>1 DEF PostShape
  <2>2. commits'[run'.base].tree = commits[run.base].tree
    BY <1>2
  <2> QED
    BY <1>2, <1>5, <2>1, <2>2 DEF ScanShape, OnDisk
<1> QED
  BY <1>2, <1>3, <1>4, <1>7, <1>8, <1>9

LEMMA Feeds ==
  ASSUME ~EditDuring, IInv, PostFeed
  PROVE  IInv'
<1> DEFINE commit == [up |-> run.base, tree |-> run.tree]
           at     == IF run.replay THEN "replay" ELSE "ref"
           new    == Len(commits) + 1
<1>1. /\ run.cmd = "post" /\ run.at = "feed" /\ commits' = Append(commits, commit)
      /\ stored' = stored \cup {disk[p].b : p \in {q \in run.add : OnDisk(q)}}
      /\ run' = [run EXCEPT !.at = at, !.new = new]
      /\ log' = log /\ tip' = tip /\ disk' = disk /\ drift' = drift
  BY DEF PostFeed
<1>2. /\ run \in PostRun /\ Logged /\ Committed /\ Filed /\ PostShape /\ ScanShape
      /\ Len(commits) \in Nat /\ tip \in 1..Len(commits)
  BY <1>1, PostKnows DEF PostShape
<1>3. commit \in [up : 0..Len(commits), tree : Tree] /\ commit.up = run.base
      /\ commit.tree = run.tree /\ run.base \in 1..Len(commits) /\ run.add \in SUBSET Path
  BY <1>2 DEF PostRun
<1>4. \A p \in Path : OnDisk(p) => disk[p].b \in Blob
  BY <1>2, Nothing DEF Filed, OnDisk
<1>5. stored \subseteq stored' /\ stored' \in SUBSET Blob
  BY <1>1, <1>2, <1>3, <1>4 DEF Committed
<1>6. ASSUME NEW p \in Path, run.tree[p] # None
      PROVE  run.tree[p] \in stored'
  <2>1. CASE p \in run.add
    BY <1>1, <1>2, <2>1 DEF ScanShape
  <2>2. CASE p \notin run.add
    <3>1. run.tree[p] = commits[run.base].tree[p]
      BY <1>2, <1>6, <2>2 DEF ScanShape
    <3> QED
      BY <1>2, <1>3, <1>5, <1>6, <3>1 DEF Committed
  <2> QED
    BY <2>1, <2>2
<1> HIDE DEF commit
<1>7. Len(commits') = Len(commits) + 1
  BY <1>1, <1>2, <1>3, AppendProperties DEF Committed, Histories, Tree
<1>8. tip' \in 1..Len(commits')
  BY <1>1, <1>2, <1>7
<1>9. /\ Committed' /\ \A i \in 1..Len(commits) : commits'[i] = commits[i]
      /\ commits'[new] = commit
      /\ \A c \in 0..Len(commits) : AncestorsIn(commits', c) = AncestorsIn(commits, c)
  BY <1>1, <1>2, <1>3, <1>5, <1>6, <1>8, CommitAppended
<1>10. /\ Len(commits) <= Len(commits') /\ Len(commits') \in Nat /\ new \in 1..Len(commits')
       /\ run.base \in 0..Len(commits) /\ new # 0
  BY <1>2, <1>3, <1>7
<1>11. at \in {"replay", "ref", "row"} /\ (at = "replay" <=> run.replay) /\ at # "row"
  OBVIOUS
<1> HIDE DEF at, new
<1>12. /\ Logged' /\ Filed' /\ Running' /\ StampsTrue' /\ GetShape' /\ ScanShape'
       /\ run'.cmd = "post" /\ run'.at = at /\ run'.new = new /\ run'.base = run.base
       /\ run'.tree = run.tree /\ run'.replay = run.replay
  BY <1>1, <1>9, <1>10, <1>11, PostGoesOn
<1>13. ~run.replay => tip \in AncestorsIn(commits', run.base)
  BY <1>1, <1>2, <1>9, <1>10 DEF PostShape
<1>14. PostShape'
  BY <1>1, <1>9, <1>10, <1>11, <1>12, <1>13 DEF PostShape, commit
<1> QED
  BY <1>9, <1>12, <1>14 DEF IInv

LEMMA MergedPathType ==
  ASSUME NEW base \in Blob \cup {None}, NEW ours \in Blob \cup {None},
         NEW theirs \in Blob \cup {None}
  PROVE  MergedPath(base, ours, theirs) \in Blob \cup {None}
<1>1. CASE theirs \in Blob /\ ours \in Blob
  <2>1. Merged(IF base = None THEN {} ELSE base, ours, theirs) \in Blob
    BY <1>1 DEF Merged, Blob
  <2> QED
    BY <2>1 DEF MergedPath
<1>2. CASE theirs = None \/ ours = None
  BY <1>2 DEF MergedPath
<1> QED
  BY <1>1, <1>2

LEMMA Replays ==
  ASSUME IInv, PostReplay
  PROVE  IInv'
<1> DEFINE commit == [up |-> tip, tree |-> Replayed]
           more   == Len(commits) + 1
<1>1. /\ run.cmd = "post" /\ run.at = "replay"
      /\ log' = log /\ tip' = tip /\ disk' = disk /\ drift' = drift
  BY DEF PostReplay
<1>2. /\ run \in PostRun /\ Logged /\ Committed /\ Filed /\ PostShape /\ ScanShape
      /\ Len(commits) \in Nat /\ tip \in 1..Len(commits)
  BY <1>1, PostKnows DEF PostShape
<1>3. run.base \in 1..Len(commits) /\ run.tree \in Tree /\ run.replay
  BY <1>1, <1>2 DEF PostRun, PostShape
<1>4. CASE Seen(run.new)
  <2>1. /\ run' = [run EXCEPT !.at = "ref", !.new = tip]
        /\ commits' = commits /\ stored' = stored
    BY <1>4 DEF PostReplay
  <2>2. Committed' /\ Len(commits) <= Len(commits')
    BY <1>1, <1>2, <2>1 DEF Committed
  <2>3. /\ Logged' /\ Filed' /\ Running' /\ StampsTrue' /\ GetShape' /\ ScanShape'
        /\ run'.cmd = "post" /\ run'.at = "ref" /\ run'.new = tip /\ run'.replay = run.replay
    BY <1>1, <1>2, <2>1, <2>2, PostGoesOn
  <2>4. PostShape'
    BY <1>1, <1>2, <1>3, <2>3 DEF PostShape
  <2> QED
    BY <2>2, <2>3, <2>4 DEF IInv
<1>5. CASE ~Seen(run.new)
  <2>1. /\ commits' = Append(commits, commit)
        /\ stored' = stored \cup {Replayed[p] : p \in {q \in Path : Replayed[q] # None}}
        /\ run' = [run EXCEPT !.at = "ref", !.new = more]
    BY <1>5 DEF PostReplay
  <2>2. commits[run.base].tree \in Tree /\ commits[tip].tree \in Tree
    BY <1>2, <1>3, BaseFacts
  <2>3. Replayed \in Tree
    <3>1. \A p \in Path : MergedPath(commits[run.base].tree[p], commits[tip].tree[p],
                                     run.tree[p]) \in Blob \cup {None}
      BY <1>3, <2>2, MergedPathType DEF Tree
    <3> QED
      BY <3>1 DEF Replayed, Tree
  <2>4. commit \in [up : 0..Len(commits), tree : Tree] /\ commit.up = tip
        /\ commit.tree = Replayed
    BY <1>2, <2>3
  <2>5. /\ stored \subseteq stored' /\ stored' \in SUBSET Blob
        /\ \A p \in Path : Replayed[p] # None => Replayed[p] \in stored'
    BY <1>2, <2>1, <2>3 DEF Committed, Tree
  <2> HIDE DEF commit
  <2>6. Len(commits') = Len(commits) + 1
    BY <1>2, <2>1, <2>4, AppendProperties DEF Committed, Histories, Tree
  <2>7. tip' \in 1..Len(commits')
    BY <1>1, <1>2, <2>6
  <2>8. /\ Committed' /\ \A i \in 1..Len(commits) : commits'[i] = commits[i]
        /\ commits'[more] = commit
    BY <1>1, <1>2, <2>1, <2>4, <2>5, <2>7, CommitAppended
  <2>9. /\ Len(commits) <= Len(commits') /\ Len(commits') \in Nat /\ more \in 1..Len(commits')
        /\ more # 0
    BY <1>2, <2>6
  <2> HIDE DEF more
  <2>10. /\ Logged' /\ Filed' /\ Running' /\ StampsTrue' /\ GetShape' /\ ScanShape'
         /\ run'.cmd = "post" /\ run'.at = "ref" /\ run'.new = more
         /\ run'.replay = run.replay /\ run'.base = run.base /\ run'.tree = run.tree
    BY <1>1, <2>1, <2>8, <2>9, PostGoesOn
  <2>11. Replayed' = Replayed
    BY <1>1, <1>2, <1>3, <2>8, <2>10 DEF Replayed
  <2>12. PostShape'
    BY <1>1, <1>3, <2>8, <2>9, <2>10, <2>11 DEF PostShape, commit
  <2> QED
    BY <2>8, <2>10, <2>12 DEF IInv
<1> QED
  BY <1>4, <1>5

LEMMA Conflicts ==
  ASSUME IInv, PostConflict
  PROVE  IInv'
<1>1. /\ run.cmd = "post" /\ run' = Idle
      /\ log' = log /\ tip' = tip /\ commits' = commits /\ stored' = stored /\ drift' = drift
      /\ disk' = [p \in Path |-> IF OnDisk(p) /\ disk[p].at = Pending
                                 THEN File(disk[p].b, 0) ELSE disk[p]]
  BY DEF PostConflict
<1>2. /\ Logged' /\ Committed' /\ Base' = Base /\ Filed /\ Logged /\ Len(log) \in Nat
      /\ drift \in BOOLEAN /\ 0 \in 0..MaxRows
  BY <1>1, Still, PostKnows, BoundAssumption
<1>3. /\ disk' \in [Path -> Files \cup {None}]
      /\ \A p \in Path : disk'[p] # None =>
           \/ disk'[p].at = 0
           \/ disk[p].at \in 0..Len(log) /\ disk'[p] = disk[p]
  BY <1>1, <1>2, Settles
<1>4. \A p \in Path : disk'[p] # None => disk'[p].at \in 0..Len(log')
  BY <1>1, <1>2, <1>3
<1>5. ASSUME ~drift', NEW p \in Path
      PROVE  Sound(p)'
  <2>1. Sound(p) /\ \A i \in 1..Len(log) : log'[i] = log[i]
    BY <1>1, <1>5, PostKnows
  <2>2. disk'[p] = disk[p] \/ disk'[p] = None \/ ~ (disk'[p].at > 0)
    BY <1>3
  <2> QED
    BY <1>2, <2>1, <2>2, SoundStays
<1> QED
  BY <1>1, <1>2, <1>3, <1>4, <1>5, Quiet

LEMMA RefMoves ==
  ASSUME IInv, PostRef
  PROVE  IInv'
<1>1. /\ run.cmd = "post" /\ run.at = "ref" /\ tip' \in {run.new, tip}
      /\ run' = [run EXCEPT !.at = "row"] /\ log' = log /\ commits' = commits
      /\ stored' = stored /\ disk' = disk /\ drift' = drift
  BY DEF PostRef
<1>2. /\ run \in PostRun /\ Committed /\ PostShape /\ Len(commits) \in Nat
  BY <1>1, PostKnows
<1>3. run.new \in 1..Len(commits)
  BY <1>1, <1>2 DEF PostRun, PostShape
<1>4. run' = [run EXCEPT !.at = "row", !.new = run.new]
  BY <1>1, <1>2 DEF PostRun
<1>5. Committed' /\ Len(commits) <= Len(commits')
  BY <1>1, <1>2, <1>3 DEF Committed
<1>6. /\ Logged' /\ Filed' /\ Running' /\ StampsTrue' /\ GetShape' /\ ScanShape'
      /\ run'.cmd = "post" /\ run'.at = "row" /\ run'.new = run.new /\ run'.base = run.base
      /\ run'.tree = run.tree /\ run'.replay = run.replay
  BY <1>1, <1>2, <1>3, <1>4, <1>5, PostGoesOn
<1>7. PostShape'
  BY <1>1, <1>2, <1>3, <1>6 DEF PostShape
<1> QED
  BY <1>5, <1>6, <1>7 DEF IInv

LEMMA PostRows ==
  ASSUME IInv, PostRow
  PROVE  IInv'
<1> DEFINE row == Row("post", 0, run.new)
           n   == Len(log) + 1
<1>1. /\ run.cmd = "post" /\ run.at = "row" /\ log' = Append(log, row)
      /\ disk' = [p \in Path |-> IF OnDisk(p) /\ disk[p].at = Pending
                                 THEN File(disk[p].b, n) ELSE disk[p]]
      /\ drift' = (drift \/ run.replay) /\ run' = [run EXCEPT !.at = "stamp"]
      /\ tip' = tip /\ commits' = commits /\ stored' = stored
  BY DEF PostRow
<1>2. /\ run \in PostRun /\ Logged /\ Committed /\ Filed /\ PostShape /\ ScanShape
      /\ Len(log) \in Nat /\ drift \in BOOLEAN
  BY <1>1, PostKnows DEF PostShape
<1>3. run.new \in 1..Len(commits) /\ run.replay \in BOOLEAN /\ run.add \in SUBSET Path
  BY <1>1, <1>2 DEF PostRun, PostShape
<1>4. n \in 0..MaxRows /\ n \in Nat \ {0} /\ Len(log) < MaxRows
  BY <1>2, BoundAssumption DEF ScanShape
<1>5. /\ Logged' /\ Len(log') = n /\ \A i \in 1..Len(log) : log'[i] = log[i]
      /\ log'[n] = row /\ Cur' = run.new
  <2>1. row \in Entry /\ row.v = "post" /\ row.c = run.new /\ row.v \in {"get", "post"}
    BY <1>3 DEF Row, Entry
  <2>2. 1..Len(commits) \subseteq 1..Len(commits') /\ row.c \in 1..Len(commits')
    BY <1>1, <1>3, <2>1
  <2> HIDE DEF row
  <2> QED
    BY <1>1, <1>2, <1>4, <2>1, <2>2, RowAppended
<1>6. Committed' /\ Base' = commits[run.new].tree
  BY <1>1, <1>2, <1>5 DEF Committed, Base
<1>7. /\ disk' \in [Path -> Files \cup {None}]
      /\ \A p \in Path : disk'[p] # None =>
           /\ disk[p] # None /\ disk'[p].b = disk[p].b
           /\ \/ disk[p].at = -1 /\ disk'[p].at = n
              \/ disk[p].at \in 0..Len(log) /\ disk'[p] = disk[p]
  <2> HIDE DEF n
  <2> QED
    BY <1>1, <1>2, <1>4, Settles
<1>8. /\ run' \in PostRun' /\ run'.cmd = "post" /\ run'.at = "stamp" /\ run'.add = run.add
      /\ run'.new = run.new
  <2>1. run' = [cmd |-> run.cmd, at |-> "stamp", base |-> run.base, tree |-> run.tree,
                add |-> run.add, new |-> run.new, replay |-> run.replay]
    BY <1>1, <1>2 DEF PostRun
  <2> QED
    BY <1>1, <1>2, <2>1 DEF PostRun
<1>9. Filed' /\ Running' /\ GetShape'
  <2>1. \A p \in Path : disk'[p] # None => disk'[p].at \in 0..n
    BY <1>4, <1>7
  <2>2. \A p \in Path : disk'[p] # None => disk'[p].at \in -1..n /\ disk'[p].at # -1
    BY <1>4, <2>1
  <2>3. Filed'
    BY <1>5, <1>7, <2>2 DEF Filed, OnDisk
  <2> QED
    BY <1>1, <1>2, <1>3, <1>8, <2>3 DEF Running, GetShape
<1> DEFINE old == commits[run.base].tree
<1>10. ~drift' => ~drift /\ Base' = run.tree /\ Base = old
  <2>1. ~drift' => ~drift /\ ~run.replay
    BY <1>1
  <2>2. ~run.replay => commits[run.new].tree = run.tree
    BY <1>1, <1>2 DEF PostShape
  <2>3. Base = old
    BY <1>2 DEF ScanShape, Base
  <2> QED
    BY <1>6, <2>1, <2>2, <2>3
<1> HIDE DEF old, n, row
<1>11. ASSUME ~drift', NEW p \in run.add, disk'[p] # None
       PROVE  disk'[p].b = Base'[p]
  <2>1. p \in Path /\ run.tree[p] = disk[p].b
    BY <1>2, <1>3, <1>11 DEF ScanShape
  <2> QED
    BY <1>7, <1>10, <1>11, <2>1
<1>12. ASSUME ~drift', NEW p \in Path \ run.add, disk'[p] # None, Base'[p] # None,
              disk'[p].at > 0, log'[disk'[p].at].v \in {"get", "post"}
       PROVE  disk'[p].b = Base'[p]
  <2>1. Base'[p] = Base[p] /\ old[p] = Base[p]
    BY <1>2, <1>10, <1>12 DEF ScanShape, old
  <2>2. CASE disk[p].at = -1
    BY <1>2, <1>7, <1>12, <2>1, <2>2 DEF ScanShape, OnDisk, old
  <2>3. CASE disk[p].at \in 0..Len(log) /\ disk'[p] = disk[p]
    <3>1. disk[p].at \in 1..Len(log)
      BY <1>2, <1>12, <2>3
    <3>2. Sound(p)
      BY <1>1, <1>10, <1>12, PostKnows
    <3> QED
      BY <1>5, <1>12, <2>1, <2>3, <3>1, <3>2 DEF Sound, Tracked, OnDisk, Clean, Known
  <2> QED
    BY <1>7, <1>12, <2>2, <2>3
<1>13. StampsTrue'
  <2> SUFFICES ASSUME ~drift', NEW p \in Path
               PROVE  Sound(p)'
    BY <1>8 DEF StampsTrue, Vouched
  <2> QED
    BY <1>11, <1>12 DEF Sound, Tracked, OnDisk, Clean, Known
<1>14. PostShape'
  BY <1>3, <1>8, <1>11 DEF PostShape, OnDisk
<1> QED
  BY <1>5, <1>6, <1>9, <1>13, <1>14 DEF IInv

LEMMA PostUnlogs ==
  ASSUME IInv, PostUnlogged
  PROVE  IInv'
<1>1. /\ run.cmd = "post" /\ run.at = "row" /\ run' = Idle
      /\ disk' = [p \in Path |-> IF OnDisk(p) /\ (disk[p].at = Pending \/ p \in run.add)
                                 THEN File(disk[p].b, 0) ELSE disk[p]]
      /\ log' = log /\ tip' = tip /\ commits' = commits /\ stored' = stored /\ drift' = drift
  BY DEF PostUnlogged
<1>2. /\ Logged' /\ Committed' /\ Base' = Base /\ Filed /\ Logged /\ Len(log) \in Nat
      /\ drift \in BOOLEAN
  BY <1>1, Still, PostKnows
<1>3. \A p \in Path : disk[p] # None =>
        disk[p] \in Files /\ disk[p].b \in Blob /\ disk[p].at \in -1..Len(log)
  BY <1>2, Nothing DEF Filed, OnDisk
<1>4. \A p \in Path : disk[p] # None =>
        /\ File(disk[p].b, 0) \in Files /\ File(disk[p].b, 0).at = 0
  BY <1>3, EmptyStamp
<1>5. ASSUME NEW p \in Path, disk[p] # None, disk[p].at # -1
      PROVE  disk[p].at \in 0..Len(log)
  BY <1>2, <1>3, <1>5
<1>6. ASSUME NEW p \in Path
      PROVE  /\ disk'[p] \in Files \cup {None}
             /\ disk'[p] # None => disk'[p].at \in 0..Len(log)
             /\ disk'[p] = disk[p] \/ disk'[p].at = 0
  <2>1. disk[p] \in Files \cup {None} /\ 0 \in 0..Len(log)
    BY <1>2 DEF Filed
  <2>2. CASE OnDisk(p) /\ (disk[p].at = Pending \/ p \in run.add)
    <3>1. disk'[p] = File(disk[p].b, 0)
      BY <1>1, <2>2
    <3> QED
      BY <1>4, <2>1, <2>2, <3>1 DEF OnDisk
  <2>3. CASE ~(OnDisk(p) /\ (disk[p].at = Pending \/ p \in run.add))
    <3>1. disk'[p] = disk[p]
      BY <1>1, <2>3
    <3> QED
      BY <1>5, <2>1, <2>3, <3>1 DEF OnDisk, Pending
  <2> QED
    BY <2>2, <2>3
<1>7. disk' \in [Path -> Files \cup {None}]
  BY <1>1, <1>6
<1>8. ASSUME ~drift', NEW p \in Path
      PROVE  Sound(p)'
  <2>1. Sound(p) /\ \A i \in 1..Len(log) : log'[i] = log[i]
    BY <1>1, <1>8, PostKnows
  <2>2. disk'[p] = disk[p] \/ disk'[p] = None \/ ~ (disk'[p].at > 0)
    BY <1>6
  <2> QED
    BY <1>2, <2>1, <2>2, SoundStays
<1> QED
  BY <1>1, <1>2, <1>6, <1>7, <1>8, Quiet

LEMMA PostStamps ==
  ASSUME IInv, PostStamp
  PROVE  IInv'
<1>1. /\ run.cmd = "post" /\ run.at = "stamp" /\ run' = Idle
      /\ disk' = [p \in Path |-> IF p \in run.add /\ OnDisk(p)
                                 THEN File(disk[p].b, Len(log)) ELSE disk[p]]
      /\ log' = log /\ tip' = tip /\ commits' = commits /\ stored' = stored /\ drift' = drift
  BY DEF PostStamp
<1>2. /\ Logged' /\ Committed' /\ Base' = Base /\ Filed /\ Logged /\ Len(log) \in Nat
      /\ drift \in BOOLEAN /\ PostShape
  BY <1>1, Still, PostKnows
<1>3. \A p \in Path : disk[p] # None =>
        disk[p] \in Files /\ disk[p].b \in Blob /\ disk[p].at \in 0..Len(log)
  <2>1. \A p \in Path : disk[p] # None => disk[p] \in Files /\ disk[p].at \in -1..Len(log)
                                          /\ disk[p].at # -1
    BY <1>1, <1>2 DEF Filed, OnDisk
  <2> QED
    BY <1>2, <2>1, Nothing
<1>4. \A p \in Path : disk[p] # None =>
        /\ File(disk[p].b, Len(log)) \in Files /\ File(disk[p].b, Len(log)) # None
        /\ File(disk[p].b, Len(log)).b = disk[p].b /\ File(disk[p].b, Len(log)).at = Len(log)
  <2>1. Len(log) \in -1..MaxRows
    BY <1>2, BoundAssumption DEF Logged
  <2> QED
    BY <1>3, <2>1, Nothing DEF File
<1>5. disk' \in [Path -> Files \cup {None}]
  BY <1>1, <1>2, <1>4 DEF Filed, OnDisk
<1>6. \A p \in Path : disk'[p] # None => disk'[p].at \in 0..Len(log')
  BY <1>1, <1>2, <1>3, <1>4 DEF OnDisk
<1>7. ASSUME ~drift', NEW p \in Path
      PROVE  Sound(p)'
  <2>1. CASE p \in run.add /\ OnDisk(p)
    <3>1. disk'[p].b = disk[p].b /\ disk[p].b = Base[p]
      BY <1>1, <1>2, <1>4, <1>7, <2>1 DEF PostShape, OnDisk
    <3> QED
      BY <1>2, <3>1 DEF Sound
  <2>2. CASE ~(p \in run.add /\ OnDisk(p))
    <3>1. Sound(p) /\ \A i \in 1..Len(log) : log'[i] = log[i]
      BY <1>1, <1>7, PostKnows
    <3>2. disk'[p] = disk[p]
      BY <1>1, <2>2
    <3> QED
      BY <1>2, <3>1, <3>2, SoundStays
  <2> QED
    BY <2>1, <2>2
<1> QED
  BY <1>1, <1>2, <1>5, <1>6, <1>7, Quiet

----------------------------------------------------------------------------
\* The theorems

LEMMA Moves ==
  ASSUME ~EditDuring, IInv, [Next]_vars
  PROVE  IInv'
<1>1. CASE UNCHANGED vars
  <2>1. /\ log' = log /\ tip' = tip /\ commits' = commits /\ stored' = stored
        /\ disk' = disk /\ run' = run /\ drift' = drift
    BY <1>1 DEF vars
  <2>2. Cur' = Cur /\ Base' = Base /\ Logged' /\ Committed' /\ Filed' /\ Running'
    BY <2>1, Still DEF IInv, Filed, OnDisk, Running, GetRun, PutRun, PostRun
  <2>3. StampsTrue'
    BY <2>1, <2>2 DEF IInv, StampsTrue, Vouched, Waiting, Sound, Tracked, OnDisk, Clean, Known
  <2>4. GetShape'
    BY <2>1, <2>2 DEF IInv, GetShape, OnDisk, Known
  <2>5. PostShape'
    BY <2>1, <2>2 DEF IInv, PostShape, ScanShape, OnDisk, Replayed
  <2> QED
    BY <2>2, <2>3, <2>4, <2>5 DEF IInv
<1>2. ASSUME NEW c \in 1..Len(commits), NEW force \in BOOLEAN, Get(c, force)
      PROVE  IInv'
  BY <1>2, GetStarts
<1>3. ASSUME NEW p \in Path, Put({p}, FALSE) \/ DeleteFile(p)
      PROVE  IInv'
  <2>1. CASE Put({p}, FALSE)
    BY <2>1, PutStarts
  <2>2. CASE DeleteFile(p)
    BY <2>2, Deletes DEF DeleteFile
  <2> QED
    BY <1>3, <2>1, <2>2
<1>4. CASE Tracked # {} /\ Put(Tracked, TRUE)
  BY <1>4, PutStarts DEF Tracked
<1>5. ASSUME NEW S \in ({Gone} \cup {{p} : p \in Gone}) \ {{}}, DeleteGone(S)
      PROVE  IInv'
  <2>1. S \in SUBSET Path /\ S # {}
    BY DEF Gone, Tracked
  <2> QED
    BY <1>5, <2>1, Deletes DEF DeleteGone
<1>6. CASE PostScan
  BY <1>6, Scans
<1>7. CASE Steps
  BY <1>7, GetTips, GetOpens, GetWrites, GetTruncates, GetMerges, GetUnlinks, Puts, PutStamps,
     DeleteRows, Feeds, Replays, Conflicts, RefMoves, PostRows, PostUnlogs, PostStamps DEF Steps
<1>8. ASSUME NEW p \in Path, (\E b \in Mine : Edit(p, b)) \/ Remove(p)
      PROVE  IInv'
  BY <1>8, Edits
<1>9. ASSUME NEW p \in Path, NEW b \in Theirs \cup {None}, Other(p, b)
      PROVE  IInv'
  BY <1>9, Others
<1>10. CASE Crash
  BY <1>10, Crashes
<1> QED
  BY <1>1, <1>2, <1>3, <1>4, <1>5, <1>6, <1>7, <1>8, <1>9, <1>10 DEF Next

\* sniff/SNIFF.exe.c: what holds after every step of every command, if nobody
\* edits a file while one runs.
THEOREM Invariance ==
  ASSUME ~EditDuring
  PROVE  Spec => []IInv
<1>1. Init => IInv
  BY Begins
<1>2. IInv /\ [Next]_vars => IInv'
  BY Moves
<1> QED
  BY <1>1, <1>2, PTL DEF Spec

\* sniff/AT.c: the log, the files, the commits and the tip keep to their types.
THEOREM TypeCorrect ==
  ASSUME ~EditDuring
  PROVE  Spec => []TypeOK
<1>1. IInv => TypeOK
  <2> SUFFICES ASSUME IInv
               PROVE  TypeOK
    OBVIOUS
  <2>1. tip \in 1..Len(commits) /\ stored \subseteq Blob
    BY DEF IInv, Committed
  <2>2. \A i \in 1..Len(commits) :
          /\ commits[i].up \in 0..i-1
          /\ \A p \in Path : commits[i].tree[p] # None => commits[i].tree[p] \in Blob
    BY BaseFacts DEF IInv, Tree
  <2>3. \A p \in Path : OnDisk(p) => disk[p].b \in Blob /\ disk[p].at \in Pending..Len(log)
    BY Nothing DEF IInv, Filed, OnDisk, Pending
  <2>4. \A p \in Path : OnDisk(p) /\ disk[p].at = Pending => run.cmd = "post"
    BY DEF IInv, Filed, Pending
  <2>5. \A i \in 1..Len(log) :
          \/ log[i].v \in {"get", "post"} /\ log[i].c \in 1..Len(commits)
          \/ log[i].v \in {"put", "delete"} /\ log[i].p \in Path
    <3>1. \A i \in 1..Len(log) : log[i] \in Entry
      BY ElementOfSeq DEF IInv, Logged
    <3> QED
      BY <3>1 DEF IInv, Logged, Entry
  <2> QED
    BY <2>1, <2>2, <2>3, <2>4, <2>5 DEF TypeOK
<1> QED
  BY <1>1, Invariance, PTL

\* sniff/AT.c, SNIFFAtKnown: between commands, a tracked file with the stamp of
\* a get or a post row has the bytes of the tree the log is at, until a death
\* in a get or a replay, and again after a forced get.
THEOREM CleanAlwaysClean ==
  ASSUME ~EditDuring
  PROVE  Spec => []CleanMeansClean
<1>1. ASSUME IInv, run = Idle, ~drift
      PROVE  \A p \in Path : Sound(p)
  BY <1>1, QuietNow
<1>2. IInv => CleanMeansClean
  BY <1>1 DEF CleanMeansClean, Sound, Tracked
<1> QED
  BY <1>2, Invariance, PTL

\* sniff/POST.c, the feed: every file of every commit behind the tip is in the
\* keeper, wherever a post dies.
THEOREM AlwaysClosed ==
  ASSUME ~EditDuring
  PROVE  Spec => []Closed
<1>1. IInv => Closed
  <2> SUFFICES ASSUME IInv
               PROVE  Closed
    OBVIOUS
  <2>1. Committed /\ Len(commits) \in Nat
    BY CurFacts DEF IInv
  <2>2. commits \in Histories /\ tip \in 0..Len(commits)
    BY <2>1 DEF Committed
  <2>3. Ancestors(tip) \subseteq 1..Len(commits)
    BY <2>2, AncestorsFacts DEF Ancestors
  <2> QED
    BY <2>1, <2>3 DEF Closed, Committed
<1> QED
  BY <1>1, Invariance, PTL

LEMMA PostRefLands ==
  ASSUME IInv, PostRef, NEW p \in Staged, tip' # tip
  PROVE  Landed(p, commits[tip'].tree)
<1>1. /\ run.cmd = "post" /\ run.at = "ref" /\ tip' = run.new /\ p \in run.add
  BY DEF PostRef, Staged
<1>2. run \in PostRun /\ PostShape /\ ScanShape /\ Committed /\ Filed /\ Logged
  BY <1>1, PostKnows DEF PostShape
<1>3. p \in Path /\ run.base \in 1..Len(commits) /\ tip \in 1..Len(commits)
      /\ run.replay \in BOOLEAN
  BY <1>1, <1>2 DEF PostRun, Committed
<1> DEFINE base == commits[run.base].tree[p]
           ours == commits[tip].tree[p]
           mine == disk[p].b
<1>4. mine \in Blob /\ mine = run.tree[p] /\ mine # None
  BY <1>1, <1>2, <1>3, Nothing DEF ScanShape, Filed, OnDisk
<1>5. base \in Blob \cup {None} /\ ours \in Blob \cup {None}
  BY <1>2, <1>3, BaseFacts DEF Tree
<1>6. CASE ~run.replay
  <2>1. commits[tip'].tree[p] = mine
    BY <1>1, <1>2, <1>4, <1>6 DEF PostShape
  <2> QED
    BY <1>4, <2>1 DEF Landed
<1>7. CASE run.replay
  <2>1. commits[tip'].tree = Replayed
    BY <1>1, <1>2, <1>7 DEF PostShape
  <2>2. commits[tip'].tree[p] = MergedPath(base, ours, mine)
    BY <1>3, <1>4, <2>1 DEF Replayed
  <2> DEFINE old == IF base = None THEN {} ELSE base
  <2>3. base = mine \/ (/\ MergedPath(base, ours, mine) # None
                        /\ mine \ old \subseteq MergedPath(base, ours, mine))
    <3>1. CASE mine = base
      BY <3>1
    <3>2. CASE mine # base /\ (ours \in {base, None} \/ mine = ours)
      BY <1>4, <3>2 DEF MergedPath
    <3>3. CASE mine # base /\ ours \notin {base, None} /\ mine # ours
      <4>1. MergedPath(base, ours, mine) = Merged(old, ours, mine)
        BY <1>4, <3>3 DEF MergedPath
      <4>2. ours \in Blob /\ old \in Blob
        BY <1>5, <3>3 DEF Blob
      <4>3. Merged(old, ours, mine) \in Blob /\ mine \ old \subseteq Merged(old, ours, mine)
        BY <1>4, <4>2 DEF Merged, Blob
      <4> QED
        BY <4>1, <4>3, Nothing
    <3> QED
      BY <3>1, <3>2, <3>3
  <2> QED
    BY <2>2, <2>3 DEF Landed
<1> QED
  BY <1>3, <1>6, <1>7

\* sniff/POST.c and graf/REBASE.c: when a post moves the tip, each change that
\* its rows stage is in the tip's tree, replayed or not, whatever the other
\* worktrees posted meanwhile.
THEOREM StagedAlwaysLands ==
  ASSUME ~EditDuring
  PROVE  Spec => StagedLands
<1>1. ASSUME IInv, Next, run.cmd = "post", tip' # tip
      PROVE  PostRef
  <2>1. run # Idle
    BY <1>1 DEF Idle
  <2> QED
    BY <1>1, <2>1 DEF Next, Steps, Get, Put, DeleteFile, DeleteGone, PostScan, GetTip,
       GetOpen, GetWrite, GetTruncate, GetMerge, GetUnlink, PutOne, PutStamp, DeleteRow,
       PostFeed, PostReplay, PostConflict, PostRow, PostUnlogged, PostStamp, Edit, Remove, Other,
       Crash
<1>2. IInv /\ [Next]_vars => [run.cmd = "post" /\ tip' # tip =>
                                \A p \in Staged : Landed(p, commits[tip'].tree)]_vars
  BY <1>1, PostRefLands
<1> QED
  BY <1>2, Invariance, PTL DEF Spec, StagedLands

Counted == edits \in Nat /\ crashes \in Nat

LEMMA EditsCounted == Spec => []Counted
<1>1. Init => Counted
  BY DEF Init, Counted
<1>2. Counted /\ [Next]_vars => Counted'
  <2>1. Next => /\ edits' = edits \/ edits' = edits + 1
                /\ crashes' = crashes \/ crashes' = crashes + 1
    BY DEF Next, Steps, Get, Put, DeleteFile, DeleteGone, PostScan, GetTip, GetOpen, GetWrite,
       GetTruncate, GetMerge, GetUnlink, PutOne, PutStamp, DeleteRow, PostFeed, PostReplay,
       PostConflict, PostRef, PostRow, PostUnlogged, PostStamp, Edit, Remove, Other, Crash,
       Fault, user
  <2> QED
    BY <2>1 DEF vars, Counted
<1> QED
  BY <1>1, <1>2, PTL DEF Spec

\* A file whose bytes stay, and that no get holds open
LEMMA KeptFile ==
  ASSUME NEW p \in Path, disk'[p] # None, disk'[p].b = disk[p].b,
         run.cmd # "get" \/ p \notin run.open, run'.cmd # "get" \/ p \notin run'.open
  PROVE  Keeps(p)
<1>1. Text(p) = disk[p].b /\ Text(p)' = disk'[p].b
  BY DEF Text
<1> QED
  BY <1>1 DEF Keeps

\* What a get leaves when a file is done with
LEMMA GetCloses ==
  ASSUME run \in GetRun, NEW p, Wrote(run, p)
  PROVE  run'.cmd # "get" \/ run'.open = {}
<1> DEFINE r == [run EXCEPT !.write = @ \ {p}, !.merge = @ \ {p}, !.open = {}, !.text = {}]
<1>1. r.open = {}
  BY DEF GetRun
<1>2. run' = r \/ run' = Idle
  BY DEF Wrote, GetOn
<1>3. Idle.cmd # "get"
  BY DEF Idle
<1> HIDE DEF r
<1> QED
  BY <1>1, <1>2, <1>3

LEMMA GetKeeps ==
  ASSUME IInv, crashes \in Nat, NEW p \in Path, Unsaved(p), ~Torn(p),
         GetTip \/ GetOpen \/ GetWrite \/ GetTruncate \/ GetMerge \/ GetUnlink
  PROVE  Keeps(p)
<1>1. run.cmd = "get"
  BY DEF GetTip, GetOpen, GetWrite, GetTruncate, GetMerge, GetUnlink
<1>2. run \in GetRun /\ GetShape /\ Filed /\ Committed /\ ~run.force
  BY <1>1, GetKnows DEF Unsaved
<1>3. disk \in [Path -> Files \cup {None}] /\ disk[p] # None
  BY <1>2 DEF Filed, Unsaved, OnDisk
<1>4. p \notin run.open =>
        /\ Text(p) = disk[p].b
        /\ p \notin run.unlink /\ (p \in run.write => p \in run.noop)
  BY <1>1, <1>2 DEF GetShape, Unsaved, Text
<1>5. p \in run.open => Text(p) = run.text /\ p \in run.merge /\ p \notin run.write
  <2>1. ASSUME p \in run.open, p \in run.write
        PROVE  FALSE
    <3>1. run.text = commits[run.c].tree[p] /\ run.text # None /\ run.c \in 1..Len(commits)
      BY <1>1, <1>2, <2>1 DEF GetShape, GetRun
    <3>2. run.text \in stored
      BY <1>2, <3>1 DEF Committed
    <3> QED
      BY <1>1, <2>1, <3>2 DEF Unsaved, Text
  <2> QED
    BY <1>1, <1>2, <2>1 DEF GetShape, Text
<1>6. run.open \subseteq run.write \cup run.merge /\ run.open \subseteq {Turn(run)}
  BY <1>1, <1>2 DEF GetShape
<1>7. CASE GetTip
  <2> DEFINE r == [run EXCEPT !.tipped = TRUE]
  <2>1. /\ r.open = run.open /\ r.text = run.text /\ r.cmd = "get"
        /\ r.write = run.write /\ r.merge = run.merge
    BY <1>1, <1>2 DEF GetRun
  <2>2. disk' = disk /\ GetOn(r)
    BY <1>7 DEF GetTip
  <2> HIDE DEF r
  <2>3. CASE p \in run.open
    <3>1. run' = r
      BY <1>5, <2>1, <2>2, <2>3 DEF GetOn
    <3>2. Text(p)' = run.text
      BY <2>1, <2>3, <3>1 DEF Text
    <3> QED
      BY <1>3, <1>5, <2>2, <2>3, <3>2 DEF Keeps
  <2>4. CASE p \notin run.open
    <3>1. run'.cmd # "get" \/ p \notin run'.open
      BY <2>1, <2>2, <2>4 DEF GetOn, Idle
    <3> QED
      BY <1>3, <2>2, <2>4, <3>1, KeptFile
  <2> QED
    BY <2>3, <2>4
<1>8. CASE GetOpen
  <2> PICK q : q = Least(run.write)
    OBVIOUS
  <2>1. /\ run.open = {} /\ q \in run.write /\ ~(q \in run.noop /\ OnDisk(q))
        /\ \E f : disk' = [disk EXCEPT ![q] = f]
        /\ run' = [run EXCEPT !.open = {q}, !.text = commits[run.c].tree[q]]
    BY <1>2, <1>8, LeastFacts DEF GetOpen, GetRun
  <2>2. p # q
    BY <1>4, <2>1 DEF Unsaved
  <2>3. disk'[p] = disk[p]
    BY <1>3, <2>1, <2>2
  <2>4. run'.open = {q}
    BY <1>2, <2>1 DEF GetRun
  <2> QED
    BY <1>3, <2>1, <2>2, <2>3, <2>4, KeptFile
<1>9. CASE GetWrite
  <2> PICK q : q = Least(run.write)
    OBVIOUS
  <2>1. /\ q \in run.write /\ Wrote(run, q)
        /\ \/ run.open = {} /\ disk' = disk
           \/ run.open = {q} /\ \E f : disk' = [disk EXCEPT ![q] = f]
    BY <1>2, <1>9, LeastFacts DEF GetWrite, GetRun
  <2>2. p \notin run.open
    BY <1>5, <2>1
  <2>3. disk'[p] = disk[p]
    BY <1>3, <2>1, <2>2
  <2>4. run'.cmd # "get" \/ run'.open = {}
    BY <1>2, <2>1, GetCloses
  <2> QED
    BY <1>3, <2>2, <2>3, <2>4, KeptFile
<1>10. CASE GetTruncate
  <2> PICK q : q = Least(run.merge)
    OBVIOUS
  <2>1. /\ run.open = {} /\ q \in run.merge
        /\ OnDisk(q) \/ commits[run.c].tree[q] # None
        /\ run' = [run EXCEPT !.open = {q}, !.text = MergeText(q)]
    BY <1>2, <1>10, LeastFacts DEF GetTruncate, GetRun
  <2>2. PICK part \in SUBSET MergeText(q) : disk' = [disk EXCEPT ![q] = File(part, 0)]
    BY <1>10 DEF GetTruncate
  <2>3. run'.open = {q} /\ run'.text = MergeText(q) /\ run'.cmd = "get"
    BY <1>1, <1>2, <2>1 DEF GetRun
  <2>4. CASE q # p
    <3>1. disk'[p] = disk[p]
      BY <1>3, <2>2, <2>4
    <3> QED
      BY <1>3, <2>1, <2>3, <2>4, <3>1, KeptFile
  <2>5. CASE q = p
    <3>1. MergeText(p) \in Blob /\ run.base[p] \in Blob
          /\ disk[p].b \ run.base[p] \subseteq MergeText(p)
      BY <1>1, <2>1, <2>5, MergeTextType DEF Unsaved
    <3>2. disk'[p] # None
      BY <1>3, <2>2, <2>5, <3>1, EmptyStamp DEF Blob
    <3>3. Text(p)' = MergeText(p) /\ Text(p) = disk[p].b
      BY <1>4, <2>1, <2>3, <2>5 DEF Text
    <3>4. run.base[p] # None
      BY <3>1, Nothing
    <3> QED
      BY <1>1, <3>1, <3>2, <3>3, <3>4 DEF Keeps
  <2> QED
    BY <2>4, <2>5
<1>11. CASE GetMerge
  <2> PICK q : q = Least(run.merge)
    OBVIOUS
  <2>1. /\ q \in run.merge /\ Wrote(run, q) /\ run.write = {}
        /\ \/ run.open = {q} /\ disk' = [disk EXCEPT ![q] = File(run.text, 0)]
           \/ ~OnDisk(q) /\ run.open = {} /\ disk' = disk
           \/ crashes' = crashes + 1 /\ disk' = disk
    BY <1>2, <1>11, LeastFacts DEF GetMerge, GetRun, Fault
  <2>2. run'.cmd # "get" \/ run'.open = {}
    BY <1>2, <2>1, GetCloses
  <2>3. CASE p \in run.open
    <3>1. p = q
      BY <1>6, <2>1, <2>3 DEF Turn
    <3>2. disk' = [disk EXCEPT ![p] = File(run.text, 0)]
      <4>1. ~ (crashes' = crashes + 1)
        BY <1>1, <2>3 DEF Torn
      <4> QED
        BY <2>1, <2>3, <3>1, <4>1
    <3>3. disk'[p] = File(run.text, 0) /\ run.text \in Blob
      BY <1>2, <1>3, <3>2 DEF GetRun
    <3>4. disk'[p] # None /\ disk'[p].b = run.text
      BY <3>3, EmptyStamp
    <3>5. Text(p)' = run.text /\ Text(p) = run.text
      BY <1>5, <2>2, <2>3, <3>4 DEF Text
    <3> QED
      BY <3>4, <3>5 DEF Keeps
  <2>4. CASE p \notin run.open
    <3>1. disk'[p] = disk[p]
      BY <1>3, <2>1, <2>4
    <3> QED
      BY <1>3, <2>2, <2>4, <3>1, KeptFile
  <2> QED
    BY <2>3, <2>4
<1>12. CASE GetUnlink
  <2> PICK q : q = Least(run.unlink)
    OBVIOUS
  <2> DEFINE r == [run EXCEPT !.unlink = @ \ {q}]
  <2>1. /\ q \in run.unlink /\ disk' = [disk EXCEPT ![q] = None] /\ GetOn(r)
        /\ run.write \cup run.merge = {}
    BY <1>2, <1>12, LeastFacts DEF GetUnlink, GetRun
  <2>2. run.open = {} /\ r.open = {}
    BY <1>2, <1>6, <2>1 DEF GetRun
  <2> HIDE DEF r
  <2>3. disk'[p] = disk[p]
    BY <1>3, <1>4, <2>1, <2>2
  <2>4. run'.cmd # "get" \/ run'.open = {}
    BY <2>1, <2>2 DEF GetOn, Idle
  <2> QED
    BY <1>3, <2>2, <2>3, <2>4, KeptFile
<1> QED
  BY <1>7, <1>8, <1>9, <1>10, <1>11, <1>12

LEMMA PostKeeps ==
  ASSUME IInv, NEW p \in Path, OnDisk(p), ~Known(p), p \notin Named("delete"),
         PostScan \/ PostConflict \/ PostRow \/ PostUnlogged \/ PostStamp \/ Crash
  PROVE  disk'[p] # None /\ disk'[p].b = disk[p].b
<1>1. disk \in [Path -> Files \cup {None}] /\ disk[p].b \in Blob
  BY Nothing DEF IInv, Filed, OnDisk
<1>2. Len(log) \in 0..MaxRows
  BY BoundAssumption DEF IInv, Logged
<1>3. \A at \in -1..MaxRows : File(disk[p].b, at) # None /\ File(disk[p].b, at).b = disk[p].b
  BY <1>1, Nothing DEF File
<1>4. CASE PostScan
  <2> DEFINE fate == [q \in Path |-> Fate(q)]
             at   == IF TreeOf(fate) = Base THEN 0 ELSE Pending
  <2>1. disk' = [q \in Path |->
          CASE fate[q] = "drop" -> None
            [] q \in Drifted /\ ~(Named("put") \cup Named("delete") # {}) /\ fate[q] = "keep" ->
                 File(disk[q].b, at)
            [] OTHER -> disk[q]]
    BY <1>4 DEF PostScan
  <2>2. fate[p] # "drop"
    BY FateFacts
  <2>3. at \in -1..MaxRows
    BY BoundAssumption DEF Pending
  <2> HIDE DEF fate, at
  <2>4. disk'[p] = disk[p] \/ disk'[p] = File(disk[p].b, at)
    BY <2>1, <2>2
  <2> QED
    BY <1>3, <2>3, <2>4 DEF OnDisk
<1>5. CASE PostConflict \/ PostUnlogged \/ Crash
  <2>1. disk'[p] = disk[p] \/ disk'[p] = File(disk[p].b, 0)
    BY <1>5 DEF PostConflict, PostUnlogged, Crash
  <2> QED
    BY <1>2, <1>3, <2>1, BoundAssumption DEF OnDisk
<1>6. CASE PostRow
  <2>1. disk'[p] = disk[p] \/ disk'[p] = File(disk[p].b, Len(log) + 1)
    BY <1>6 DEF PostRow
  <2>2. Len(log) < MaxRows
    BY <1>6, PostKnows DEF PostRow, PostShape, ScanShape
  <2>3. Len(log) + 1 \in -1..MaxRows
    BY <1>2, <2>2, BoundAssumption
  <2> QED
    BY <1>3, <2>1, <2>3 DEF OnDisk
<1>7. CASE PostStamp
  <2>1. disk'[p] = disk[p] \/ disk'[p] = File(disk[p].b, Len(log))
    BY <1>7 DEF PostStamp
  <2> QED
    BY <1>2, <1>3, <2>1, BoundAssumption DEF OnDisk
<1> QED
  BY <1>4, <1>5, <1>6, <1>7

LEMMA StepKeeps ==
  ASSUME ~EditDuring, IInv, Counted, Next, NEW p \in Path, edits' = edits,
         Unsaved(p), ~Torn(p)
  PROVE  Keeps(p)
<1>1. edits' # edits + 1 /\ crashes \in Nat
  BY DEF Counted
<1>2. /\ disk[p] # None /\ OnDisk(p) /\ ~Known(p) /\ p \notin Named("delete")
      /\ disk \in [Path -> Files \cup {None}]
  BY DEF Unsaved, OnDisk, IInv, Filed
<1>3. CASE GetTip \/ GetOpen \/ GetWrite \/ GetTruncate \/ GetMerge \/ GetUnlink
  BY <1>1, <1>3, GetKeeps
<1>4. CASE Crash
  <2>1. run.cmd # "get" \/ p \notin run.open
    BY <1>1, <1>4 DEF Torn, Crash
  <2>2. run'.cmd # "get"
    BY <1>4 DEF Crash, Idle
  <2> QED
    BY <1>2, <1>4, <2>1, <2>2, PostKeeps, KeptFile
<1>5. ASSUME NEW c \in 1..Len(commits), NEW force \in BOOLEAN, Get(c, force)
      PROVE  Keeps(p)
  <2>1. disk' = disk /\ run.cmd # "get" /\ run'.open = {}
    BY <1>5 DEF Get, Idle
  <2> QED
    BY <1>2, <2>1, KeptFile
<1>6. ASSUME run.cmd # "get", run'.cmd # "get", disk' = disk
      PROVE  Keeps(p)
  BY <1>2, <1>6, KeptFile
<1>7. CASE PostScan \/ PostConflict \/ PostRow \/ PostUnlogged \/ PostStamp
  <2>1. run.cmd # "get" /\ run'.cmd # "get"
    <3>1. run.cmd = "post" => run \in PostRun
      BY RunKinds DEF IInv
    <3> QED
      BY <1>7, <3>1 DEF PostScan, PostConflict, PostRow, PostUnlogged, PostStamp, Idle, PostRun
  <2> QED
    BY <1>2, <1>7, <2>1, PostKeeps, KeptFile
<1>8. CASE PutOne \/ PutStamp
  <2> PICK q : q = Least(run.todo)
    OBVIOUS
  <2>1. run.cmd = "put" /\ run \in PutRun
    BY <1>8, RunKinds DEF PutOne, PutStamp, IInv
  <2>2. run.cmd # "get" /\ run'.cmd # "get"
    <3>1. run' \in {Idle, [run EXCEPT !.row = TRUE], [run EXCEPT !.todo = run.todo \ {q}],
                    [run EXCEPT !.todo = run.todo \ {q}, !.row = FALSE]}
      BY <1>8 DEF PutOne, PutStamp, Rest
    <3>2. run'.cmd \in {"none", "put"}
      <4>1. Idle.cmd = "none"
        BY DEF Idle
      <4>2. /\ [run EXCEPT !.row = TRUE].cmd = "put"
            /\ [run EXCEPT !.todo = run.todo \ {q}].cmd = "put"
            /\ [run EXCEPT !.todo = run.todo \ {q}, !.row = FALSE].cmd = "put"
        BY <2>1 DEF PutRun
      <4> QED
        BY <3>1, <4>1, <4>2, Zenon
    <3> QED
      BY <2>1, <3>2
  <2>3. PICK at \in 0..MaxRows : disk' = disk \/ disk' = [disk EXCEPT ![q].at = at]
    <3>1. Len(log) \in 0..MaxRows /\ Last(Rows({"get", "post"})) \in 1..Len(log)
      BY BoundAssumption, CurFacts DEF IInv, Logged, Rows
    <3>2. Len(log) \in 0..MaxRows /\ Last(Rows({"get", "post"})) \in 0..MaxRows
      BY <3>1, BoundAssumption
    <3>3. \/ disk' = disk \/ disk' = [disk EXCEPT ![q].at = Len(log)]
          \/ disk' = [disk EXCEPT ![q].at = Last(Rows({"get", "post"}))]
      BY <1>8 DEF PutOne, PutStamp
    <3> QED
      BY <3>2, <3>3
  <2>4. CASE disk' = disk
    BY <1>6, <2>2, <2>4
  <2>5. CASE q = p /\ disk' # disk
    <3>1. disk'[p] # None /\ disk'[p].b = disk[p].b
      BY <1>2, <2>3, <2>5, Stamped DEF IInv
    <3> QED
      BY <2>2, <3>1, KeptFile
  <2>6. CASE q # p
    <3>1. disk'[p] = disk[p]
      BY <1>2, <2>3, <2>6
    <3> QED
      BY <1>2, <2>2, <3>1, KeptFile
  <2> QED
    BY <2>4, <2>5, <2>6
<1>9. ASSUME NEW q \in Path, DeleteFile(q)
      PROVE  Keeps(p)
  <2>1. p # q /\ disk' = [disk EXCEPT ![q] = None] /\ run.cmd # "get" /\ run'.cmd # "get"
    BY <1>2, <1>9 DEF DeleteFile, Idle
  <2>2. disk'[p] = disk[p]
    BY <1>2, <2>1
  <2> QED
    BY <1>2, <2>1, <2>2, KeptFile
<1>10. ASSUME (\E S, bare : Put(S, bare)) \/ \E S : DeleteGone(S)
       PROVE  Keeps(p)
  BY <1>6, <1>10 DEF Put, DeleteGone, Idle
<1>11. CASE DeleteRow
  <2>1. run.cmd = "delete" /\ run \in DeleteRun /\ disk' = disk
    BY <1>11, RunKinds DEF DeleteRow, IInv
  <2>2. run'.cmd # "get"
    BY <1>11, <2>1 DEF DeleteRow, Rest, Idle, DeleteRun
  <2> QED
    BY <1>6, <2>1, <2>2
<1>12. CASE PostFeed \/ PostReplay \/ PostRef
  <2>1. run.cmd = "post" /\ run \in PostRun /\ disk' = disk
    BY <1>12, RunKinds DEF PostFeed, PostReplay, PostRef, IInv
  <2>2. run'.cmd # "get"
    BY <1>12, <2>1 DEF PostFeed, PostReplay, PostRef, PostRun
  <2> QED
    BY <1>6, <2>1, <2>2
<1>13. ASSUME NEW q \in Path, NEW b \in Theirs \cup {None}, Other(q, b)
       PROVE  Keeps(p)
  BY <1>6, <1>13 DEF Other, Idle
<1> QED
  BY <1>1, <1>3, <1>4, <1>5, <1>7, <1>8, <1>9, <1>10, <1>11, <1>12, <1>13
     DEF Next, Steps, Edit, Remove

\* sniff/GET.c, get_overlap_step, with sniff/POST.c and sniff/DEL.c: no step of
\* a command loses what the user alone has, save a forced get, the post of a
\* path with a delete row, and a get's death or failed write while the file it
\* merges is emptied: the code has no other copy then.
THEOREM EditsAlwaysKept ==
  ASSUME ~EditDuring
  PROVE  Spec => EditsKept
<1> DEFINE Each == \A p \in Path : edits' = edits /\ Unsaved(p) /\ ~Torn(p) => Keeps(p)
<1>1. IInv /\ Counted /\ [Next]_vars => [Each]_vars
  BY StepKeeps
<1> QED
  BY <1>1, Invariance, EditsCounted, PTL DEF Spec, EditsKept

LEMMA StepForward ==
  ASSUME ~EditDuring, ~Rewind, IInv, Next
  PROVE  AncestorsIn(commits, tip) \subseteq AncestorsIn(commits', tip')
<1>1. /\ Committed /\ Logged /\ commits \in Histories /\ tip \in 1..Len(commits)
      /\ Len(commits) \in Nat /\ tip \in 0..Len(commits)
  BY CurFacts DEF IInv, Committed
<1>2. CASE commits' = commits /\ tip' = tip
  BY <1>2
<1>3. CASE GetTip
  <2>1. commits' = commits /\ tip' = tip
    BY <1>3 DEF GetTip, IInv, GetShape
  <2> QED
    BY <2>1
<1>4. ASSUME NEW p \in Path, NEW b \in Theirs \cup {None}, Other(p, b)
      PROVE  AncestorsIn(commits, tip) \subseteq AncestorsIn(commits', tip')
  BY <1>1, <1>4, OtherCommit
<1>5. CASE PostFeed \/ PostReplay
  <2>1. CASE commits' = commits
    BY <1>5, <2>1 DEF PostFeed, PostReplay
  <2>2. ASSUME NEW new, commits' = Append(commits, new)
        PROVE  AncestorsIn(commits, tip) \subseteq AncestorsIn(commits', tip')
    <3>1. Committed' /\ tip' = tip
      BY <1>5, Feeds, Replays DEF IInv, PostFeed, PostReplay
    <3>2. commits \in Seq([up : Nat, tree : Tree])
      BY <1>1 DEF Histories, Tree
    <3>3. /\ commits' \in Histories /\ Len(commits') = Len(commits) + 1
          /\ \A i \in 1..Len(commits) : commits'[i] = commits[i]
      <4>1. commits' \in Histories /\ commits' \in Seq([up : Nat, tree : Tree])
        BY <3>1 DEF Committed, Histories, Tree
      <4>2. /\ Len(commits') = Len(commits) + 1
            /\ \A i \in 1..Len(commits) : commits'[i] = commits[i]
        BY <2>2, <3>2, <4>1, AppendProperties
      <4> QED
        BY <4>1, <4>2
    <3> QED
      BY <1>1, <3>1, <3>3, AncestorsAppend
  <2> QED
    BY <1>5, <2>1, <2>2 DEF PostFeed, PostReplay
<1>6. CASE PostRef /\ tip' # tip
  <2>1. /\ run.cmd = "post" /\ run.at = "ref" /\ tip' = run.new /\ commits' = commits
    BY <1>6 DEF PostRef
  <2>2. run \in PostRun /\ PostShape
    BY <2>1, PostKnows
  <2>3. run.new \in 1..Len(commits) /\ run.base \in 1..Len(commits) /\ run.replay \in BOOLEAN
    BY <1>1, <2>1, <2>2 DEF PostRun, PostShape
  <2>4. /\ AncestorsIn(commits, run.new)
             = {run.new} \cup AncestorsIn(commits, commits[run.new].up)
        /\ run.base \in 0..Len(commits)
    BY <1>1, <2>3, AncestorsUnfold
  <2>5. CASE ~run.replay
    <3>1. tip \in AncestorsIn(commits, run.base) /\ commits[run.new].up = run.base
      BY <2>1, <2>2, <2>5 DEF PostShape
    <3>2. AncestorsIn(commits, tip) \subseteq AncestorsIn(commits, run.base)
      BY <1>1, <2>4, <3>1, AncestorsFacts
    <3> QED
      BY <2>1, <2>4, <3>1, <3>2
  <2>6. CASE run.replay
    <3>1. run.new = tip \/ commits[run.new].up = tip
      BY <2>1, <2>2, <2>6 DEF PostShape
    <3> QED
      BY <2>1, <2>4, <3>1
  <2> QED
    BY <2>3, <2>5, <2>6
<1> QED
  BY <1>2, <1>3, <1>4, <1>5, <1>6 DEF Next, Steps, Get, Put, DeleteFile, DeleteGone, PostScan,
     GetOpen, GetWrite, GetTruncate, GetMerge, GetUnlink, PutOne, PutStamp, DeleteRow,
     PostConflict, PostRef, PostRow, PostUnlogged, PostStamp, Edit, Remove, Crash

\* sniff/POST.c, the ff check: nobody's commit falls out of the branch's
\* history, as long as a get names the tip.
THEOREM TipAlwaysForward ==
  ASSUME ~EditDuring, ~Rewind
  PROVE  Spec => TipForward
<1>1. IInv /\ [Next]_vars =>
        [AncestorsIn(commits, tip) \subseteq AncestorsIn(commits', tip')]_vars
  BY StepForward
<1> QED
  BY <1>1, Invariance, PTL DEF Spec, TipForward
==============================================================================
