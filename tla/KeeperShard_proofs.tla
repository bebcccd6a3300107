------------------------- MODULE KeeperShard_proofs -------------------------
(***************************************************************************)
(* The properties of KeeperShard for every set of processes and objects    *)
(* and every bound, provided that no writer goes on with a number that was *)
(* taken while it waited for the lock (~StaleNumber), and that none dies   *)
(* while it replaces runs by a merged one (~CrashInGap).                   *)
(***************************************************************************)
EXTENDS KeeperShard, SequenceTheorems, FiniteSetTheorems,
        WellFoundedInduction, TLAPS

----------------------------------------------------------------------------
\* Least and greatest numbers

LEMMA LeastExists ==
  ASSUME NEW S \in SUBSET Nat, S # {}
  PROVE  \E m \in S : \A n \in S : m <= n
<1>1. IsWellFoundedOn(OpToRel(<, Nat), Nat)
  BY NatLessThanWellFounded
<1>2. PICK m \in S : \A n \in S : ~ (<<n, m>> \in OpToRel(<, Nat))
  BY <1>1, WFMin
<1>3. \A n \in S : ~ (n < m)
  <2> TAKE n \in S
  <2> QED BY <1>2 DEF OpToRel
<1> QED
  BY <1>3

LEMMA MinOfFacts ==
  ASSUME NEW S \in SUBSET Seqno, S # {}
  PROVE  MinOf(S) \in S
<1>1. S \in SUBSET Nat
  BY DEF Seqno
<1> QED
  BY <1>1, LeastExists DEF MinOf

LEMMA MaxOfFacts ==
  ASSUME NEW S \in SUBSET Seqno
  PROVE  /\ MaxOf(S) \in 0..MaxSeq
         /\ S # {} => MaxOf(S) \in S
         /\ \A n \in S : n <= MaxOf(S)
<1>1. CASE S = {}
  BY <1>1, BoundAssumption DEF MaxOf
<1>2. CASE S # {}
  <2> DEFINE T == {MaxSeq - s : s \in S}
  <2>0. MaxSeq \in Nat /\ \A s \in S : s \in Nat /\ s >= 1 /\ s <= MaxSeq
    BY BoundAssumption DEF Seqno
  <2>1. T \in SUBSET Nat /\ T # {}
    <3>1. \A u \in T : u \in Nat
      BY <2>0
    <3> QED BY <1>2, <3>1
  <2>2. PICK t \in T : \A u \in T : t <= u
    <3> HIDE DEF T
    <3> QED BY <2>1, LeastExists
  <2>3. PICK m \in S : t = MaxSeq - m
    OBVIOUS
  <2>4. \A n \in S : n <= m
    <3> TAKE n \in S
    <3>1. t <= MaxSeq - n
      BY <2>2
    <3> QED BY <2>0, <2>3, <3>1
  <2>5. MaxOf(S) \in S /\ \A n \in S : n <= MaxOf(S)
    BY <1>2, <2>4 DEF MaxOf
  <2>6. MaxOf(S) \in 0..MaxSeq
    BY <2>0, <2>5
  <2> QED
    BY <1>2, <2>5, <2>6
<1> QED
  BY <1>1, <1>2

----------------------------------------------------------------------------
\* Entries and the bytes they name

Packs == [Seqno -> Seq(Obj) \cup {NoFile}]
Runs  == [Seqno -> (SUBSET Entry) \cup {NoFile}]

LEMMA EntriesFacts ==
  ASSUME NEW f
  PROVE  \A e : e \in EntriesOf(f) <=> \E s \in Seqno : f[s] # NoFile /\ e \in f[s]
  BY DEF EntriesOf, Present

LEMMA PointsExtend ==
  ASSUME NEW f \in Packs, NEW g \in Packs, Extends(f, g),
         NEW e \in Entry, Points(f, e)
  PROVE  Points(g, e)
<1>1. e.file \in Seqno /\ e.pos \in Nat /\ e.pos >= 1
  BY DEF Entry
<1>2. f[e.file] \in Seq(Obj) /\ g[e.file] \in Seq(Obj)
  BY <1>1 DEF Packs, Points, Extends
<1>3. Len(f[e.file]) \in Nat /\ Len(g[e.file]) \in Nat
  BY <1>2, LenProperties
<1> QED
  BY <1>1, <1>3 DEF Points, Extends

LEMMA PackTypes ==
  ASSUME NEW f \in Packs, NEW s \in Seqno, f[s] # NoFile
  PROVE  f[s] \in Seq(Obj) /\ Len(f[s]) \in Nat
  BY LenProperties DEF Packs

LEMMA ExtendsSelf == ASSUME NEW f \in Packs PROVE Extends(f, f)
  BY PackTypes DEF Extends

LEMMA ExtendsTrans ==
  ASSUME NEW f \in Packs, NEW g \in Packs, NEW h \in Packs, Extends(f, g), Extends(g, h)
  PROVE  Extends(f, h)
<1> SUFFICES ASSUME NEW s \in Seqno, f[s] # NoFile
             PROVE  /\ h[s] # NoFile /\ Len(h[s]) >= Len(f[s])
                    /\ \A i \in 1..Len(f[s]) : h[s][i] = f[s][i]
  BY DEF Extends
<1>1. g[s] # NoFile /\ Len(g[s]) >= Len(f[s]) /\ \A i \in 1..Len(f[s]) : g[s][i] = f[s][i]
  BY DEF Extends
<1>2. h[s] # NoFile /\ Len(h[s]) >= Len(g[s]) /\ \A i \in 1..Len(g[s]) : h[s][i] = g[s][i]
  BY <1>1 DEF Extends
<1>3. Len(f[s]) \in Nat /\ Len(g[s]) \in Nat /\ Len(h[s]) \in Nat
  BY <1>1, <1>2, PackTypes
<1> QED
  BY <1>1, <1>2, <1>3

----------------------------------------------------------------------------
\* What a step of one process leaves alone

Others(p) ==
  \A q \in Proc : q # p =>
    /\ pc'[q] = pc[q] /\ maps'[q] = maps[q] /\ runs'[q] = runs[q]
    /\ todo'[q] = todo[q] /\ next'[q] = next[q] /\ cur'[q] = cur[q]
    /\ ents'[q] = ents[q] /\ before'[q] = before[q]
    /\ missed[q] \subseteq missed'[q]
    /\ q \in Writer => (lock' = q <=> lock = q)

KeepsRuns == \A s \in Seqno : idx[s] # NoFile => idx'[s] = idx[s]

\* A run that appears has a number that nobody else has in a registry.
NewRuns(p) ==
  \A s \in Seqno : idx'[s] # NoFile =>
    idx'[s] = idx[s] \/ \A q \in Proc : q # p => runs[q][s] = NoFile

\* Whoever has listed a run that goes counts its objects as missed.
Told(p) ==
  \A q \in Proc, s \in Seqno :
    q # p /\ pc[q] = "map" /\ s \in todo[q] /\ idx[s] # NoFile =>
      idx'[s] = idx[s] \/ ObjectsOf(idx[s]) \subseteq missed'[q]

LEMMA OnDiskFacts ==
  ASSUME NEW e
  PROVE  e \in OnDisk <=>
           \/ \E s \in Seqno : idx[s] # NoFile /\ e \in idx[s]
           \/ \E w \in Writer : pc[w] \in {"thin", "gap"} /\ e \in ents[w]
  BY DEF OnDisk, EntriesOf, Present

LEMMA WriterFacts ==
  ASSUME NEW w \in Writer
  PROVE  w \in Proc /\ w \notin Reader
  BY ProcAssumption DEF Proc

\* Whatever an entry in use is, it is well-formed.
LEMMA EntryTypes ==
  ASSUME TypeOK
  PROVE  /\ \A s \in Seqno : idx[s] # NoFile => idx[s] \subseteq Entry
         /\ \A p \in Proc : ents[p] \subseteq Entry
         /\ \A p \in Proc, s \in Seqno : runs[p][s] # NoFile => runs[p][s] \subseteq Entry
         /\ OnDisk \subseteq Entry
<1>1. \A s \in Seqno : idx[s] # NoFile => idx[s] \subseteq Entry
  BY DEF TypeOK
<1>2. \A p \in Proc : ents[p] \subseteq Entry
  BY DEF TypeOK
<1>3. \A p \in Proc, s \in Seqno : runs[p][s] # NoFile => runs[p][s] \subseteq Entry
  BY DEF TypeOK
<1> QED
  BY <1>1, <1>2, <1>3, OnDiskFacts DEF Proc

\* A step that unlinks no run and keeps what it holds in its hands.
LEMMA OnDiskGrows ==
  ASSUME NEW p \in Proc, Others(p), KeepsRuns,
         pc[p] \in Emptying => pc'[p] \in Emptying /\ ents[p] \subseteq ents'[p]
  PROVE  OnDisk \subseteq OnDisk'
<1> SUFFICES ASSUME NEW e \in OnDisk
             PROVE  e \in OnDisk'
  OBVIOUS
<1>1. \/ \E s \in Seqno : idx'[s] # NoFile /\ e \in idx'[s]
      \/ \E w \in Writer : pc'[w] \in {"thin", "gap"} /\ e \in ents'[w]
  BY OnDiskFacts DEF KeepsRuns, Others, Proc, Emptying
<1> QED
  BY <1>1 DEF OnDisk, EntriesOf, Present

\* The one writer that has the lock.
LEMMA HolderFacts ==
  ASSUME IInv, NEW w \in Writer, pc[w] \in Holding
  PROVE  lock = w /\ \A v \in Writer : v # w => pc[v] \notin Holding
  BY WriterFacts DEF IInv, Fine, Stands

LEMMA SeenKept ==
  ASSUME IInv, TypeOK', NEW p \in Proc, Others(p), OnDisk \subseteq OnDisk', Told(p),
         NEW q \in Proc, q # p, NEW o \in Owed(q)', Seen(q, o)
  PROVE  Seen(q, o)'
<1>0. /\ pc'[q] = pc[q] /\ maps'[q] = maps[q] /\ runs'[q] = runs[q]
      /\ todo'[q] = todo[q] /\ ents'[q] = ents[q]
  BY DEF Others
<1>1. CASE pc[q] \in {"idle", "packs"}
  BY <1>0, <1>1 DEF Seen
<1>2. CASE pc[q] = "list"
  <2>1. PICK e \in OnDisk : e.obj = o /\ Points(maps[q], e)
    BY <1>2 DEF Seen
  <2>2. e \in OnDisk'
    BY <2>1
  <2>3. Points(maps'[q], e)
    BY <1>0, <2>1
  <2> QED
    BY <1>0, <1>2, <2>1, <2>2, <2>3 DEF Seen
<1>3. CASE pc[q] = "map"
  <2>1. PICK s \in Seqno, e \in Entry :
          /\ e.obj = o /\ Points(maps[q], e)
          /\ IF s \in todo[q] THEN idx[s] # NoFile /\ e \in idx[s]
                              ELSE runs[q][s] # NoFile /\ e \in runs[q][s]
    BY <1>3 DEF Seen
  <2>2. s \in todo[q] => idx'[s] = idx[s]
    BY <1>0, <1>3, <2>1 DEF Told, ObjectsOf, Owed
  <2>3. Points(maps'[q], e)
    BY <1>0, <2>1
  <2>4. IF s \in todo'[q] THEN idx'[s] # NoFile /\ e \in idx'[s]
                          ELSE runs'[q][s] # NoFile /\ e \in runs'[q][s]
    BY <1>0, <2>1, <2>2
  <2> QED
    BY <1>0, <1>3, <2>1, <2>3, <2>4 DEF Seen
<1>4. CASE pc[q] \notin {"idle", "packs", "list", "map"}
  <2>1. PICK e \in EntriesOf(runs[q]) \cup (IF pc[q] \in Emptying THEN ents[q] ELSE {}) :
          e.obj = o /\ Points(maps[q], e)
    BY <1>4 DEF Seen
  <2>2. e \in EntriesOf(runs'[q]) \cup (IF pc'[q] \in Emptying THEN ents'[q] ELSE {})
    BY <1>0, <2>1
  <2>3. Points(maps'[q], e)
    BY <1>0, <2>1
  <2> QED
    BY <1>0, <1>4, <2>1, <2>2, <2>3 DEF Seen
<1> QED
  BY <1>1, <1>2, <1>3, <1>4

\* A step of p keeps what is known of every other process.
LEMMA OthersFine ==
  ASSUME IInv, TypeOK', NEW p \in Proc, Others(p), lock = p \/ UNCHANGED disk,
         Extends(pack, pack'), OnDisk \subseteq OnDisk', NewRuns(p), Told(p),
         committed \subseteq committed', NEW q \in Proc, q # p
  PROVE  Fine(q)'
<1>0. /\ pc'[q] = pc[q] /\ maps'[q] = maps[q] /\ runs'[q] = runs[q]
      /\ todo'[q] = todo[q] /\ cur'[q] = cur[q]
      /\ ents'[q] = ents[q] /\ before'[q] = before[q] /\ missed[q] \subseteq missed'[q]
      /\ q \in Writer => (lock' = q <=> lock = q)
  BY DEF Others
<1>1. Fine(q)
  BY DEF IInv
<1>a. /\ pack \in Packs /\ pack' \in Packs /\ maps[q] \in Packs
      /\ \A e \in Entry : Points(pack, e) => Points(pack', e)
  BY PointsExtend DEF IInv, TypeOK, Packs
<1>2. Stands(q)'
  BY <1>0, <1>1 DEF Fine, Stands
<1>3. Registered(q)'
  <2>1. Extends(maps'[q], pack')
    BY <1>0, <1>1, <1>a, ExtendsTrans DEF Fine, Registered
  <2>2. ASSUME NEW s \in Seqno, runs'[q][s] # NoFile
        PROVE  /\ idx'[s] # NoFile => idx'[s] = runs'[q][s]
               /\ \A e \in runs'[q][s] : Points(pack', e)
    <3>1. /\ idx[s] # NoFile => idx[s] = runs[q][s]
          /\ \A e \in runs[q][s] : e \in Entry /\ Points(pack, e)
      BY <1>0, <1>1, <2>2, EntryTypes DEF Fine, Registered, IInv
    <3> QED
      BY <1>0, <1>a, <2>2, <3>1 DEF NewRuns
  <2> QED
    BY <2>1, <2>2 DEF Registered
<1>4. Working(q)'
  <2>1. \A e \in ents'[q] : Points(pack', e)
    BY <1>0, <1>1, <1>a, EntryTypes DEF Fine, Working, IInv
  <2>2. ASSUME pc'[q] = "feed"
        PROVE  /\ cur'[q] \in Seqno /\ pack'[cur'[q]] # NoFile /\ IsFiniteSet(ents'[q])
               /\ count'[cur'[q]] + Cardinality(ents'[q]) <= Len(pack'[cur'[q]])
    <3>1. q \in Writer
      BY <1>0, <1>1, <2>2 DEF Fine, Stands, Proc
    <3>2. lock = q
      BY <1>0, <1>1, <2>2, <3>1 DEF Fine, Stands, Holding
    <3>3. pack' = pack /\ count' = count
      BY <3>2 DEF disk
    <3> QED
      BY <1>0, <1>1, <2>2, <3>3 DEF Fine, Working
  <2> QED
    BY <1>0, <1>1, <2>1, <2>2 DEF Fine, Working
<1>5. before'[q] \subseteq committed'
  BY <1>0, <1>1 DEF Fine
<1>6. \A o \in Owed(q)' : Seen(q, o)'
  <2>1. Owed(q)' \subseteq Owed(q)
    BY <1>0 DEF Owed
  <2> QED
    BY <1>1, <2>1, SeenKept DEF Fine
<1> QED
  BY <1>2, <1>3, <1>4, <1>5, <1>6 DEF Fine

\* What was durable stays so when the directory only grows.
LEMMA DurableKept ==
  ASSUME IInv, TypeOK', Extends(pack, pack'), OnDisk \subseteq OnDisk',
         \A o \in committed' \ committed : \E e \in OnDisk' : e.obj = o /\ Points(pack', e)
  PROVE  Durable'
<1> SUFFICES ASSUME NEW o \in committed
             PROVE  \E e \in OnDisk' : e.obj = o /\ Points(pack', e)
  BY DEF Durable
<1>1. PICK e \in OnDisk : e.obj = o /\ Points(pack, e)
  BY DEF IInv, Durable
<1>2. e \in Entry
  BY <1>1, EntryTypes DEF IInv
<1>3. Points(pack', e)
  BY <1>1, <1>2, PointsExtend DEF IInv, TypeOK, Packs
<1> QED
  BY <1>1, <1>3

\* Steps that only look at the disk.
QuietStep(p) ==
  /\ UNCHANGED disk /\ committed' = committed
  /\ Others(p)
  /\ pc[p] \notin Emptying
  /\ \A s \in Seqno : runs'[p][s] # NoFile => runs[p][s] # NoFile \/ idx[s] # NoFile

LEMMA QuietFacts ==
  ASSUME IInv, NEW p \in Proc, QuietStep(p)
  PROVE  /\ Extends(pack, pack') /\ KeepsRuns /\ NewRuns(p) /\ Told(p)
         /\ OnDisk \subseteq OnDisk'
         /\ Counting' /\ IndexRight'
<1>1. pack' = pack /\ idx' = idx /\ count' = count
  BY DEF QuietStep, disk
<1>2. Extends(pack, pack')
  BY <1>1, ExtendsSelf DEF IInv, TypeOK, Packs
<1>3. KeepsRuns /\ NewRuns(p) /\ Told(p)
  BY <1>1 DEF KeepsRuns, NewRuns, Told
<1>4. OnDisk \subseteq OnDisk'
  BY <1>3, OnDiskGrows DEF QuietStep
<1>5. Counting' /\ IndexRight'
  BY <1>1 DEF IInv, Counting, IndexRight, Points
<1> QED
  BY <1>2, <1>3, <1>4, <1>5

LEMMA CoveredKept ==
  ASSUME IInv, NEW p \in Proc, QuietStep(p)
  PROVE  Covered'
<1> SUFFICES ASSUME \A w \in Writer : pc'[w] \notin Emptying,
                    NEW q \in Proc, NEW s \in Seqno, runs'[q][s] # NoFile
             PROVE  \E t \in Seqno : t >= s /\ (idx'[t] # NoFile \/ pack'[t] # NoFile)
  BY DEF Covered
<1>1. \A w \in Writer : pc[w] \notin Emptying
  BY WriterFacts DEF QuietStep, Others
<1>2. runs[q][s] # NoFile \/ idx[s] # NoFile
  BY DEF QuietStep, Others
<1>3. CASE runs[q][s] # NoFile
  BY <1>1, <1>3 DEF IInv, Covered, QuietStep, disk
<1>4. CASE idx[s] # NoFile
  BY <1>4 DEF QuietStep, disk, Seqno
<1> QED
  BY <1>2, <1>3, <1>4

LEMMA PastKept ==
  ASSUME IInv, NEW p \in Proc, QuietStep(p), lock' \in {lock, Nobody},
         lock' = p => next'[p] = next[p] /\ pc[p] # "feed"
  PROVE  Past'
<1> SUFFICES ASSUME NEW w \in Writer, lock' = w, NEW s \in Seqno
             PROVE  /\ idx'[s] # NoFile \/ (\E q \in Proc : runs'[q][s] # NoFile) => s < next'[w]
                    /\ pack'[s] # NoFile => s < next'[w] \/ (pc'[w] = "feed" /\ s = cur'[w])
  BY DEF Past
<1>1. lock = w /\ w \in Proc
  BY WriterFacts, ProcAssumption
<1>2. /\ idx[s] # NoFile \/ (\E q \in Proc : runs[q][s] # NoFile) => s < next[w]
      /\ pack[s] # NoFile => s < next[w] \/ (pc[w] = "feed" /\ s = cur[w])
  BY <1>1 DEF IInv, Past
<1>3. \A q \in Proc : runs'[q][s] # NoFile => runs[q][s] # NoFile \/ idx[s] # NoFile
  BY DEF QuietStep, Others
<1>4. next'[w] = next[w] /\ (pc[w] = "feed" => pc'[w] = "feed" /\ cur'[w] = cur[w])
  BY <1>1 DEF QuietStep, Others
<1> QED
  BY <1>2, <1>3, <1>4 DEF QuietStep, disk

LEMMA QuietFrame ==
  ASSUME IInv, TypeOK', NEW p \in Proc, QuietStep(p), Past', Fine(p)'
  PROVE  IInv'
<1>1. Durable'
  BY QuietFacts, DurableKept DEF QuietStep
<1>2. \A q \in Proc : Fine(q)'
  BY QuietFacts, OthersFine DEF QuietStep
<1>3. Counting' /\ IndexRight' /\ Covered'
  BY QuietFacts, CoveredKept
<1> QED
  BY <1>1, <1>2, <1>3 DEF IInv

LEMMA NothingFacts ==
  /\ Nothing \in Packs /\ Nothing \in Runs
  /\ \A s \in Seqno : Nothing[s] = NoFile
  BY DEF Nothing, Packs, Runs

\* A process that is not there, or has only come.
LEMMA Empty ==
  ASSUME NEW p \in Proc, maps[p] = Nothing, runs[p] = Nothing, ents[p] = {},
         pc[p] \in {"idle", "packs"}, p \in Writer => lock # p, before[p] \subseteq committed
  PROVE  Fine(p)
<1>1. Stands(p)
  BY DEF Stands, Holding
<1>2. Registered(p)
  BY NothingFacts DEF Registered, Extends
<1>3. Working(p)
  BY DEF Working
<1>4. \A o \in Owed(p) : Seen(p, o)
  BY DEF Seen
<1> QED
  BY <1>1, <1>2, <1>3, <1>4 DEF Fine

LEMMA InitIInv == Init => IInv
<1> SUFFICES ASSUME Init PROVE IInv
  OBVIOUS
<1>1. TypeOK
  BY NothingFacts, BoundAssumption DEF Init, TypeOK, PC, Packs, Runs
<1>2. ASSUME NEW p \in Proc
      PROVE  Fine(p)
  <2>1. /\ maps[p] = Nothing /\ runs[p] = Nothing /\ ents[p] = {}
        /\ pc[p] = "idle" /\ (p \in Writer => lock # p) /\ before[p] \subseteq committed
    BY ProcAssumption DEF Init
  <2> QED
    BY <2>1, Empty
<1>3. Past
  BY ProcAssumption DEF Init, Past, Proc
<1>4. Covered
  <2>1. \A p \in Proc, s \in Seqno : runs[p][s] = NoFile
    BY NothingFacts DEF Init
  <2> QED
    BY <2>1 DEF Covered
<1>5. Counting /\ IndexRight
  BY NothingFacts DEF Init, Counting, IndexRight
<1>6. Durable
  BY DEF Init, Durable
<1> QED
  BY <1>1, <1>2, <1>3, <1>4, <1>5, <1>6 DEF IInv

----------------------------------------------------------------------------
\* Opening

\* What is on disk keeps the promise of Registered, and p looks at nothing else.
LEMMA FineFacts ==
  ASSUME IInv, NEW p \in Proc
  PROVE  /\ Stands(p) /\ Registered(p) /\ Working(p) /\ before[p] \subseteq committed
         /\ \A o \in Owed(p) : Seen(p, o)
  BY DEF IInv, Fine

\* An opener has the lock not yet.
LEMMA NotHolding ==
  ASSUME IInv, NEW p \in Proc, pc[p] \notin Holding
  PROVE  lock # p
<1>1. lock \in Writer \cup {Nobody} /\ Stands(p)
  BY DEF IInv, TypeOK, Fine
<1> QED
  BY <1>1, ProcAssumption DEF Stands

LEMMA OpenBeginIInv ==
  ASSUME IInv, NEW p \in Proc, OpenBegin(p)
  PROVE  IInv'
<1> USE DEF OpenBegin, Goto, mine, disk
<1>1. TypeOK'
  BY DEF IInv, TypeOK, PC
<1>2. QuietStep(p) /\ lock # p
  BY NotHolding DEF QuietStep, Others, IInv, TypeOK, Emptying, Holding
<1>3. pc'[p] = "packs" /\ before'[p] = committed
  BY DEF IInv, TypeOK
<1>4. Past'
  BY <1>2, PastKept
<1>5. Fine(p)'
  <2>1. Stands(p)'
    BY <1>2, <1>3 DEF Stands, Holding
  <2>2. Registered(p)'
    BY FineFacts DEF Registered, Extends, Points
  <2>3. Working(p)'
    BY <1>3, FineFacts DEF Working, Points, Emptying
  <2>4. \A o \in Owed(p)' : Seen(p, o)'
    BY <1>3 DEF Seen
  <2> QED
    BY <1>3, <2>1, <2>2, <2>3, <2>4 DEF Fine
<1> QED
  BY <1>1, <1>2, <1>4, <1>5, QuietFrame

LEMMA ScanPacksIInv ==
  ASSUME IInv, NEW p \in Proc, ScanPacks(p)
  PROVE  IInv'
<1> USE DEF ScanPacks, Goto, hist, disk
<1>1. TypeOK'
  BY DEF IInv, TypeOK, PC
<1>2. QuietStep(p) /\ lock # p
  BY NotHolding DEF QuietStep, Others, IInv, TypeOK, Emptying, Holding
<1>3. pc'[p] = "list" /\ maps'[p] = pack
  BY DEF IInv, TypeOK
<1>4. Past'
  BY <1>2, PastKept
<1>5. Fine(p)'
  <2>1. Stands(p)'
    BY <1>2, <1>3 DEF Stands, Holding
  <2>2. Registered(p)'
    <3>1. Extends(maps'[p], pack')
      BY <1>3, ExtendsSelf DEF IInv, TypeOK, Packs
    <3> QED
      BY <3>1, FineFacts DEF Registered, Points
  <2>3. Working(p)'
    BY <1>3, FineFacts DEF Working, Points, Emptying
  <2>4. ASSUME NEW o \in before'[p]
        PROVE  Seen(p, o)'
    <3>1. PICK e \in OnDisk : e.obj = o /\ Points(pack, e)
      BY <2>4, FineFacts DEF IInv, Durable
    <3>2. e \in OnDisk'
      BY <1>2, <3>1, QuietFacts
    <3>3. Points(maps'[p], e)
      BY <1>3, <3>1
    <3> QED
      BY <1>3, <3>1, <3>2, <3>3 DEF Seen
  <2> QED
    BY <1>3, <2>1, <2>2, <2>3, <2>4, FineFacts DEF Fine, Owed
<1> QED
  BY <1>1, <1>2, <1>4, <1>5, QuietFrame

\* A list of names answers for every run there is at that moment; what a
\* compaction has in its hands is missed.
LEMMA ListRunsIInv ==
  ASSUME IInv, NEW p \in Proc, ListRuns(p)
  PROVE  IInv'
<1> USE DEF ListRuns, Goto, disk
<1>1. TypeOK'
  <2>1. ObjectsOf(OnDisk \ EntriesOf(idx)) \subseteq Obj
    BY EntryTypes DEF IInv, ObjectsOf, Entry
  <2> QED
    BY <2>1 DEF IInv, TypeOK, PC, Present
<1>2. QuietStep(p) /\ lock # p
  BY NotHolding DEF QuietStep, Others, IInv, TypeOK, Emptying, Holding
<1>3. /\ pc'[p] = "map" /\ todo'[p] = Present(idx)
      /\ missed'[p] = ObjectsOf(OnDisk \ EntriesOf(idx))
  BY DEF IInv, TypeOK
<1>4. Past'
  BY <1>2, PastKept
<1>5. Fine(p)'
  <2>1. Stands(p)'
    BY <1>2, <1>3 DEF Stands, Holding
  <2>2. Registered(p)'
    BY FineFacts DEF Registered, Extends, Points
  <2>3. Working(p)'
    BY <1>3, FineFacts DEF Working, Points, Emptying
  <2>4. ASSUME NEW o \in before'[p], o \notin missed'[p]
        PROVE  Seen(p, o)'
    <3>0. pc[p] = "list" /\ o \in committed
      BY FineFacts
    <3>1. PICK e \in OnDisk : e.obj = o /\ Points(maps[p], e)
      BY <3>0, FineFacts DEF Seen, Owed
    <3>2. e \in EntriesOf(idx) /\ e \in Entry
      BY <1>3, <2>4, <3>1, EntryTypes DEF ObjectsOf, IInv
    <3>3. PICK s \in Seqno : idx[s] # NoFile /\ e \in idx[s]
      BY <3>2, EntriesFacts
    <3>4. s \in todo'[p]
      BY <1>3, <3>3 DEF Present
    <3> QED
      BY <1>3, <3>1, <3>2, <3>3, <3>4 DEF Seen
  <2> QED
    BY <1>3, <2>1, <2>2, <2>3, <2>4, FineFacts DEF Fine, Owed
<1> QED
  BY <1>1, <1>2, <1>4, <1>5, QuietFrame

LEMMA MapRunIInv ==
  ASSUME IInv, NEW p \in Proc, MapRun(p)
  PROVE  IInv'
<1> USE DEF MapRun, hist, disk
<1> DEFINE m == MinOf(todo[p])
<1>0. m \in todo[p] /\ m \in Seqno
  BY MinOfFacts DEF IInv, TypeOK
<1>1. TypeOK'
  BY <1>0 DEF IInv, TypeOK
<1>3. /\ pc'[p] = "map" /\ todo'[p] = todo[p] \ {m}
      /\ runs'[p][m] = idx[m]
      /\ \A s \in Seqno : s # m => runs'[p][s] = runs[p][s]
  BY <1>0 DEF IInv, TypeOK
<1>2. QuietStep(p) /\ lock # p
  <2>1. \A s \in Seqno : runs'[p][s] # NoFile => runs[p][s] # NoFile \/ idx[s] # NoFile
    BY <1>3
  <2> QED
    BY <2>1, NotHolding DEF QuietStep, Others, IInv, TypeOK, Emptying, Holding
<1>4. Past'
  BY <1>2, PastKept
<1>5. Fine(p)'
  <2>1. Stands(p)'
    BY <1>2, <1>3 DEF Stands, Holding
  <2>2. Registered(p)'
    <3>1. Extends(maps'[p], pack')
      BY FineFacts DEF Registered
    <3>2. ASSUME NEW s \in Seqno, runs'[p][s] # NoFile
          PROVE  /\ idx[s] # NoFile => idx[s] = runs'[p][s]
                 /\ \A e \in runs'[p][s] : Points(pack, e)
      <4>1. CASE s = m
        BY <1>3, <3>2, <4>1 DEF IInv, IndexRight
      <4>2. CASE s # m
        BY <1>3, <3>2, <4>2, FineFacts DEF Registered
      <4> QED BY <4>1, <4>2
    <3> QED
      BY <3>1, <3>2 DEF Registered, Points
  <2>3. Working(p)'
    BY <1>3, FineFacts DEF Working, Points, Emptying
  <2>4. ASSUME NEW o \in before'[p], o \notin missed'[p]
        PROVE  Seen(p, o)'
    <3>1. PICK s \in Seqno, e \in Entry :
            /\ e.obj = o /\ Points(maps[p], e)
            /\ IF s \in todo[p] THEN idx[s] # NoFile /\ e \in idx[s]
                                ELSE runs[p][s] # NoFile /\ e \in runs[p][s]
      BY <2>4, FineFacts DEF Seen, Owed
    <3>2. IF s \in todo'[p] THEN idx'[s] # NoFile /\ e \in idx'[s]
                            ELSE runs'[p][s] # NoFile /\ e \in runs'[p][s]
      <4>1. CASE s = m
        BY <1>0, <1>3, <3>1, <4>1
      <4>2. CASE s # m
        BY <1>3, <3>1, <4>2
      <4> QED BY <4>1, <4>2
    <3> QED
      BY <1>3, <3>1, <3>2 DEF Seen
  <2> QED
    BY <1>3, <2>1, <2>2, <2>3, <2>4, FineFacts DEF Fine, Owed
<1> QED
  BY <1>1, <1>2, <1>4, <1>5, QuietFrame

LEMMA RecomputeIInv ==
  ASSUME IInv, NEW p \in Proc, Recompute(p)
  PROVE  IInv'
<1> USE DEF Recompute, Goto, hist, disk
<1> DEFINE used == Present(pack) \cup Present(idx)
                   \cup Present(maps[p]) \cup Present(runs[p])
<1>1. TypeOK'
  <2>1. MaxOf(used) \in 0..MaxSeq
    BY MaxOfFacts DEF Present
  <2>2. next' \in [Proc -> 1..MaxSeq + 1]
    BY <2>1, BoundAssumption DEF IInv, TypeOK
  <2>3. pc' \in [Proc -> PC]
    BY DEF IInv, TypeOK, PC
  <2> QED
    BY <2>2, <2>3 DEF IInv, TypeOK
<1>2. QuietStep(p) /\ lock # p
  BY NotHolding DEF QuietStep, Others, IInv, TypeOK, Emptying, Holding
<1>3. pc'[p] = IF p \in Writer THEN "wait" ELSE "ready"
  BY DEF IInv, TypeOK
<1>4. Past'
  BY <1>2, PastKept
<1>5. Fine(p)'
  <2>1. Stands(p)'
    BY <1>2, <1>3, WriterFacts DEF Stands, Holding
  <2>2. Registered(p)'
    BY FineFacts DEF Registered, Extends, Points
  <2>3. Working(p)'
    BY <1>3, FineFacts DEF Working, Points, Emptying
  <2>4. ASSUME NEW o \in before'[p], o \notin missed'[p]
        PROVE  Seen(p, o)'
    <3>1. PICK s \in Seqno, e \in Entry :
            e.obj = o /\ Points(maps[p], e) /\ runs[p][s] # NoFile /\ e \in runs[p][s]
      BY <2>4, FineFacts DEF Seen, Owed
    <3>2. e \in EntriesOf(runs'[p]) /\ Points(maps'[p], e)
      BY <3>1, EntriesFacts
    <3> QED
      BY <1>3, <3>1, <3>2 DEF Seen
  <2> QED
    BY <1>3, <2>1, <2>2, <2>3, <2>4, FineFacts DEF Fine, Owed
<1> QED
  BY <1>1, <1>2, <1>4, <1>5, QuietFrame

\* Whoever gets the lock with a number past every file is past every registry
\* too: none is ahead of a directory that nobody is changing.
LEMMA LockIInv ==
  ASSUME ~StaleNumber, IInv, NEW p \in Proc, Lock(p)
  PROVE  IInv'
<1> USE DEF Lock, Goto, hist, disk, mine
<1>0. p \in Writer /\ p \notin Reader
  BY ProcAssumption DEF Proc, IInv, Fine, Stands
<1>1. TypeOK'
  BY <1>0 DEF IInv, TypeOK, PC
<1>2. QuietStep(p)
  BY ProcAssumption DEF QuietStep, Others, IInv, TypeOK, Emptying, Proc
<1>3. pc'[p] = "ready" /\ lock' = p
  BY DEF IInv, TypeOK
<1>4. Past'
  <2> DEFINE used == Present(pack) \cup Present(idx)
  <2>1. \A s \in Seqno : idx[s] # NoFile \/ pack[s] # NoFile => s < next[p]
    <3>1. /\ \A n \in used : n <= MaxOf(used)
          /\ MaxOf(used) \in 0..MaxSeq
      BY MaxOfFacts DEF Present
    <3>2. next[p] \in 1..MaxSeq + 1 /\ next[p] > MaxOf(used)
      BY DEF IInv, TypeOK
    <3>3. \A s \in Seqno : idx[s] # NoFile \/ pack[s] # NoFile => s \in used
      BY DEF Present
    <3> HIDE DEF used
    <3> QED
      BY <3>1, <3>2, <3>3, BoundAssumption DEF Seqno
  <2>2. \A w \in Writer : pc[w] \notin Emptying
    BY ProcAssumption, WriterFacts DEF IInv, Fine, Stands, Holding, Emptying
  <2>3. ASSUME NEW s \in Seqno, NEW q \in Proc, runs[q][s] # NoFile
        PROVE  s < next[p]
    <3>1. PICK t \in Seqno : t >= s /\ (idx[t] # NoFile \/ pack[t] # NoFile)
      BY <2>2, <2>3 DEF IInv, Covered
    <3> QED
      BY <2>1, <3>1, BoundAssumption DEF Seqno, IInv, TypeOK
  <2> QED
    BY <1>3, <2>1, <2>3 DEF Past
<1>5. Fine(p)'
  <2>1. Stands(p)'
    BY <1>0, <1>3 DEF Stands, Holding
  <2>2. Registered(p)'
    BY FineFacts DEF Registered, Extends, Points
  <2>3. Working(p)'
    BY <1>3, FineFacts DEF Working, Points, Emptying
  <2>4. ASSUME NEW o \in before'[p], o \notin missed'[p]
        PROVE  Seen(p, o)'
    <3>1. PICK e \in EntriesOf(runs[p]) : e.obj = o /\ Points(maps[p], e)
      BY <2>4, FineFacts DEF Seen, Owed, Emptying
    <3> QED
      BY <1>3, <3>1 DEF Seen, EntriesOf, Present, Points, Emptying
  <2> QED
    BY <1>3, <2>1, <2>2, <2>3, <2>4, FineFacts DEF Fine, Owed
<1> QED
  BY <1>1, <1>2, <1>4, <1>5, QuietFrame

----------------------------------------------------------------------------
\* Leaving

LEMMA ForgetIInv ==
  ASSUME IInv, NEW p \in Proc, Forget(p), UNCHANGED disk, committed' = committed,
         pc[p] \notin Emptying
  PROVE  IInv'
<1> USE DEF Forget, Goto
<1>1. TypeOK'
  <2>1. /\ maps' \in [Proc -> Packs] /\ runs' \in [Proc -> Runs]
    BY NothingFacts DEF IInv, TypeOK, Packs, Runs
  <2>2. /\ pc' \in [Proc -> PC] /\ todo' \in [Proc -> SUBSET Seqno]
        /\ next' \in [Proc -> 1..MaxSeq + 1] /\ cur' \in [Proc -> 0..MaxSeq]
    BY BoundAssumption DEF IInv, TypeOK, PC
  <2>3. /\ ents' \in [Proc -> SUBSET Entry] /\ before' \in [Proc -> SUBSET Obj]
        /\ missed' \in [Proc -> SUBSET Obj] /\ lock' \in Writer \cup {Nobody}
    BY DEF IInv, TypeOK
  <2> QED
    BY <2>1, <2>2, <2>3 DEF IInv, TypeOK, Packs, Runs, disk
<1>2. /\ pc'[p] = "idle" /\ runs'[p] = Nothing /\ maps'[p] = Nothing
      /\ ents'[p] = {} /\ before'[p] = {}
  BY DEF IInv, TypeOK
<1>3. lock' \in {lock, Nobody} /\ lock' # p
  BY ProcAssumption
<1>4. QuietStep(p)
  <2>1. Others(p)
    BY ProcAssumption, WriterFacts DEF Others, IInv, TypeOK
  <2> QED
    BY <1>2, <2>1, NothingFacts DEF QuietStep
<1>5. Past'
  BY <1>3, <1>4, PastKept
<1>6. Fine(p)'
  <2>1. Stands(p)'
    BY <1>2, <1>3 DEF Stands, Holding
  <2>2. Registered(p)'
    BY <1>2, NothingFacts DEF Registered, Extends
  <2>3. Working(p)'
    BY <1>2 DEF Working, Emptying
  <2>4. before'[p] \subseteq committed' /\ Owed(p)' = {}
    BY <1>2 DEF Owed
  <2> QED
    BY <2>1, <2>2, <2>3, <2>4 DEF Fine
<1> QED
  BY <1>1, <1>4, <1>5, <1>6, QuietFrame

LEMMA CloseIInv ==
  ASSUME IInv, NEW p \in Proc, Close(p)
  PROVE  IInv'
  BY ForgetIInv DEF Close, Emptying

LEMMA CrashIInv ==
  ASSUME ~CrashInGap, IInv, NEW p \in Proc, Crash(p)
  PROVE  IInv'
  BY ForgetIInv DEF Crash, Emptying

----------------------------------------------------------------------------
\* Steps of the writer that has the lock

Later == {"wait"} \cup Holding

\* Where p can find an entry once it is past the mapping.
Hands(p) == EntriesOf(runs[p]) \cup (IF pc[p] \in Emptying THEN ents[p] ELSE {})

LEMMA SeenLater ==
  ASSUME IInv, TypeOK', NEW p \in Proc, pc[p] \in Later, pc'[p] \in Later,
         Extends(maps[p], maps'[p]), Hands(p) \subseteq Hands(p)',
         before'[p] = before[p], missed'[p] = missed[p]
  PROVE  \A o \in Owed(p)' : Seen(p, o)'
<1> SUFFICES ASSUME NEW o \in before[p], o \notin missed[p]
             PROVE  Seen(p, o)'
  BY DEF Owed, Later, Holding
<1>1. Seen(p, o)
  BY FineFacts DEF Owed
<1>2. PICK e \in Hands(p) : e.obj = o /\ Points(maps[p], e)
  BY <1>1 DEF Seen, Later, Holding, Hands
<1>3. e \in Entry
  BY <1>2, EntryTypes, EntriesFacts DEF Hands, IInv
<1>4. Points(maps'[p], e)
  BY <1>2, <1>3, PointsExtend DEF IInv, TypeOK, Packs
<1>5. e \in Hands(p)'
  BY <1>2
<1> QED
  BY <1>2, <1>4, <1>5 DEF Seen, Later, Holding, Hands

LEMMA DiskFrame ==
  ASSUME IInv, TypeOK', NEW p \in Proc, Others(p), lock = p,
         Extends(pack, pack'), OnDisk \subseteq OnDisk', NewRuns(p), Told(p),
         committed \subseteq committed',
         Fine(p)', Past', Covered', Counting', IndexRight', Durable'
  PROVE  IInv'
<1>1. \A q \in Proc : Fine(q)'
  BY OthersFine
<1> QED
  BY <1>1 DEF IInv

\* The holder's own numbers.
LEMMA PastFacts ==
  ASSUME IInv, NEW w \in Writer, pc[w] \in Holding
  PROVE  /\ lock = w
         /\ \A s \in Seqno : /\ idx[s] # NoFile => s < next[w]
                             /\ (\E p \in Proc : runs[p][s] # NoFile) => s < next[w]
                             /\ pack[s] # NoFile => s < next[w] \/ (pc[w] = "feed" /\ s = cur[w])
  BY HolderFacts DEF IInv, Past

LEMMA PastNext ==
  ASSUME lock' = lock, NEW w \in Writer, lock = w,
         \A s \in Seqno : /\ idx'[s] # NoFile => s < next'[w]
                          /\ (\E p \in Proc : runs'[p][s] # NoFile) => s < next'[w]
                          /\ pack'[s] # NoFile =>
                               s < next'[w] \/ (pc'[w] = "feed" /\ s = cur'[w])
  PROVE  Past'
  BY DEF Past

\* Packs that come or grow leave the registries covered.
LEMMA CoveredGrows ==
  ASSUME IInv, NEW p \in Proc, Others(p), pc[p] \notin Emptying,
         Extends(pack, pack'), idx' = idx, runs' = runs
  PROVE  Covered'
<1> SUFFICES ASSUME \A w \in Writer : pc'[w] \notin Emptying,
                    NEW q \in Proc, NEW s \in Seqno, runs[q][s] # NoFile
             PROVE  \E t \in Seqno : t >= s /\ (idx[t] # NoFile \/ pack'[t] # NoFile)
  BY DEF Covered
<1>1. \A w \in Writer : pc[w] \notin Emptying
  BY WriterFacts DEF Others
<1>2. PICK t \in Seqno : t >= s /\ (idx[t] # NoFile \/ pack[t] # NoFile)
  BY <1>1 DEF IInv, Covered
<1> QED
  BY <1>2 DEF Extends

----------------------------------------------------------------------------
\* Writing a pack

LEMMA EmptyPack == <<>> \in Seq(Obj) /\ <<>> # NoFile /\ Len(<<>>) = 0
<1>1. <<>> \in Seq(Obj) /\ Len(<<>>) = 0
  BY EmptySeq
<1> QED
  BY <1>1, NoFileAssumption

\* A pack is either reopened at its end or started under a free number.
LEMMA PackOpenFacts ==
  ASSUME IInv, NEW w \in Writer, PackOpen(w)
  PROVE  /\ cur'[w] \in Seqno
         /\ \/ /\ pack' = pack /\ count' = count /\ pack[cur'[w]] # NoFile
               /\ maps' = [maps EXCEPT ![w][cur'[w]] = pack[cur'[w]]]
            \/ /\ pack[cur'[w]] = NoFile /\ maps' = maps
               /\ pack' = [pack EXCEPT ![cur'[w]] = <<>>]
               /\ count' = [count EXCEPT ![cur'[w]] = 0]
<1>0. w \in Proc /\ pc[w] = "ready"
  BY WriterFacts DEF PackOpen
<1>1. CASE Present(maps[w]) # {}
  <2>1. cur'[w] = MaxOf(Present(maps[w])) /\ pack' = pack /\ count' = count
    BY <1>0, <1>1 DEF PackOpen, IInv, TypeOK
  <2>2. cur'[w] \in Present(maps[w])
    BY <1>1, <2>1, MaxOfFacts DEF Present
  <2>3. cur'[w] \in Seqno /\ pack[cur'[w]] # NoFile
    BY <1>0, <2>2, FineFacts DEF Present, Registered, Extends
  <2> QED
    BY <1>0, <1>1, <2>1, <2>3 DEF PackOpen
<1>2. CASE Present(maps[w]) = {}
  <2>1. /\ cur'[w] = next[w] /\ pack' = [pack EXCEPT ![next[w]] = <<>>]
        /\ count' = [count EXCEPT ![next[w]] = 0]
        /\ maps' = maps /\ next[w] \in Seqno
    BY <1>0, <1>2, BoundAssumption DEF PackOpen, IInv, TypeOK, Seqno
  <2>2. pack[next[w]] = NoFile
    <3>1. pack[next[w]] # NoFile => next[w] < next[w]
      BY <1>0, <2>1, PastFacts DEF Holding
    <3> QED
      BY <2>1, <3>1 DEF Seqno
  <2> QED
    BY <1>0, <2>1, <2>2
<1> QED
  BY <1>1, <1>2

LEMMA PackOpenPointwise ==
  ASSUME IInv, NEW w \in Writer, PackOpen(w)
  PROVE  /\ pack' \in Packs /\ count' \in [Seqno -> Nat] /\ maps' \in [Proc -> Packs]
         /\ \A q \in Proc : q # w => maps'[q] = maps[q]
         /\ pack'[cur'[w]] # NoFile
         /\ \A s \in Seqno : pack[s] # NoFile => pack'[s] = pack[s] /\ count'[s] = count[s]
         /\ \A s \in Seqno : pack[s] = NoFile /\ pack'[s] # NoFile =>
              s = cur'[w] /\ pack'[s] = <<>> /\ count'[s] = 0
         /\ \A s \in Seqno : maps'[w][s] # NoFile =>
              maps'[w][s] = maps[w][s] \/ maps'[w][s] = pack[s]
         /\ \A s \in Seqno : maps[w][s] # NoFile => maps'[w][s] # NoFile
<1> DEFINE c == cur'[w]
<1>0. /\ w \in Proc /\ c \in Seqno /\ maps \in [Proc -> Packs] /\ pack \in Packs
      /\ count \in [Seqno -> Nat]
  BY WriterFacts, PackOpenFacts DEF IInv, TypeOK, Packs
<1> HIDE DEF c
<1>1. CASE /\ pack' = pack /\ count' = count /\ pack[c] # NoFile
           /\ maps' = [maps EXCEPT ![w][c] = pack[c]]
  <2>1. pack[c] \in Seq(Obj) \cup {NoFile} /\ maps[w] \in Packs
    BY <1>0 DEF Packs
  <2>2. [maps[w] EXCEPT ![c] = pack[c]] \in Packs
    BY <1>0, <2>1 DEF Packs
  <2>3. maps' = [maps EXCEPT ![w] = [maps[w] EXCEPT ![c] = pack[c]]]
    BY <1>0, <1>1
  <2>4. maps'[w] = [maps[w] EXCEPT ![c] = pack[c]]
    BY <1>0, <2>3
  <2>5. /\ maps'[w][c] = pack[c]
        /\ \A s \in Seqno : s # c => maps'[w][s] = maps[w][s]
    BY <1>0, <2>1, <2>4 DEF Packs
  <2>6. maps' \in [Proc -> Packs] /\ \A q \in Proc : q # w => maps'[q] = maps[q]
    BY <1>0, <2>2, <2>3
  <2> QED
    BY <1>0, <1>1, <2>5, <2>6 DEF c
<1>2. CASE /\ pack[c] = NoFile /\ pack' = [pack EXCEPT ![c] = <<>>]
           /\ count' = [count EXCEPT ![c] = 0] /\ maps' = maps
  <2>1. pack' \in Packs /\ pack'[c] = <<>> /\ \A s \in Seqno : s # c => pack'[s] = pack[s]
    BY <1>0, <1>2, EmptyPack DEF Packs
  <2>2. /\ count' \in [Seqno -> Nat] /\ count'[c] = 0
        /\ \A s \in Seqno : s # c => count'[s] = count[s]
    BY <1>0, <1>2
  <2> QED
    BY <1>0, <1>2, <2>1, <2>2, EmptyPack DEF c
<1> QED
  BY <1>1, <1>2, PackOpenFacts DEF c

LEMMA PackOpenExtends ==
  ASSUME IInv, NEW w \in Writer, PackOpen(w)
  PROVE  /\ Extends(pack, pack') /\ Extends(maps'[w], pack') /\ Extends(maps[w], maps'[w])
<1>0. w \in Proc /\ Extends(maps[w], pack) /\ maps[w] \in Packs /\ pack \in Packs
  BY WriterFacts, FineFacts DEF Registered, IInv, TypeOK, Packs
<1>1. Extends(pack, pack')
  BY <1>0, PackOpenPointwise, PackTypes DEF Extends
<1>2. ASSUME NEW s \in Seqno, maps'[w][s] # NoFile
      PROVE  /\ pack'[s] # NoFile /\ Len(pack'[s]) >= Len(maps'[w][s])
             /\ \A i \in 1..Len(maps'[w][s]) : pack'[s][i] = maps'[w][s][i]
  <2>1. maps'[w][s] = maps[w][s] \/ maps'[w][s] = pack[s]
    BY <1>2, PackOpenPointwise
  <2>2. pack[s] # NoFile
    BY <1>0, <1>2, <2>1 DEF Extends
  <2>3. pack'[s] = pack[s]
    BY <2>2, PackOpenPointwise
  <2> QED
    BY <1>0, <1>2, <2>1, <2>2, <2>3, PackTypes DEF Extends
<1>3. ASSUME NEW s \in Seqno, maps[w][s] # NoFile
      PROVE  /\ maps'[w][s] # NoFile /\ Len(maps'[w][s]) >= Len(maps[w][s])
             /\ \A i \in 1..Len(maps[w][s]) : maps'[w][s][i] = maps[w][s][i]
  <2>1. maps'[w][s] = maps[w][s] \/ maps'[w][s] = pack[s]
    BY <1>3, PackOpenPointwise
  <2>2. maps'[w][s] # NoFile
    BY <1>3, PackOpenPointwise
  <2> QED
    BY <1>0, <1>3, <2>1, <2>2, PackTypes DEF Extends
<1> QED
  BY <1>1, <1>2, <1>3 DEF Extends

LEMMA PackOpenIInv ==
  ASSUME IInv, NEW w \in Writer, PackOpen(w)
  PROVE  IInv'
<1>0. /\ w \in Proc /\ w \notin Reader /\ pc[w] = "ready"
      /\ pc' = [pc EXCEPT ![w] = "feed"]
      /\ idx' = idx /\ lock' = lock /\ runs' = runs /\ todo' = todo /\ next' = next
      /\ ents' = ents /\ committed' = committed /\ before' = before /\ missed' = missed
      /\ \E c : cur' = [cur EXCEPT ![w] = c]
  BY WriterFacts DEF PackOpen, Goto, hist
<1>1. TypeOK'
  <2>1. cur' \in [Proc -> 0..MaxSeq]
    BY <1>0, PackOpenFacts, BoundAssumption DEF IInv, TypeOK, Seqno
  <2> QED
    BY <1>0, <2>1, PackOpenPointwise DEF IInv, TypeOK, PC, Packs
<1>2. Others(w) /\ KeepsRuns /\ NewRuns(w) /\ Told(w) /\ lock = w
  BY <1>0, PackOpenPointwise, HolderFacts
  DEF Others, KeepsRuns, NewRuns, Told, IInv, TypeOK, Holding
<1>3. OnDisk \subseteq OnDisk'
  BY <1>0, <1>2, OnDiskGrows DEF Emptying
<1>4. Durable'
  BY <1>0, <1>1, <1>3, PackOpenExtends, DurableKept
<1>5. pc'[w] = "feed" /\ cur'[w] \in Seqno
  BY <1>0, PackOpenFacts DEF IInv, TypeOK
<1>6. Fine(w)'
  <2>1. Stands(w)'
    BY <1>0, <1>2, <1>5 DEF Stands, Holding
  <2>a. \A e \in Entry : Points(pack, e) => Points(pack', e)
    BY PackOpenPointwise, PackOpenExtends, PointsExtend DEF IInv, TypeOK, Packs
  <2>2. Registered(w)'
    BY <1>0, <2>a, FineFacts, EntryTypes, PackOpenExtends DEF Registered, IInv
  <2>3. Working(w)'
    <3>1. ents'[w] = {}
      BY <1>0, FineFacts DEF Working, Emptying
    <3>2. IsFiniteSet({}) /\ Cardinality({}) = 0
      BY FS_EmptySet
    <3>3. count'[cur'[w]] <= Len(pack'[cur'[w]]) /\ count'[cur'[w]] \in Nat
      <4> DEFINE c == cur'[w]
      <4>1. CASE pack[c] # NoFile
        BY <1>5, <4>1, PackOpenPointwise DEF IInv, Counting
      <4>2. CASE pack[c] = NoFile
        BY <1>5, <4>2, PackOpenPointwise, EmptyPack
      <4> QED BY <4>1, <4>2
    <3> QED
      BY <1>5, <3>1, <3>2, <3>3, PackOpenPointwise DEF Working
  <2>4. \A o \in Owed(w)' : Seen(w, o)'
    <3>1. Hands(w) \subseteq Hands(w)'
      BY <1>0, <1>5 DEF Hands, Emptying
    <3> QED
      BY <1>0, <1>1, <1>5, <3>1, PackOpenExtends, SeenLater DEF Later, Holding
  <2> QED
    BY <1>0, <2>1, <2>2, <2>3, <2>4, FineFacts DEF Fine
<1>7. Past'
  <2>1. \A s \in Seqno : /\ idx'[s] # NoFile => s < next'[w]
                         /\ (\E p \in Proc : runs'[p][s] # NoFile) => s < next'[w]
                         /\ pack'[s] # NoFile =>
                              s < next'[w] \/ (pc'[w] = "feed" /\ s = cur'[w])
    BY <1>0, <1>5, PastFacts, PackOpenPointwise DEF Holding
  <2> QED
    BY <1>0, <1>2, <2>1, PastNext
<1>8. Covered'
  BY <1>0, <1>2, PackOpenExtends, CoveredGrows DEF Emptying
<1>9. Counting'
  BY PackOpenPointwise, EmptyPack DEF IInv, Counting
<1>10. IndexRight'
  BY <1>0, PackOpenPointwise, PackOpenExtends, PointsExtend, EntryTypes
  DEF IInv, IndexRight, TypeOK, Packs
<1> QED
  BY <1>0, <1>1, <1>2, <1>3, <1>4, <1>6, <1>7, <1>8, <1>9, <1>10, PackOpenExtends, DiskFrame

\* An object goes to the end of the file the pack is in, and the entry says so.
LEMMA PackFeedFacts ==
  ASSUME IInv, NEW w \in Writer, NEW o \in Obj, PackFeed(w, o),
         NEW x, x = [obj |-> o, file |-> cur[w], pos |-> Len(pack[cur[w]]) + 1]
  PROVE  /\ x \in Entry /\ pack' \in Packs
         /\ Extends(pack, pack') /\ Points(pack', x)
         /\ \A s \in Seqno : s # cur[w] => pack'[s] = pack[s]
         /\ cur[w] \in Seqno /\ pack[cur[w]] # NoFile /\ pack'[cur[w]] # NoFile
         /\ Len(pack[cur[w]]) \in Nat /\ Len(pack'[cur[w]]) = Len(pack[cur[w]]) + 1
<1> DEFINE c == cur[w]
<1>0. w \in Proc /\ pc[w] = "feed"
  BY WriterFacts DEF PackFeed
<1>1. /\ c \in Seqno /\ pack[c] # NoFile /\ pack \in Packs
      /\ Len(pack[c]) < MaxLen
      /\ pack' = [pack EXCEPT ![c] = Append(pack[c], o)]
  BY <1>0, FineFacts DEF PackFeed, Working, IInv, TypeOK, Packs
<1> HIDE DEF c
<1>2. pack[c] \in Seq(Obj) /\ Len(pack[c]) \in Nat
  BY <1>1, PackTypes
<1> DEFINE q == Append(pack[c], o)
<1>3. /\ q \in Seq(Obj) /\ Len(q) = Len(pack[c]) + 1
      /\ q[Len(pack[c]) + 1] = o
      /\ \A i \in 1..Len(pack[c]) : q[i] = pack[c][i]
  BY <1>2, AppendProperties
<1>4. q # NoFile
  BY <1>3, NoFileAssumption
<1>5. pack' \in Packs /\ pack'[c] = q /\ \A s \in Seqno : s # c => pack'[s] = pack[s]
  BY <1>1, <1>3 DEF Packs
<1> HIDE DEF q
<1>6. Extends(pack, pack')
  <2> SUFFICES ASSUME NEW s \in Seqno, pack[s] # NoFile
               PROVE  /\ pack'[s] # NoFile /\ Len(pack'[s]) >= Len(pack[s])
                      /\ \A i \in 1..Len(pack[s]) : pack'[s][i] = pack[s][i]
    BY DEF Extends
  <2>1. CASE s = c
    BY <1>2, <1>3, <1>4, <1>5, <2>1
  <2>2. CASE s # c
    BY <1>1, <1>5, <2>2, PackTypes
  <2> QED BY <2>1, <2>2
<1>7. x.obj = o /\ x.file = c /\ x.pos = Len(pack[c]) + 1
  BY DEF c
<1>8. x \in Entry
  BY <1>1, <1>2, <1>7, BoundAssumption DEF Entry, c
<1>9. Points(pack', x)
  BY <1>2, <1>3, <1>4, <1>5, <1>7 DEF Points
<1> QED
  BY <1>1, <1>2, <1>3, <1>4, <1>5, <1>6, <1>8, <1>9 DEF c

LEMMA PackFeedIInv ==
  ASSUME IInv, NEW w \in Writer, NEW o \in Obj, PackFeed(w, o)
  PROVE  IInv'
<1> DEFINE x == [obj |-> o, file |-> cur[w], pos |-> Len(pack[cur[w]]) + 1]
<1>a. /\ x \in Entry /\ pack' \in Packs
      /\ Extends(pack, pack') /\ Points(pack', x)
      /\ \A s \in Seqno : s # cur[w] => pack'[s] = pack[s]
      /\ cur[w] \in Seqno /\ pack[cur[w]] # NoFile /\ pack'[cur[w]] # NoFile
      /\ Len(pack[cur[w]]) \in Nat /\ Len(pack'[cur[w]]) = Len(pack[cur[w]]) + 1
  BY PackFeedFacts
<1>0. /\ w \in Proc /\ w \notin Reader /\ pc[w] = "feed"
      /\ ents' = [ents EXCEPT ![w] = @ \cup {x}]
      /\ pc' = pc /\ cur' = cur /\ maps' = maps /\ count' = count
      /\ idx' = idx /\ lock' = lock /\ runs' = runs /\ todo' = todo /\ next' = next
      /\ committed' = committed /\ before' = before /\ missed' = missed
  BY WriterFacts DEF PackFeed, hist
<1> HIDE DEF x
<1>b. ents'[w] = ents[w] \cup {x}
  BY <1>0 DEF IInv, TypeOK
<1>1. TypeOK'
  BY <1>0, <1>a DEF IInv, TypeOK, Packs
<1>2. Others(w) /\ KeepsRuns /\ NewRuns(w) /\ Told(w) /\ lock = w
  BY <1>0, HolderFacts DEF Others, KeepsRuns, NewRuns, Told, IInv, TypeOK, Holding
<1>3. OnDisk \subseteq OnDisk'
  BY <1>0, <1>2, OnDiskGrows DEF Emptying
<1>4. Durable'
  BY <1>0, <1>1, <1>3, <1>a, DurableKept
<1>5. \A e \in Entry : Points(pack, e) => Points(pack', e)
  BY <1>a, PointsExtend DEF IInv, TypeOK, Packs
<1>6. Fine(w)'
  <2>1. Stands(w)'
    BY <1>0, <1>2, FineFacts DEF Stands
  <2>2. Registered(w)'
    <3>1. Extends(maps[w], pack')
      BY <1>0, <1>a, FineFacts, ExtendsTrans DEF Registered, IInv, TypeOK, Packs
    <3> QED
      BY <1>0, <1>5, <3>1, FineFacts, EntryTypes DEF Registered, IInv
  <2>3. Working(w)'
    <3>1. /\ IsFiniteSet(ents[w])
          /\ count[cur[w]] + Cardinality(ents[w]) <= Len(pack[cur[w]])
      BY <1>0, FineFacts DEF Working
    <3>2. /\ IsFiniteSet(ents'[w]) /\ Cardinality(ents[w]) \in Nat
          /\ Cardinality(ents'[w]) \in Nat /\ Cardinality(ents'[w]) <= Cardinality(ents[w]) + 1
      <4>1. Cardinality(ents[w]) \in Nat
        BY <3>1, FS_CardinalityType
      <4>2. /\ IsFiniteSet(ents[w] \cup {x})
            /\ \/ Cardinality(ents[w] \cup {x}) = Cardinality(ents[w])
               \/ Cardinality(ents[w] \cup {x}) = Cardinality(ents[w]) + 1
        BY <3>1, FS_AddElement
      <4> QED
        BY <1>b, <4>1, <4>2
    <3>3. count[cur[w]] \in Nat
      BY <1>a DEF IInv, TypeOK
    <3>4. count[cur[w]] + Cardinality(ents'[w]) <= Len(pack'[cur[w]])
      BY <1>a, <3>1, <3>2, <3>3
    <3>5. \A e \in ents'[w] : Points(pack', e)
      BY <1>0, <1>a, <1>b, <1>5, FineFacts, EntryTypes DEF Working, IInv
    <3> QED
      BY <1>0, <1>a, <3>2, <3>4, <3>5 DEF Working, Emptying
  <2>4. \A p \in Writer : p = w => \A q \in Owed(p)' : Seen(p, q)'
    <3>1. Hands(w) \subseteq Hands(w)'
      BY <1>0 DEF Hands, Emptying
    <3>2. Extends(maps[w], maps'[w])
      BY <1>0, ExtendsSelf DEF IInv, TypeOK, Packs
    <3> QED
      BY <1>0, <1>1, <3>1, <3>2, SeenLater DEF Later, Holding
  <2> QED
    BY <1>0, <2>1, <2>2, <2>3, <2>4, FineFacts DEF Fine
<1>7. Past'
  <2>1. \A s \in Seqno : /\ idx'[s] # NoFile => s < next'[w]
                         /\ (\E p \in Proc : runs'[p][s] # NoFile) => s < next'[w]
                         /\ pack'[s] # NoFile =>
                              s < next'[w] \/ (pc'[w] = "feed" /\ s = cur'[w])
    BY <1>0, <1>a, PastFacts DEF Holding
  <2> QED
    BY <1>0, <1>2, <2>1, PastNext
<1>8. Covered'
  BY <1>0, <1>2, <1>a, CoveredGrows DEF Emptying
<1>9. Counting'
  <2> SUFFICES ASSUME NEW s \in Seqno, pack'[s] # NoFile
               PROVE  count[s] <= Len(pack'[s])
    BY <1>0 DEF Counting
  <2>1. CASE s = cur[w]
    BY <1>a, <2>1 DEF IInv, Counting, TypeOK
  <2>2. CASE s # cur[w]
    BY <1>a, <2>2 DEF IInv, Counting
  <2> QED BY <2>1, <2>2
<1>10. IndexRight'
  BY <1>0, <1>5, EntryTypes DEF IInv, IndexRight
<1> QED
  BY <1>0, <1>1, <1>2, <1>3, <1>4, <1>6, <1>7, <1>8, <1>9, <1>10, <1>a, DiskFrame

LEMMA PackTrimIInv ==
  ASSUME IInv, NEW w \in Writer, PackTrim(w)
  PROVE  IInv'
<1> DEFINE c == cur[w]
<1>0. /\ w \in Proc /\ w \notin Reader /\ pc[w] = "feed"
      /\ pc' = [pc EXCEPT ![w] = "trimmed"]
      /\ count' = [count EXCEPT ![c] = @ + Cardinality(ents[w])]
      /\ maps' = [maps EXCEPT ![w][c] = pack[c]]
      /\ next' = [next EXCEPT ![w] = IF c >= @ THEN c + 1 ELSE @]
      /\ pack' = pack /\ idx' = idx
      /\ lock' = lock /\ runs' = runs /\ todo' = todo /\ cur' = cur /\ ents' = ents
      /\ committed' = committed /\ before' = before /\ missed' = missed
  BY WriterFacts DEF PackTrim, Goto, hist
<1>a. /\ c \in Seqno /\ pack[c] # NoFile /\ pack \in Packs /\ maps \in [Proc -> Packs]
      /\ IsFiniteSet(ents[w]) /\ count[c] + Cardinality(ents[w]) <= Len(pack[c])
      /\ next[w] \in 1..MaxSeq + 1 /\ count \in [Seqno -> Nat]
      /\ Extends(maps[w], pack) /\ maps[w] \in Packs
  BY <1>0, FineFacts DEF Working, Registered, IInv, TypeOK, Packs
<1> HIDE DEF c
<1>b. /\ maps' \in [Proc -> Packs] /\ \A q \in Proc : q # w => maps'[q] = maps[q]
      /\ maps'[w][c] = pack[c] /\ \A s \in Seqno : s # c => maps'[w][s] = maps[w][s]
  <2>1. pack[c] \in Seq(Obj) \cup {NoFile}
    BY <1>a DEF Packs
  <2>2. maps' = [maps EXCEPT ![w] = [maps[w] EXCEPT ![c] = pack[c]]]
    BY <1>0, <1>a
  <2>3. [maps[w] EXCEPT ![c] = pack[c]] \in Packs
    BY <1>a, <2>1 DEF Packs
  <2>4. maps'[w] = [maps[w] EXCEPT ![c] = pack[c]]
    BY <1>0, <1>a, <2>2
  <2>5. maps'[w][c] = pack[c] /\ \A s \in Seqno : s # c => maps'[w][s] = maps[w][s]
    BY <1>a, <2>4 DEF Packs
  <2> QED
    BY <1>0, <1>a, <2>2, <2>3, <2>5
<1>c. Extends(maps'[w], pack) /\ Extends(maps[w], maps'[w])
  <2>1. ASSUME NEW s \in Seqno, maps'[w][s] # NoFile
        PROVE  /\ pack[s] # NoFile /\ Len(pack[s]) >= Len(maps'[w][s])
               /\ \A i \in 1..Len(maps'[w][s]) : pack[s][i] = maps'[w][s][i]
    <3>1. CASE s = c
      BY <1>a, <1>b, <3>1, PackTypes
    <3>2. CASE s # c
      BY <1>a, <1>b, <2>1, <3>2 DEF Extends
    <3> QED BY <3>1, <3>2
  <2>2. ASSUME NEW s \in Seqno, maps[w][s] # NoFile
        PROVE  /\ maps'[w][s] # NoFile /\ Len(maps'[w][s]) >= Len(maps[w][s])
               /\ \A i \in 1..Len(maps[w][s]) : maps'[w][s][i] = maps[w][s][i]
    <3>1. CASE s = c
      BY <1>a, <1>b, <2>2, <3>1 DEF Extends
    <3>2. CASE s # c
      BY <1>a, <1>b, <2>2, <3>2, PackTypes
    <3> QED BY <3>1, <3>2
  <2> QED
    BY <2>1, <2>2 DEF Extends
<1>d. /\ next' \in [Proc -> 1..MaxSeq + 1] /\ next'[w] > c /\ next'[w] >= next[w]
      /\ \A q \in Proc : q # w => next'[q] = next[q]
  BY <1>0, <1>a, BoundAssumption DEF IInv, TypeOK, Seqno
<1>e. /\ count' \in [Seqno -> Nat] /\ count'[c] = count[c] + Cardinality(ents[w])
      /\ \A s \in Seqno : s # c => count'[s] = count[s]
  BY <1>0, <1>a, FS_CardinalityType
<1>1. TypeOK'
  BY <1>0, <1>b, <1>d, <1>e DEF IInv, TypeOK, Packs, PC
<1>2. Others(w) /\ KeepsRuns /\ NewRuns(w) /\ Told(w) /\ lock = w
  BY <1>0, <1>b, <1>d, HolderFacts
  DEF Others, KeepsRuns, NewRuns, Told, IInv, TypeOK, Holding
<1>3. OnDisk \subseteq OnDisk' /\ Extends(pack, pack')
  BY <1>0, <1>2, OnDiskGrows, ExtendsSelf DEF Emptying, IInv, TypeOK, Packs
<1>4. Durable'
  BY <1>0, <1>1, <1>3, DurableKept
<1>5. pc'[w] = "trimmed"
  BY <1>0 DEF IInv, TypeOK
<1>6. Fine(w)'
  <2>1. Stands(w)'
    BY <1>0, <1>2, <1>5 DEF Stands, Holding
  <2>2. Registered(w)'
    BY <1>0, <1>c, FineFacts DEF Registered, Points
  <2>3. Working(w)'
    BY <1>0, <1>5, FineFacts DEF Working, Points
  <2>4. \A o \in Owed(w)' : Seen(w, o)'
    <3>1. Hands(w) \subseteq Hands(w)'
      BY <1>0, <1>5 DEF Hands, Emptying
    <3> QED
      BY <1>0, <1>1, <1>5, <1>c, <3>1, SeenLater DEF Later, Holding
  <2> QED
    BY <1>0, <2>1, <2>2, <2>3, <2>4, FineFacts DEF Fine
<1>7. Past'
  <2>1. \A s \in Seqno : /\ idx'[s] # NoFile => s < next'[w]
                         /\ (\E p \in Proc : runs'[p][s] # NoFile) => s < next'[w]
                         /\ pack'[s] # NoFile =>
                              s < next'[w] \/ (pc'[w] = "feed" /\ s = cur'[w])
    <3>1. \A s \in Seqno : s < next[w] \/ s = c => s < next'[w]
      BY <1>0, <1>a, <1>d, BoundAssumption DEF Seqno
    <3> QED
      BY <1>0, <3>1, PastFacts DEF Holding, c
  <2> QED
    BY <1>0, <1>2, <2>1, PastNext
<1>8. Covered'
  BY <1>0, <1>2, <1>3, CoveredGrows DEF Emptying
<1>9. Counting'
  BY <1>0, <1>a, <1>e DEF IInv, Counting
<1>10. IndexRight'
  BY <1>0 DEF IInv, IndexRight, Points
<1> QED
  BY <1>0, <1>1, <1>2, <1>3, <1>4, <1>6, <1>7, <1>8, <1>9, <1>10, DiskFrame

\* The run goes under a number that nothing uses, so it replaces nothing.
LEMMA CreateRunFacts ==
  ASSUME IInv, NEW w \in Writer, pc[w] \in {"trimmed", "gap"}, CreateRun(w, ents[w])
  PROVE  /\ next[w] \in Seqno /\ idx[next[w]] = NoFile /\ lock = w
         /\ idx' \in Runs /\ idx'[next[w]] = ents[w] /\ ents[w] # NoFile
         /\ \A s \in Seqno : s # next[w] => idx'[s] = idx[s]
         /\ runs' \in [Proc -> Runs] /\ runs'[w][next[w]] = ents[w]
         /\ \A s \in Seqno : s # next[w] => runs'[w][s] = runs[w][s]
         /\ \A q \in Proc : runs[q][next[w]] = NoFile
         /\ \A q \in Proc : q # w => runs'[q] = runs[q] /\ next'[q] = next[q]
         /\ next' \in [Proc -> 1..MaxSeq + 1] /\ next'[w] = next[w] + 1
         /\ KeepsRuns /\ NewRuns(w) /\ Told(w)
<1> DEFINE n == next[w]
<1>0. /\ w \in Proc /\ n \in Seqno
      /\ idx' = [idx EXCEPT ![n] = ents[w]]
      /\ runs' = [runs EXCEPT ![w][n] = ents[w]]
      /\ next' = [next EXCEPT ![w] = n + 1]
      /\ idx \in Runs /\ runs \in [Proc -> Runs] /\ ents[w] \in SUBSET Entry
  BY WriterFacts, BoundAssumption DEF CreateRun, IInv, TypeOK, Runs, Seqno
<1>2. lock = w /\ idx[n] = NoFile /\ \A q \in Proc : runs[q][n] = NoFile
  <2>1. /\ lock = w
        /\ idx[n] # NoFile => n < n
        /\ (\E q \in Proc : runs[q][n] # NoFile) => n < n
    BY <1>0, PastFacts DEF Holding
  <2> QED
    BY <1>0, <2>1 DEF Seqno
<1>3. next' \in [Proc -> 1..MaxSeq + 1] /\ next'[w] = n + 1
  BY <1>0, BoundAssumption DEF IInv, TypeOK, Seqno
<1>8. \A q \in Proc : q # w => next'[q] = next[q]
  BY <1>0 DEF IInv, TypeOK
<1> HIDE DEF n
<1>4. ents[w] # NoFile
  BY <1>0, NoFileAssumption
<1>5. /\ idx' \in Runs /\ idx'[n] = ents[w]
      /\ \A s \in Seqno : s # n => idx'[s] = idx[s]
  BY <1>0 DEF Runs
<1>6. /\ runs' = [runs EXCEPT ![w] = [runs[w] EXCEPT ![n] = ents[w]]]
      /\ runs[w] \in Runs
  BY <1>0
<1>7. /\ [runs[w] EXCEPT ![n] = ents[w]] \in Runs
      /\ [runs[w] EXCEPT ![n] = ents[w]][n] = ents[w]
      /\ \A s \in Seqno : s # n => [runs[w] EXCEPT ![n] = ents[w]][s] = runs[w][s]
  BY <1>0, <1>6 DEF Runs
<1>9. /\ runs' \in [Proc -> Runs] /\ runs'[w] = [runs[w] EXCEPT ![n] = ents[w]]
      /\ \A q \in Proc : q # w => runs'[q] = runs[q]
  BY <1>0, <1>6, <1>7
<1>10. KeepsRuns
  BY <1>2, <1>5 DEF KeepsRuns
<1>11. NewRuns(w) /\ Told(w)
  BY <1>2, <1>5, <1>10 DEF NewRuns, Told, KeepsRuns, IInv, TypeOK
<1> QED
  BY <1>0, <1>2, <1>3, <1>4, <1>5, <1>7, <1>8, <1>9, <1>10, <1>11 DEF n

\* A created run is past every number, covers every registry and points right.
LEMMA CreateRunKept ==
  ASSUME IInv, NEW w \in Writer, pc[w] \in {"trimmed", "gap"}, CreateRun(w, ents[w]),
         pack' = pack, lock' = lock, maps' = maps
  PROVE  Past' /\ Covered' /\ IndexRight' /\ Registered(w)'
<1> DEFINE n == next[w]
<1>0. /\ w \in Proc /\ n \in Seqno /\ lock = w
      /\ idx'[n] = ents[w] /\ ents[w] # NoFile
      /\ \A s \in Seqno : s # n => idx'[s] = idx[s]
      /\ runs'[w][n] = ents[w]
      /\ \A s \in Seqno : s # n => runs'[w][s] = runs[w][s]
      /\ \A q \in Proc : q # w => runs'[q] = runs[q]
      /\ \A q \in Proc : runs[q][n] = NoFile
      /\ next'[w] = n + 1
  BY WriterFacts, CreateRunFacts
<1>1. \A s \in Seqno : /\ idx[s] # NoFile => s < n
                       /\ (\E p \in Proc : runs[p][s] # NoFile) => s < n
                       /\ pack[s] # NoFile => s < n
  BY PastFacts DEF Holding
<1> HIDE DEF n
<1>2. \A s \in Seqno : (s < n \/ s = n) => s < n + 1
  BY <1>0 DEF Seqno
<1>3. Past'
  <2>1. \A s \in Seqno : /\ idx'[s] # NoFile => s < next'[w]
                         /\ (\E p \in Proc : runs'[p][s] # NoFile) => s < next'[w]
                         /\ pack'[s] # NoFile =>
                              s < next'[w] \/ (pc'[w] = "feed" /\ s = cur'[w])
    BY <1>0, <1>1, <1>2
  <2> QED
    BY <1>0, <2>1, PastNext
<1>4. Covered'
  <2> SUFFICES ASSUME NEW q \in Proc, NEW s \in Seqno, runs'[q][s] # NoFile
               PROVE  \E t \in Seqno : t >= s /\ (idx'[t] # NoFile \/ pack'[t] # NoFile)
    BY DEF Covered
  <2>1. s < n \/ s = n
    BY <1>0, <1>1
  <2> QED
    BY <1>0, <2>1 DEF Seqno
<1>5. \A e \in ents[w] : Points(pack, e)
  BY <1>0, FineFacts DEF Working
<1>6. IndexRight'
  <2> SUFFICES ASSUME NEW s \in Seqno, idx'[s] # NoFile, NEW e \in idx'[s]
               PROVE  Points(pack, e)
    BY DEF IndexRight
  <2>1. CASE s = n
    BY <1>0, <1>5, <2>1
  <2>2. CASE s # n
    BY <1>0, <2>2 DEF IInv, IndexRight
  <2> QED BY <2>1, <2>2
<1>7. Registered(w)'
  <2>1. Extends(maps'[w], pack')
    BY <1>0, FineFacts DEF Registered
  <2>2. ASSUME NEW s \in Seqno, runs'[w][s] # NoFile
        PROVE  /\ idx'[s] # NoFile => idx'[s] = runs'[w][s]
               /\ \A e \in runs'[w][s] : Points(pack, e)
    <3>1. CASE s = n
      BY <1>0, <1>5, <3>1
    <3>2. CASE s # n
      BY <1>0, <2>2, <3>2, FineFacts DEF Registered
    <3> QED BY <3>1, <3>2
  <2> QED
    BY <2>1, <2>2 DEF Registered
<1> QED
  BY <1>3, <1>4, <1>6, <1>7

LEMMA PublishIdxIInv ==
  ASSUME IInv, NEW w \in Writer, PublishIdx(w)
  PROVE  IInv'
<1>0. /\ w \in Proc /\ w \notin Reader /\ pc[w] = "trimmed"
      /\ CreateRun(w, ents[w])
      /\ pc' = [pc EXCEPT ![w] = "compact"]
      /\ committed' = committed \cup {e.obj : e \in ents[w]}
      /\ ents' = [ents EXCEPT ![w] = {}] /\ cur' = [cur EXCEPT ![w] = 0]
      /\ pack' = pack /\ count' = count /\ lock' = lock /\ maps' = maps /\ todo' = todo
      /\ before' = before /\ missed' = missed
  BY WriterFacts DEF PublishIdx, Goto
<1>1. TypeOK'
  <2>1. committed' \subseteq Obj
    <3>1. \A e \in ents[w] : e.obj \in Obj
      BY <1>0, EntryTypes DEF IInv, Entry
    <3> QED BY <1>0, <3>1 DEF IInv, TypeOK
  <2>2. /\ pc' \in [Proc -> PC] /\ ents' \in [Proc -> SUBSET Entry]
        /\ cur' \in [Proc -> 0..MaxSeq]
    BY <1>0, BoundAssumption DEF IInv, TypeOK, PC
  <2> QED
    BY <1>0, <2>1, <2>2, CreateRunFacts DEF IInv, TypeOK, Runs
<1>2. Others(w)
  <2>1. \A q \in Proc : q # w => runs'[q] = runs[q] /\ next'[q] = next[q]
    BY <1>0, CreateRunFacts
  <2>2. \A q \in Proc : q # w =>
          pc'[q] = pc[q] /\ ents'[q] = ents[q] /\ cur'[q] = cur[q]
    BY <1>0 DEF IInv, TypeOK
  <2> QED BY <1>0, <2>1, <2>2 DEF Others
<1>3. /\ OnDisk \subseteq OnDisk' /\ Extends(pack, pack')
  BY <1>0, <1>2, CreateRunFacts, OnDiskGrows, ExtendsSelf DEF Emptying, IInv, TypeOK, Packs
<1>4. Durable'
  <2> SUFFICES ASSUME NEW o \in committed' \ committed
               PROVE  \E e \in OnDisk' : e.obj = o /\ Points(pack', e)
    BY <1>1, <1>3, DurableKept
  <2>1. PICK e \in ents[w] : e.obj = o
    BY <1>0
  <2>2. Points(pack, e)
    BY <1>0, <2>1, FineFacts DEF Working
  <2>3. e \in OnDisk'
    BY <1>0, <2>1, CreateRunFacts DEF OnDisk, EntriesOf, Present
  <2> QED BY <1>0, <2>1, <2>2, <2>3
<1>5. pc'[w] = "compact" /\ ents'[w] = {}
  BY <1>0 DEF IInv, TypeOK
<1>6. Fine(w)'
  <2>1. Stands(w)'
    BY <1>0, <1>5, CreateRunFacts DEF Stands, Holding
  <2>2. Registered(w)'
    BY <1>0, CreateRunKept
  <2>3. Working(w)'
    BY <1>5 DEF Working
  <2>4. \A o \in Owed(w)' : Seen(w, o)'
    <3>1. Hands(w) \subseteq Hands(w)'
      BY <1>0, <1>5, CreateRunFacts, EntriesFacts DEF Hands, Emptying
    <3>2. Extends(maps[w], maps'[w])
      BY <1>0, ExtendsSelf DEF IInv, TypeOK, Packs
    <3> QED
      BY <1>0, <1>1, <1>5, <3>1, <3>2, SeenLater DEF Later, Holding
  <2>5. before'[w] \subseteq committed'
    BY <1>0, FineFacts
  <2> QED
    BY <2>1, <2>2, <2>3, <2>4, <2>5 DEF Fine
<1>7. Past' /\ Covered' /\ IndexRight' /\ Counting'
  BY <1>0, CreateRunKept DEF IInv, Counting
<1>8. NewRuns(w) /\ Told(w) /\ lock = w /\ committed \subseteq committed'
  BY <1>0, CreateRunFacts
<1> QED
  BY <1>0, <1>1, <1>2, <1>3, <1>4, <1>6, <1>7, <1>8, DiskFrame

----------------------------------------------------------------------------
\* Compacting

LEMMA CompactNotIInv ==
  ASSUME IInv, NEW w \in Writer, CompactNot(w)
  PROVE  IInv'
<1> USE DEF CompactNot, Goto, hist, disk, mine
<1>0. w \in Proc /\ w \notin Reader
  BY WriterFacts
<1>1. TypeOK'
  BY <1>0 DEF IInv, TypeOK, PC
<1>2. QuietStep(w)
  BY <1>0 DEF QuietStep, Others, IInv, TypeOK, Emptying
<1>3. pc'[w] = "ready"
  BY <1>0 DEF IInv, TypeOK
<1>4. Past'
  BY <1>0, <1>2, PastKept
<1>5. Fine(w)'
  <2>1. Stands(w)'
    BY <1>0, <1>3, HolderFacts DEF Stands, Holding
  <2>2. Registered(w)'
    BY <1>0, FineFacts DEF Registered, Extends, Points
  <2>3. Working(w)'
    BY <1>0, <1>3, FineFacts DEF Working, Points, Emptying
  <2>4. \A o \in Owed(w)' : Seen(w, o)'
    <3>1. Hands(w) \subseteq Hands(w)' /\ pc[w] = "compact"
      BY <1>0, <1>3 DEF Hands, EntriesOf, Present, Emptying
    <3>2. Extends(maps[w], maps'[w])
      BY <1>0, ExtendsSelf DEF IInv, TypeOK, Packs
    <3>3. before'[w] = before[w] /\ missed'[w] = missed[w]
      OBVIOUS
    <3> QED
      BY <1>0, <1>1, <1>3, <3>1, <3>2, <3>3, SeenLater DEF Later, Holding
  <2> QED
    BY <1>0, <2>1, <2>2, <2>3, <2>4, FineFacts DEF Fine
<1> QED
  BY <1>0, <1>1, <1>2, <1>4, <1>5, QuietFrame

LEMMA YoungestFacts ==
  ASSUME NEW f, NEW m \in Nat, m >= 2, m <= Cardinality(Present(f))
  PROVE  /\ Youngest(f, m) \subseteq Present(f)
         /\ Youngest(f, m) # {}
<1>1. Cardinality({}) = 0
  BY FS_EmptySet
<1>2. Present(f) # {} /\ Present(f) \in SUBSET Seqno
  BY <1>1 DEF Present
<1>3. /\ MaxOf(Present(f)) \in Present(f)
      /\ \A n \in Present(f) : n <= MaxOf(Present(f))
  BY <1>2, MaxOfFacts
<1>4. {t \in Present(f) : t > MaxOf(Present(f))} = {}
  BY <1>2, <1>3 DEF Seqno
<1>5. MaxOf(Present(f)) \in Youngest(f, m)
  BY <1>1, <1>3, <1>4 DEF Youngest
<1> QED
  BY <1>5 DEF Youngest

LEMMA MergeIInv ==
  ASSUME IInv, NEW w \in Writer, NEW m \in 2..MaxSeq, Merge(w, m)
  PROVE  IInv'
<1> DEFINE ys == Youngest(runs[w], m)
<1>0. /\ w \in Proc /\ w \notin Reader /\ pc[w] \in {"compact", "ready"}
      /\ pc' = [pc EXCEPT ![w] = "thin"]
      /\ todo' = [todo EXCEPT ![w] = ys]
      /\ ents' = [ents EXCEPT ![w] = UNION {runs[w][s] : s \in todo'[w]}]
      /\ UNCHANGED disk
      /\ lock' = lock /\ maps' = maps /\ runs' = runs /\ next' = next /\ cur' = cur
      /\ committed' = committed /\ before' = before /\ missed' = missed
  BY WriterFacts DEF Merge, Goto, hist
<1>b. ys \subseteq Present(runs[w]) /\ ys # {} /\ ys \in SUBSET Seqno
  BY YoungestFacts DEF Merge, Present
<1> HIDE DEF ys
<1>c. todo'[w] = ys /\ todo' \in [Proc -> SUBSET Seqno] /\ pc'[w] = "thin"
  BY <1>0, <1>b DEF IInv, TypeOK
<1>d. ents'[w] = UNION {runs[w][s] : s \in ys}
  BY <1>0, <1>c DEF IInv, TypeOK
<1>e. /\ \A s \in ys : s \in Seqno /\ runs[w][s] # NoFile /\ runs[w][s] \subseteq ents'[w]
      /\ \A e \in ents'[w] : e \in Entry /\ Points(pack, e)
  <2>1. \A s \in ys : s \in Seqno /\ runs[w][s] # NoFile
    BY <1>b DEF Present
  <2>2. ASSUME NEW s \in ys, NEW e \in runs[w][s]
        PROVE  e \in Entry /\ Points(pack, e)
    BY <1>0, <2>1, EntryTypes, FineFacts DEF IInv, Registered
  <2> QED
    BY <1>d, <2>1, <2>2
<1>1. TypeOK'
  <2>1. ents' \in [Proc -> SUBSET Entry]
    <3>1. ents'[w] \in SUBSET Entry
      BY <1>e
    <3> QED BY <1>0, <3>1 DEF IInv, TypeOK
  <2> QED
    BY <1>0, <1>c, <2>1 DEF IInv, TypeOK, PC, disk
<1>2. QuietStep(w)
  BY <1>0 DEF QuietStep, Others, IInv, TypeOK, Emptying
<1>4. Past'
  BY <1>0, <1>2, PastKept
<1>5. Fine(w)'
  <2>1. Stands(w)'
    BY <1>0, <1>c, HolderFacts DEF Stands, Holding
  <2>2. Registered(w)'
    BY <1>0, FineFacts DEF Registered, Points, disk
  <2>3. Working(w)'
    BY <1>0, <1>b, <1>c, <1>e DEF Working, Emptying, Points, disk
  <2>4. \A o \in Owed(w)' : Seen(w, o)'
    <3>1. Hands(w) \subseteq Hands(w)'
      BY <1>0, <1>c DEF Hands, Emptying
    <3>2. Extends(maps[w], maps'[w])
      BY <1>0, ExtendsSelf DEF IInv, TypeOK, Packs
    <3> QED
      BY <1>0, <1>1, <1>c, <3>1, <3>2, SeenLater DEF Later, Holding
  <2> QED
    BY <1>0, <2>1, <2>2, <2>3, <2>4, FineFacts DEF Fine
<1> QED
  BY <1>0, <1>1, <1>2, <1>4, <1>5, QuietFrame

\* A run goes, but its entries are in the writer's hands, and whoever has it on
\* its list counts its objects as missed.
LEMMA ThinTailIInv ==
  ASSUME IInv, NEW w \in Writer, ThinTail(w)
  PROVE  IInv'
<1> DEFINE m == MinOf(todo[w])
<1>0. /\ w \in Proc /\ w \notin Reader /\ pc[w] = "thin"
      /\ idx' = [idx EXCEPT ![m] = NoFile]
      /\ runs' = [runs EXCEPT ![w][m] = NoFile]
      /\ todo' = [todo EXCEPT ![w] = @ \ {m}]
      /\ pc' = [pc EXCEPT ![w] = IF todo[w] = {m} THEN "gap" ELSE "thin"]
      /\ missed' = [p \in Proc |->
              IF pc[p] = "map" /\ m \in todo[p] /\ idx[m] # NoFile
                THEN missed[p] \cup ObjectsOf(idx[m]) ELSE missed[p]]
      /\ pack' = pack /\ count' = count /\ lock' = lock /\ maps' = maps /\ next' = next
      /\ cur' = cur /\ ents' = ents /\ committed' = committed /\ before' = before
  BY WriterFacts DEF ThinTail, Goto
<1>a. /\ todo[w] # {} /\ lock = w
      /\ \A s \in todo[w] : runs[w][s] # NoFile /\ runs[w][s] \subseteq ents[w]
  BY <1>0, FineFacts, HolderFacts DEF Working, Holding
<1>b. m \in todo[w] /\ m \in Seqno
  BY <1>0, <1>a, MinOfFacts DEF IInv, TypeOK
<1> HIDE DEF m
<1>c. /\ idx' \in Runs /\ idx'[m] = NoFile
      /\ \A s \in Seqno : s # m => idx'[s] = idx[s]
  BY <1>0, <1>b DEF IInv, TypeOK, Runs
<1>d. /\ runs' \in [Proc -> Runs] /\ runs'[w][m] = NoFile
      /\ \A s \in Seqno : s # m => runs'[w][s] = runs[w][s]
      /\ \A q \in Proc : q # w => runs'[q] = runs[q]
  <2>1. runs \in [Proc -> Runs] /\ runs[w] \in Runs
    BY <1>0 DEF IInv, TypeOK, Runs
  <2>2. runs' = [runs EXCEPT ![w] = [runs[w] EXCEPT ![m] = NoFile]]
    BY <1>0, <2>1
  <2>3. /\ [runs[w] EXCEPT ![m] = NoFile] \in Runs
        /\ [runs[w] EXCEPT ![m] = NoFile][m] = NoFile
        /\ \A s \in Seqno : s # m => [runs[w] EXCEPT ![m] = NoFile][s] = runs[w][s]
    BY <1>b, <2>1 DEF Runs
  <2> QED BY <1>0, <2>1, <2>2, <2>3
<1>f. /\ todo' \in [Proc -> SUBSET Seqno] /\ todo'[w] = todo[w] \ {m}
      /\ pc' \in [Proc -> PC] /\ pc'[w] = IF todo[w] = {m} THEN "gap" ELSE "thin"
  BY <1>0 DEF IInv, TypeOK, PC
<1>g. /\ \A q \in Proc : missed[q] \subseteq missed'[q]
      /\ \A q \in Proc : pc[q] = "map" /\ m \in todo[q] /\ idx[m] # NoFile =>
           ObjectsOf(idx[m]) \subseteq missed'[q]
      /\ missed'[w] = missed[w]
  BY <1>0
<1>1. TypeOK'
  <2>1. missed' \in [Proc -> SUBSET Obj]
    <3>1. idx[m] # NoFile => ObjectsOf(idx[m]) \subseteq Obj
      BY <1>b, EntryTypes DEF IInv, ObjectsOf, Entry
    <3> QED
      BY <1>0, <3>1 DEF IInv, TypeOK
  <2> QED
    BY <1>0, <1>c, <1>d, <1>f, <2>1 DEF IInv, TypeOK, Runs
<1>2. Others(w) /\ NewRuns(w) /\ Told(w) /\ Extends(pack, pack')
  <2>1. Others(w)
    BY <1>0, <1>d, <1>g DEF Others, IInv, TypeOK
  <2>2. NewRuns(w) /\ Told(w)
    BY <1>c, <1>g DEF NewRuns, Told
  <2> QED
    BY <1>0, <2>1, <2>2, ExtendsSelf DEF IInv, TypeOK, Packs
<1>3. OnDisk \subseteq OnDisk'
  <2> SUFFICES ASSUME NEW e \in OnDisk
               PROVE  e \in OnDisk'
    OBVIOUS
  <2>1. CASE \E v \in Writer : pc[v] \in {"thin", "gap"} /\ e \in ents[v]
    <3>1. PICK v \in Writer : pc[v] \in {"thin", "gap"} /\ e \in ents[v]
      BY <2>1
    <3>2. pc'[v] \in {"thin", "gap"} /\ e \in ents'[v]
      BY <1>0, <1>2, <1>f, <3>1, WriterFacts DEF Others
    <3> QED BY <3>2 DEF OnDisk
  <2>2. CASE \E s \in Seqno : idx[s] # NoFile /\ e \in idx[s]
    <3>1. PICK s \in Seqno : idx[s] # NoFile /\ e \in idx[s]
      BY <2>2
    <3>2. CASE s = m
      <4>1. idx[m] = runs[w][m]
        BY <1>0, <1>a, <1>b, <3>1, <3>2, FineFacts DEF Registered
      <4>2. e \in ents'[w] /\ pc'[w] \in {"thin", "gap"}
        BY <1>0, <1>a, <1>b, <1>f, <3>1, <3>2, <4>1
      <4> QED BY <4>2 DEF OnDisk
    <3>3. CASE s # m
      <4>1. idx'[s] # NoFile /\ e \in idx'[s]
        BY <1>c, <3>1, <3>3
      <4> QED BY <4>1 DEF OnDisk, EntriesOf, Present
    <3> QED BY <3>2, <3>3
  <2> QED BY <2>1, <2>2, OnDiskFacts
<1>4. Durable'
  BY <1>0, <1>1, <1>2, <1>3, DurableKept
<1>5. Fine(w)'
  <2>1. Stands(w)'
    BY <1>0, <1>a, <1>f DEF Stands, Holding
  <2>2. Registered(w)'
    BY <1>0, <1>c, <1>d, FineFacts DEF Registered, Points
  <2>3. Working(w)'
    <3>1. pc'[w] = "thin" => todo'[w] # {}
      BY <1>b, <1>f
    <3>2. \A s \in todo'[w] : runs'[w][s] # NoFile /\ runs'[w][s] \subseteq ents'[w]
      <4> SUFFICES ASSUME NEW s \in todo[w], s # m
                   PROVE  runs'[w][s] # NoFile /\ runs'[w][s] \subseteq ents'[w]
        BY <1>f
      <4>1. s \in Seqno
        BY <1>0 DEF IInv, TypeOK
      <4> QED BY <1>0, <1>a, <1>d, <4>1
    <3> QED
      BY <1>0, <1>f, <3>1, <3>2, FineFacts DEF Working, Emptying, Points
  <2>4. \A o \in Owed(w)' : Seen(w, o)'
    <3>1. Hands(w) \subseteq Hands(w)'
      <4> SUFFICES ASSUME NEW e \in Hands(w)
                   PROVE  e \in Hands(w)'
        OBVIOUS
      <4>1. e \in ents[w] \/ \E s \in Seqno : runs[w][s] # NoFile /\ e \in runs[w][s]
        BY <1>0, EntriesFacts DEF Hands
      <4>2. CASE e \in ents[w]
        BY <1>0, <1>f, <4>2 DEF Hands, Emptying
      <4>3. CASE \E s \in Seqno : runs[w][s] # NoFile /\ e \in runs[w][s]
        <5>1. PICK s \in Seqno : runs[w][s] # NoFile /\ e \in runs[w][s]
          BY <4>3
        <5>2. CASE s = m
          BY <1>0, <1>a, <1>b, <1>f, <5>1, <5>2 DEF Hands, Emptying
        <5>3. CASE s # m
          <6>1. e \in EntriesOf(runs'[w])
            BY <1>d, <5>1, <5>3, EntriesFacts
          <6> QED BY <6>1 DEF Hands
        <5> QED BY <5>2, <5>3
      <4> QED BY <4>1, <4>2, <4>3
    <3>2. Extends(maps[w], maps'[w])
      BY <1>0, ExtendsSelf DEF IInv, TypeOK, Packs
    <3> QED
      BY <1>0, <1>1, <1>f, <1>g, <3>1, <3>2, SeenLater DEF Later, Holding
  <2>5. before'[w] \subseteq committed'
    BY <1>0, FineFacts
  <2> QED
    BY <2>1, <2>2, <2>3, <2>4, <2>5 DEF Fine
<1>6. Past'
  <2>1. \A s \in Seqno : /\ idx'[s] # NoFile => idx[s] # NoFile
                         /\ \A p \in Proc : runs'[p][s] # NoFile => runs[p][s] # NoFile
    BY <1>c, <1>d
  <2>2. \A s \in Seqno : /\ idx'[s] # NoFile => s < next'[w]
                         /\ (\E p \in Proc : runs'[p][s] # NoFile) => s < next'[w]
                         /\ pack'[s] # NoFile =>
                              s < next'[w] \/ (pc'[w] = "feed" /\ s = cur'[w])
    BY <1>0, <2>1, PastFacts DEF Holding
  <2> QED
    BY <1>0, <1>a, <2>2, PastNext
<1>7. Covered'
  BY <1>f DEF Covered, Emptying
<1>8. Counting' /\ IndexRight'
  BY <1>0, <1>c DEF IInv, Counting, IndexRight, Points
<1> QED
  BY <1>0, <1>a, <1>1, <1>2, <1>3, <1>4, <1>5, <1>6, <1>7, <1>8, DiskFrame

LEMMA CreateMergedIInv ==
  ASSUME IInv, NEW w \in Writer, CreateMerged(w)
  PROVE  IInv'
<1>0. /\ w \in Proc /\ w \notin Reader /\ pc[w] = "gap"
      /\ CreateRun(w, ents[w])
      /\ pc' = [pc EXCEPT ![w] = "ready"]
      /\ ents' = [ents EXCEPT ![w] = {}]
      /\ pack' = pack /\ count' = count /\ lock' = lock /\ maps' = maps /\ todo' = todo
      /\ cur' = cur /\ committed' = committed /\ before' = before /\ missed' = missed
  BY WriterFacts DEF CreateMerged, Goto, hist
<1>1. TypeOK'
  <2>1. pc' \in [Proc -> PC] /\ ents' \in [Proc -> SUBSET Entry]
    BY <1>0 DEF IInv, TypeOK, PC
  <2> QED
    BY <1>0, <2>1, CreateRunFacts DEF IInv, TypeOK, Runs
<1>2. Others(w) /\ Extends(pack, pack')
  <2>1. \A q \in Proc : q # w => runs'[q] = runs[q] /\ next'[q] = next[q]
    BY <1>0, CreateRunFacts
  <2>2. \A q \in Proc : q # w => pc'[q] = pc[q] /\ ents'[q] = ents[q]
    BY <1>0 DEF IInv, TypeOK
  <2> QED BY <1>0, <2>1, <2>2, ExtendsSelf DEF Others, IInv, TypeOK, Packs
<1>3. OnDisk \subseteq OnDisk'
  <2> SUFFICES ASSUME NEW e \in OnDisk
               PROVE  e \in OnDisk'
    OBVIOUS
  <2>1. \A v \in Writer : v # w => pc[v] \notin {"thin", "gap"}
    BY <1>0, HolderFacts DEF Holding
  <2>2. \/ e \in ents[w]
        \/ \E s \in Seqno : idx[s] # NoFile /\ e \in idx[s]
    BY <2>1, OnDiskFacts
  <2>3. \E s \in Seqno : idx'[s] # NoFile /\ e \in idx'[s]
    BY <1>0, <2>2, CreateRunFacts DEF KeepsRuns
  <2> QED BY <2>3 DEF OnDisk, EntriesOf, Present
<1>4. Durable'
  BY <1>0, <1>1, <1>2, <1>3, DurableKept
<1>5. pc'[w] = "ready" /\ ents'[w] = {}
  BY <1>0 DEF IInv, TypeOK
<1>6. Fine(w)'
  <2>1. Stands(w)'
    BY <1>0, <1>5, CreateRunFacts DEF Stands, Holding
  <2>2. Registered(w)'
    BY <1>0, CreateRunKept
  <2>3. Working(w)'
    BY <1>5 DEF Working
  <2>4. \A o \in Owed(w)' : Seen(w, o)'
    <3>1. Hands(w) \subseteq Hands(w)'
      BY <1>0, CreateRunFacts, EntriesFacts DEF Hands, Emptying
    <3>2. Extends(maps[w], maps'[w])
      BY <1>0, ExtendsSelf DEF IInv, TypeOK, Packs
    <3> QED
      BY <1>0, <1>1, <1>5, <3>1, <3>2, SeenLater DEF Later, Holding
  <2>5. before'[w] \subseteq committed'
    BY <1>0, FineFacts
  <2> QED
    BY <2>1, <2>2, <2>3, <2>4, <2>5 DEF Fine
<1>7. Past' /\ Covered' /\ IndexRight' /\ Counting'
  BY <1>0, CreateRunKept DEF IInv, Counting
<1>8. NewRuns(w) /\ Told(w) /\ lock = w
  BY <1>0, CreateRunFacts
<1> QED
  BY <1>0, <1>1, <1>2, <1>3, <1>4, <1>6, <1>7, <1>8, DiskFrame

----------------------------------------------------------------------------
\* Every step

LEMMA StutterIInv ==
  ASSUME IInv, UNCHANGED vars
  PROVE  IInv'
<1> USE DEF vars, IInv
<1>1. TypeOK' /\ Past' /\ Covered'
  BY DEF TypeOK, Past, Covered
<1>2. Counting' /\ IndexRight' /\ Durable'
  BY DEF Counting, IndexRight, Durable, OnDisk, EntriesOf, Present, Points
<1>3. ASSUME NEW p \in Proc
      PROVE  Fine(p)'
  <2>1. Stands(p)' /\ Working(p)' /\ before'[p] \subseteq committed'
    BY DEF Fine, Stands, Working, Points
  <2>2. Registered(p)'
    BY DEF Fine, Registered, Extends, Points
  <2>3. \A o \in Owed(p)' : Seen(p, o)'
    BY DEF Fine, Owed, Seen, OnDisk, EntriesOf, Present, Points
  <2> QED
    BY <2>1, <2>2, <2>3 DEF Fine
<1> QED
  BY <1>1, <1>2, <1>3

LEMMA NextIInv ==
  ASSUME ~StaleNumber, ~CrashInGap, IInv, [Next]_vars
  PROVE  IInv'
<1>1. ASSUME NEW p \in Proc, Open(p)
      PROVE  IInv'
  BY <1>1, OpenBeginIInv, ScanPacksIInv, ListRunsIInv, MapRunIInv, RecomputeIInv,
     LockIInv DEF Open
<1>2. ASSUME NEW p \in Proc, Close(p) \/ Crash(p)
      PROVE  IInv'
  BY <1>2, CloseIInv, CrashIInv
<1>3. ASSUME NEW w \in Writer, Write(w)
      PROVE  IInv'
  BY <1>3, PackOpenIInv, PackFeedIInv, PackTrimIInv, PublishIdxIInv DEF Write
<1>4. ASSUME NEW w \in Writer, Thin(w)
      PROVE  IInv'
  BY <1>4, CompactNotIInv, MergeIInv, ThinTailIInv, CreateMergedIInv DEF Thin
<1> QED
  BY <1>1, <1>2, <1>3, <1>4, StutterIInv DEF Next

----------------------------------------------------------------------------
\* Theorems

\* With any number of writers and readers, whose opens overlap as they like,
\* the shard stays in the states IInv describes, if no writer goes on with a
\* number taken while it waited for .lock.
THEOREM Invariance ==
  ASSUME ~StaleNumber, ~CrashInGap
  PROVE  Spec => []IInv
<1>1. Init => IInv
  BY InitIInv
<1>2. IInv /\ [Next]_vars => IInv'
  BY NextIInv
<1> QED
  BY <1>1, <1>2, PTL DEF Spec

\* Every variable keeps its type: offsets and file numbers stay in range.
THEOREM TypeCorrect ==
  ASSUME ~StaleNumber, ~CrashInGap
  PROVE  Spec => []TypeOK
<1>1. IInv => TypeOK
  BY DEF IInv
<1> QED
  BY <1>1, Invariance, PTL

\* An object whose run KEEPPackClose has published stays reachable, through
\* appends, compactions, deaths and reopens.
THEOREM DurableAlways ==
  ASSUME ~StaleNumber, ~CrashInGap
  PROVE  Spec => []Durable
<1>1. IInv => Durable
  BY DEF IInv
<1> QED
  BY <1>1, Invariance, PTL

LEMMA IInvSound == IInv => IndexSound
<1> SUFFICES ASSUME IInv PROVE IndexSound
  OBVIOUS
<1>1. \A e \in EntriesOf(idx) : Points(pack, e)
  BY EntriesFacts DEF IInv, IndexRight
<1>2. \A p \in Proc : \A e \in EntriesOf(runs[p]) : Points(pack, e)
  BY EntriesFacts, FineFacts DEF Registered
<1> QED
  BY <1>1, <1>2 DEF IndexSound

\* No index entry, on disk or in a process, points at another object's bytes.
THEOREM IndexAlwaysSound ==
  ASSUME ~StaleNumber, ~CrashInGap
  PROVE  Spec => []IndexSound
  BY IInvSound, Invariance, PTL

LEMMA IInvSees == IInv => OpenSeesCommitted
<1> SUFFICES ASSUME IInv, NEW p \in Proc, pc[p] = "ready",
                    NEW o \in before[p] \ missed[p]
             PROVE  \E e \in EntriesOf(runs[p]) : e.obj = o /\ Points(maps[p], e)
  BY DEF OpenSeesCommitted
<1>1. Seen(p, o)
  BY FineFacts DEF Owed
<1> QED
  BY <1>1 DEF Seen, Emptying

\* Whoever opens the directory, readers without a lock included, finds what was
\* committed when it began, but for objects that a compaction had unlinked and
\* not yet written back when the runs were listed, or unlinked before they were
\* mapped.
THEOREM OpenAlwaysSeesCommitted ==
  ASSUME ~StaleNumber, ~CrashInGap
  PROVE  Spec => []OpenSeesCommitted
  BY IInvSees, Invariance, PTL

\* Only three steps write the directory of runs, and none replaces one.
LEMMA StepClobbersNot ==
  ASSUME IInv, [Next]_vars
  PROVE  \A s \in Seqno : idx[s] # NoFile /\ idx'[s] # NoFile => idx'[s] = idx[s]
<1>1. CASE idx' = idx
  BY <1>1
<1>2. ASSUME NEW w \in Writer, PublishIdx(w) \/ CreateMerged(w)
      PROVE  KeepsRuns
  <2>1. pc[w] \in {"trimmed", "gap"} /\ CreateRun(w, ents[w])
    BY <1>2 DEF PublishIdx, CreateMerged
  <2> QED
    BY <2>1, CreateRunFacts
<1>3. ASSUME NEW w \in Writer, ThinTail(w)
      PROVE  \E m : idx' = [idx EXCEPT ![m] = NoFile]
  BY <1>3 DEF ThinTail
<1>4. \/ idx' = idx
      \/ \E w \in Writer : PublishIdx(w) \/ CreateMerged(w)
      \/ \E w \in Writer : ThinTail(w)
  BY DEF Next, Open, OpenBegin, ScanPacks, ListRuns, MapRun, Recompute, Lock, Write,
     PackOpen, PackFeed, PackTrim, Thin, CompactNot, Merge, Close, Crash, vars, disk
<1>5. ASSUME NEW m, idx' = [idx EXCEPT ![m] = NoFile]
      PROVE  \A s \in Seqno : idx'[s] # NoFile => idx'[s] = idx[s]
  BY <1>5 DEF IInv, TypeOK
<1> QED
  BY <1>1, <1>2, <1>3, <1>4, <1>5 DEF KeepsRuns

\* A published run is immutable, whoever opens when: DOGPupCreateAt's rename
\* replaces nothing, as long as the number is still free once the lock is held.
THEOREM NeverClobbers ==
  ASSUME ~StaleNumber, ~CrashInGap
  PROVE  Spec => NoClobber
<1>1. IInv /\ [Next]_vars =>
        [\A s \in Seqno : idx[s] # NoFile /\ idx'[s] # NoFile => idx'[s] = idx[s]]_idx
  BY StepClobbersNot
<1> QED
  BY <1>1, Invariance, PTL DEF Spec, NoClobber

LEMMA StepGrows ==
  ASSUME IInv, [Next]_vars, NEW s \in Seqno, pack[s] # NoFile
  PROVE  /\ pack'[s] # NoFile /\ Len(pack'[s]) >= Len(pack[s])
         /\ \A i \in 1..Len(pack[s]) : pack'[s][i] = pack[s][i]
         /\ count'[s] \in count[s]..Len(pack'[s])
<1>0. /\ pack \in Packs /\ count[s] \in Nat /\ Len(pack[s]) \in Nat
      /\ count[s] <= Len(pack[s])
  BY PackTypes DEF IInv, TypeOK, Packs, Counting
<1>1. CASE pack' = pack /\ count' = count
  BY <1>0, <1>1
<1>2. ASSUME NEW w \in Writer, PackOpen(w)
      PROVE  pack'[s] = pack[s] /\ count'[s] = count[s]
  BY <1>2, PackOpenPointwise
<1>3. ASSUME NEW w \in Writer, NEW o \in Obj, PackFeed(w, o)
      PROVE  /\ Extends(pack, pack') /\ pack' \in Packs /\ count' = count
  BY <1>3, PackFeedFacts DEF PackFeed
<1>4. ASSUME NEW w \in Writer, PackTrim(w)
      PROVE  pack' = pack /\ count'[s] \in count[s]..Len(pack[s])
  <2>1. w \in Proc /\ pc[w] = "feed" /\ pack' = pack
        /\ count' = [count EXCEPT ![cur[w]] = @ + Cardinality(ents[w])]
    BY <1>4, WriterFacts DEF PackTrim
  <2>2. /\ IsFiniteSet(ents[w])
        /\ count[cur[w]] + Cardinality(ents[w]) <= Len(pack[cur[w]])
    BY <2>1, FineFacts DEF Working
  <2>3. Cardinality(ents[w]) \in Nat
    BY <2>2, FS_CardinalityType
  <2>4. CASE s = cur[w]
    <3>1. count'[s] = count[s] + Cardinality(ents[w])
      BY <2>1, <2>4 DEF IInv, TypeOK
    <3> QED
      BY <1>0, <2>1, <2>2, <2>3, <2>4, <3>1
  <2>5. CASE s # cur[w]
    <3>1. count'[s] = count[s]
      BY <2>1, <2>5 DEF IInv, TypeOK
    <3> QED
      BY <1>0, <2>1, <3>1
  <2> QED BY <2>4, <2>5
<1>5. \/ pack' = pack /\ count' = count
      \/ \E w \in Writer : PackOpen(w) \/ PackTrim(w)
      \/ \E w \in Writer, o \in Obj : PackFeed(w, o)
  BY DEF Next, Open, OpenBegin, ScanPacks, ListRuns, MapRun, Recompute, Lock, Write,
     PublishIdx, Thin, CompactNot, Merge, ThinTail, CreateMerged, Close,
     Crash, vars, disk
<1>6. ASSUME NEW w \in Writer, NEW o \in Obj, PackFeed(w, o)
      PROVE  /\ pack'[s] # NoFile /\ Len(pack'[s]) >= Len(pack[s])
             /\ \A i \in 1..Len(pack[s]) : pack'[s][i] = pack[s][i]
             /\ count'[s] \in count[s]..Len(pack'[s])
  <2>1. /\ pack'[s] # NoFile /\ Len(pack'[s]) >= Len(pack[s])
        /\ \A i \in 1..Len(pack[s]) : pack'[s][i] = pack[s][i]
        /\ pack' \in Packs /\ count' = count
    BY <1>3, <1>6 DEF Extends
  <2>2. Len(pack'[s]) \in Nat
    BY <2>1, PackTypes
  <2> QED
    BY <1>0, <2>1, <2>2
<1> QED
  BY <1>0, <1>1, <1>2, <1>4, <1>5, <1>6

\* Objects stay at their offsets in the pack files; the count in a header, the
\* one field that is written again, never falls and never runs past them.
THEOREM PacksOnlyGrow ==
  ASSUME ~StaleNumber, ~CrashInGap
  PROVE  Spec => PacksAppendOnly
<1>1. IInv /\ [Next]_vars =>
        [\A s \in Seqno : pack[s] # NoFile =>
           /\ pack'[s] # NoFile /\ Len(pack'[s]) >= Len(pack[s])
           /\ \A i \in 1..Len(pack[s]) : pack'[s][i] = pack[s][i]
           /\ count'[s] \in count[s]..Len(pack'[s])]_<<pack, count>>
  BY StepGrows
<1> QED
  BY <1>1, Invariance, PTL DEF Spec, PacksAppendOnly
=============================================================================
