---------------------------- MODULE Unpk_proofs ----------------------------
(***************************************************************************)
(* The index of a pack of any size, however its deltas are chained, for    *)
(* any number of workers and of failed forks: no list ever holds a delta   *)
(* under an object that is not its base, so every entry is true; and no    *)
(* delta whose chain fits the stack leaves the lists before it is emitted. *)
(***************************************************************************)
EXTENDS Unpk, FiniteSetTheorems, SequenceTheorems, WellFoundedInduction, TLAPS

----------------------------------------------------------------------------
\* Places in a sequence

\* Natural numbers have a least one among them.
LEMMA LeastExists ==
  ASSUME NEW T \in SUBSET Nat, T # {}
  PROVE  \E t \in T : \A u \in T : ~ (u < t)
<1>1. IsWellFoundedOn(OpToRel(<, Nat), Nat)
  BY NatLessThanWellFounded
<1>2. PICK t \in T : \A u \in T : ~ (<<u, t>> \in OpToRel(<, Nat))
  BY <1>1, WFMin
<1>3. \A u \in T : ~ (u < t)
  <2> TAKE u \in T
  <2>1. u \in Nat /\ t \in Nat
    OBVIOUS
  <2> QED
    BY <1>2, <2>1 DEF OpToRel
<1> QED
  BY <1>3

\* A set of places has a last one.
LEMMA GreatestExists ==
  ASSUME NEW n \in Nat, NEW S \in SUBSET (1..n), S # {}
  PROVE  \E m \in S : \A k \in S : k <= m
<1> DEFINE T == {n - k : k \in S}
<1>1. T \in SUBSET Nat /\ T # {}
  <2>1. \A u \in T : u \in Nat
    OBVIOUS
  <2>2. PICK k \in S : TRUE
    OBVIOUS
  <2>3. n - k \in T
    BY <2>2
  <2> QED
    BY <2>1, <2>3
<1>2. PICK t \in T : \A u \in T : ~ (u < t)
  <2> HIDE DEF T
  <2> QED
    BY <1>1, LeastExists
<1>4. PICK m \in S : t = n - m
  OBVIOUS
<1>5. \A k \in S : k <= m
  <2> TAKE k \in S
  <2>1. ~ (n - k < t)
    BY <1>2
  <2> QED
    BY <1>4, <2>1
<1> QED
  BY <1>5

LEMMA Sizes == Size \in Nat \ {0} /\ MaxWorkers \in Nat \ {0} /\ MaxChain \in Nat \ {0}
  BY SizeAssumption, ChainAssumption

----------------------------------------------------------------------------
\* The last object of a set

LEMMA HighestFacts ==
  ASSUME NEW S \in SUBSET Obj
  PROVE  /\ Highest(S) \in 0..Size
         /\ Highest(S) # 0 => Highest(S) \in S
         /\ S # {} => Highest(S) \in S
<1>1. CASE S = {}
  BY <1>1, Sizes DEF Highest
<1>2. CASE S # {}
  <2>1. \E m \in S : \A k \in S : k <= m
    BY <1>2, Sizes, GreatestExists DEF Obj
  <2>2. Highest(S) \in S
    BY <1>2, <2>1 DEF Highest
  <2>3. Highest(S) \in 1..Size
    BY <2>2 DEF Obj
  <2> QED
    BY <2>2, <2>3, Sizes
<1> QED
  BY <1>1, <1>2

----------------------------------------------------------------------------
\* The inductive invariant

\* What the index may say, and what may be on a walk's stack
Entry == {<<pack[i].id, i>> : i \in Obj}
Frame == {[node |-> i, content |-> pack[i].id] : i \in Obj}

Lists == [child : [Obj -> 0..Size], sibling : [Obj -> 0..Size], resolved : [Obj -> BOOLEAN]]

\* What hangs below an object is made from it, and so is what hangs beside it.
Threaded(m) ==
  /\ m \in Lists
  /\ \A i \in Obj : m.child[i] # 0 => Base(m.child[i]) = pack[i].id
  /\ \A i \in Obj : m.sibling[i] # 0 => Base(m.sibling[i]) = Base(i)

Walks == [runs : {"no", "child", "inline", "parent"}, root : Nat, stack : Seq(Frame)]

Walking(k) ==
  /\ k \in Walks /\ Len(k.stack) <= MaxChain
  /\ k.runs # "no" => k.root # 0

Emitted(o) == o \in Seq(Entry) /\ Len(o) <= Size

IInv ==
  /\ pack \in Packs /\ nw \in 1..MaxWorkers
  /\ stage \in {"whole", "fork", "run", "thin", "done"}
  /\ next \in 1..Size + MaxWorkers + 1
  /\ DOMAIN mem = Worker /\ \A w \in Worker : Threaded(mem[w])
  /\ DOMAIN walk = Worker /\ \A w \in Worker : Walking(walk[w])
  /\ DOMAIN out = Worker /\ \A w \in Worker : Emitted(out[w])
  /\ index \subseteq Entry

LEMMA HangKeeps ==
  ASSUME NEW m, Threaded(m), NEW parent \in Obj, NEW S \in SUBSET Obj,
         \A i \in S : Base(i) = pack[parent].id
  PROVE  Threaded(Hang(m, parent, S))
<1> DEFINE after(i) == {j \in S : j < i}
           h == Hang(m, parent, S)
           head == IF S = {} THEN m.child[parent] ELSE Highest(S)
           beside(i) == IF i \notin S THEN m.sibling[i]
                        ELSE IF after(i) = {} THEN m.child[parent] ELSE Highest(after(i))
<1>1. /\ m \in Lists
      /\ \A i \in Obj : m.child[i] # 0 => Base(m.child[i]) = pack[i].id
      /\ \A i \in Obj : m.sibling[i] # 0 => Base(m.sibling[i]) = Base(i)
  BY DEF Threaded
<1>2. head \in 0..Size /\ (head # 0 => Base(head) = pack[parent].id)
  BY <1>1, HighestFacts DEF Lists
<1>3. ASSUME NEW i \in Obj
      PROVE  beside(i) \in 0..Size /\ (beside(i) # 0 => Base(beside(i)) = Base(i))
  <2>1. after(i) \in SUBSET Obj
    OBVIOUS
  <2>2. /\ Highest(after(i)) \in 0..Size
        /\ after(i) # {} => Highest(after(i)) \in S
    BY <2>1, HighestFacts
  <2> HIDE DEF after
  <2> QED
    BY <1>1, <2>2 DEF Lists
<1>4. /\ h.child = [m.child EXCEPT ![parent] = head]
      /\ h.sibling = [i \in Obj |-> beside(i)]
      /\ h.resolved = m.resolved
      /\ h = [child |-> h.child, sibling |-> h.sibling, resolved |-> h.resolved]
  <2>1. h = [m EXCEPT !.child = [m.child EXCEPT ![parent] = head],
                      !.sibling = [i \in Obj |-> beside(i)]]
    BY DEF Hang
  <2> HIDE DEF h, head, beside
  <2> QED
    BY <1>1, <2>1 DEF Lists
<1> HIDE DEF h, head, beside
<1>5. h.child \in [Obj -> 0..Size] /\ h.sibling \in [Obj -> 0..Size] /\ h.resolved \in [Obj -> BOOLEAN]
  BY <1>1, <1>2, <1>3, <1>4 DEF Lists
<1>6. h \in Lists
  BY <1>4, <1>5 DEF Lists
<1>7. \A i \in Obj : h.child[i] # 0 => Base(h.child[i]) = pack[i].id
  BY <1>1, <1>2, <1>4 DEF Lists
<1>8. \A i \in Obj : h.sibling[i] # 0 => Base(h.sibling[i]) = Base(i)
  BY <1>3, <1>4
<1> QED
  BY <1>6, <1>7, <1>8 DEF Threaded, h

LEMMA DrainKeeps ==
  ASSUME NEW m, Threaded(m), NEW parent \in Obj
  PROVE  Threaded(Drain(m, pack[parent].id, parent))
<1> DEFINE S == {i \in Waiters(pack[parent].id) : ~m.resolved[i]}
<1>1. S \in SUBSET Obj /\ \A i \in S : Base(i) = pack[parent].id
  BY DEF Waiters, Base
<1> HIDE DEF S
<1>2. Threaded(Hang(m, parent, S))
  BY <1>1, HangKeeps
<1> QED
  BY <1>2 DEF Drain, S

LEMMA MarkKeeps ==
  ASSUME NEW m, Threaded(m), NEW i \in Obj
  PROVE  Threaded([m EXCEPT !.resolved[i] = TRUE])
<1>1. m \in Lists
  BY DEF Threaded
<1>2. [m EXCEPT !.resolved[i] = TRUE] \in Lists
  BY <1>1 DEF Lists
<1> QED
  BY <1>1, <1>2 DEF Threaded, Lists

LEMMA OfsListsThreaded ==
  ASSUME pack \in Packs
  PROVE  Threaded(OfsLists(pack))
<1> DEFINE on(j) == {i \in Obj : pack[i].kind = "ofs" /\ pack[i].at = j}
           o == OfsLists(pack)
<1>1. \A j : on(j) \in SUBSET Obj
  OBVIOUS
<1>2. \A j \in Obj : Highest(on(j)) \in 0..Size /\ (Highest(on(j)) # 0 => Highest(on(j)) \in on(j))
  BY HighestFacts
<1>3. ASSUME NEW i \in Obj, pack[i].kind = "ofs"
      PROVE  LET s == Highest({j \in on(pack[i].at) : j < i})
             IN  s \in 0..Size /\ (s # 0 => s \in on(pack[i].at))
  BY HighestFacts
<1>4. /\ o.child = [i \in Obj |-> Highest(on(i))]
      /\ o.sibling = [i \in Obj |-> IF pack[i].kind = "ofs"
                                    THEN Highest({j \in on(pack[i].at) : j < i}) ELSE 0]
      /\ o.resolved = [i \in Obj |-> FALSE]
      /\ o = [child |-> o.child, sibling |-> o.sibling, resolved |-> o.resolved]
  BY DEF OfsLists
<1>5. \A j, i \in Obj : i \in on(j) => Base(i) = pack[j].id
  BY DEF Base
<1>6. \A i \in Obj : pack[i].kind = "ofs" =>
        \A j \in on(pack[i].at) : Base(j) = Base(i)
  BY DEF Base
<1> HIDE DEF o, on
<1>7. o.child \in [Obj -> 0..Size] /\ o.sibling \in [Obj -> 0..Size] /\ o.resolved \in [Obj -> BOOLEAN]
  <2>1. 0 \in 0..Size
    BY Sizes
  <2> QED
    BY <1>2, <1>3, <1>4, <2>1
<1>8. o \in Lists
  BY <1>4, <1>7 DEF Lists
<1>9. \A i \in Obj : o.child[i] # 0 => Base(o.child[i]) = pack[i].id
  BY <1>1, <1>2, <1>4, <1>5
<1>10. \A i \in Obj : o.sibling[i] # 0 => Base(o.sibling[i]) = Base(i)
  BY <1>3, <1>4, <1>6
<1> QED
  BY <1>8, <1>9, <1>10 DEF Threaded, o

----------------------------------------------------------------------------
\* The steps, one by one

LEMMA InitIInv == Init => IInv
<1> SUFFICES ASSUME Init PROVE IInv
  OBVIOUS
<1>1. pack \in Packs /\ nw \in 1..MaxWorkers
  BY DEF Init
<1>2. \A w \in Worker : mem[w] = OfsLists(pack)
  BY DEF Init
<1>3. \A w \in Worker : Threaded(mem[w])
  BY <1>1, <1>2, OfsListsThreaded
<1>4. /\ <<>> \in Seq(Frame) /\ <<>> \in Seq(Entry) /\ Len(<<>>) = 0
      /\ 0 <= MaxChain /\ 0 <= Size /\ 1 \in 1..Size + MaxWorkers + 1
  BY Sizes
<1>5. \A w \in Worker : Walking(walk[w])
  BY <1>4 DEF Init, Idle, Walking, Walks
<1>6. \A w \in Worker : Emitted(out[w])
  BY <1>4 DEF Init, Emitted
<1> QED
  BY <1>1, <1>3, <1>4, <1>5, <1>6 DEF Init, IInv

\* What has been said of a pack goes on to be said of it.
LEMMA SamePack ==
  ASSUME pack' = pack
  PROVE  /\ Entry' = Entry /\ Frame' = Frame /\ Walks' = Walks /\ Lists' = Lists
         /\ \A m : Threaded(m)' <=> Threaded(m)
BY DEF Entry, Frame, Walks, Lists, Threaded, Base

\* A step that keeps the pack keeps the invariant if it keeps its parts.
LEMMA Parts ==
  ASSUME IInv, UNCHANGED <<pack, nw>>,
         stage' \in {"whole", "fork", "run", "thin", "done"},
         next' \in 1..Size + MaxWorkers + 1,
         DOMAIN mem' = Worker, \A w \in Worker : Threaded(mem'[w]),
         DOMAIN walk' = Worker, \A w \in Worker : Walking(walk'[w]),
         DOMAIN out' = Worker, \A w \in Worker : Emitted(out'[w]),
         index' \subseteq Entry
  PROVE  IInv'
<1>1. Entry' = Entry /\ Frame' = Frame
  BY DEF Entry, Frame
<1>2. \A w \in Worker : Threaded(mem[w])'
  BY DEF Threaded, Base, Lists
<1>3. \A w \in Worker : Walking(walk[w])'
  BY <1>1 DEF Walking, Walks
<1>4. \A w \in Worker : Emitted(out[w])'
  BY <1>1 DEF Emitted
<1> QED
  BY <1>1, <1>2, <1>3, <1>4 DEF IInv

LEMMA WholeKeeps ==
  ASSUME IInv, Whole
  PROVE  IInv'
<1> USE DEF Whole
<1>1. 0 \in Worker /\ next \in Obj /\ next + 1 \in 1..Size + MaxWorkers + 1
  BY Sizes DEF IInv, Worker, Obj
<1>2. index' \subseteq Entry
  BY <1>1 DEF IInv, Entry
<1>3. DOMAIN mem' = Worker /\ \A w \in Worker : Threaded(mem'[w])
  <2> DEFINE m == [mem[0] EXCEPT !.resolved[next] = TRUE]
             d == Drain(m, pack[next].id, next)
  <2>1. Threaded(m)
    BY <1>1, MarkKeeps DEF IInv
  <2> HIDE DEF m
  <2>2. Threaded(d)
    BY <1>1, <2>1, DrainKeeps
  <2>3. mem' = mem \/ mem' = [mem EXCEPT ![0] = d]
    BY DEF m
  <2> HIDE DEF d
  <2> QED
    BY <2>2, <2>3 DEF IInv
<1> QED
  BY <1>1, <1>2, <1>3, Parts DEF IInv

LEMMA ParentKeeps ==
  ASSUME IInv, WholeDone \/ Finish
  PROVE  IInv'
<1>1. 1 \in 1..Size + MaxWorkers + 1
  BY Sizes
<1> QED
  BY <1>1, Parts DEF WholeDone, Finish, IInv

LEMMA StartedWalks ==
  ASSUME IInv, NEW w \in Worker, NEW where \in {"child", "inline", "parent"}
  PROVE  /\ DOMAIN Started(w, where) = Worker
         /\ \A v \in Worker : Walking(Started(w, where)[v])
<1> DEFINE k == [runs |-> where, root |-> w + 1, stack |-> <<>>]
<1>1. /\ w + 1 \in Nat /\ w + 1 # 0
      /\ <<>> \in Seq(Frame) /\ Len(<<>>) = 0 /\ 0 <= MaxChain
  BY Sizes DEF Worker
<1>2. Walking(k)
  BY <1>1 DEF Walking, Walks
<1>3. Started(w, where) = [walk EXCEPT ![w] = k]
  BY DEF Started
<1> HIDE DEF k
<1> QED
  BY <1>2, <1>3 DEF IInv

LEMMA ForkKeeps ==
  ASSUME IInv, Fork \/ ForkFail
  PROVE  IInv'
<1>1. /\ next \in Worker /\ 0 \in Worker
      /\ next + 1 \in 1..Size + MaxWorkers + 1
  BY Sizes DEF Fork, ForkFail, IInv, Worker
<1>2. /\ DOMAIN walk' = Worker /\ \A v \in Worker : Walking(walk'[v])
      /\ next' = next + 1 /\ UNCHANGED <<pack, nw, stage, out, index>>
  BY <1>1, StartedWalks DEF Fork, ForkFail
<1>3. DOMAIN mem' = Worker /\ \A w \in Worker : Threaded(mem'[w])
  BY <1>1 DEF Fork, ForkFail, IInv
<1> QED
  BY <1>1, <1>2, <1>3, Parts DEF IInv

LEMMA AllForkedKeeps ==
  ASSUME IInv, AllForked
  PROVE  IInv'
<1>1. 0 \in Worker
  BY Sizes DEF Worker
<1>2. DOMAIN walk' = Worker /\ \A v \in Worker : Walking(walk'[v])
  BY <1>1, StartedWalks DEF AllForked
<1> QED
  BY <1>2, Parts DEF AllForked, IInv

\* One worker's walk changes and nothing else.
LEMMA WalkKeeps ==
  ASSUME IInv, NEW w \in Worker, NEW k, Walking(k), walk' = [walk EXCEPT ![w] = k],
         UNCHANGED <<pack, nw, stage, next, mem, out, index>>
  PROVE  IInv'
<1>1. DOMAIN walk' = Worker /\ \A v \in Worker : Walking(walk'[v])
  BY DEF IInv
<1> QED
  BY <1>1, Parts DEF IInv

LEMMA NextRootKeeps ==
  ASSUME IInv, NEW w \in Worker, NextRoot(w)
  PROVE  IInv'
<1> DEFINE r == walk[w].root
           m == mem[Home(w)]
           s == IF m.child[r] # 0 /\ m.resolved[r] /\ pack[r].kind = "whole"
                THEN <<[node |-> r, content |-> pack[r].id]>> ELSE <<>>
           k == IF r > Size THEN Idle ELSE [walk[w] EXCEPT !.root = r + nw, !.stack = s]
<1>1. walk' = [walk EXCEPT ![w] = k] /\ UNCHANGED <<pack, nw, stage, next, mem, out, index>>
  BY DEF NextRoot
<1>2. walk[w] \in Walks /\ walk[w].runs # "no" /\ r \in Nat /\ r # 0 /\ nw \in Nat
  BY DEF IInv, Walking, Walks, NextRoot, Runs
<1>3. Walking(Idle)
  <2>1. <<>> \in Seq(Frame) /\ Len(<<>>) = 0 /\ 0 <= MaxChain
    BY Sizes
  <2> QED
    BY <2>1 DEF Walking, Walks, Idle
<1>4. ASSUME ~ (r > Size)
      PROVE  Walking([walk[w] EXCEPT !.root = r + nw, !.stack = s])
  <2>1. r \in Obj
    BY <1>2, <1>4, Sizes DEF Obj
  <2> DEFINE f == [node |-> r, content |-> pack[r].id]
  <2>2. f \in Frame
    BY <2>1 DEF Frame
  <2> HIDE DEF f
  <2>3. <<>> \in Seq(Frame) /\ Len(<<>>) = 0 /\ <<f>> \in Seq(Frame) /\ Len(<<f>>) = 1
    BY <2>2
  <2>4. s \in Seq(Frame) /\ Len(s) <= MaxChain
    <3>1. s = <<>> \/ s = <<f>>
      BY DEF f
    <3>2. 0 <= MaxChain /\ 1 <= MaxChain
      BY Sizes
    <3> HIDE DEF s
    <3>3. CASE s = <<>>
      BY <2>3, <3>2, <3>3
    <3>4. CASE s = <<f>>
      BY <2>3, <3>2, <3>4
    <3> QED
      BY <3>1, <3>3, <3>4
  <2>5. r + nw \in Nat /\ r + nw # 0
    BY <1>2
  <2> HIDE DEF s, r
  <2> QED
    BY <1>2, <2>4, <2>5 DEF Walking, Walks
<1>5. Walking(k)
  BY <1>3, <1>4
<1> HIDE DEF k
<1> QED
  BY <1>1, <1>5, WalkKeeps

\* What is on top of a walk
LEMMA TopFacts ==
  ASSUME IInv, NEW w \in Worker, walk[w].stack # <<>>
  PROVE  /\ walk[w].stack \in Seq(Frame) /\ Len(walk[w].stack) \in Nat \ {0}
         /\ Top(w).node \in Obj /\ Top(w).content = pack[Top(w).node].id
<1>1. walk[w].stack \in Seq(Frame)
  BY DEF IInv, Walking, Walks
<1>2. Len(walk[w].stack) \in Nat \ {0}
  BY <1>1, LenProperties, EmptySeq
<1>3. Top(w) \in Frame
  BY <1>1, <1>2, ElementOfSeq DEF Top
<1> QED
  BY <1>1, <1>2, <1>3 DEF Frame

LEMMA BacktrackKeeps ==
  ASSUME IInv, NEW w \in Worker, Backtrack(w)
  PROVE  IInv'
<1> DEFINE st == walk[w].stack
           s == SubSeq(st, 1, Len(st) - 1)
           k == [walk[w] EXCEPT !.stack = s]
<1>1. walk' = [walk EXCEPT ![w] = k] /\ UNCHANGED <<pack, nw, stage, next, mem, out, index>>
  BY DEF Backtrack
<1>2. st \in Seq(Frame) /\ Len(st) \in Nat \ {0} /\ Len(st) <= MaxChain
  BY TopFacts DEF Backtrack, IInv, Walking
<1>3. s \in Seq(Frame) /\ Len(s) = Len(st) - 1
  <2>1. \A i \in 1..Len(st)-1 : st[i] \in Frame
    BY <1>2, ElementOfSeq
  <2> QED
    BY <1>2, <2>1, SubSeqProperties
<1>4. Len(s) <= MaxChain
  BY <1>2, <1>3, Sizes
<1>5. Walking(walk[w])
  BY DEF IInv
<1> HIDE DEF s, st
<1>6. Walking(k)
  BY <1>3, <1>4, <1>5 DEF Walking, Walks
<1> HIDE DEF k
<1> QED
  BY <1>1, <1>6, WalkKeeps

LEMMA DescendKeeps ==
  ASSUME IInv, NEW w \in Worker, Descend(w)
  PROVE  IInv'
<1> DEFINE h == Home(w)
           t == Top(w).node
           c == mem[h].child[t]
           rest == [mem[h] EXCEPT !.child[t] = mem[h].sibling[c]]
           id == Applied(c, Top(w).content)
           full == Len(walk[w].stack) >= MaxChain \/ Len(out[w]) >= Size
           marked == [rest EXCEPT !.resolved[c] = TRUE]
           f == [node |-> c, content |-> id]
<1>1. h \in Worker
  BY Sizes DEF Home, Worker
<1>2. /\ walk[w].stack \in Seq(Frame) /\ Len(walk[w].stack) \in Nat \ {0}
      /\ t \in Obj /\ Top(w).content = pack[t].id
  BY TopFacts DEF Descend
<1>3. Threaded(mem[h]) /\ mem[h] \in Lists
  BY <1>1 DEF IInv, Threaded
<1>4. c \in Obj /\ Base(c) = pack[t].id
  <2>1. c # 0 /\ c \in 0..Size
    BY <1>2, <1>3 DEF Descend, Lists
  <2> QED
    BY <1>2, <1>3, <2>1, Sizes DEF Threaded, Obj
<1>5. id = pack[c].id
  BY <1>2, <1>4 DEF Applied
<1>6. Threaded(rest)
  <2> DEFINE b == mem[h].sibling[c]
  <2>1. b \in 0..Size /\ (b # 0 => Base(b) = pack[t].id)
    BY <1>3, <1>4 DEF Threaded, Lists
  <2>2. rest = [mem[h] EXCEPT !.child[t] = b]
    OBVIOUS
  <2> HIDE DEF b, c
  <2> QED
    BY <1>2, <1>3, <2>1, <2>2 DEF Threaded, Lists
<1> HIDE DEF rest
<1>7. Threaded(marked)
  BY <1>4, <1>6, MarkKeeps
<1> HIDE DEF marked
<1>8. Threaded(Drain(marked, id, c))
  BY <1>4, <1>5, <1>7, DrainKeeps
<1>9. /\ full => mem' = [mem EXCEPT ![h] = rest] /\ UNCHANGED <<walk, out>>
      /\ ~full => /\ out' = [out EXCEPT ![w] = Append(out[w], <<id, c>>)]
                  /\ mem' = [mem EXCEPT ![h] = Drain(marked, id, c)]
                  /\ walk' = [walk EXCEPT ![w].stack = Append(walk[w].stack, f)]
      /\ UNCHANGED <<pack, nw, stage, next, index>>
  BY DEF Descend, rest, marked
<1>10. <<id, c>> \in Entry /\ f \in Frame
  BY <1>4, <1>5 DEF Entry, Frame
<1> HIDE DEF id, c, f, h
<1>11. DOMAIN mem' = Worker /\ \A v \in Worker : Threaded(mem'[v])
  BY <1>1, <1>6, <1>8, <1>9 DEF IInv
<1>12. CASE full
  BY <1>9, <1>11, <1>12, Parts DEF IInv
<1>13. CASE ~full
  <2>1. out[w] \in Seq(Entry) /\ Len(out[w]) \in Nat /\ Len(out[w]) < Size
    <3>1. out[w] \in Seq(Entry) /\ Len(out[w]) \in Nat
      BY LenProperties DEF IInv, Emitted
    <3> QED
      BY <1>13, <3>1, Sizes
  <2>2. Emitted(Append(out[w], <<id, c>>))
    <3>1. Append(out[w], <<id, c>>) \in Seq(Entry) /\ Len(Append(out[w], <<id, c>>)) = Len(out[w]) + 1
      BY <1>10, <2>1, AppendProperties
    <3> QED
      BY <2>1, <3>1, Sizes DEF Emitted
  <2>3. DOMAIN out' = Worker /\ \A v \in Worker : Emitted(out'[v])
    BY <1>9, <1>13, <2>2 DEF IInv
  <2> DEFINE s == Append(walk[w].stack, f)
             k == [walk[w] EXCEPT !.stack = s]
  <2>4. s \in Seq(Frame) /\ Len(s) <= MaxChain
    <3>1. s \in Seq(Frame) /\ Len(s) = Len(walk[w].stack) + 1
      BY <1>2, <1>10, AppendProperties
    <3> QED
      BY <1>2, <1>13, <3>1, Sizes
  <2> HIDE DEF s
  <2>5. Walking(k)
    <3>1. Walking(walk[w])
      BY DEF IInv
    <3> QED
      BY <2>4, <3>1 DEF Walking, Walks
  <2>6. walk' = [walk EXCEPT ![w] = k]
    BY <1>9, <1>13 DEF s
  <2> HIDE DEF k
  <2>7. DOMAIN walk' = Worker /\ \A v \in Worker : Walking(walk'[v])
    BY <2>5, <2>6 DEF IInv
  <2> QED
    BY <1>9, <1>11, <2>3, <2>7, Parts DEF IInv
<1> QED
  BY <1>12, <1>13

LEMMA MergeKeeps ==
  ASSUME IInv, Merge
  PROVE  IInv'
<1>1. ASSUME NEW w \in Worker, NEW i \in DOMAIN out[w]
      PROVE  out[w][i] \in Entry
  <2>1. out[w] \in Seq(Entry)
    BY DEF IInv, Emitted
  <2> QED
    BY <2>1, LenProperties, ElementOfSeq
<1>2. index' \subseteq Entry
  BY <1>1 DEF Merge, IInv
<1>3. 1 \in 1..Size + MaxWorkers + 1
  BY Sizes
<1> QED
  BY <1>2, <1>3, Parts DEF Merge, IInv

LEMMA ThinKeeps ==
  ASSUME IInv, Thin
  PROVE  IInv'
<1> USE DEF Thin
<1>1. 0 \in Worker /\ next \in Obj /\ next + 1 \in 1..Size + MaxWorkers + 1
  BY Sizes DEF IInv, Worker, Obj
<1>2. index' \subseteq Entry
  BY <1>1 DEF IInv, Entry
<1>3. DOMAIN mem' = Worker /\ \A w \in Worker : Threaded(mem'[w])
  <2> DEFINE m == [mem[0] EXCEPT !.resolved[next] = TRUE]
  <2>1. Threaded(m)
    BY <1>1, MarkKeeps DEF IInv
  <2>2. mem' = mem \/ mem' = [mem EXCEPT ![0] = m]
    OBVIOUS
  <2> HIDE DEF m
  <2> QED
    BY <2>1, <2>2 DEF IInv
<1> QED
  BY <1>1, <1>2, <1>3, Parts DEF IInv

LEMMA NextKeeps ==
  ASSUME IInv, [Next]_vars
  PROVE  IInv'
<1>1. CASE UNCHANGED vars
  BY <1>1, Parts DEF vars, IInv
<1>2. CASE Next
  BY <1>2, WholeKeeps, ParentKeeps, ForkKeeps, AllForkedKeeps, NextRootKeeps,
     BacktrackKeeps, DescendKeeps, MergeKeeps, ThinKeeps
  DEF Next, Work
<1> QED
  BY <1>1, <1>2

----------------------------------------------------------------------------
\* Shares of places

LEMMA Quotient ==
  ASSUME NEW x \in Nat, NEW n \in Nat \ {0}
  PROVE  x \div n \in Nat /\ x = n * (x \div n) + (x % n) /\ x % n \in 0..n-1
OBVIOUS

LEMMA Multiples ==
  ASSUME NEW n \in Nat \ {0}, NEW a \in Int, NEW b \in Int, a < b
  PROVE  n * b >= n * a + n
<1>1. n * (b - a) >= n
  OBVIOUS
<1> QED
  BY <1>1

LEMMA QuotientUnique ==
  ASSUME NEW n \in Nat \ {0}, NEW a \in Int, NEW b \in Int,
         NEW r \in 0..n-1, NEW s \in 0..n-1, n * a + r = n * b + s
  PROVE  a = b /\ r = s
<1>1. n * a \in Int /\ n * b \in Int /\ r \in Int /\ s \in Int
  OBVIOUS
<1>2. CASE a < b
  <2>1. n * b >= n * a + n
    BY <1>2, Multiples
  <2> QED
    BY <1>1, <2>1
<1>3. CASE b < a
  <2>1. n * a >= n * b + n
    BY <1>3, Multiples
  <2> QED
    BY <1>1, <2>1
<1>4. CASE a = b
  BY <1>1, <1>4
<1> QED
  BY <1>2, <1>3, <1>4

\* Going on by n finds every place of a share and no other.
LEMMA ShareSteps ==
  ASSUME NEW x \in Nat, NEW n \in Nat \ {0}
  PROVE  /\ x % n \in 0..n-1
         /\ (x + n) % n = x % n
         /\ \A y \in Nat : x < y /\ y % n = x % n => x + n <= y
         /\ x < n => x % n = x
<1>1. x \div n \in Nat /\ x = n * (x \div n) + (x % n) /\ x % n \in 0..n-1
  BY Quotient
<1>2. (x + n) % n = x % n
  <2>1. x + n \in Nat
    OBVIOUS
  <2>2. /\ (x + n) \div n \in Nat /\ x + n = n * ((x + n) \div n) + ((x + n) % n)
        /\ (x + n) % n \in 0..n-1
    BY <2>1, Quotient
  <2> PICK q, r, s, t : q = x \div n /\ r = x % n /\ s = (x + n) \div n /\ t = (x + n) % n
    OBVIOUS
  <2>3. q \in Nat /\ s \in Nat /\ r \in 0..n-1 /\ t \in 0..n-1
    BY <1>1, <2>2
  <2> PICK u \in Nat : u = q + 1
    BY <2>3
  <2>4. n * u = n * q + n
    BY <2>3
  <2>5. x = n * q + r /\ x + n = n * s + t
    BY <1>1, <2>2
  <2>6. n * u + r = n * s + t
    BY <2>3, <2>4, <2>5
  <2>7. r = t
    BY <2>3, <2>6, QuotientUnique
  <2> QED
    BY <2>7
<1>3. ASSUME NEW y \in Nat, x < y, y % n = x % n
      PROVE  x + n <= y
  <2>1. y \div n \in Nat /\ y = n * (y \div n) + (y % n)
    BY Quotient
  <2> PICK q, s, r : q = x \div n /\ s = y \div n /\ r = x % n
    OBVIOUS
  <2>2. q \in Nat /\ s \in Nat /\ r \in 0..n-1 /\ x = n * q + r /\ y = n * s + r
    BY <1>1, <1>3, <2>1
  <2>3. n * q \in Int /\ n * s \in Int /\ r \in Int
    BY <2>2
  <2>4. CASE q < s
    <3>1. n * s >= n * q + n
      BY <2>2, <2>4, Multiples
    <3> QED
      BY <2>2, <2>3, <3>1
  <2>5. CASE s < q
    <3>1. n * q >= n * s + n
      BY <2>2, <2>5, Multiples
    <3> QED
      BY <1>3, <2>2, <2>3, <3>1
  <2>6. CASE s = q
    BY <1>3, <2>2, <2>6
  <2> QED
    BY <2>2, <2>4, <2>5, <2>6
<1>4. x < n => x % n = x
  OBVIOUS
<1> QED
  BY <1>1, <1>2, <1>3, <1>4

----------------------------------------------------------------------------
\* The forest of a pack

IsWhole(p, i) == p[i].kind = "whole"
Single(p) == \A i, j \in Obj : p[i].id = p[j].id => i = j

\* The deltas put on an object: those that name it by its place, then those that
\* name it by its id
OfsKids(p, j) == {i \in Obj : p[i].kind = "ofs" /\ p[i].at = j}
RefKids(p, j) == {i \in Obj : p[i].kind = "ref" /\ p[i].of = p[j].id}
Kids(p, j)    == OfsKids(p, j) \cup RefKids(p, j)

\* Depth, of a given pack
DepthOf(p, d) ==
  LET upto[n \in 0..d] ==
        IF n = 0 THEN {i \in Obj : p[i].kind = "whole"}
        ELSE upto[n - 1]
               \cup {i \in Obj : p[i].kind = "ofs" /\ p[i].at \in upto[n - 1]}
               \cup {i \in Obj : /\ p[i].kind = "ref"
                                 /\ \E j \in upto[n - 1] : p[j].id = p[i].of}
  IN  upto[d]

\* The whole objects that a worker of n takes, and what hangs below them
Share(p, n, w) == {r \in Obj : IsWhole(p, r) /\ (r - 1) % n = w}
Mine(p, n, w) ==
  {i \in Obj : \A S \in SUBSET Obj :
     Share(p, n, w) \subseteq S /\ (\A j \in S : Kids(p, j) \subseteq S) => i \in S}

LEMMA KidFacts ==
  ASSUME NEW p, Single(p), NEW j \in Obj, NEW i \in Kids(p, j)
  PROVE  /\ i \in Obj /\ ~IsWhole(p, i)
         /\ \A l \in Obj : i \in Kids(p, l) => l = j
<1>1. i \in Obj /\ p[i].kind \in {"ofs", "ref"}
  BY DEF Kids, OfsKids, RefKids
<1>2. ASSUME NEW l \in Obj, i \in Kids(p, l)
      PROVE  l = j
  BY <1>1, <1>2 DEF Kids, OfsKids, RefKids, Single
<1> QED
  BY <1>1, <1>2 DEF IsWhole

\* One more link
Deeper(p, D) == D \cup {i \in Obj : \E j \in D : i \in Kids(p, j)}

LEMMA DeeperIs ==
  ASSUME NEW p, NEW D \in SUBSET Obj
  PROVE  /\ Deeper(p, D) \in SUBSET Obj
         /\ D \cup {i \in Obj : p[i].kind = "ofs" /\ p[i].at \in D}
              \cup {i \in Obj : p[i].kind = "ref" /\ \E j \in D : p[j].id = p[i].of} = Deeper(p, D)
BY DEF Deeper, Kids, OfsKids, RefKids

\* The levels up to d links
Levels(p, d, u) ==
  /\ u \in [0..d -> SUBSET Obj]
  /\ u[0] = {i \in Obj : IsWhole(p, i)}
  /\ \A n \in 1..d : u[n] = Deeper(p, u[n - 1])

\* There are such levels: by the least number of links for which no function has
\* the levels up to it.
LEMMA LevelsExist ==
  ASSUME NEW p, NEW d \in Nat
  PROVE  \E u : Levels(p, d, u)
<1> DEFINE W == {i \in Obj : IsWhole(p, i)}
           Chain(e, u) == Levels(p, e, u)
           T == {e \in 0..d : ~ \E u : Chain(e, u)}
<1> USE DEF Levels
<1>1. \E u : Chain(0, u)
  <2> DEFINE u == [n \in 0..0 |-> W]
  <2>1. u \in [0..0 -> SUBSET Obj] /\ u[0] = W /\ 1..0 = {}
    OBVIOUS
  <2> HIDE DEF u
  <2>2. Levels(p, 0, u)
    BY <2>1
  <2> HIDE DEF Levels
  <2> QED
    BY <2>2
<1>2. ASSUME NEW e \in 1..d, NEW g, Chain(e - 1, g)
      PROVE  \E u : Chain(e, u)
  <2> DEFINE u == [n \in 0..e |-> IF n < e THEN g[n] ELSE Deeper(p, g[e - 1])]
  <2>1. e \in Nat /\ e - 1 \in 0..e-1
    OBVIOUS
  <2>2. Deeper(p, g[e - 1]) \in SUBSET Obj
    BY <1>2, <2>1, DeeperIs
  <2>3. u \in [0..e -> SUBSET Obj]
    BY <1>2, <2>1, <2>2
  <2>4. u[0] = W
    BY <1>2, <2>1
  <2>5. ASSUME NEW n \in 1..e
        PROVE  u[n] = Deeper(p, u[n - 1])
    <3>1. n - 1 \in 0..e /\ n - 1 < e /\ u[n - 1] = g[n - 1]
      BY <2>1
    <3>2. CASE n < e
      <4>1. u[n] = g[n] /\ n \in 1..e-1
        BY <2>1, <3>2
      <4> QED
        BY <1>2, <3>1, <4>1
    <3>3. CASE n = e
      BY <2>1, <3>1, <3>3
    <3> QED
      BY <2>1, <3>2, <3>3
  <2> QED
    BY <2>3, <2>4, <2>5
<1> HIDE DEF Chain
<1>3. T = {}
  <2> SUFFICES ASSUME T # {} PROVE FALSE
    OBVIOUS
  <2>1. T \in SUBSET Nat
    OBVIOUS
  <2>2. PICK e \in T : \A k \in T : ~ (k < e)
    BY <2>1, LeastExists
  <2>3. e # 0 /\ e \in 1..d /\ e - 1 \in 0..d /\ e - 1 < e
    <3>1. e \in 0..d
      OBVIOUS
    <3>2. e # 0
      BY <1>1
    <3> QED
      BY <3>1, <3>2
  <2>4. \E u : Chain(e - 1, u)
    BY <2>2, <2>3
  <2> QED
    BY <1>2, <2>3, <2>4
<1> QED
  BY <1>3 DEF Chain

\* DepthOf is the last of its levels.
LEMMA DepthLevels ==
  ASSUME NEW p, NEW d \in Nat
  PROVE  \E u : Levels(p, d, u) /\ DepthOf(p, d) = u[d]
<1>1. PICK g : Levels(p, d, g)
  BY LevelsExist
<1>2. /\ g \in [0..d -> SUBSET Obj] /\ g[0] = {i \in Obj : IsWhole(p, i)}
      /\ \A n \in 1..d : g[n] = Deeper(p, g[n - 1])
  BY <1>1 DEF Levels
<1> DEFINE W == {i \in Obj : p[i].kind = "whole"}
           Step(u, n) ==
             IF n = 0 THEN W
             ELSE u[n - 1]
                    \cup {i \in Obj : p[i].kind = "ofs" /\ p[i].at \in u[n - 1]}
                    \cup {i \in Obj : /\ p[i].kind = "ref"
                                      /\ \E j \in u[n - 1] : p[j].id = p[i].of}
           f == CHOOSE u : u = [n \in 0..d |-> Step(u, n)]
<1>3. DepthOf(p, d) = f[d]
  BY DEF DepthOf
<1>4. g = [n \in 0..d |-> Step(g, n)]
  <2>1. ASSUME NEW n \in 0..d
        PROVE  g[n] = Step(g, n)
    <3>1. CASE n = 0
      BY <1>2, <3>1 DEF IsWhole
    <3>2. CASE n # 0
      <4>1. n \in 1..d /\ n - 1 \in 0..d
        BY <3>2
      <4>2. g[n - 1] \in SUBSET Obj
        BY <1>2, <4>1
      <4>3. g[n] = Deeper(p, g[n - 1])
        BY <1>2, <4>1
      <4>4. g[n - 1] \cup {i \in Obj : p[i].kind = "ofs" /\ p[i].at \in g[n - 1]}
              \cup {i \in Obj : p[i].kind = "ref" /\ \E j \in g[n - 1] : p[j].id = p[i].of}
            = Deeper(p, g[n - 1])
        BY <4>2, DeeperIs
      <4>5. Step(g, n) = Deeper(p, g[n - 1])
        BY <3>2, <4>4
      <4> QED
        BY <4>3, <4>5
    <3> QED
      BY <3>1, <3>2
  <2> HIDE DEF Step
  <2> QED
    BY <1>2, <2>1
<1>5. f = [n \in 0..d |-> Step(f, n)]
  <2>1. \E u : u = [n \in 0..d |-> Step(u, n)]
    BY <1>4
  <2> QED
    BY <2>1
<1> HIDE DEF f
<1>6. f[0] = {i \in Obj : IsWhole(p, i)}
  BY <1>5 DEF IsWhole
<1>7. ASSUME NEW n \in 1..d, f[n - 1] \in SUBSET Obj
      PROVE  f[n] = Deeper(p, f[n - 1]) /\ f[n] \in SUBSET Obj
  <2>1. n \in 0..d /\ n # 0
    OBVIOUS
  <2>2. f[n] = Step(f, n)
    <3> HIDE DEF Step
    <3> QED
      BY <1>5, <2>1
  <2> PICK D \in SUBSET Obj : D = f[n - 1]
    BY <1>7
  <2>3. f[n] = D \cup {i \in Obj : p[i].kind = "ofs" /\ p[i].at \in D}
                 \cup {i \in Obj : p[i].kind = "ref" /\ \E j \in D : p[j].id = p[i].of}
    BY <2>1, <2>2
  <2> QED
    BY <2>3, DeeperIs
<1> DEFINE B == {n \in 0..d : f[n] \notin SUBSET Obj}
<1>8. B = {}
  <2> SUFFICES ASSUME B # {} PROVE FALSE
    OBVIOUS
  <2>1. PICK n \in B : \A k \in B : ~ (k < n)
    <3>1. B \in SUBSET Nat
      OBVIOUS
    <3> QED
      BY <3>1, LeastExists
  <2>2. n \in 0..d /\ n # 0
    BY <1>6
  <2>3. n \in 1..d /\ n - 1 \in 0..d /\ n - 1 < n
    BY <2>2
  <2>4. f[n - 1] \in SUBSET Obj
    BY <2>1, <2>3
  <2> QED
    BY <1>7, <2>3, <2>4
<1>9. f \in [0..d -> SUBSET Obj]
  <2>1. f = [n \in 0..d |-> f[n]]
    <3> HIDE DEF Step
    <3> QED
      BY <1>5
  <2> QED
    BY <1>8, <2>1
<1>10. \A n \in 1..d : f[n] = Deeper(p, f[n - 1])
  <2> TAKE n \in 1..d
  <2>1. n - 1 \in 0..d
    OBVIOUS
  <2> QED
    BY <1>7, <1>9, <2>1
<1> QED
  BY <1>3, <1>6, <1>9, <1>10 DEF Levels

\* No link, or one more than before
LEMMA DepthFacts ==
  ASSUME NEW p
  PROVE  /\ DepthOf(p, 0) = {i \in Obj : IsWhole(p, i)}
         /\ \A d \in Nat : /\ DepthOf(p, d) \in SUBSET Obj
                           /\ DepthOf(p, d + 1) = Deeper(p, DepthOf(p, d))
<1>1. DepthOf(p, 0) = {i \in Obj : IsWhole(p, i)}
  BY DepthLevels DEF Levels
<1>2. ASSUME NEW d \in Nat
      PROVE  DepthOf(p, d) \in SUBSET Obj
  BY DepthLevels DEF Levels
<1>3. ASSUME NEW d \in Nat
      PROVE  DepthOf(p, d + 1) = Deeper(p, DepthOf(p, d))
  <2> PICK e \in Nat : e = d + 1
    OBVIOUS
  <2>1. PICK u : Levels(p, d, u) /\ DepthOf(p, d) = u[d]
    BY DepthLevels
  <2>2. PICK v : Levels(p, e, v) /\ DepthOf(p, e) = v[e]
    BY DepthLevels
  <2> DEFINE B == {n \in 0..d : u[n] # v[n]}
  <2>3. B = {}
    <3> SUFFICES ASSUME B # {} PROVE FALSE
      OBVIOUS
    <3>1. PICK n \in B : \A k \in B : ~ (k < n)
      <4>1. B \in SUBSET Nat
        OBVIOUS
      <4> QED
        BY <4>1, LeastExists
    <3>2. n \in 0..d /\ n # 0
      BY <2>1, <2>2 DEF Levels
    <3>3. n \in 1..d /\ n \in 1..e /\ n - 1 \in 0..d /\ n - 1 < n
      BY <3>2
    <3>4. u[n - 1] = v[n - 1]
      BY <3>1, <3>3
    <3>5. u[n] = v[n]
      BY <2>1, <2>2, <3>3, <3>4 DEF Levels
    <3> QED
      BY <3>5
  <2>4. u[d] = v[d]
    BY <2>3
  <2>5. v[e] = Deeper(p, v[e - 1]) /\ e - 1 = d
    BY <2>2 DEF Levels
  <2> QED
    BY <2>1, <2>2, <2>4, <2>5
<1> QED
  BY <1>1, <1>2, <1>3

LEMMA DepthMono ==
  ASSUME NEW p, NEW a \in Nat, NEW b \in Nat, a <= b
  PROVE  DepthOf(p, a) \subseteq DepthOf(p, b)
<1> DEFINE B == {n \in Nat : a <= n /\ ~ (DepthOf(p, a) \subseteq DepthOf(p, n))}
<1> SUFFICES ASSUME B # {} PROVE FALSE
  OBVIOUS
<1>1. PICK n \in B : \A k \in B : ~ (k < n)
  <2>1. B \in SUBSET Nat
    OBVIOUS
  <2> QED
    BY <2>1, LeastExists
<1>2. n \in Nat /\ n # a /\ a <= n
  OBVIOUS
<1>3. n - 1 \in Nat /\ a <= n - 1 /\ n - 1 < n /\ (n - 1) + 1 = n
  BY <1>2
<1>4. DepthOf(p, a) \subseteq DepthOf(p, n - 1)
  BY <1>1, <1>3
<1>5. DepthOf(p, n) = Deeper(p, DepthOf(p, n - 1))
  <2> PICK k \in Nat : k = n - 1 /\ k + 1 = n
    BY <1>3
  <2> QED
    BY DepthFacts
<1>6. DepthOf(p, n - 1) \subseteq DepthOf(p, n)
  BY <1>5 DEF Deeper
<1> QED
  BY <1>4, <1>6

\* A delta is one deeper than its base.
LEMMA DepthOfKid ==
  ASSUME NEW p, Single(p), NEW j \in Obj, NEW i \in Kids(p, j), NEW d \in Nat, i \in DepthOf(p, d)
  PROVE  d # 0 /\ j \in DepthOf(p, d - 1)
<1> DEFINE B == {n \in Nat : i \in DepthOf(p, n)}
<1>1. PICK n \in B : \A k \in B : ~ (k < n)
  <2>1. B \in SUBSET Nat /\ B # {}
    OBVIOUS
  <2> QED
    BY <2>1, LeastExists
<1>2. ~ (d < n) /\ n \in Nat
  BY <1>1
<1>3. n # 0
  BY KidFacts, DepthFacts
<1>4. PICK k \in Nat : k + 1 = n /\ k < n
  BY <1>2, <1>3
<1>5. i \notin DepthOf(p, k)
  BY <1>1, <1>4
<1>6. i \in Deeper(p, DepthOf(p, k)) /\ DepthOf(p, k) \in SUBSET Obj
  BY <1>4, DepthFacts
<1>7. j \in DepthOf(p, k)
  BY <1>5, <1>6, KidFacts DEF Deeper
<1>8. d # 0 /\ d - 1 \in Nat /\ k <= d - 1
  BY <1>2, <1>4
<1> QED
  BY <1>7, <1>8, DepthMono

\* The shares part the forest.
LEMMA MineFacts ==
  ASSUME NEW p, Single(p), NEW n \in Nat \ {0}, NEW w
  PROVE  /\ Share(p, n, w) \subseteq Mine(p, n, w)
         /\ \A i \in Mine(p, n, w) : IsWhole(p, i) => i \in Share(p, n, w)
         /\ \A j \in Obj : \A i \in Kids(p, j) : i \in Mine(p, n, w) <=> j \in Mine(p, n, w)
<1> DEFINE M == Mine(p, n, w)
           Shut(S) == Share(p, n, w) \subseteq S /\ \A j \in S : Kids(p, j) \subseteq S
<1>1. M \in SUBSET Obj /\ Share(p, n, w) \subseteq M
  BY DEF Mine, Share
<1>2. \A S \in SUBSET Obj : Shut(S) => M \subseteq S
  BY DEF Mine
<1>3. ASSUME NEW j \in M, NEW i \in Kids(p, j)
      PROVE  i \in M
  BY <1>1, <1>3, KidFacts DEF Mine
<1>4. \A i \in M : IsWhole(p, i) => i \in Share(p, n, w)
  <2> SUFFICES ASSUME NEW i \in M, IsWhole(p, i), i \notin Share(p, n, w)
               PROVE  FALSE
    OBVIOUS
  <2>1. Shut(M \ {i})
    BY <1>1, <1>3, KidFacts
  <2>2. M \ {i} \in SUBSET Obj
    BY <1>1
  <2> QED
    BY <1>2, <2>1, <2>2
<1>5. ASSUME NEW j \in Obj, NEW i \in Kids(p, j), i \in M, j \notin M
      PROVE  FALSE
  <2>1. i \notin Share(p, n, w) /\ \A l \in M : i \notin Kids(p, l)
    BY <1>1, <1>5, KidFacts DEF Share
  <2>2. Shut(M \ {i})
    BY <1>1, <1>3, <2>1
  <2>3. M \ {i} \in SUBSET Obj
    BY <1>1
  <2> QED
    BY <1>2, <1>5, <2>2, <2>3
<1> QED
  BY <1>1, <1>3, <1>4, <1>5

LEMMA MineApart ==
  ASSUME NEW p, Single(p), NEW n \in Nat \ {0}, NEW v, NEW w, v # w
  PROVE  Mine(p, n, v) \cap Mine(p, n, w) = {}
<1> DEFINE V == Mine(p, n, v)
           X == Mine(p, n, w)
           S == V \ X
<1>1. V \in SUBSET Obj /\ X \in SUBSET Obj
  BY DEF Mine
<1>2. Share(p, n, v) \subseteq S
  <2>1. Share(p, n, v) \subseteq V
    BY MineFacts
  <2>2. \A i \in X : IsWhole(p, i) => i \in Share(p, n, w)
    BY MineFacts
  <2> QED
    BY <2>1, <2>2 DEF Share
<1>3. \A j \in S : Kids(p, j) \subseteq S
  BY <1>1, MineFacts
<1>4. S \in SUBSET Obj
  BY <1>1
<1>5. V \subseteq S
  <2> HIDE DEF S
  <2> QED
    BY <1>2, <1>3, <1>4 DEF Mine
<1> QED
  BY <1>5

\* What hangs below a whole object is in some worker's share.
LEMMA MineCovers ==
  ASSUME NEW p, Single(p), NEW n \in Nat \ {0}, NEW d \in Nat, NEW i \in DepthOf(p, d)
  PROVE  \E w \in 0..n-1 : i \in Mine(p, n, w)
<1> DEFINE Ours(x) == \E w \in 0..n-1 : x \in Mine(p, n, w)
           B == {e \in Nat : \E x \in DepthOf(p, e) : ~ Ours(x)}
<1> SUFFICES ASSUME B # {} PROVE FALSE
  OBVIOUS
<1>1. PICK e \in B : \A k \in B : ~ (k < e)
  <2>1. B \in SUBSET Nat
    OBVIOUS
  <2> QED
    BY <2>1, LeastExists
<1>2. PICK x \in DepthOf(p, e) : ~ Ours(x)
  OBVIOUS
<1> HIDE DEF B
<1>3. e \in Nat
  BY DEF B
<1>4. CASE e = 0
  <2>1. x \in Obj /\ IsWhole(p, x)
    BY <1>2, <1>4, DepthFacts
  <2>2. x - 1 \in Nat
    BY <2>1, Sizes DEF Obj
  <2>3. (x - 1) % n \in 0..n-1
    BY <2>2, ShareSteps
  <2>4. x \in Share(p, n, (x - 1) % n)
    BY <2>1 DEF Share
  <2>5. x \in Mine(p, n, (x - 1) % n)
    BY <2>4, MineFacts
  <2> QED
    BY <1>2, <2>3, <2>5
<1>5. CASE e # 0
  <2>1. PICK k \in Nat : k + 1 = e /\ k < e
    BY <1>3, <1>5
  <2>2. x \in Deeper(p, DepthOf(p, k)) /\ DepthOf(p, k) \in SUBSET Obj
    BY <1>2, <2>1, DepthFacts
  <2>3. k \notin B
    BY <1>1, <2>1
  <2>4. \A y \in DepthOf(p, k) : Ours(y)
    BY <2>3 DEF B
  <2>5. PICK j \in DepthOf(p, k) : x \in Kids(p, j)
    BY <1>2, <2>2, <2>4 DEF Deeper
  <2>6. PICK w \in 0..n-1 : j \in Mine(p, n, w)
    BY <2>4
  <2>7. x \in Mine(p, n, w)
    BY <2>2, <2>5, <2>6, MineFacts
  <2> QED
    BY <1>2, <2>7
<1> QED
  BY <1>4, <1>5

----------------------------------------------------------------------------
\* The order of a list

\* The deltas that name their base by its id come first, and among those of a
\* kind the last.
Key(p, i) == IF p[i].kind = "ref" THEN Size + i ELSE i

\* What a list of a set of deltas begins with
TopOf(p, S, s) ==
  IF S = {} THEN s = 0 ELSE s \in S /\ \A k \in S : Key(p, k) <= Key(p, s)

Under(p, j, i) == {k \in Kids(p, j) : Key(p, k) < Key(p, i)}

\* The deltas that are still on an object's list
Left(p, m, j) == {k \in Kids(p, j) : m.child[j] # 0 /\ Key(p, k) <= Key(p, m.child[j])}

\* The lists of a memory: a list is what is left of the deltas on its object, in
\* order, those by place alone until the object is resolved; and what is resolved
\* was taken off the list of something resolved.
Ordered(p, m) ==
  \A j \in Obj :
    /\ m.child[j] # 0 => m.child[j] \in Kids(p, j)
    /\ ~m.resolved[j] => Left(p, m, j) = OfsKids(p, j)
    /\ \A i \in Kids(p, j) :
         /\ m.resolved[j] \/ i \in OfsKids(p, j) => TopOf(p, Under(p, j, i), m.sibling[i])
         /\ m.resolved[i] => m.resolved[j] /\ i \notin Left(p, m, j)

LEMMA KeyFacts ==
  ASSUME NEW p
  PROVE  /\ \A i \in Obj : i \in Nat \ {0} /\ i <= Size /\ Key(p, i) \in Nat
         /\ \A i, k \in Obj : Key(p, i) = Key(p, k) => i = k
         /\ \A i, k \in Obj : p[i].kind # "ref" /\ p[k].kind = "ref" => Key(p, i) < Key(p, k)
         /\ \A i, k \in Obj : (p[i].kind = "ref" <=> p[k].kind = "ref")
                                => (Key(p, i) < Key(p, k) <=> i < k)
<1>1. \A i \in Obj : i \in Nat \ {0} /\ i <= Size
  BY Sizes DEF Obj
<1> QED
  BY <1>1, Sizes DEF Key

\* The last of a set of deltas of one kind comes first.
LEMMA HighestOnTop ==
  ASSUME NEW p, NEW S \in SUBSET Obj,
         \A i, k \in S : p[i].kind = "ref" <=> p[k].kind = "ref"
  PROVE  TopOf(p, S, Highest(S))
<1>1. CASE S = {}
  BY <1>1 DEF TopOf, Highest
<1>2. CASE S # {}
  <2>1. \E m \in S : \A k \in S : k <= m
    BY <1>2, Sizes, GreatestExists DEF Obj
  <2>2. Highest(S) \in S /\ \A k \in S : k <= Highest(S)
    BY <1>2, <2>1 DEF Highest
  <2>3. \A k \in S : Key(p, k) <= Key(p, Highest(S))
    <3> TAKE k \in S
    <3> PICK l : l = Highest(S)
      OBVIOUS
    <3>1. k \in Obj /\ l \in Obj /\ k \in Nat /\ l \in Nat /\ k <= l
      BY <2>2, KeyFacts
    <3>2. Key(p, k) \in Nat /\ Key(p, l) \in Nat
      BY <3>1, KeyFacts
    <3>3. (p[l].kind = "ref" <=> p[k].kind = "ref")
      BY <2>2
    <3>4. Key(p, l) < Key(p, k) <=> l < k
      BY <3>1, <3>3, KeyFacts
    <3> QED
      BY <3>1, <3>2, <3>4
  <2> QED
    BY <1>2, <2>2, <2>3 DEF TopOf
<1> QED
  BY <1>1, <1>2

\* What begins with the top of a set holds what is not above it.
LEMMA TopFrom ==
  ASSUME NEW p, NEW m, NEW j \in Obj, NEW S \in SUBSET Kids(p, j), TopOf(p, S, m.child[j]),
         \A k \in Kids(p, j) : \A s \in S : Key(p, k) <= Key(p, s) => k \in S
  PROVE  Left(p, m, j) = S /\ (m.child[j] # 0 => m.child[j] \in S)
<1>1. 0 \notin Obj /\ Kids(p, j) \subseteq Obj
  BY KeyFacts, Sizes DEF Kids, OfsKids, RefKids, Obj
<1> QED
  BY <1>1 DEF Left, TopOf

\* And conversely.
LEMMA LeftOnTop ==
  ASSUME NEW p, NEW m, NEW j \in Obj, m.child[j] # 0 => m.child[j] \in Kids(p, j)
  PROVE  TopOf(p, Left(p, m, j), m.child[j])
<1>1. Kids(p, j) \subseteq Obj
  BY DEF Kids, OfsKids, RefKids
<1>2. m.child[j] # 0 => m.child[j] \in Left(p, m, j)
  <2> PICK c : c = m.child[j]
    OBVIOUS
  <2>1. c # 0 => c \in Kids(p, j) /\ Key(p, c) \in Nat
    BY <1>1, KeyFacts
  <2> QED
    BY <2>1 DEF Left
<1> QED
  BY <1>2 DEF Left, TopOf

\* The lists as they are made first
LEMMA OfsListsOrdered ==
  ASSUME NEW p, \A i \in Obj : p[i].kind = "ofs" => p[i].at \in Obj
  PROVE  Ordered(p, OfsLists(p)) /\ \A i \in Obj : ~OfsLists(p).resolved[i]
<1> PICK o : o = OfsLists(p)
  OBVIOUS
<1>1. /\ o.child = [j \in Obj |-> Highest(OfsKids(p, j))]
      /\ o.sibling = [i \in Obj |-> IF p[i].kind = "ofs"
                                    THEN Highest({k \in OfsKids(p, p[i].at) : k < i}) ELSE 0]
      /\ o.resolved = [i \in Obj |-> FALSE]
  BY DEF OfsLists, OfsKids
<1>2. ASSUME NEW j \in Obj
      PROVE  /\ o.child[j] # 0 => o.child[j] \in Kids(p, j)
             /\ Left(p, o, j) = OfsKids(p, j)
  <2>1. TopOf(p, OfsKids(p, j), o.child[j])
    <3>1. OfsKids(p, j) \in SUBSET Obj /\ \A i \in OfsKids(p, j) : ~ (p[i].kind = "ref")
      BY DEF OfsKids
    <3>2. TopOf(p, OfsKids(p, j), Highest(OfsKids(p, j)))
      BY <3>1, HighestOnTop
    <3> QED
      BY <1>1, <3>2
  <2>2. OfsKids(p, j) \in SUBSET Kids(p, j)
    BY DEF Kids
  <2>3. \A k \in Kids(p, j) : \A s \in OfsKids(p, j) :
          Key(p, k) <= Key(p, s) => k \in OfsKids(p, j)
    <3> TAKE k \in Kids(p, j)
    <3> TAKE s \in OfsKids(p, j)
    <3>1. k \in RefKids(p, j) => Key(p, s) < Key(p, k)
      BY KeyFacts DEF RefKids, OfsKids
    <3>2. k \in Obj /\ s \in Obj
      BY DEF Kids, OfsKids, RefKids
    <3>3. Key(p, k) \in Nat /\ Key(p, s) \in Nat
      BY <3>2, KeyFacts
    <3> QED
      BY <3>1, <3>3 DEF Kids
  <2>4. Left(p, o, j) = OfsKids(p, j) /\ (o.child[j] # 0 => o.child[j] \in OfsKids(p, j))
    BY <2>1, <2>2, <2>3, TopFrom
  <2> QED
    BY <2>2, <2>4
<1>3. ASSUME NEW j \in Obj, NEW i \in OfsKids(p, j)
      PROVE  TopOf(p, Under(p, j, i), o.sibling[i])
  <2> PICK S : S = {k \in OfsKids(p, j) : k < i}
    OBVIOUS
  <2>1. i \in Obj /\ p[i].kind = "ofs" /\ p[i].at = j
    BY DEF OfsKids
  <2>2. o.sibling[i] = Highest(S)
    BY <1>1, <2>1
  <2>3. S \in SUBSET Obj /\ \A k \in S : ~ (p[k].kind = "ref")
    BY DEF OfsKids
  <2>4. S = Under(p, j, i)
    <3>1. \A k \in RefKids(p, j) : Key(p, i) < Key(p, k) /\ Key(p, k) \in Nat /\ Key(p, i) \in Nat
      BY <2>1, KeyFacts DEF RefKids
    <3>2. \A k \in OfsKids(p, j) : Key(p, k) < Key(p, i) <=> k < i
      BY <2>1, KeyFacts DEF OfsKids
    <3> QED
      BY <3>1, <3>2 DEF Under, Kids
  <2> QED
    BY <2>2, <2>3, <2>4, HighestOnTop
<1> QED
  BY <1>1, <1>2, <1>3 DEF Ordered, Kids, OfsKids, RefKids


\* A memory after an object has been resolved, and what names it been hung on it
Resolved(p, m, j) == Hang([m EXCEPT !.resolved[j] = TRUE], j, RefKids(p, j))

Before(p, j, i) == {k \in RefKids(p, j) : k < i}

Hung(p, m, j, h) ==
  /\ h.child[j] = IF RefKids(p, j) = {} THEN m.child[j] ELSE Highest(RefKids(p, j))
  /\ \A i \in Obj : i # j => h.child[i] = m.child[i]
  /\ \A i \in Obj : h.sibling[i] =
       IF i \notin RefKids(p, j) THEN m.sibling[i]
       ELSE IF Before(p, j, i) = {} THEN m.child[j] ELSE Highest(Before(p, j, i))
  /\ h.resolved = [m.resolved EXCEPT ![j] = TRUE]

LEMMA ResolvedIs ==
  ASSUME NEW p, NEW m \in Lists, NEW j \in Obj
  PROVE  Hung(p, m, j, Resolved(p, m, j))
<1> DEFINE S == RefKids(p, j)
           after(i) == {k \in S : k < i}
           h == Resolved(p, m, j)
           head == IF S = {} THEN m.child[j] ELSE Highest(S)
           beside(i) == IF i \notin S THEN m.sibling[i]
                        ELSE IF after(i) = {} THEN m.child[j] ELSE Highest(after(i))
<1> PICK q : q = [m EXCEPT !.resolved[j] = TRUE]
  OBVIOUS
<1>1. /\ m.child = q.child /\ m.sibling = q.sibling /\ q.resolved = [m.resolved EXCEPT ![j] = TRUE]
      /\ q = [child |-> q.child, sibling |-> q.sibling, resolved |-> q.resolved]
  BY DEF Lists
<1>2. h = [q EXCEPT !.child = [q.child EXCEPT ![j] = head],
                    !.sibling = [i \in Obj |-> beside(i)]]
  BY <1>1 DEF Hang, Resolved
<1> HIDE DEF h, head, beside
<1>3. /\ h.child = [q.child EXCEPT ![j] = head] /\ h.sibling = [i \in Obj |-> beside(i)]
      /\ h.resolved = q.resolved
  BY <1>1, <1>2
<1>4. m.child \in [Obj -> 0..Size]
  BY DEF Lists
<1> QED
  BY <1>1, <1>3, <1>4 DEF h, head, beside, Before, Hung

\* Resolving an object fills its list.
Filled(p, m, j, h) ==
  /\ Ordered(p, h)
  /\ Left(p, h, j) = Kids(p, j)
  /\ h.resolved = [m.resolved EXCEPT ![j] = TRUE]
  /\ \A l \in Obj : l # j => h.child[l] = m.child[l] /\ Left(p, h, l) = Left(p, m, l)

LEMMA ResolveOrdered ==
  ASSUME NEW p, Single(p), NEW m \in Lists, Ordered(p, m), NEW j \in Obj, ~m.resolved[j],
         \A l \in Obj : j \in Kids(p, l) => m.resolved[l] /\ j \notin Left(p, m, l)
  PROVE  Filled(p, m, j, Resolved(p, m, j))
<1> DEFINE S == RefKids(p, j)
           O == OfsKids(p, j)
           after(i) == Before(p, j, i)
<1> PICK h : h = Resolved(p, m, j)
  OBVIOUS
<1>1. /\ h.child[j] = IF S = {} THEN m.child[j] ELSE Highest(S)
      /\ \A i \in Obj : i # j => h.child[i] = m.child[i]
      /\ \A i \in Obj : h.sibling[i] = IF i \notin S THEN m.sibling[i]
                                       ELSE IF after(i) = {} THEN m.child[j]
                                       ELSE Highest(after(i))
      /\ h.resolved = [m.resolved EXCEPT ![j] = TRUE]
  <2>1. Hung(p, m, j, h)
    BY ResolvedIs
  <2> QED
    BY <2>1 DEF Hung
<1>2. /\ m.child \in [Obj -> 0..Size] /\ m.resolved \in [Obj -> BOOLEAN]
      /\ Kids(p, j) = O \cup S /\ O \in SUBSET Obj /\ S \in SUBSET Obj
  BY DEF Lists, Kids, OfsKids, RefKids
<1>3. TopOf(p, O, m.child[j])
  <2>1. Left(p, m, j) = O
    BY DEF Ordered
  <2>2. TopOf(p, Left(p, m, j), m.child[j])
    BY LeftOnTop DEF Ordered
  <2> QED
    BY <2>1, <2>2
<1>4. \A o \in O : \A s \in S : Key(p, o) < Key(p, s) /\ Key(p, o) \in Nat /\ Key(p, s) \in Nat
  BY KeyFacts DEF OfsKids, RefKids
<1>5. \A i \in Obj : Key(p, i) \in Nat
  BY KeyFacts
<1>6. TopOf(p, Kids(p, j), h.child[j])
  <2>1. CASE S = {}
    BY <1>1, <1>2, <1>3, <2>1
  <2>2. CASE S # {}
    <3>1. TopOf(p, S, Highest(S))
      BY HighestOnTop DEF RefKids
    <3>2. h.child[j] = Highest(S)
      BY <1>1, <1>2, <2>2
    <3> PICK t : t = Highest(S)
      OBVIOUS
    <3>3. t \in S /\ \A k \in S : Key(p, k) <= Key(p, t)
      BY <2>2, <3>1 DEF TopOf
    <3> HIDE DEF S, O
    <3>4. \A k \in O : Key(p, k) <= Key(p, t)
      BY <1>4, <3>3
    <3> QED
      BY <1>2, <3>2, <3>3, <3>4 DEF TopOf
  <2> QED
    BY <2>1, <2>2
<1>7. Left(p, h, j) = Kids(p, j) /\ (h.child[j] # 0 => h.child[j] \in Kids(p, j))
  BY <1>6, TopFrom
<1>8. \A l \in Obj : l # j => h.child[l] = m.child[l] /\ Left(p, h, l) = Left(p, m, l)
  BY <1>1, <1>2 DEF Left
<1>9. ASSUME NEW i \in S
      PROVE  TopOf(p, Under(p, j, i), h.sibling[i])
  <2>1. Under(p, j, i) = O \cup after(i)
    <3>1. i \in Obj /\ \A k \in S : Key(p, k) < Key(p, i) <=> k < i
      BY KeyFacts DEF RefKids
    <3> HIDE DEF S, O
    <3> QED
      BY <1>2, <1>4, <3>1 DEF Under, Before, S
  <2>2. CASE after(i) = {}
    <3>1. h.sibling[i] = m.child[j]
      BY <1>1, <1>2, <2>2
    <3> QED
      BY <1>3, <2>1, <2>2, <3>1
  <2>3. CASE after(i) # {}
    <3>1. h.sibling[i] = Highest(after(i))
      BY <1>1, <1>2, <2>3
    <3>2. TopOf(p, after(i), Highest(after(i)))
      BY HighestOnTop DEF RefKids, Before
    <3> PICK t : t = Highest(after(i))
      OBVIOUS
    <3>3. t \in after(i) /\ \A k \in after(i) : Key(p, k) <= Key(p, t)
      BY <2>3, <3>2 DEF TopOf
    <3> HIDE DEF S, O
    <3>4. \A k \in O : Key(p, k) <= Key(p, t)
      BY <1>4, <3>3 DEF Before, S
    <3> QED
      BY <2>1, <3>1, <3>3, <3>4 DEF TopOf
  <2> QED
    BY <2>2, <2>3
<1>10. ASSUME NEW l \in Obj, NEW i \in Kids(p, l), h.resolved[l] \/ i \in OfsKids(p, l)
       PROVE  TopOf(p, Under(p, l, i), h.sibling[i])
  <2>1. CASE i \in S
    <3>1. l = j
      BY <2>1, KidFacts DEF Kids
    <3> QED
      BY <1>9, <2>1, <3>1
  <2>2. CASE i \notin S
    <3>1. i \in Obj /\ h.sibling[i] = m.sibling[i]
      BY <1>1, <2>2, KidFacts
    <3>2. m.resolved[l] \/ i \in OfsKids(p, l)
      BY <1>1, <1>2, <1>10, <2>2
    <3> QED
      BY <3>1, <3>2 DEF Ordered
  <2> QED
    BY <2>1, <2>2
<1>11. ASSUME NEW l \in Obj, NEW i \in Kids(p, l), h.resolved[i]
       PROVE  h.resolved[l] /\ i \notin Left(p, h, l)
  <2>1. i \in Obj
    BY KidFacts
  <2>2. m.resolved[l] /\ i \notin Left(p, m, l)
    <3>1. CASE i = j
      BY <3>1
    <3>2. CASE i # j
      BY <1>1, <1>2, <1>11, <2>1, <3>2 DEF Ordered
    <3> QED
      BY <3>1, <3>2
  <2>3. l # j
    BY <2>2
  <2> QED
    BY <1>1, <1>2, <1>8, <2>2, <2>3
<1>12. ASSUME NEW l \in Obj
       PROVE  /\ h.child[l] # 0 => h.child[l] \in Kids(p, l)
              /\ ~h.resolved[l] => Left(p, h, l) = OfsKids(p, l)
  <2>1. CASE l = j
    BY <1>1, <1>2, <1>7, <2>1
  <2>2. CASE l # j
    BY <1>1, <1>2, <1>8, <2>2 DEF Ordered
  <2> QED
    BY <2>1, <2>2
<1>13. Ordered(p, h)
  BY <1>10, <1>11, <1>12 DEF Ordered
<1> QED
  BY <1>1, <1>7, <1>8, <1>13 DEF Filled

\* Taking the first delta off the list of something resolved
Popped(m, t) == [m EXCEPT !.child[t] = m.sibling[m.child[t]]]

Taken(p, m, t, c, h) ==
  /\ c \in Kids(p, t) /\ c \in Left(p, m, t) /\ ~m.resolved[c] /\ c # t
  /\ h \in Lists /\ Ordered(p, h) /\ h.resolved = m.resolved
  /\ Left(p, h, t) = Left(p, m, t) \ {c}
  /\ \A l \in Obj : l # t => h.child[l] = m.child[l] /\ Left(p, h, l) = Left(p, m, l)

LEMMA PopOrdered ==
  ASSUME NEW p, Single(p), NEW m \in Lists, Ordered(p, m), NEW t \in Obj, m.resolved[t],
         NEW c, c = m.child[t], c # 0
  PROVE  Taken(p, m, t, c, Popped(m, t))
<1> PICK h : h = Popped(m, t)
  OBVIOUS
<1>1. c \in Kids(p, t) /\ c \in Obj
  BY KidFacts DEF Ordered
<1>2. c \in Left(p, m, t)
  <2>1. c \in Kids(p, t) /\ Key(p, c) \in Nat
    BY <1>1, KeyFacts
  <2> QED
    BY <2>1 DEF Left
<1>3. ~m.resolved[c] /\ c # t
  BY <1>1, <1>2 DEF Ordered
<1>4. /\ h.child = [m.child EXCEPT ![t] = m.sibling[c]] /\ h.sibling = m.sibling
      /\ h.resolved = m.resolved
      /\ h = [child |-> h.child, sibling |-> h.sibling, resolved |-> h.resolved]
  BY DEF Lists, Popped
<1>5. /\ m.child \in [Obj -> 0..Size] /\ m.sibling \in [Obj -> 0..Size]
      /\ m.resolved \in [Obj -> BOOLEAN] /\ h \in Lists
  BY <1>1, <1>4 DEF Lists
<1>6. h.child[t] = m.sibling[c] /\ \A l \in Obj : l # t => h.child[l] = m.child[l]
  BY <1>4, <1>5
<1>7. TopOf(p, Under(p, t, c), m.sibling[c])
  BY <1>1 DEF Ordered
<1>8. \A k \in Kids(p, t) : k \in Obj /\ Key(p, k) \in Nat
  BY KidFacts, KeyFacts
<1>9. Left(p, h, t) = Under(p, t, c) /\ (h.child[t] # 0 => h.child[t] \in Kids(p, t))
  <2>1. Under(p, t, c) \in SUBSET Kids(p, t)
    BY DEF Under
  <2>2. \A k \in Kids(p, t) : \A s \in Under(p, t, c) :
          Key(p, k) <= Key(p, s) => k \in Under(p, t, c)
    <3>1. Key(p, c) \in Nat
      BY <1>1, <1>8
    <3> QED
      BY <1>8, <3>1 DEF Under
  <2> PICK U \in SUBSET Kids(p, t) : U = Under(p, t, c)
    BY <2>1
  <2>3. /\ TopOf(p, U, h.child[t])
        /\ \A k \in Kids(p, t) : \A s \in U : Key(p, k) <= Key(p, s) => k \in U
    BY <1>6, <1>7, <2>2
  <2>4. Left(p, h, t) = U /\ (h.child[t] # 0 => h.child[t] \in U)
    BY <2>3, TopFrom
  <2> QED
    BY <2>1, <2>4
<1>10. Under(p, t, c) = Left(p, m, t) \ {c}
  <2>1. \A k \in Kids(p, t) : Key(p, k) < Key(p, c) <=> Key(p, k) <= Key(p, c) /\ k # c
    <3>1. Key(p, c) \in Nat
      BY <1>1, <1>8
    <3>2. \A k \in Kids(p, t) : Key(p, k) = Key(p, c) => k = c
      BY <1>1, <1>8, KeyFacts
    <3> QED
      BY <1>8, <3>1, <3>2
  <2> QED
    BY <2>1 DEF Under, Left
<1>11. \A l \in Obj : l # t => Left(p, h, l) = Left(p, m, l)
  BY <1>6 DEF Left
<1>12. ASSUME NEW l \in Obj
       PROVE  /\ h.child[l] # 0 => h.child[l] \in Kids(p, l)
              /\ ~h.resolved[l] => Left(p, h, l) = OfsKids(p, l)
              /\ Left(p, h, l) \subseteq Left(p, m, l)
  BY <1>4, <1>6, <1>9, <1>10, <1>11 DEF Ordered
<1>13. Ordered(p, h)
  BY <1>4, <1>12 DEF Ordered
<1> QED
  BY <1>1, <1>2, <1>3, <1>4, <1>5, <1>6, <1>9, <1>10, <1>11, <1>13 DEF Taken


----------------------------------------------------------------------------
\* A worker's share

\* The objects whose chain fits the stack
Short(p) == DepthOf(p, MaxChain - 1)

Has(p, o, i) == \E l \in 1..Len(o) : o[l] = <<p[i].id, i>>

AllWhole(p, m) == \A i \in Obj : IsWhole(p, i) => m.resolved[i]

\* Before its worker starts a share is as the parent's pass over the whole
\* objects has left it.
Unstarted(p, n, w, m, o) ==
  /\ o = <<>> /\ AllWhole(p, m)
  /\ \A j \in Mine(p, n, w) : m.resolved[j] => IsWhole(p, j) /\ Left(p, m, j) = Kids(p, j)

\* The root that is next
Rooted(n, w, r) == r \in Nat \ {0} /\ (r - 1) % n = w

\* The stack goes at least one link down with every frame.
Stacked(p, n, w, m, s) ==
  \A l \in 1..Len(s) :
    /\ s[l].node \in Mine(p, n, w) /\ m.resolved[s[l].node]
    /\ \A d \in Nat : s[l].node \in DepthOf(p, d) => l - 1 <= d

\* What is resolved is emitted, and the deltas on it are, or are still on its list,
\* or are too deep; a list that is not empty is on the stack or is a root to come.
Walked(p, n, w, m, r, s, o) ==
  \A j \in Mine(p, n, w) : m.resolved[j] =>
    /\ \A i \in Kids(p, j) \cap Short(p) : i \in Left(p, m, j) \/ m.resolved[i]
    /\ ~IsWhole(p, j) => Has(p, o, j)
    /\ m.child[j] # 0 => \/ \E l \in 1..Len(s) : s[l].node = j
                         \/ IsWhole(p, j) /\ j >= r

\* Nothing is emitted twice.
Distinct(p, n, w, m, o) ==
  \A l \in 1..Len(o) :
    /\ o[l][2] \in Mine(p, n, w) /\ m.resolved[o[l][2]]
    /\ \A x \in 1..Len(o) : o[l][2] = o[x][2] => l = x

Working(p, n, w, m, r, s, o) ==
  /\ AllWhole(p, m) /\ Rooted(n, w, r) /\ Stacked(p, n, w, m, s)
  /\ Walked(p, n, w, m, r, s, o) /\ Distinct(p, n, w, m, o)

Finished(p, n, w, o) ==
  \A i \in Mine(p, n, w) \cap Short(p) : ~IsWhole(p, i) => Has(p, o, i)

LEMMA EmptySequence == Len(<<>>) = 0 /\ 1..0 = {}
  OBVIOUS

\* The roots of a share
LEMMA RootFacts ==
  ASSUME NEW p, Single(p), NEW n \in Nat \ {0}, NEW w \in 0..n-1
  PROVE  /\ Rooted(n, w, w + 1)
         /\ \A j \in Mine(p, n, w) : IsWhole(p, j) => j \in Obj /\ j >= w + 1
         /\ \A r : Rooted(n, w, r) =>
              /\ Rooted(n, w, r + n)
              /\ \A j \in Mine(p, n, w) : IsWhole(p, j) /\ j > r => j >= r + n
              /\ r \in Obj /\ IsWhole(p, r) => r \in Mine(p, n, w)
<1>1. w \in Nat /\ w < n /\ w % n = w /\ (w + 1) - 1 = w /\ w + 1 \in Nat \ {0}
  BY ShareSteps
<1>2. ASSUME NEW j \in Mine(p, n, w), IsWhole(p, j)
      PROVE  j \in Obj /\ j \in Nat /\ j - 1 \in Nat /\ (j - 1) % n = w
  BY <1>2, MineFacts, KeyFacts DEF Share
<1>3. ASSUME NEW j \in Mine(p, n, w), IsWhole(p, j)
      PROVE  j >= w + 1
  <2> PICK x \in Nat : x = j - 1
    BY <1>2, <1>3
  <2>1. x % n = w /\ (x < w => x % n = x)
    BY <1>1, <1>2, <1>3, ShareSteps
  <2>2. x >= w
    BY <1>1, <2>1
  <2> QED
    BY <1>1, <1>2, <1>3, <2>2
<1>4. ASSUME NEW r, Rooted(n, w, r)
      PROVE  /\ Rooted(n, w, r + n)
             /\ \A j \in Mine(p, n, w) : IsWhole(p, j) /\ j > r => j >= r + n
             /\ r \in Obj /\ IsWhole(p, r) => r \in Mine(p, n, w)
  <2> PICK x \in Nat : x = r - 1 /\ r = x + 1
    BY <1>4 DEF Rooted
  <2>1. x % n = w /\ (x + n) % n = w /\ \A y \in Nat : x < y /\ y % n = w => x + n <= y
    BY <1>4, ShareSteps DEF Rooted
  <2>2. (r + n) - 1 = x + n /\ r + n \in Nat \ {0}
    OBVIOUS
  <2>3. Rooted(n, w, r + n)
    BY <2>1, <2>2 DEF Rooted
  <2>4. ASSUME NEW j \in Mine(p, n, w), IsWhole(p, j), j > r
        PROVE  j >= r + n
    <3> PICK y \in Nat : y = j - 1 /\ j = y + 1
      BY <1>2, <2>4
    <3>1. x < y /\ y % n = w
      BY <1>2, <2>4
    <3>2. x + n <= y
      BY <2>1, <3>1
    <3> QED
      BY <3>2
  <2>5. r \in Obj /\ IsWhole(p, r) => r \in Mine(p, n, w)
    BY <2>1, MineFacts DEF Share
  <2> QED
    BY <2>3, <2>4, <2>5
<1>5. Rooted(n, w, w + 1)
  BY <1>1 DEF Rooted
<1> QED
  BY <1>2, <1>3, <1>4, <1>5

LEMMA StartWorking ==
  ASSUME NEW p, Single(p), NEW n \in Nat \ {0}, NEW w \in 0..n-1, NEW m, NEW o,
         Unstarted(p, n, w, m, o)
  PROVE  Working(p, n, w, m, w + 1, <<>>, o)
<1>1. o = <<>> /\ AllWhole(p, m)
  BY DEF Unstarted
<1>2. Stacked(p, n, w, m, <<>>) /\ Distinct(p, n, w, m, o)
  BY <1>1, EmptySequence DEF Stacked, Distinct
<1>3. Walked(p, n, w, m, w + 1, <<>>, o)
  BY RootFacts DEF Walked, Unstarted
<1> QED
  BY <1>1, <1>2, <1>3, RootFacts DEF Working

\* The next root
LEMMA RootWorking ==
  ASSUME NEW p, Single(p), NEW n \in Nat \ {0}, NEW w \in 0..n-1, NEW m, NEW r \in Obj, NEW o,
         Working(p, n, w, m, r, <<>>, o), NEW c,
         NEW s, s = IF m.child[r] # 0 /\ m.resolved[r] /\ IsWhole(p, r)
                    THEN <<[node |-> r, content |-> c]>> ELSE <<>>
  PROVE  Working(p, n, w, m, r + n, s, o)
<1>1. /\ AllWhole(p, m) /\ Rooted(n, w, r)
      /\ Walked(p, n, w, m, r, <<>>, o) /\ Distinct(p, n, w, m, o)
  BY DEF Working
<1>2. /\ Rooted(n, w, r + n)
      /\ \A j \in Mine(p, n, w) : IsWhole(p, j) /\ j > r => j >= r + n
      /\ IsWhole(p, r) => r \in Mine(p, n, w)
  BY <1>1, RootFacts
<1> DEFINE Goes == m.child[r] # 0 /\ m.resolved[r] /\ IsWhole(p, r)
<1>3. /\ Goes => Len(s) = 1 /\ s[1].node = r /\ 1..1 = {1}
      /\ ~Goes => s = <<>>
  OBVIOUS
<1>4. Stacked(p, n, w, m, s)
  <2>1. CASE Goes
    <3>1. \A d \in Nat : 1 - 1 <= d
      OBVIOUS
    <3> QED
      BY <1>2, <1>3, <2>1, <3>1 DEF Stacked
  <2>2. CASE ~Goes
    BY <1>3, <2>2, EmptySequence DEF Stacked
  <2> QED
    BY <2>1, <2>2
<1>5. Walked(p, n, w, m, r + n, s, o)
  <2> SUFFICES ASSUME NEW j \in Mine(p, n, w), m.resolved[j], m.child[j] # 0
               PROVE  \/ \E l \in 1..Len(s) : s[l].node = j
                      \/ IsWhole(p, j) /\ j >= r + n
    BY <1>1 DEF Walked
  <2>1. IsWhole(p, j) /\ j >= r /\ j \in Obj
    BY <1>1, EmptySequence, RootFacts DEF Walked
  <2>2. CASE j = r
    BY <1>3, <2>1, <2>2
  <2>3. CASE j # r
    <3>1. j > r
      BY <2>1, <2>3, KeyFacts
    <3> QED
      BY <1>2, <2>1, <3>1
  <2> QED
    BY <2>2, <2>3
<1> QED
  BY <1>1, <1>2, <1>4, <1>5 DEF Working

\* When there is no root left the share is done.
LEMMA DoneWorking ==
  ASSUME NEW p, Single(p), NEW n \in Nat \ {0}, NEW w \in 0..n-1, NEW m, NEW r, r > Size, NEW o,
         Working(p, n, w, m, r, <<>>, o)
  PROVE  Finished(p, n, w, o)
<1> DEFINE M == Mine(p, n, w)
           B == {d \in 0..MaxChain-1 : \E i \in M \cap DepthOf(p, d) : ~m.resolved[i]}
<1>1. /\ AllWhole(p, m) /\ Rooted(n, w, r) /\ Walked(p, n, w, m, r, <<>>, o)
  BY DEF Working
<1>2. \A j \in M : m.resolved[j] => m.child[j] = 0
  <2> SUFFICES ASSUME NEW j \in M, m.resolved[j], m.child[j] # 0
               PROVE  FALSE
    OBVIOUS
  <2>1. IsWhole(p, j) /\ j >= r /\ j \in Obj
    BY <1>1, EmptySequence, RootFacts DEF Walked
  <2>2. j \in Nat /\ j <= Size /\ r \in Nat /\ Size \in Nat
    BY <1>1, <2>1, KeyFacts, Sizes DEF Rooted
  <2> QED
    BY <2>1, <2>2
<1>3. \A j \in M : m.resolved[j] => \A i \in Kids(p, j) \cap Short(p) : m.resolved[i]
  BY <1>1, <1>2 DEF Walked, Left
<1>4. B = {}
  <2> SUFFICES ASSUME B # {} PROVE FALSE
    OBVIOUS
  <2>1. PICK d \in B : \A k \in B : ~ (k < d)
    <3>1. B \in SUBSET Nat
      BY Sizes
    <3> QED
      BY <3>1, LeastExists
  <2>2. PICK i \in M \cap DepthOf(p, d) : ~m.resolved[i]
    OBVIOUS
  <2>3. d \in 0..MaxChain-1 /\ MaxChain - 1 \in Nat /\ d \in Nat /\ d <= MaxChain - 1
    BY Sizes
  <2> HIDE DEF B
  <2>4. i \in Short(p)
    <3> PICK e \in Nat : e = MaxChain - 1
      BY <2>3
    <3> QED
      BY <2>3, DepthMono DEF Short
  <2>5. d # 0
    BY <1>1, <2>2, DepthFacts DEF AllWhole
  <2>6. PICK k \in Nat : k + 1 = d /\ k \in 0..MaxChain-1 /\ k < d
    BY <2>3, <2>5
  <2>7. DepthOf(p, d) = Deeper(p, DepthOf(p, k)) /\ DepthOf(p, k) \in SUBSET Obj
    BY <2>6, DepthFacts
  <2>8. \A j \in M \cap DepthOf(p, k) : m.resolved[j]
    <3>1. k \notin B
      BY <2>1, <2>6
    <3> QED
      BY <2>6, <3>1 DEF B
  <2>9. PICK j \in DepthOf(p, k) : i \in Kids(p, j)
    BY <2>2, <2>7, <2>8 DEF Deeper
  <2>10. j \in M
    BY <2>2, <2>7, <2>9, MineFacts
  <2> QED
    BY <1>3, <2>2, <2>4, <2>8, <2>9, <2>10
<1>5. \A i \in M \cap Short(p) : m.resolved[i]
  <2>1. MaxChain - 1 \in 0..MaxChain-1
    BY Sizes
  <2> QED
    BY <1>4, <2>1 DEF Short
<1> QED
  BY <1>1, <1>5 DEF Finished, Walked

LEMMA BacktrackWorking ==
  ASSUME NEW p, NEW n, NEW w, NEW m, NEW r, NEW o, NEW F, NEW s \in Seq(F), s # <<>>,
         Working(p, n, w, m, r, s, o), m.child[s[Len(s)].node] = 0
  PROVE  Working(p, n, w, m, r, SubSeq(s, 1, Len(s) - 1), o)
<1>1. Len(s) \in Nat \ {0}
  BY LenProperties, EmptySeq
<1> PICK x \in Nat : x = Len(s) - 1
  BY <1>1
<1> PICK h : h = SubSeq(s, 1, x)
  OBVIOUS
<1>2. Len(h) = x /\ \A l \in 1..x : h[l] = s[l] /\ l \in 1..Len(s)
  <2>1. \A i \in 1..x : s[i] \in F
    BY <1>1, ElementOfSeq
  <2>2. /\ Len(h) = IF 1 <= x THEN x - 1 + 1 ELSE 0
        /\ \A i \in 1..x-1+1 : h[i] = s[1 + i - 1]
    BY <2>1, SubSeqProperties
  <2>3. x - 1 + 1 = x /\ \A i \in 1..x : 1 + i - 1 = i /\ i \in 1..Len(s)
    OBVIOUS
  <2> QED
    BY <2>2, <2>3
<1>3. Stacked(p, n, w, m, h)
  BY <1>2 DEF Working, Stacked
<1>4. Walked(p, n, w, m, r, h, o)
  <2> SUFFICES ASSUME NEW j \in Mine(p, n, w), m.resolved[j], m.child[j] # 0,
                      NEW l \in 1..Len(s), s[l].node = j
               PROVE  \E e \in 1..Len(h) : h[e].node = j
    BY DEF Working, Walked
  <2>1. l # Len(s)
    OBVIOUS
  <2>2. l \in 1..Len(h)
    BY <1>1, <1>2, <2>1
  <2> QED
    BY <1>2, <2>2
<1> QED
  BY <1>3, <1>4 DEF Working


\* Different objects, one of the pack's not among them, are fewer than the pack has.
LEMMA OneMore ==
  ASSUME NEW l \in Nat, NEW f \in [1..l -> Obj], \A x, y \in 1..l : f[x] = f[y] => x = y,
         NEW c \in Obj, \A x \in 1..l : f[x] # c
  PROVE  l < Size
<1> SUFFICES ASSUME Size <= l PROVE FALSE
  BY Sizes
<1>1. /\ IsFiniteSet(1..l) /\ Cardinality(1..l) = l
      /\ IsFiniteSet(Obj) /\ Cardinality(Obj) = Size
  <2>1. 1 \in Int /\ l \in Int /\ Size \in Int /\ (1 > l => l = 0) /\ ~ (1 > Size)
        /\ l - 1 + 1 = l /\ Size - 1 + 1 = Size
    BY Sizes
  <2> QED
    BY <2>1, FS_Interval DEF Obj
<1>2. IsFiniteSet(Obj \ {c}) /\ Cardinality(Obj \ {c}) = Size - 1
  BY <1>1, FS_RemoveElement
<1>3. Size - 1 < l
  BY Sizes
<1>4. f \in [1..l -> Obj \ {c}]
  OBVIOUS
<1>5. \E x, y \in 1..l : x # y /\ f[x] = f[y]
  BY <1>1, <1>2, <1>3, <1>4, FS_PigeonHole
<1> QED
  BY <1>5

\* What happens elsewhere in the memory does not concern a share.
LEMMA ShareFrame ==
  ASSUME NEW p, NEW n, NEW w, NEW m, NEW h,
         \A j \in Mine(p, n, w) : h.child[j] = m.child[j] /\ h.resolved[j] = m.resolved[j],
         \A i \in Obj : m.resolved[i] => h.resolved[i]
  PROVE  /\ \A o : Unstarted(p, n, w, m, o) => Unstarted(p, n, w, h, o)
         /\ \A r, s, o : Working(p, n, w, m, r, s, o) => Working(p, n, w, h, r, s, o)
<1>1. \A j \in Mine(p, n, w) : Left(p, h, j) = Left(p, m, j) /\ Kids(p, j) \subseteq Obj
  BY DEF Left, Kids, OfsKids, RefKids
<1>2. AllWhole(p, m) => AllWhole(p, h)
  BY DEF AllWhole
<1>3. \A o : Unstarted(p, n, w, m, o) => Unstarted(p, n, w, h, o)
  BY <1>1, <1>2 DEF Unstarted
<1>4. ASSUME NEW r, NEW s, NEW o, Working(p, n, w, m, r, s, o)
      PROVE  Working(p, n, w, h, r, s, o)
  <2>1. Stacked(p, n, w, h, s)
    BY <1>4 DEF Working, Stacked
  <2>2. Distinct(p, n, w, h, o)
    BY <1>4 DEF Working, Distinct
  <2>3. Walked(p, n, w, h, r, s, o)
    BY <1>1, <1>4 DEF Working, Walked
  <2> QED
    BY <1>2, <1>4, <2>1, <2>2, <2>3 DEF Working
<1> QED
  BY <1>3, <1>4

\* A delta that does not fit the stack is not one of those that must be found.
LEMMA DropWorking ==
  ASSUME NEW p, Single(p), NEW n, NEW w, NEW m, NEW r, NEW F, NEW s \in Seq(F), NEW o,
         Working(p, n, w, m, r, s, o), s # <<>>, Len(s) >= MaxChain,
         NEW t \in Obj, t = s[Len(s)].node, NEW c, NEW h, Taken(p, m, t, c, h)
  PROVE  Working(p, n, w, h, r, s, o)
<1>1. Len(s) \in Nat \ {0} /\ Len(s) \in 1..Len(s)
  BY LenProperties, EmptySeq
<1>2. c \notin Short(p)
  <2> SUFFICES ASSUME c \in Short(p) PROVE FALSE
    OBVIOUS
  <2> PICK d \in Nat : d = MaxChain - 1
    BY Sizes
  <2>1. c \in DepthOf(p, d) /\ c \in Kids(p, t)
    BY DEF Short, Taken
  <2>2. d # 0 /\ t \in DepthOf(p, d - 1)
    BY <2>1, DepthOfKid
  <2> PICK e \in Nat : e = d - 1
    BY <2>2, Sizes
  <2>3. Len(s) - 1 <= e
    BY <1>1, <2>2 DEF Working, Stacked
  <2> QED
    BY <1>1, <2>3, Sizes
<1>3. /\ h.resolved = m.resolved /\ Left(p, h, t) = Left(p, m, t) \ {c}
      /\ \A l \in Obj : l # t => h.child[l] = m.child[l] /\ Left(p, h, l) = Left(p, m, l)
  BY DEF Taken
<1>4. Walked(p, n, w, h, r, s, o)
  <2> SUFFICES ASSUME NEW j \in Mine(p, n, w), m.resolved[j]
               PROVE  /\ \A i \in Kids(p, j) \cap Short(p) : i \in Left(p, h, j) \/ m.resolved[i]
                      /\ ~IsWhole(p, j) => Has(p, o, j)
                      /\ h.child[j] # 0 => \/ \E l \in 1..Len(s) : s[l].node = j
                                           \/ IsWhole(p, j) /\ j >= r
    BY <1>3 DEF Walked
  <2>1. /\ \A i \in Kids(p, j) \cap Short(p) : i \in Left(p, m, j) \/ m.resolved[i]
        /\ ~IsWhole(p, j) => Has(p, o, j)
        /\ m.child[j] # 0 => \/ \E l \in 1..Len(s) : s[l].node = j
                             \/ IsWhole(p, j) /\ j >= r
    BY DEF Working, Walked
  <2>2. j \in Obj
    BY DEF Mine
  <2>3. CASE j = t
    BY <1>1, <1>2, <1>3, <2>1, <2>3
  <2>4. CASE j # t
    BY <1>3, <2>1, <2>2, <2>4
  <2> QED
    BY <2>3, <2>4
<1> QED
  BY <1>3, <1>4 DEF Working, AllWhole, Stacked, Distinct

\* A worker has not emitted what it has still to resolve: its slab has room.
LEMMA RoomLeft ==
  ASSUME NEW p, NEW n, NEW w, NEW m, NEW E, NEW o \in Seq(E), Distinct(p, n, w, m, o),
         NEW c \in Obj, ~m.resolved[c]
  PROVE  Len(o) < Size
<1> PICK l \in Nat : l = Len(o)
  BY LenProperties
<1> PICK f : f = [x \in 1..l |-> o[x][2]]
  OBVIOUS
<1>1. f \in [1..l -> Obj]
  BY DEF Distinct, Mine
<1>2. \A x, y \in 1..l : f[x] = f[y] => x = y
  BY DEF Distinct
<1>3. \A x \in 1..l : f[x] # c
  BY DEF Distinct
<1>4. l < Size
  BY ONLY l \in Nat, c \in Obj, <1>1, <1>2, <1>3, OneMore
<1> QED
  BY <1>4

\* One link down
LEMMA DescendWorking ==
  ASSUME NEW p, Single(p), NEW n \in Nat \ {0}, NEW w \in 0..n-1, NEW m \in Lists, NEW r,
         NEW F, NEW s \in Seq(F), NEW E, NEW o \in Seq(E),
         Working(p, n, w, m, r, s, o), s # <<>>,
         NEW t \in Obj, t = s[Len(s)].node, NEW c \in Obj, NEW g, Taken(p, m, t, c, g),
         NEW h, Filled(p, g, c, h),
         NEW f \in F, f.node = c, NEW e \in E, e = <<p[c].id, c>>
  PROVE  Working(p, n, w, h, r, Append(s, f), Append(o, e))
<1> PICK s2, o2 : s2 = Append(s, f) /\ o2 = Append(o, e)
  OBVIOUS
<1>1. Len(s) \in Nat \ {0} /\ Len(s) \in 1..Len(s) /\ Len(o) \in Nat
  BY LenProperties, EmptySeq
<1>2. /\ Len(s2) = Len(s) + 1 /\ s2[Len(s) + 1] = f /\ \A l \in 1..Len(s) : s2[l] = s[l]
      /\ Len(o2) = Len(o) + 1 /\ o2[Len(o) + 1] = e /\ \A l \in 1..Len(o) : o2[l] = o[l]
  BY AppendProperties
<1>3. /\ \A l \in 1..Len(s2) : l \in 1..Len(s) \/ l = Len(s) + 1
      /\ \A l \in 1..Len(o2) : l \in 1..Len(o) \/ l = Len(o) + 1
      /\ \A l \in 1..Len(s) : l \in 1..Len(s2)
      /\ \A l \in 1..Len(o) : l \in 1..Len(o2)
      /\ Len(s) + 1 \in 1..Len(s2) /\ Len(o) + 1 \in 1..Len(o2)
  BY <1>1, <1>2
<1>4. /\ c \in Kids(p, t) /\ ~m.resolved[c] /\ c # t
      /\ g.resolved = m.resolved /\ Left(p, g, t) = Left(p, m, t) \ {c}
      /\ \A l \in Obj : l # t => g.child[l] = m.child[l] /\ Left(p, g, l) = Left(p, m, l)
  BY DEF Taken
<1>5. /\ Left(p, h, c) = Kids(p, c)
      /\ h.resolved = [g.resolved EXCEPT ![c] = TRUE]
      /\ \A l \in Obj : l # c => h.child[l] = g.child[l] /\ Left(p, h, l) = Left(p, g, l)
  BY DEF Filled
<1>6. /\ h.resolved[c]
      /\ \A i \in Obj : i # c => (h.resolved[i] <=> m.resolved[i])
      /\ \A i \in Obj : m.resolved[i] => h.resolved[i]
  BY <1>4, <1>5 DEF Lists
<1>7. /\ AllWhole(p, m) /\ Rooted(n, w, r) /\ Stacked(p, n, w, m, s)
      /\ Walked(p, n, w, m, r, s, o) /\ Distinct(p, n, w, m, o)
  BY DEF Working
<1>8. t \in Mine(p, n, w) /\ c \in Mine(p, n, w) /\ Mine(p, n, w) \subseteq Obj
  <2>1. t \in Mine(p, n, w)
    BY <1>1, <1>7 DEF Stacked
  <2>2. c \in Mine(p, n, w)
    BY <1>4, <2>1, MineFacts
  <2> QED
    BY <2>1, <2>2 DEF Mine
<1>9. AllWhole(p, h)
  BY <1>6, <1>7 DEF AllWhole
<1>10. Stacked(p, n, w, h, s2)
  <2>1. ASSUME NEW l \in 1..Len(s)
        PROVE  /\ s2[l].node \in Mine(p, n, w) /\ h.resolved[s2[l].node]
               /\ \A d \in Nat : s2[l].node \in DepthOf(p, d) => l - 1 <= d
    BY <1>2, <1>6, <1>7, <1>8 DEF Stacked
  <2>2. ASSUME NEW d \in Nat, c \in DepthOf(p, d)
        PROVE  (Len(s) + 1) - 1 <= d
    <3>1. d # 0 /\ t \in DepthOf(p, d - 1)
      BY <1>4, <2>2, DepthOfKid
    <3> PICK k \in Nat : k = d - 1
      BY <3>1
    <3>2. Len(s) - 1 <= k
      BY <1>1, <1>7, <3>1 DEF Stacked
    <3> QED
      BY <1>1, <3>2
  <2>3. s2[Len(s) + 1].node = c
    BY <1>2
  <2> QED
    BY <1>3, <1>6, <1>8, <2>1, <2>2, <2>3 DEF Stacked
<1>11. \A j \in Obj : Has(p, o, j) => Has(p, o2, j)
  BY <1>2, <1>3 DEF Has
<1>12. Has(p, o2, c)
  BY <1>2, <1>3 DEF Has
<1>13. Walked(p, n, w, h, r, s2, o2)
  <2> SUFFICES ASSUME NEW j \in Mine(p, n, w), h.resolved[j]
               PROVE  /\ \A i \in Kids(p, j) \cap Short(p) : i \in Left(p, h, j) \/ h.resolved[i]
                      /\ ~IsWhole(p, j) => Has(p, o2, j)
                      /\ h.child[j] # 0 => \/ \E l \in 1..Len(s2) : s2[l].node = j
                                           \/ IsWhole(p, j) /\ j >= r
    BY DEF Walked
  <2>1. CASE j = c
    <3>1. \E l \in 1..Len(s2) : s2[l].node = j
      BY <1>2, <1>3, <2>1
    <3> QED
      BY <1>5, <1>12, <2>1, <3>1
  <2>2. CASE j # c
    <3>1. m.resolved[j] /\ j \in Obj /\ Left(p, h, j) = Left(p, g, j) /\ h.child[j] = g.child[j]
      BY <1>5, <1>6, <1>8, <2>2
    <3>2. /\ \A i \in Kids(p, j) \cap Short(p) : i \in Left(p, m, j) \/ m.resolved[i]
          /\ ~IsWhole(p, j) => Has(p, o, j)
          /\ m.child[j] # 0 => \/ \E l \in 1..Len(s) : s[l].node = j
                               \/ IsWhole(p, j) /\ j >= r
      BY <1>7, <3>1 DEF Walked
    <3>3. \A i \in Kids(p, j) \cap Short(p) : i \in Left(p, h, j) \/ h.resolved[i]
      <4> TAKE i \in Kids(p, j) \cap Short(p)
      <4>1. i \in Obj
        BY <3>1, KidFacts
      <4>2. i \in Left(p, m, j) => i \in Left(p, g, j) \/ i = c
        BY <1>4, <3>1
      <4> QED
        BY <1>6, <3>1, <3>2, <4>1, <4>2
    <3>4. h.child[j] # 0 => \/ \E l \in 1..Len(s2) : s2[l].node = j
                            \/ IsWhole(p, j) /\ j >= r
      <4>1. CASE j = t
        BY <1>1, <1>2, <1>3, <4>1
      <4>2. CASE j # t
        BY <1>2, <1>3, <1>4, <3>1, <3>2, <4>2
      <4> QED
        BY <4>1, <4>2
    <3> QED
      BY <1>11, <3>1, <3>2, <3>3, <3>4
  <2> QED
    BY <2>1, <2>2
<1>14. Distinct(p, n, w, h, o2)
  <2>1. \A l \in 1..Len(o) : o2[l] = o[l] /\ o[l][2] \in Mine(p, n, w) /\ m.resolved[o[l][2]]
    BY <1>2, <1>7 DEF Distinct
  <2>2. o2[Len(o) + 1][2] = c
    BY <1>2
  <2>3. \A l \in 1..Len(o2) : o2[l][2] \in Mine(p, n, w) /\ h.resolved[o2[l][2]]
    BY <1>3, <1>6, <1>8, <2>1, <2>2
  <2>4. \A l, x \in 1..Len(o2) : o2[l][2] = o2[x][2] => l = x
    <3> TAKE l, x \in 1..Len(o2)
    <3>1. CASE l \in 1..Len(o) /\ x \in 1..Len(o)
      BY <1>7, <2>1, <3>1 DEF Distinct
    <3>2. CASE l \in 1..Len(o) /\ x = Len(o) + 1
      BY <1>4, <2>1, <2>2, <3>2
    <3>3. CASE l = Len(o) + 1 /\ x \in 1..Len(o)
      BY <1>4, <2>1, <2>2, <3>3
    <3>4. CASE l = Len(o) + 1 /\ x = Len(o) + 1
      BY <3>4
    <3> QED
      BY <1>3, <3>1, <3>2, <3>3, <3>4
  <2> QED
    BY <2>3, <2>4 DEF Distinct
<1> QED
  BY <1>7, <1>9, <1>10, <1>13, <1>14 DEF Working


----------------------------------------------------------------------------
\* The inductive invariant of a complete index, for packs without a second copy

Indexed(p, ix, S) == \A i \in S : <<p[i].id, i>> \in ix

\* The memory of the pass over the whole objects
Passed(p, m, x) ==
  /\ \A i \in Obj : m.resolved[i] <=> IsWhole(p, i) /\ i < x
  /\ \A j \in Obj : m.resolved[j] => Left(p, m, j) = Kids(p, j)

Going(w) ==
  IF Runs(w)
    THEN Working(pack, nw, w, mem[Home(w)], walk[w].root, walk[w].stack, out[w])
    ELSE Finished(pack, nw, w, out[w])

AllOrdered == stage \in {"whole", "fork", "run"} => \A w \in Worker : Ordered(pack, mem[w])

InWhole ==
  stage = "whole" =>
    /\ Passed(pack, mem[0], next)
    /\ Indexed(pack, index, {i \in Obj : IsWhole(pack, i) /\ i < next})
    /\ \A w \in Worker : out[w] = <<>>

AtRest == stage \notin {"fork", "run"} => \A w \in Worker : ~Runs(w)

AtWork ==
  stage \in {"fork", "run"} =>
    /\ \A w \in Worker : Runs(w) => w < nw
    /\ Indexed(pack, index, {i \in Obj : IsWhole(pack, i)})

InFork ==
  stage = "fork" => \A w \in 0..nw-1 :
    IF w = 0 \/ w >= next THEN ~Runs(w) /\ Unstarted(pack, nw, w, mem[0], out[w])
    ELSE Going(w)

InRun == stage = "run" => \A w \in 0..nw-1 : Going(w)

AtEnd == stage \in {"thin", "done"} => Indexed(pack, index, Short(pack))

CInv ==
  Single(pack) => AllOrdered /\ InWhole /\ AtRest /\ AtWork /\ InFork /\ InRun /\ AtEnd

LEMMA InitCInv == Init => CInv
<1> SUFFICES ASSUME Init, Single(pack) PROVE CInv
  BY DEF CInv
<1>1. /\ pack \in Packs /\ stage = "whole" /\ next = 1 /\ 0 \in Worker
      /\ \A w \in Worker : mem[w] = OfsLists(pack) /\ ~Runs(w) /\ out[w] = <<>>
  BY Sizes DEF Init, Worker, Runs, Idle
<1>2. Ordered(pack, OfsLists(pack)) /\ \A i \in Obj : ~OfsLists(pack).resolved[i]
  <2>1. \A i \in Obj : pack[i].kind = "ofs" => pack[i].at \in Obj
    <3> SUFFICES ASSUME NEW i \in Obj, pack[i].kind = "ofs" PROVE pack[i].at \in Obj
      OBVIOUS
    <3>1. pack[i].at \in 1..i-1 /\ i \in 1..Size /\ Size \in Nat
      BY <1>1, PackAssumption, Sizes DEF Obj
    <3> QED
      BY <3>1 DEF Obj
  <2> QED
    BY <2>1, OfsListsOrdered
<1>3. \A i \in Obj : ~ (i < 1)
  BY KeyFacts
<1>4. Passed(pack, mem[0], next)
  BY <1>1, <1>2, <1>3 DEF Passed
<1>5. Indexed(pack, index, {i \in Obj : IsWhole(pack, i) /\ i < next})
  BY <1>1, <1>3 DEF Indexed
<1> QED
  BY <1>1, <1>2, <1>4, <1>5 DEF CInv, AllOrdered, InWhole, AtRest, AtWork, InFork, InRun, AtEnd

\* None of the deltas that wait for an object is resolved before it.
LEMMA DrainIs ==
  ASSUME Single(pack), NEW m \in Lists, Ordered(pack, m), NEW j \in Obj, ~m.resolved[j],
         j \notin Kids(pack, j)
  PROVE  Drain([m EXCEPT !.resolved[j] = TRUE], pack[j].id, j) = Resolved(pack, m, j)
<1> PICK q : q = [m EXCEPT !.resolved[j] = TRUE]
  OBVIOUS
<1>1. q.resolved = [m.resolved EXCEPT ![j] = TRUE] /\ m.resolved \in [Obj -> BOOLEAN]
  BY DEF Lists
<1>2. Waiters(pack[j].id) = RefKids(pack, j)
  BY DEF Waiters, RefKids
<1>3. \A i \in RefKids(pack, j) : i # j /\ ~m.resolved[i] /\ i \in Obj
  BY KidFacts DEF Ordered, Kids
<1>4. {i \in Waiters(pack[j].id) : ~q.resolved[i]} = RefKids(pack, j)
  BY <1>1, <1>2, <1>3
<1> QED
  BY <1>4 DEF Drain, Resolved

LEMMA WholeComplete ==
  ASSUME IInv, CInv, Single(pack), Whole
  PROVE  CInv'
<1>1. /\ stage = "whole" /\ stage' = "whole" /\ next \in Obj /\ next' = next + 1 /\ 0 \in Worker
      /\ UNCHANGED <<pack, nw, walk, out>>
  BY Sizes DEF Whole, IInv, Obj, Worker
<1>2. /\ Ordered(pack, mem[0]) /\ Passed(pack, mem[0], next) /\ mem[0] \in Lists
      /\ \A w \in Worker : Ordered(pack, mem[w]) /\ out[w] = <<>> /\ ~Runs(w)
      /\ Indexed(pack, index, {i \in Obj : IsWhole(pack, i) /\ i < next})
  BY <1>1 DEF CInv, AllOrdered, InWhole, AtRest, IInv, Threaded
<1>3. \A i \in Obj : i < next + 1 <=> i < next \/ i = next
  <2>1. next \in Nat /\ \A i \in Obj : i \in Nat
    BY <1>1, KeyFacts
  <2> QED
    BY <2>1
<1>4. \A i \in Obj : i < next => i # next
  BY <1>1, KeyFacts
<1>5. CASE IsWhole(pack, next)
  <2> PICK h : h = Resolved(pack, mem[0], next)
    OBVIOUS
  <2>1. ~mem[0].resolved[next] /\ \A l \in Obj : next \notin Kids(pack, l)
    BY <1>1, <1>2, <1>4, <1>5, KidFacts DEF Passed
  <2>2. Filled(pack, mem[0], next, h)
    BY <1>1, <1>2, <2>1, ResolveOrdered
  <2>3. mem' = [mem EXCEPT ![0] = h] /\ index' = index \cup {<<pack[next].id, next>>}
    <3>1. Drain([mem[0] EXCEPT !.resolved[next] = TRUE], pack[next].id, next) = h
      BY <1>1, <1>2, <2>1, DrainIs
    <3> QED
      BY <1>5, <3>1 DEF Whole, IsWhole
  <2>4. mem'[0] = h /\ \A w \in Worker : w # 0 => mem'[w] = mem[w]
    BY <1>1, <2>3 DEF IInv
  <2>5. /\ h.resolved[next] /\ \A i \in Obj : i # next => (h.resolved[i] <=> mem[0].resolved[i])
    BY <1>1, <1>2, <2>2 DEF Filled, Lists
  <2>6. Passed(pack, h, next + 1)
    <3>1. \A i \in Obj : h.resolved[i] <=> IsWhole(pack, i) /\ i < next + 1
      BY <1>2, <1>3, <1>4, <1>5, <2>5 DEF Passed
    <3>2. \A j \in Obj : h.resolved[j] => Left(pack, h, j) = Kids(pack, j)
      BY <1>2, <2>2, <2>5 DEF Filled, Passed
    <3> QED
      BY <3>1, <3>2 DEF Passed
  <2>7. Indexed(pack, index', {i \in Obj : IsWhole(pack, i) /\ i < next + 1})
    BY <1>2, <1>3, <2>3 DEF Indexed
  <2>8. \A w \in Worker : Ordered(pack, mem'[w])
    BY <1>2, <2>2, <2>4 DEF Filled
  <2> QED
    BY <1>1, <1>2, <2>4, <2>6, <2>7, <2>8
    DEF CInv, AllOrdered, InWhole, AtRest, AtWork, InFork, InRun, AtEnd, Runs
<1>6. CASE ~IsWhole(pack, next)
  <2>1. UNCHANGED <<index, mem>>
    BY <1>6 DEF Whole, IsWhole
  <2>2. Passed(pack, mem[0], next + 1)
    BY <1>2, <1>3, <1>6 DEF Passed
  <2>3. Indexed(pack, index, {i \in Obj : IsWhole(pack, i) /\ i < next + 1})
    BY <1>2, <1>3, <1>6 DEF Indexed
  <2> QED
    BY <1>1, <1>2, <2>1, <2>2, <2>3
    DEF CInv, AllOrdered, InWhole, AtRest, AtWork, InFork, InRun, AtEnd, Runs
<1> QED
  BY <1>5, <1>6

\* When the pass is over every share can be started.
LEMMA WholeDoneComplete ==
  ASSUME IInv, CInv, Single(pack), WholeDone
  PROVE  CInv'
<1>1. /\ stage = "whole" /\ stage' = "fork" /\ next > Size /\ next' = 1 /\ 0 \in Worker
      /\ nw \in 1..MaxWorkers /\ next \in Nat
      /\ UNCHANGED <<pack, nw, mem, walk, out, index>>
  BY Sizes DEF WholeDone, Worker, IInv
<1>2. /\ Passed(pack, mem[0], next)
      /\ \A w \in Worker : Ordered(pack, mem[w]) /\ out[w] = <<>> /\ ~Runs(w)
      /\ Indexed(pack, index, {i \in Obj : IsWhole(pack, i) /\ i < next})
  BY <1>1 DEF CInv, AllOrdered, InWhole, AtRest
<1>3. \A i \in Obj : i < next
  BY <1>1, KeyFacts, Sizes
<1>4. 0..nw-1 \subseteq Worker
  BY <1>1, Sizes DEF Worker
<1>5. \A w \in 0..nw-1 : Unstarted(pack, nw, w, mem[0], out[w])
  BY <1>2, <1>3, <1>4 DEF Unstarted, AllWhole, Passed, Mine
<1>6. Indexed(pack, index, {i \in Obj : IsWhole(pack, i)})
  BY <1>2, <1>3 DEF Indexed
<1>7. \A w \in 0..nw-1 : w = 0 \/ w >= 1
  OBVIOUS
<1> QED
  BY <1>1, <1>2, <1>4, <1>5, <1>6, <1>7
  DEF CInv, AllOrdered, InWhole, AtRest, AtWork, InFork, InRun, AtEnd, Runs


\* A worker that starts: its share is as it was left, in the parent's memory or in
\* a copy.
LEMMA StartComplete ==
  ASSUME IInv, Single(pack), NEW w \in 0..nw-1, NEW where \in {"child", "inline", "parent"},
         Unstarted(pack, nw, w, mem[0], out[w]), w \in Worker,
         walk' = Started(w, where), UNCHANGED <<pack, nw, out>>,
         mem'[Home(w)'] = mem[0]
  PROVE  Going(w)' /\ Runs(w)' /\ \A v \in Worker : v # w => walk'[v] = walk[v]
<1>1. nw \in Nat \ {0}
  BY Sizes DEF IInv
<1>2. Working(pack, nw, w, mem[0], w + 1, <<>>, out[w])
  BY <1>1, StartWorking
<1>3. /\ walk'[w].runs = where /\ walk'[w].root = w + 1 /\ walk'[w].stack = <<>>
      /\ \A v \in Worker : v # w => walk'[v] = walk[v]
  BY DEF Started, IInv
<1>4. where # "no"
  OBVIOUS
<1> QED
  BY <1>2, <1>3, <1>4 DEF Going, Runs

LEMMA ForkComplete ==
  ASSUME IInv, CInv, Single(pack), Fork \/ ForkFail
  PROVE  CInv'
<1>1. /\ stage = "fork" /\ stage' = "fork" /\ next < nw /\ next' = next + 1
      /\ UNCHANGED <<pack, nw, out, index>>
  BY DEF Fork, ForkFail
<1>2. /\ nw \in 1..MaxWorkers /\ next \in Nat \ {0} /\ 0 \in Worker /\ DOMAIN mem = Worker
      /\ next \in 0..nw-1 /\ next \in Worker /\ 0..nw-1 \subseteq Worker
  BY <1>1, Sizes DEF IInv, Worker
<1>3. /\ \A w \in Worker : Ordered(pack, mem[w]) /\ (Runs(w) => w < nw)
      /\ Indexed(pack, index, {i \in Obj : IsWhole(pack, i)})
      /\ \A w \in 0..nw-1 :
           IF w = 0 \/ w >= next THEN ~Runs(w) /\ Unstarted(pack, nw, w, mem[0], out[w])
           ELSE Going(w)
  BY <1>1 DEF CInv, AllOrdered, AtWork, InFork
<1>4. /\ mem'[0] = mem[0] /\ \A w \in Worker : w # next => mem'[w] = mem[w]
      /\ mem'[next] = mem[0] \/ mem'[next] = mem[next]
  BY <1>2 DEF Fork, ForkFail
<1> PICK x \in Worker : x = next
  BY <1>2
<1>5. x \in 0..nw-1 /\ x # 0 /\ Unstarted(pack, nw, x, mem[0], out[x])
  BY <1>2, <1>3
<1>6. /\ Going(x)' /\ Runs(x)'
      /\ \A v \in Worker : v # x => walk'[v] = walk[v]
  <2>1. CASE Fork
    <3>1. walk' = Started(x, "child") /\ mem'[x] = mem[0]
      BY <1>2, <2>1 DEF Fork
    <3>2. walk'[x].runs = "child"
      BY <3>1 DEF Started, IInv
    <3>3. mem'[Home(x)'] = mem[0]
      BY <3>1, <3>2 DEF Home
    <3> QED
      BY <1>1, <1>5, <3>1, <3>3, StartComplete
  <2>2. CASE ForkFail
    <3>1. walk' = Started(x, "inline") /\ mem'[0] = mem[0]
      BY <1>4, <2>2 DEF ForkFail
    <3>2. walk'[x].runs = "inline"
      BY <3>1 DEF Started, IInv
    <3>3. mem'[Home(x)'] = mem[0]
      BY <3>1, <3>2 DEF Home
    <3> QED
      BY <1>1, <1>5, <3>1, <3>3, StartComplete
  <2> QED
    BY <2>1, <2>2
<1>7. \A w \in Worker : w # x => (Runs(w)' <=> Runs(w)) /\ Home(w)' = Home(w)
  BY <1>6 DEF Runs, Home
<1>8. \A w \in Worker : w # x => mem'[Home(w)] = mem[Home(w)]
  <2> TAKE w \in Worker
  <2>1. Home(w) \in {0, w}
    BY DEF Home
  <2> QED
    BY <1>2, <1>4, <2>1
<1>9. \A w \in Worker : w # x /\ Going(w) => Going(w)'
  <2> SUFFICES ASSUME NEW w \in Worker, w # x, Going(w) PROVE Going(w)'
    OBVIOUS
  <2> QED
    BY <1>1, <1>6, <1>7, <1>8 DEF Going
<1>10. \A w \in Worker : Ordered(pack, mem'[w])
  BY <1>2, <1>3, <1>4
<1>11. ASSUME NEW w \in 0..nw-1
       PROVE  IF w = 0 \/ w >= x + 1
              THEN ~Runs(w)' /\ Unstarted(pack, nw, w, mem'[0], out'[w])
              ELSE Going(w)'
  <2>1. w \in Worker /\ w \in Nat /\ x \in Nat
    BY <1>2
  <2>2. CASE w = x
    BY <1>5, <1>6, <2>1, <2>2
  <2>3. CASE w # x
    <3>1. w >= x + 1 <=> w >= x
      BY <2>1, <2>3
    <3>2. IF w = 0 \/ w >= x THEN ~Runs(w) /\ Unstarted(pack, nw, w, mem[0], out[w])
          ELSE Going(w)
      BY <1>3
    <3> QED
      BY <1>1, <1>4, <1>7, <1>9, <2>1, <2>3, <3>1, <3>2
  <2> QED
    BY <2>2, <2>3
<1>12. \A w \in Worker : Runs(w)' => w < nw
  BY <1>1, <1>3, <1>7
<1>13. AllOrdered' /\ AtWork' /\ InFork'
  BY <1>1, <1>3, <1>10, <1>11, <1>12 DEF AllOrdered, AtWork, InFork
<1> QED
  BY <1>1, <1>13 DEF CInv, InWhole, AtRest, InRun, AtEnd

LEMMA AllForkedComplete ==
  ASSUME IInv, CInv, Single(pack), AllForked
  PROVE  CInv'
<1>1. /\ stage = "fork" /\ stage' = "run" /\ next = nw /\ walk' = Started(0, "parent")
      /\ UNCHANGED <<pack, nw, next, mem, out, index>>
  BY DEF AllForked
<1>2. 0 \in Worker /\ 0 \in 0..nw-1 /\ 0..nw-1 \subseteq Worker /\ nw \in Nat
  BY Sizes DEF IInv, Worker
<1>3. /\ \A w \in Worker : Ordered(pack, mem[w]) /\ (Runs(w) => w < nw)
      /\ Indexed(pack, index, {i \in Obj : IsWhole(pack, i)})
      /\ \A w \in 0..nw-1 :
           IF w = 0 \/ w >= next THEN ~Runs(w) /\ Unstarted(pack, nw, w, mem[0], out[w])
           ELSE Going(w)
  BY <1>1 DEF CInv, AllOrdered, AtWork, InFork
<1>4. Going(0)' /\ \A v \in Worker : v # 0 => walk'[v] = walk[v]
  <2> PICK x \in 0..nw-1 : x = 0
    BY <1>2
  <2>1. Unstarted(pack, nw, x, mem[0], out[x]) /\ x \in Worker /\ walk' = Started(x, "parent")
    BY <1>1, <1>2, <1>3
  <2>2. mem'[Home(x)'] = mem[0]
    BY <1>1 DEF Home
  <2>3. Going(x)' /\ \A v \in Worker : v # x => walk'[v] = walk[v]
    BY <1>1, <2>1, <2>2, StartComplete
  <2> QED
    BY <2>3
<1>5. \A w \in 0..nw-1 : w # 0 => Going(w)
  <2> TAKE w \in 0..nw-1
  <2>1. ~ (w >= next)
    BY <1>1, <1>2
  <2> QED
    BY <1>3, <2>1
<1>6. \A w \in 0..nw-1 : Going(w)'
  <2> TAKE w \in 0..nw-1
  <2>1. CASE w = 0
    BY <1>4, <2>1
  <2>2. CASE w # 0
    <3>1. walk'[w] = walk[w] /\ Going(w)
      BY <1>2, <1>4, <1>5, <2>2
    <3> QED
      BY <1>1, <3>1 DEF Going, Runs, Home
  <2> QED
    BY <2>1, <2>2
<1>7. \A w \in Worker : Runs(w)' => w < nw
  <2> TAKE w \in Worker
  <2>1. CASE w = 0
    BY <1>2, <2>1
  <2>2. CASE w # 0
    BY <1>3, <1>4, <2>2 DEF Runs
  <2> QED
    BY <2>1, <2>2
<1>8. AllOrdered' /\ AtWork' /\ InRun'
  BY <1>1, <1>3, <1>6, <1>7 DEF AllOrdered, AtWork, InRun
<1> QED
  BY <1>1, <1>8 DEF CInv, InWhole, AtRest, InFork, AtEnd


\* Who runs is at work on its share.
LEMMA AtItsShare ==
  ASSUME IInv, CInv, Single(pack), NEW v \in Worker, Runs(v)
  PROVE  /\ stage \in {"fork", "run"} /\ v \in 0..nw-1 /\ nw \in Nat \ {0}
         /\ Home(v) \in Worker /\ mem[Home(v)] \in Lists /\ Ordered(pack, mem[Home(v)])
         /\ Working(pack, nw, v, mem[Home(v)], walk[v].root, walk[v].stack, out[v])
<1>1. stage \in {"fork", "run"}
  BY DEF CInv, AtRest
<1>2. nw \in Nat \ {0} /\ v \in 0..nw-1
  <2>1. v < nw
    BY <1>1 DEF CInv, AtWork
  <2> QED
    BY <2>1, Sizes DEF IInv, Worker
<1>3. Home(v) \in Worker
  BY Sizes DEF Home, Worker
<1>4. mem[Home(v)] \in Lists /\ Ordered(pack, mem[Home(v)])
  BY <1>1, <1>3 DEF IInv, Threaded, CInv, AllOrdered
<1>5. Going(v)
  BY <1>1, <1>2 DEF CInv, InFork, InRun
<1> QED
  BY <1>1, <1>2, <1>3, <1>4, <1>5 DEF Going

\* A worker's step changes its own share of one memory.
LEMMA WorkComplete ==
  ASSUME IInv, CInv, Single(pack), NEW v \in Worker, Runs(v),
         UNCHANGED <<pack, nw, stage, next, index>>, NEW h, Ordered(pack, h),
         \A x \in Worker : mem'[x] = IF x = Home(v) THEN h ELSE mem[x],
         \A i \in Obj : mem[Home(v)].resolved[i] => h.resolved[i],
         \A i \in Obj : i \notin Mine(pack, nw, v) =>
           h.child[i] = mem[Home(v)].child[i] /\ h.resolved[i] = mem[Home(v)].resolved[i],
         \A w \in Worker : w # v => walk'[w] = walk[w] /\ out'[w] = out[w],
         Going(v)'
  PROVE  CInv'
<1>1. stage \in {"fork", "run"} /\ v \in 0..nw-1 /\ nw \in Nat \ {0} /\ Home(v) \in Worker
  BY AtItsShare
<1>2. /\ \A w \in Worker : Ordered(pack, mem[w]) /\ (Runs(w) => w < nw)
      /\ Indexed(pack, index, {i \in Obj : IsWhole(pack, i)})
  BY <1>1 DEF CInv, AllOrdered, AtWork
<1>3. 0..nw-1 \subseteq Worker /\ 0 \in Worker
  BY Sizes DEF IInv, Worker
<1> PICK a : a = Home(v)
  OBVIOUS
<1>4. ASSUME NEW w \in Worker, w # v
      PROVE  /\ \A j \in Mine(pack, nw, w) : /\ h.child[j] = mem[a].child[j]
                                             /\ h.resolved[j] = mem[a].resolved[j]
             /\ \A i \in Obj : mem[a].resolved[i] => h.resolved[i]
  <2>1. Mine(pack, nw, w) \cap Mine(pack, nw, v) = {}
    BY <1>1, <1>4, MineApart
  <2>2. Mine(pack, nw, w) \subseteq Obj
    BY DEF Mine
  <2> QED
    BY <2>1, <2>2
<1>5. ASSUME NEW w \in Worker, w # v
      PROVE  /\ \A o : Unstarted(pack, nw, w, mem[a], o) => Unstarted(pack, nw, w, h, o)
             /\ \A r, s, o : Working(pack, nw, w, mem[a], r, s, o) => Working(pack, nw, w, h, r, s, o)
  <2> PICK m : m = mem[a]
    OBVIOUS
  <2>1. /\ \A j \in Mine(pack, nw, w) : h.child[j] = m.child[j] /\ h.resolved[j] = m.resolved[j]
        /\ \A i \in Obj : m.resolved[i] => h.resolved[i]
    BY <1>4, <1>5
  <2> QED
    BY <2>1, ShareFrame
<1>6. ASSUME NEW w \in Worker, w # v
      PROVE  /\ Runs(w)' <=> Runs(w)
             /\ Going(w) => Going(w)'
             /\ Unstarted(pack, nw, w, mem[0], out[w]) => Unstarted(pack, nw, w, mem'[0], out'[w])
  <2>1. walk'[w] = walk[w] /\ out'[w] = out[w]
    BY <1>6
  <2>2. (Runs(w)' <=> Runs(w)) /\ Home(w)' = Home(w) /\ Home(w) \in Worker
    BY <1>3, <2>1 DEF Runs, Home
  <2>3. Going(w) => Going(w)'
    <3>1. CASE Home(w) = a
      BY <1>5, <1>6, <2>1, <2>2, <3>1 DEF Going
    <3>2. CASE Home(w) # a
      BY <2>1, <2>2, <3>2 DEF Going
    <3> QED
      BY <3>1, <3>2
  <2>4. Unstarted(pack, nw, w, mem[0], out[w]) => Unstarted(pack, nw, w, mem'[0], out'[w])
    BY <1>3, <1>5, <1>6, <2>1
  <2> QED
    BY <2>2, <2>3, <2>4
<1>7. \A w \in Worker : Ordered(pack, mem'[w])
  BY <1>2
<1>8. \A w \in Worker : Runs(w)' => w < nw
  BY <1>1, <1>2, <1>6
<1>9. AllOrdered' /\ AtWork'
  BY <1>2, <1>7, <1>8 DEF AllOrdered, AtWork
<1>10. InFork'
  <2> SUFFICES ASSUME stage = "fork", NEW w \in 0..nw-1
               PROVE  IF w = 0 \/ w >= next
                      THEN ~Runs(w)' /\ Unstarted(pack, nw, w, mem'[0], out'[w])
                      ELSE Going(w)'
    BY DEF InFork
  <2>1. IF w = 0 \/ w >= next THEN ~Runs(w) /\ Unstarted(pack, nw, w, mem[0], out[w])
        ELSE Going(w)
    BY DEF CInv, InFork
  <2>2. CASE w = v
    BY <2>1, <2>2
  <2>3. CASE w # v
    BY <1>3, <1>6, <2>1, <2>3
  <2> QED
    BY <2>2, <2>3
<1>11. InRun'
  <2> SUFFICES ASSUME stage = "run", NEW w \in 0..nw-1 PROVE Going(w)'
    BY DEF InRun
  <2>1. Going(w)
    BY DEF CInv, InRun
  <2> QED
    BY <1>3, <1>6, <2>1
<1> QED
  BY <1>1, <1>9, <1>10, <1>11 DEF CInv, InWhole, AtRest, AtEnd

\* One worker's walk changes and nothing else.
LEMMA WalkComplete ==
  ASSUME IInv, CInv, Single(pack), NEW v \in Worker, Runs(v),
         UNCHANGED <<pack, nw, stage, next, mem, out, index>>,
         \A w \in Worker : w # v => walk'[w] = walk[w], Going(v)'
  PROVE  CInv'
<1> PICK h : h = mem[Home(v)]
  OBVIOUS
<1>1. Ordered(pack, h)
  BY AtItsShare
<1>2. /\ \A x \in Worker : mem'[x] = IF x = Home(v) THEN h ELSE mem[x]
      /\ \A i \in Obj : mem[Home(v)].resolved[i] => h.resolved[i]
      /\ \A i \in Obj : i \notin Mine(pack, nw, v) =>
           h.child[i] = mem[Home(v)].child[i] /\ h.resolved[i] = mem[Home(v)].resolved[i]
      /\ \A w \in Worker : w # v => walk'[w] = walk[w] /\ out'[w] = out[w]
  OBVIOUS
<1> QED
  BY <1>1, <1>2, WorkComplete

LEMMA NextRootComplete ==
  ASSUME IInv, CInv, Single(pack), NEW v \in Worker, NextRoot(v)
  PROVE  CInv'
<1> PICK r, m, o : r = walk[v].root /\ m = mem[Home(v)] /\ o = out[v]
  OBVIOUS
<1>1. Runs(v) /\ walk[v].stack = <<>> /\ UNCHANGED <<pack, nw, stage, next, mem, out, index>>
  BY DEF NextRoot
<1>2. v \in 0..nw-1 /\ nw \in Nat \ {0} /\ Working(pack, nw, v, m, r, <<>>, o)
  BY <1>1, AtItsShare
<1>3. r \in Nat \ {0}
  BY <1>2 DEF Working, Rooted
<1>4. \A w \in Worker : w # v => walk'[w] = walk[w]
  BY DEF NextRoot, IInv
<1>5. CASE r > Size
  <2>1. Finished(pack, nw, v, o)
    BY <1>2, <1>5, DoneWorking
  <2>2. walk'[v].runs = "no"
    BY <1>5 DEF NextRoot, IInv, Idle
  <2>3. Going(v)'
    BY <1>1, <2>1, <2>2 DEF Going, Runs
  <2> QED
    BY <1>1, <1>4, <2>3, WalkComplete
<1>6. CASE ~ (r > Size)
  <2>1. r \in Obj
    BY <1>3, <1>6, Sizes DEF Obj
  <2> PICK s : s = IF m.child[r] # 0 /\ m.resolved[r] /\ IsWhole(pack, r)
                   THEN <<[node |-> r, content |-> pack[r].id]>> ELSE <<>>
    OBVIOUS
  <2>2. Working(pack, nw, v, m, r + nw, s, o)
    BY <1>2, <2>1, RootWorking
  <2>3. walk[v] \in [runs : {"no", "child", "inline", "parent"}, root : Nat, stack : Seq(Frame)]
    BY DEF IInv, Walking, Walks
  <2>4. walk' = [walk EXCEPT ![v] = [walk[v] EXCEPT !.root = r + nw, !.stack = s]]
    BY <1>6 DEF NextRoot, IsWhole
  <2>5. walk'[v] = [walk[v] EXCEPT !.root = r + nw, !.stack = s]
    BY <2>4 DEF IInv
  <2>6. walk'[v].runs = walk[v].runs /\ walk'[v].root = r + nw /\ walk'[v].stack = s
    BY <2>3, <2>5
  <2>7. Going(v)'
    BY <1>1, <2>2, <2>6 DEF Going, Runs, Home
  <2> QED
    BY <1>1, <1>4, <2>7, WalkComplete
<1> QED
  BY <1>5, <1>6

LEMMA BacktrackComplete ==
  ASSUME IInv, CInv, Single(pack), NEW v \in Worker, Backtrack(v)
  PROVE  CInv'
<1> PICK r, s, m, o : r = walk[v].root /\ s = walk[v].stack /\ m = mem[Home(v)] /\ o = out[v]
  OBVIOUS
<1>1. /\ Runs(v) /\ s # <<>> /\ m.child[s[Len(s)].node] = 0
      /\ UNCHANGED <<pack, nw, stage, next, mem, out, index>>
  BY DEF Backtrack, Top
<1>2. Working(pack, nw, v, m, r, s, o)
  BY <1>1, AtItsShare
<1>3. walk[v] \in [runs : {"no", "child", "inline", "parent"}, root : Nat, stack : Seq(Frame)]
  BY DEF IInv, Walking, Walks
<1> PICK h : h = SubSeq(s, 1, Len(s) - 1)
  OBVIOUS
<1>4. Working(pack, nw, v, m, r, h, o)
  BY <1>1, <1>2, <1>3, BacktrackWorking
<1>5. walk' = [walk EXCEPT ![v] = [walk[v] EXCEPT !.stack = h]]
  BY DEF Backtrack
<1>6. walk'[v] = [walk[v] EXCEPT !.stack = h] /\ \A w \in Worker : w # v => walk'[w] = walk[w]
  BY <1>5 DEF IInv
<1>7. walk'[v].runs = walk[v].runs /\ walk'[v].root = r /\ walk'[v].stack = h
  BY <1>3, <1>6
<1>8. Going(v)'
  BY <1>1, <1>4, <1>7 DEF Going, Runs, Home
<1> QED
  BY <1>1, <1>6, <1>8, WalkComplete


LEMMA DescendComplete ==
  ASSUME IInv, CInv, Single(pack), NEW v \in Worker, Descend(v)
  PROVE  CInv'
<1> PICK a, r, s, o : a = Home(v) /\ r = walk[v].root /\ s = walk[v].stack /\ o = out[v]
  OBVIOUS
<1> PICK m, n : m = mem[a] /\ n = nw
  OBVIOUS
<1> PICK t : t = s[Len(s)].node
  OBVIOUS
<1> PICK c : c = m.child[t]
  OBVIOUS
<1>1. Runs(v) /\ s # <<>> /\ c # 0 /\ Top(v) = s[Len(s)] /\ UNCHANGED <<pack, nw, stage, next, index>>
  BY DEF Descend, Top
<1>2. /\ v \in 0..n-1 /\ n \in Nat \ {0} /\ a \in Worker /\ m \in Lists /\ Ordered(pack, m)
      /\ Working(pack, n, v, m, r, s, o)
  BY <1>1, AtItsShare
<1>3. s \in Seq(Frame) /\ Len(s) \in Nat \ {0} /\ t \in Obj /\ Top(v).content = pack[t].id
  BY <1>1, TopFacts
<1>4. t \in Mine(pack, n, v) /\ m.resolved[t]
  BY <1>2, <1>3 DEF Working, Stacked
<1> PICK g : g = Popped(m, t)
  OBVIOUS
<1>5. Taken(pack, m, t, c, g)
  BY <1>1, <1>2, <1>3, <1>4, PopOrdered
<1>6. /\ c \in Kids(pack, t) /\ c # t /\ ~m.resolved[c] /\ g \in Lists /\ Ordered(pack, g)
      /\ g.resolved = m.resolved /\ Left(pack, g, t) = Left(pack, m, t) \ {c}
      /\ \A l \in Obj : l # t => g.child[l] = m.child[l]
  BY <1>5 DEF Taken
<1>7. c \in Obj /\ c \in Mine(pack, n, v) /\ \A l \in Obj : c \in Kids(pack, l) => l = t
  <2>1. c \in Obj /\ \A l \in Obj : c \in Kids(pack, l) => l = t
    BY <1>3, <1>6, KidFacts
  <2>2. c \in Mine(pack, n, v)
    <3>1. \A j \in Obj : \A i \in Kids(pack, j) : i \in Mine(pack, n, v) <=> j \in Mine(pack, n, v)
      BY <1>2, MineFacts
    <3> QED
      BY <1>3, <1>4, <1>6, <3>1
  <2> QED
    BY <2>1, <2>2
<1>8. Applied(c, Top(v).content) = pack[c].id
  <2>1. Base(c) = pack[t].id
    BY <1>1, <1>2, <1>3 DEF IInv, Threaded
  <2> QED
    BY <1>3, <2>1 DEF Applied
<1>9. o \in Seq(Entry) /\ Len(o) < Size /\ Len(o) \in Nat
  <2>1. o \in Seq(Entry)
    BY DEF IInv, Emitted
  <2> QED
    BY <1>2, <1>6, <1>7, <2>1, RoomLeft, LenProperties DEF Working
<1>10. /\ Len(s) >= MaxChain => mem' = [mem EXCEPT ![a] = g] /\ UNCHANGED <<walk, out>>
       /\ ~ (Len(s) >= MaxChain) =>
            /\ out' = [out EXCEPT ![v] = Append(o, <<pack[c].id, c>>)]
            /\ mem' = [mem EXCEPT ![a] = Drain([g EXCEPT !.resolved[c] = TRUE], pack[c].id, c)]
            /\ walk' = [walk EXCEPT ![v].stack = Append(s, [node |-> c, content |-> pack[c].id])]
  <2>1. ~ (Len(o) >= Size)
    BY <1>9, Sizes
  <2>2. c = mem[Home(v)].child[Top(v).node]
    BY <1>1
  <2>3. g = [mem[Home(v)] EXCEPT !.child[Top(v).node] = mem[Home(v)].sibling[c]]
    BY <1>1 DEF Popped
  <2> QED
    BY <1>8, <2>1, <2>2, <2>3 DEF Descend
<1>11. CASE Len(s) >= MaxChain
  <2>1. Working(pack, n, v, g, r, s, o)
    BY <1>1, <1>2, <1>3, <1>5, <1>11, DropWorking
  <2>2. \A x \in Worker : mem'[x] = IF x = a THEN g ELSE mem[x]
    BY <1>10, <1>11 DEF IInv
  <2>3. /\ \A i \in Obj : m.resolved[i] => g.resolved[i]
        /\ \A i \in Obj : i \notin Mine(pack, n, v) =>
             g.child[i] = m.child[i] /\ g.resolved[i] = m.resolved[i]
    BY <1>4, <1>6
  <2>4. Going(v)'
    BY <1>1, <1>2, <1>10, <1>11, <2>1, <2>2 DEF Going, Runs, Home
  <2>5. /\ \A x \in Worker : mem'[x] = IF x = Home(v) THEN g ELSE mem[x]
        /\ \A i \in Obj : mem[Home(v)].resolved[i] => g.resolved[i]
        /\ \A i \in Obj : i \notin Mine(pack, nw, v) =>
             g.child[i] = mem[Home(v)].child[i] /\ g.resolved[i] = mem[Home(v)].resolved[i]
        /\ \A w \in Worker : w # v => walk'[w] = walk[w] /\ out'[w] = out[w]
    BY <1>10, <1>11, <2>2, <2>3
  <2>6. Ordered(pack, g)
    BY <1>6
  <2> QED
    BY ONLY IInv, CInv, Single(pack), v \in Worker, <1>1, <2>4, <2>5, <2>6, WorkComplete
<1>12. CASE ~ (Len(s) >= MaxChain)
  <2> PICK h : h = Resolved(pack, g, c)
    OBVIOUS
  <2> PICK f, e : f = [node |-> c, content |-> pack[c].id] /\ e = <<pack[c].id, c>>
    OBVIOUS
  <2>1. /\ c \in Obj /\ g \in Lists /\ Ordered(pack, g) /\ ~g.resolved[c]
        /\ c \notin Kids(pack, c)
        /\ \A l \in Obj : c \in Kids(pack, l) => g.resolved[l] /\ c \notin Left(pack, g, l)
    BY <1>4, <1>6, <1>7
  <2>2. Filled(pack, g, c, h)
    BY ONLY Single(pack), h = Resolved(pack, g, c), <2>1, ResolveOrdered
  <2>3. Drain([g EXCEPT !.resolved[c] = TRUE], pack[c].id, c) = h
    BY ONLY Single(pack), h = Resolved(pack, g, c), <2>1, DrainIs
  <2>4. f \in Frame /\ f.node = c /\ e \in Entry
    BY <1>7 DEF Frame, Entry
  <2>5. Working(pack, n, v, h, r, Append(s, f), Append(o, e))
    <3>1. c \in Obj
      BY <1>7
    <3> QED
      BY ONLY Single(pack), t = s[Len(s)].node, e = <<pack[c].id, c>>,
         <1>1, <1>2, <1>3, <1>5, <1>9, <2>2, <2>4, <3>1, DescendWorking
  <2>6. /\ out' = [out EXCEPT ![v] = Append(o, e)] /\ mem' = [mem EXCEPT ![a] = h]
        /\ walk' = [walk EXCEPT ![v] = [walk[v] EXCEPT !.stack = Append(s, f)]]
    BY <1>10, <1>12, <2>3
  <2>7. \A x \in Worker : mem'[x] = IF x = a THEN h ELSE mem[x]
    BY <2>6 DEF IInv
  <2>8. /\ \A w \in Worker : w # v => walk'[w] = walk[w] /\ out'[w] = out[w]
        /\ out'[v] = Append(o, e) /\ walk'[v] = [walk[v] EXCEPT !.stack = Append(s, f)]
    BY <2>6 DEF IInv
  <2>9. walk'[v].runs = walk[v].runs /\ walk'[v].root = r /\ walk'[v].stack = Append(s, f)
    <3>1. walk[v] \in [runs : {"no", "child", "inline", "parent"}, root : Nat, stack : Seq(Frame)]
      BY DEF IInv, Walking, Walks
    <3> PICK z : z = Append(s, f)
      OBVIOUS
    <3> QED
      BY <2>8, <3>1
  <2>10. /\ Ordered(pack, h) /\ h.resolved = [g.resolved EXCEPT ![c] = TRUE]
        /\ \A l \in Obj : l # c => h.child[l] = g.child[l]
    BY <2>2 DEF Filled
  <2>11. /\ \A i \in Obj : m.resolved[i] => h.resolved[i]
         /\ \A i \in Obj : i \notin Mine(pack, n, v) =>
              h.child[i] = m.child[i] /\ h.resolved[i] = m.resolved[i]
    <3>1. m.resolved \in [Obj -> BOOLEAN]
      BY <1>2 DEF Lists
    <3>2. \A i \in Obj : i \notin Mine(pack, n, v) => i # t /\ i # c
      BY <1>4, <1>7
    <3>3. \A i \in Obj : i # t /\ i # c => h.child[i] = m.child[i]
      BY ONLY <1>6, <2>10
    <3>4. \A i \in Obj : i # c => h.resolved[i] = m.resolved[i]
      BY ONLY <1>6, <2>10, <3>1
    <3>5. h.resolved[c]
      BY ONLY <1>6, <1>7, <2>10, <3>1
    <3> QED
      BY <3>2, <3>3, <3>4, <3>5
  <2>12. Going(v)'
    BY <1>1, <1>2, <2>5, <2>7, <2>8, <2>9 DEF Going, Runs, Home
  <2> QED
    <3>1. /\ \A x \in Worker : mem'[x] = IF x = Home(v) THEN h ELSE mem[x]
          /\ \A i \in Obj : mem[Home(v)].resolved[i] => h.resolved[i]
          /\ \A i \in Obj : i \notin Mine(pack, nw, v) =>
               h.child[i] = mem[Home(v)].child[i] /\ h.resolved[i] = mem[Home(v)].resolved[i]
          /\ \A w \in Worker : w # v => walk'[w] = walk[w] /\ out'[w] = out[w]
      BY <2>7, <2>8, <2>11
    <3>2. Ordered(pack, h)
      BY <2>10
    <3> QED
      BY ONLY IInv, CInv, Single(pack), v \in Worker, <1>1, <2>12, <3>1, <3>2, WorkComplete
<1> QED
  BY <1>11, <1>12

\* All shares are done, so all that is in some share is found.
LEMMA MergeComplete ==
  ASSUME IInv, CInv, Single(pack), Merge
  PROVE  CInv'
<1>1. /\ stage = "run" /\ stage' = "thin" /\ UNCHANGED <<pack, nw, mem, walk, out>>
      /\ \A w \in Worker : ~Runs(w)
      /\ index' = index \cup UNION {{out[w][i] : i \in DOMAIN out[w]} : w \in Worker}
  BY DEF Merge
<1>2. nw \in Nat \ {0} /\ 0..nw-1 \subseteq Worker
  BY Sizes DEF IInv, Worker
<1>3. \A w \in 0..nw-1 : Finished(pack, nw, w, out[w])
  BY <1>1, <1>2 DEF CInv, InRun, Going
<1>4. \A i \in Obj : IsWhole(pack, i) => <<pack[i].id, i>> \in index
  BY <1>1 DEF CInv, AtWork, Indexed
<1>5. ASSUME NEW i \in Short(pack)
      PROVE  <<pack[i].id, i>> \in index'
  <2> PICK d \in Nat : d = MaxChain - 1
    BY Sizes
  <2>1. i \in DepthOf(pack, d) /\ i \in Obj
    <3>1. i \in DepthOf(pack, d)
      BY DEF Short
    <3> QED
      BY <3>1, DepthFacts
  <2>2. PICK w \in 0..nw-1 : i \in Mine(pack, nw, w)
    BY <1>2, <2>1, MineCovers
  <2>3. CASE IsWhole(pack, i)
    BY <1>1, <1>4, <2>1, <2>3
  <2>4. CASE ~IsWhole(pack, i)
    <3>1. PICK l \in 1..Len(out[w]) : out[w][l] = <<pack[i].id, i>>
      BY <1>3, <2>2, <2>4 DEF Finished, Has
    <3>2. w \in Worker /\ l \in DOMAIN out[w]
      <4>1. w \in Worker /\ out[w] \in Seq(Entry)
        BY <1>2 DEF IInv, Emitted
      <4> QED
        BY <4>1, LenProperties
    <3> QED
      BY <1>1, <3>1, <3>2
  <2> QED
    BY <2>3, <2>4
<1>6. AtEnd' /\ AtRest'
  BY <1>1, <1>5 DEF AtEnd, AtRest, Indexed, Runs
<1> QED
  BY <1>1, <1>6 DEF CInv, AllOrdered, InWhole, AtWork, InFork, InRun

LEMMA ThinComplete ==
  ASSUME IInv, CInv, Single(pack), Thin \/ Finish
  PROVE  CInv'
<1>1. /\ stage = "thin" /\ stage' \in {"thin", "done"} /\ UNCHANGED <<pack, nw, walk, out>>
      /\ index \subseteq index'
  BY DEF Thin, Finish
<1>2. AtEnd' /\ AtRest'
  BY <1>1 DEF CInv, AtEnd, AtRest, Indexed, Runs
<1> QED
  BY <1>1, <1>2 DEF CInv, AllOrdered, InWhole, AtWork, InFork, InRun

LEMMA NextComplete ==
  ASSUME IInv, CInv, [Next]_vars
  PROVE  CInv'
<1> SUFFICES ASSUME Single(pack)
             PROVE  CInv'
  <2>1. pack' = pack
    BY DEF Next, Work, vars, Whole, WholeDone, AllForked, Fork, ForkFail, NextRoot, Backtrack,
       Descend, Merge, Thin, Finish
  <2> QED
    BY <2>1 DEF CInv
<1>1. CASE UNCHANGED vars
  BY <1>1 DEF vars, CInv, AllOrdered, InWhole, AtRest, AtWork, InFork, InRun, AtEnd, Going, Runs, Home
<1>2. CASE Next
  BY <1>2, WholeComplete, WholeDoneComplete, ForkComplete, AllForkedComplete, NextRootComplete,
     BacktrackComplete, DescendComplete, MergeComplete, ThinComplete
  DEF Next, Work
<1> QED
  BY <1>1, <1>2

LEMMA DepthIs == \A d : Depth(d) = DepthOf(pack, d)
  BY DEF Depth, DepthOf


----------------------------------------------------------------------------
\* The theorems

\* Lists are threaded right in the parent and in every forked copy, and each
\* walk carries the contents of the objects on its stack (unpk_worker_main).
THEOREM Invariance == Spec => []IInv
  BY InitIInv, NextKeeps, PTL DEF Spec

\* The type invariant: no list leads out of the pack, and neither the stack nor
\* the slab of a worker overflows.
THEOREM TypeCorrect == Spec => []TypeOK
<1>1. ASSUME IInv
      PROVE  TypeOK
  <2>1. DOMAIN pack = Obj
    BY <1>1, PackAssumption DEF IInv
  <2>2. \A w \in Worker : Threaded(mem[w]) /\ Walking(walk[w]) /\ Emitted(out[w])
    BY <1>1 DEF IInv
  <2> QED
    BY <1>1, <2>1, <2>2 DEF IInv, TypeOK, Threaded, Lists, Walking, Walks, Emitted
<1> QED
  BY <1>1, Invariance, PTL

\* UNPKIndex names no object wrongly, whatever the pack and however its work was
\* shared out.
THEOREM AlwaysHonest == Spec => []Honest
<1>1. ASSUME IInv
      PROVE  Honest
  <2>1. \A e \in Entry : e[1] = pack[e[2]].id
    BY DEF Entry
  <2>2. ASSUME NEW w \in Worker, NEW i \in DOMAIN out[w]
        PROVE  out[w][i] \in Entry
    <3>1. out[w] \in Seq(Entry)
      BY <1>1 DEF IInv, Emitted
    <3> QED
      BY <3>1, LenProperties, ElementOfSeq
  <2> QED
    BY <1>1, <2>1, <2>2 DEF IInv, Honest
<1> QED
  BY <1>1, Invariance, PTL

\* No delta whose chain of bases fits the stack is lost, however many workers
\* there are and wherever they run, if the pack holds no object twice: a delta is
\* always on the list of its base, or resolved (unpk_worker_main, UNPKIndex).
THEOREM InPackAlwaysComplete == Spec => []InPackComplete
<1>1. Spec => []CInv
  BY InitCInv, NextComplete, Invariance, PTL DEF Spec
<1>2. ASSUME CInv
      PROVE  InPackComplete
  <2> SUFFICES ASSUME stage = "done", \A i \in Obj : Once(i), NEW i \in Depth(MaxChain - 1)
               PROVE  <<pack[i].id, i>> \in index
    BY DEF InPackComplete
  <2>1. Single(pack)
    BY DEF Once, Single
  <2>2. i \in Short(pack)
    BY DepthIs DEF Short
  <2> QED
    BY <1>2, <2>1, <2>2 DEF CInv, AtEnd, Indexed
<1> QED
  BY <1>1, <1>2, PTL
=============================================================================
