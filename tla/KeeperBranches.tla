---------------------------- MODULE KeeperBranches ----------------------------
(***************************************************************************)
(* The keeper store as a tree of branch directories (keeper/KEEP.c,        *)
(* keeper/MIGRATE.c).  A session has one leaf open for writing; the packs  *)
(* and runs of the leaf are its DATA, those of the ancestors and of leaves *)
(* it has switched away from its PAST.  Everything is addressed by file    *)
(* number alone, so numbers have to be unique over the whole tree, and the *)
(* leaf of every writer has a lock of its own.                             *)
(*                                                                         *)
(* A call is one step here; what happens inside one (crashes, lockless     *)
(* readers, the order of unlink and rename) is module KeeperShard's.       *)
(***************************************************************************)
EXTENDS Integers, Sequences, FiniteSets, SequencesExt, Places

CONSTANTS
  Proc,      \* processes
  Obj,       \* objects
  Line,      \* by branch: the directories from the trunk down to it
  DirOrder,  \* all branches, in the order of a recursive scan
  None,      \* no base, no file, nobody
  MaxSeq,    \* bound on file numbers
  MaxLen,    \* bound on the objects in a pack file
  Strangers  \* whether commits are moved beside directories not loaded yet

Branch == DOMAIN Line
Trunk  == Head(DirOrder)
Seqno  == 1..MaxSeq

ASSUME LineAssumption ==
  \A b \in Branch : Line[b] \in Seq(Branch) /\ Head(Line[b]) = Trunk /\ Last(Line[b]) = b
ASSUME OrderAssumption == DirOrder \in Seq(Branch) /\ Trunk \in Branch
ASSUME BoundAssumption == MaxSeq \in Nat \ {0} /\ MaxLen \in Nat
ASSUME StrangersAssumption == Strangers \in BOOLEAN

VARIABLES
  dirs,    \* branches whose directory exists
  pack,    \* per branch and number: the stored objects of a pack file, or None
  idx,     \* per branch and number: the entries of an index run, or None
  lock,    \* per branch: who holds <dir>/.lock, or None
  pc,      \* per process: "idle", "wait" (open), "swap" (switch), "ready"
  leaf,    \* per process: the leaf branch
  from,    \* per process: the branch the session was opened on
  to,      \* per process: the branch it is switching to
  packs,   \* per process: registry of packs, [past, data] of items
  pups,    \* per process: registry of runs
  next,    \* per process: next_seqno
  written  \* pairs <<branch, object>> that were put into a branch (history)

disk == <<dirs, pack, idx>>
mine == <<leaf, from, to, packs, pups, next>>
vars == <<dirs, pack, idx, lock, pc, leaf, from, to, packs, pups, next, written>>

Stored == [obj : Obj, base : Obj \cup {None}]
Entry  == [obj : Obj, file : Seqno, pos : 1..MaxLen]
ASSUME NoneAssumption ==
  None \notin Stored \cup Entry \cup Seq(Stored) /\ \A es \in SUBSET Entry : es # None

NoFiles == [s \in Seqno |-> None]
Closed  == [past |-> <<>>, data |-> <<>>]

Present(f) == {s \in Seqno : f[s] # None}
MaxOf(S)   == IF S = {} THEN 0 ELSE CHOOSE m \in S : \A n \in S : n <= m

----------------------------------------------------------------------------
\* Registries: items [num, dir, body] in the order they were mapped

All(reg)    == reg.past \o reg.data
Numbers(is) == {is[i].num : i \in DOMAIN is}
Aside(reg)  == [past |-> All(reg), data |-> <<>>]

Less(is, nums) == At(is, {i \in DOMAIN is : is[i].num \notin nums})
With(is, item) == Append(Less(is, {item.num}), item)

\* DOGPupOpenAll: ascending, and a number that is there already is skipped,
\* whatever directory it was loaded from.
Scan(reg, files, b) ==
  LET fresh == Present(files[b]) \ Numbers(All(reg))
      items == [s \in Seqno |-> [num |-> s, dir |-> b, body |-> files[b][s]]]
  IN  [reg EXCEPT !.data = @ \o At(items, fresh)]

ScanAll(reg, files, bs) ==
  LET upto[i \in 0..Len(bs)] ==
        IF i = 0 THEN reg ELSE Scan(upto[i - 1], files, bs[i])
  IN  upto[Len(bs)]

\* KEEPOpenBranch: the ancestors become PAST before the leaf is scanned.
Fresh(files, b) ==
  Scan(Aside(ScanAll(Closed, files, Front(Line[b]))), files, b)

----------------------------------------------------------------------------
\* Reading

\* KEEPLookup: the first run that has the object, its lowest address.
Lookup(runs, o) ==
  LET rs == {i \in DOMAIN runs : \E e \in runs[i].body : e.obj = o}
      es == {e \in runs[CHOOSE i \in rs : \A j \in rs : i <= j].body : e.obj = o}
      Lower(d, e) == d.file < e.file \/ (d.file = e.file /\ d.pos <= e.pos)
  IN  IF rs = {} THEN None ELSE CHOOSE e \in es : \A f \in es : Lower(e, f)

\* KEEPGetPacked: what the entry's address holds in the registry of packs.
Held(ps, e) ==
  LET is == {i \in DOMAIN ps : ps[i].num = e.file}
  IN  IF \E i \in is : e.pos <= Len(ps[i].body)
        THEN ps[CHOOSE i \in is : TRUE].body[e.pos] ELSE None

\* The entry's bytes resolve to its object, through up to n delta bases.
Resolves(ps, runs) ==
  LET r[n \in 0..Cardinality(Obj)] ==
        [e \in Entry |->
           LET h == Held(ps, e)
           IN  /\ h # None /\ h.obj = e.obj
               /\ h.base # None =>
                    /\ n > 0 /\ Lookup(runs, h.base) # None
                    /\ r[n - 1][Lookup(runs, h.base)]]
  IN  r

\* KEEPGetExact tries every entry of the object.
Gets(ps, runs, o) ==
  \E i \in DOMAIN runs : \E e \in runs[i].body :
    e.obj = o /\ Resolves(ps, runs)[Cardinality(Obj)][e]

\* What a session opened on b now could read.
Readable(b, o) == Gets(All(Fresh(pack, b)), All(Fresh(idx, b)), o)

----------------------------------------------------------------------------
\* Opening and switching

\* Mutant: only the leaf's own directory is listed.
Recomputed_Leaf(p, b, ps, rs) ==
  1 + MaxOf(Present(pack[b]) \cup Present(idx[b]))

\* keep_recompute_next_seqno: past every number in any directory and in the
\* registries.
Recomputed(p, b, ps, rs) ==
  1 + MaxOf((UNION {Present(pack[d]) \cup Present(idx[d]) : d \in Branch})
            \cup Numbers(All(ps)) \cup Numbers(All(rs)))

\* KEEPOpenBranch up to the lock; missing directories are created.
Open(p, b) ==
  /\ pc[p] = "idle"
  /\ packs' = [packs EXCEPT ![p] = Fresh(pack, b)]
  /\ pups'  = [pups EXCEPT ![p] = Fresh(idx, b)]
  /\ next'  = [next EXCEPT ![p] = Recomputed(p, b, packs'[p], pups'[p])]
  /\ leaf' = [leaf EXCEPT ![p] = b] /\ from' = [from EXCEPT ![p] = b]
  /\ pc' = [pc EXCEPT ![p] = "wait"]
  /\ dirs' = dirs \cup Range(Line[b])
  /\ UNCHANGED <<pack, idx, lock, to, written>>

OpenLock(p) ==
  /\ pc[p] = "wait" /\ lock[leaf[p]] = None
  /\ lock' = [lock EXCEPT ![leaf[p]] = p]
  /\ pc' = [pc EXCEPT ![p] = "ready"]
  /\ UNCHANGED <<disk, mine, written>>

\* The directories of b's line below its common ancestor with the leaf.
Below(p, b) == At(Line[b], {i \in DOMAIN Line[b] : Line[b][i] \notin Range(Line[leaf[p]])})

\* KEEPSwitchBranch up to the locks.  The leaf's DATA is put aside once, then
\* every directory below the common ancestor is scanned.
Switch(p, b) ==
  /\ pc[p] = "ready" /\ b # leaf[p] /\ b \in dirs
  /\ packs' = [packs EXCEPT ![p] = ScanAll(Aside(@), pack, Below(p, b))]
  /\ pups'  = [pups EXCEPT ![p] = ScanAll(Aside(@), idx, Below(p, b))]
  /\ next'  = [next EXCEPT ![p] = Recomputed(p, b, packs'[p], pups'[p])]
  /\ to' = [to EXCEPT ![p] = b]
  /\ pc' = [pc EXCEPT ![p] = "swap"]
  /\ UNCHANGED <<disk, lock, leaf, from, written>>

\* A directory that is missing ends the call with KEEPNONE, after the leaf's
\* DATA has been put aside and the directories above it have been scanned.
SwitchFails(p, b) ==
  /\ pc[p] = "ready" /\ b \notin dirs
  /\ LET ds == At(Below(p, b), {i \in DOMAIN Below(p, b) : Below(p, b)[i] \in dirs})
     IN  /\ packs' = [packs EXCEPT ![p] = ScanAll(Aside(@), pack, ds)]
         /\ pups'  = [pups EXCEPT ![p] = ScanAll(Aside(@), idx, ds)]
  /\ UNCHANGED <<disk, lock, pc, leaf, from, to, next, written>>

\* The new leaf's lock is taken while the old one is still held.
SwitchLock(p) ==
  /\ pc[p] = "swap" /\ lock[to[p]] = None
  /\ lock' = [lock EXCEPT ![to[p]] = p, ![leaf[p]] = None]
  /\ leaf' = [leaf EXCEPT ![p] = to[p]]
  /\ pc' = [pc EXCEPT ![p] = "ready"]
  /\ UNCHANGED <<disk, from, to, packs, pups, next, written>>

----------------------------------------------------------------------------
\* Writing: KEEPPackOpen, KEEPPackFeed, KEEPPackClose, KEEPCompact

\* KEEPCompact on the runs d of DATA in directory b with next_seqno n: the
\* youngest m become one run, written to b; those of them that are b's files go.
\* Their sizes decide on m (none when the ladder is in order): any m here.
Merged(f, b, d, n, m) ==
  LET old == SubSeq(d, Len(d) - m + 1, Len(d))
      new == [num |-> n, dir |-> b, body |-> UNION {old[i].body : i \in DOMAIN old}]
  IN  IF m = 0 THEN [idx |-> f, data |-> d, next |-> n]
      ELSE [idx  |-> [f EXCEPT ![b] = [s \in Seqno |->
                       IF s = n THEN new.body ELSE IF s \in Numbers(old) THEN None ELSE @[s]]],
            data |-> Append(SubSeq(d, 1, Len(d) - m), new),
            next |-> n + 1]

Merges(d, n) == {0} \cup (IF n <= MaxSeq THEN 2..Len(d) ELSE {})

\* The pack file a session with registry ps writes to.
Appends(ps)     == ps.data # <<>>
TailFile(p, ps) == IF Appends(ps) THEN MaxOf(Numbers(ps.data)) ELSE next[p]

\* A hint names an object of the branch's own history.  It becomes the delta
\* base when KEEPGet can read it, in whatever is loaded; else the object is
\* stored whole.
Hint(p, base, ps, rs) ==
  base # None =>
    /\ \E w \in written : w[2] = base /\ w[1] \in Range(Line[leaf[p]])
    /\ Lookup(rs, base) # None
    /\ Resolves(ps, rs)[Cardinality(Obj)][Lookup(rs, base)]

\* A pack of one object on the given registries, and the compaction it ends in.
PutOn(p, ps, rs, o, base) ==
  LET b == leaf[p]
      f == TailFile(p, ps)
      old  == IF Appends(ps) THEN pack[b][f] ELSE <<>>
      body == Append(old, [obj |-> o, base |-> base])
      n    == IF f >= next[p] THEN f + 1 ELSE next[p]
      run  == {[obj |-> o, file |-> f, pos |-> Len(body)]}
      data == Append(rs.data, [num |-> n, dir |-> b, body |-> run])
  IN  /\ old # None /\ Len(old) < MaxLen /\ n <= MaxSeq
      /\ pack' = [pack EXCEPT ![b][f] = body]
      /\ packs' = [packs EXCEPT ![p] =
           [ps EXCEPT !.data = With(@, [num |-> f, dir |-> b, body |-> body])]]
      /\ \E m \in Merges(data, n + 1) :
           LET c == Merged([idx EXCEPT ![b][n] = run], b, data, n + 1, m)
           IN  /\ idx' = c.idx
               /\ pups' = [pups EXCEPT ![p] = [past |-> rs.past, data |-> c.data]]
               /\ next' = [next EXCEPT ![p] = c.next]
      /\ written' = written \cup {<<b, o>>}
      /\ UNCHANGED <<dirs, lock, pc, leaf, from, to>>

\* The tail pack of the registry has no file in the leaf's directory: its map
\* is gone from the registry and the call fails.
PutFails(p, ps, rs) ==
  /\ Appends(ps) /\ pack[leaf[p]][TailFile(p, ps)] = None
  /\ packs' = [packs EXCEPT ![p] = [ps EXCEPT !.data = Less(@, {TailFile(p, ps)})]]
  /\ pups' = [pups EXCEPT ![p] = rs]
  /\ UNCHANGED <<disk, lock, pc, leaf, from, to, next, written>>

\* A commit goes to the branch the session was opened on.
Commit(p, o, base) ==
  /\ pc[p] = "ready" /\ leaf[p] = from[p]
  /\ Hint(p, base, All(packs[p]), All(pups[p]))
  /\ \/ PutOn(p, packs[p], pups[p], o, base)
     \/ PutFails(p, packs[p], pups[p])

\* The registries of a move: every directory of the store is scanned first.
AllPacks(p) == ScanAll(packs[p], pack, DirOrder)
AllPups(p)  == ScanAll(pups[p], idx, DirOrder)

\* Mutant: the copy keeps the delta base it was stored on.
Move_KeepsBase(p, o, base) ==
  /\ pc[p] = "ready" /\ leaf[p] # from[p]
  /\ ~Strangers => AllPacks(p) = packs[p] /\ AllPups(p) = pups[p]
  /\ Gets(All(AllPacks(p)), All(AllPups(p)), o)
  /\ base = Held(All(AllPacks(p)), Lookup(All(AllPups(p)), o)).base
  /\ \/ PutOn(p, AllPacks(p), AllPups(p), o, base)
     \/ PutFails(p, AllPacks(p), AllPups(p))

\* KEEPMoveCommits copies into the branch switched to.
Move(p, o, base) ==
  /\ pc[p] = "ready" /\ leaf[p] # from[p]
  /\ ~Strangers => AllPacks(p) = packs[p] /\ AllPups(p) = pups[p]
  /\ Gets(All(AllPacks(p)), All(AllPups(p)), o)
  /\ Hint(p, base, All(AllPacks(p)), All(AllPups(p)))
  /\ \/ PutOn(p, AllPacks(p), AllPups(p), o, base)
     \/ PutFails(p, AllPacks(p), AllPups(p))

----------------------------------------------------------------------------
\* Branches come and go

\* KEEPCreateBranch
Create(p, b) ==
  /\ pc[p] = "ready"
  /\ b \notin dirs /\ Last(Front(Line[b])) \in dirs
  /\ dirs' = dirs \cup {b}
  /\ UNCHANGED <<pack, idx, lock, pc, mine, written>>

\* Mutant: neither the trunk nor the session's own leaf is refused.
Drop_Any(p, b) ==
  /\ pc[p] = "ready" /\ b \in dirs
  /\ \A d \in dirs : d # b => b \notin Range(Line[d])
  /\ dirs' = dirs \ {b}
  /\ pack' = [pack EXCEPT ![b] = NoFiles]
  /\ idx'  = [idx EXCEPT ![b] = NoFiles]
  /\ lock' = [lock EXCEPT ![b] = None]
  /\ written' = {w \in written : w[1] # b}
  /\ UNCHANGED <<pc, mine>>

\* KEEPBranchDrop: not the trunk, not the session's leaf, not with children.
\* The registries lose the numbers of the dropped files from DATA only; the
\* lock file goes too, held or not.
Drop(p, b) ==
  /\ pc[p] = "ready"
  /\ b \in dirs \ {Trunk, leaf[p]}
  /\ \A d \in dirs : d # b => b \notin Range(Line[d])
  /\ dirs' = dirs \ {b}
  /\ packs' = [packs EXCEPT ![p].data = Less(@, Present(pack[b]))]
  /\ pups'  = [pups EXCEPT ![p].data = Less(@, Present(idx[b]))]
  /\ pack' = [pack EXCEPT ![b] = NoFiles]
  /\ idx'  = [idx EXCEPT ![b] = NoFiles]
  /\ lock' = [lock EXCEPT ![b] = None]
  /\ written' = {w \in written : w[1] # b}
  /\ UNCHANGED <<pc, leaf, from, to, next>>

\* KEEPClose compacts once more.
Close(p) ==
  /\ pc[p] = "ready"
  /\ \E m \in Merges(pups[p].data, next[p]) :
       idx' = Merged(idx, leaf[p], pups[p].data, next[p], m).idx
  /\ lock' = [b \in Branch |-> IF lock[b] = p THEN None ELSE lock[b]]
  /\ pc' = [pc EXCEPT ![p] = "idle"]
  /\ packs' = [packs EXCEPT ![p] = Closed]
  /\ pups'  = [pups EXCEPT ![p] = Closed]
  /\ next'  = [next EXCEPT ![p] = 1]
  /\ leaf' = [leaf EXCEPT ![p] = Trunk]
  /\ from' = [from EXCEPT ![p] = Trunk]
  /\ to'   = [to EXCEPT ![p] = Trunk]
  /\ UNCHANGED <<dirs, pack, written>>

Init ==
  /\ dirs = {Trunk}
  /\ pack = [b \in Branch |-> NoFiles] /\ idx = [b \in Branch |-> NoFiles]
  /\ lock = [b \in Branch |-> None] /\ pc = [p \in Proc |-> "idle"]
  /\ leaf = [p \in Proc |-> Trunk] /\ from = [p \in Proc |-> Trunk]
  /\ to = [p \in Proc |-> Trunk]
  /\ packs = [p \in Proc |-> Closed] /\ pups = [p \in Proc |-> Closed]
  /\ next = [p \in Proc |-> 1] /\ written = {}

Going(p) == \/ \E b \in Branch : Open(p, b) \/ Switch(p, b) \/ SwitchFails(p, b)
            \/ OpenLock(p) \/ SwitchLock(p) \/ Close(p)
Writing(p) == \/ \E o \in Obj, base \in Obj \cup {None} : Commit(p, o, base)
              \/ \E o \in Obj, base \in Obj \cup {None} : Move(p, o, base)
Branching(p) == \E b \in Branch : Create(p, b) \/ Drop(p, b)

Next == \E p \in Proc : Going(p) \/ Writing(p) \/ Branching(p)

Spec == Init /\ [][Next]_vars

----------------------------------------------------------------------------
\* Properties

TypeOK ==
  /\ dirs \subseteq Branch /\ Trunk \in dirs
  /\ pack \in [Branch -> [Seqno -> Seq(Stored) \cup {None}]]
  /\ idx \in [Branch -> [Seqno -> (SUBSET Entry) \cup {None}]]
  /\ lock \in [Branch -> Proc \cup {None}]
  /\ pc \in [Proc -> {"idle", "wait", "swap", "ready"}]
  /\ leaf \in [Proc -> Branch] /\ from \in [Proc -> Branch] /\ to \in [Proc -> Branch]
  /\ next \in [Proc -> 1..MaxSeq + 1]
  /\ written \subseteq Branch \X Obj

\* What was put into a branch can be read, base after base, by a session opened
\* on that branch or on any below it, with nothing else loaded (KEEP.h,
\* KEEPMoveCommits: a reader "opening the target leaf alone").
LineReadable ==
  \A w \in written : \A d \in Branch : w[1] \in Range(Line[d]) => Readable(d, w[2])

\* One number, one file: "sibling branches' seqnos ... still don't collide with
\* a freshly-created leaf pack" (KEEP.c:132).
NumbersUnique ==
  \A b, d \in Branch : b # d =>
    /\ Present(pack[b]) \cap Present(pack[d]) = {}
    /\ Present(idx[b]) \cap Present(idx[d]) = {}

\* A freshly opened session never takes other bytes for an object: an address
\* its registry can follow holds what the entry says.
NoWrongBytes ==
  \A b \in Branch :
    LET ps == All(Fresh(pack, b)) rs == All(Fresh(idx, b))
    IN  \A i \in DOMAIN rs : \A e \in rs[i].body :
          Held(ps, e) # None => Held(ps, e).obj = e.obj

\* "DATA only -- the leaf branch's runs ... KEEPCompact only ever merges /
\* thins leaf-owned runs" (KEEP.c:249).
DataOfLeaf ==
  \A p \in Proc : pc[p] = "ready" =>
    /\ \A i \in DOMAIN pups[p].data : pups[p].data[i].dir = leaf[p]
    /\ \A i \in DOMAIN packs[p].data : packs[p].data[i].dir = leaf[p]

\* No two sessions wait for each other's locks (KEEP.h:222, a switch "releases
\* the old leaf's .lock flock and takes a fresh one").
NoLockCycle ==
  ~ \E p, q \in Proc :
      /\ p # q /\ pc[p] = "swap" /\ pc[q] = "swap"
      /\ lock[to[p]] = q /\ lock[to[q]] = p
==============================================================================
