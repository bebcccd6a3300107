----------------------------- MODULE KeeperShard -----------------------------
(***************************************************************************)
(* One branch directory of the keeper object store (keeper/KEEP.c over the *)
(* puppy stack of dog/DOG.c): pack files that only grow, index runs that   *)
(* are written once and later merged, a .lock file that writers hold and   *)
(* readers do not, and the registries each process fills when it opens the *)
(* directory.  Packs and runs draw their file numbers from one counter,    *)
(* recomputed from a directory listing at open.                            *)
(*                                                                         *)
(* An mmap outlives the unlink or replacement of its file: what a process  *)
(* has mapped is kept in the process, not looked up in the directory.      *)
(***************************************************************************)
EXTENDS Integers, Sequences, FiniteSets

CONSTANTS
  Writer, Reader,  \* processes that open the directory rw / ro
  Obj,             \* objects
  NoFile,          \* "there is no file of this number"
  Nobody,          \* the lock is free
  MaxSeq,          \* bound on file numbers
  MaxLen,          \* bound on the objects in a pack file
  StaleNumber,     \* may a writer that waited for the lock go on with a number
                   \* that is in use by then?
  CrashInGap       \* may a writer die between the unlinks of a compaction
                   \* and the creation of the merged run?

Proc  == Writer \cup Reader
Seqno == 1..MaxSeq

ASSUME BoundAssumption == MaxSeq \in Nat \ {0} /\ MaxLen \in Nat
ASSUME FlagAssumption  == StaleNumber \in BOOLEAN /\ CrashInGap \in BOOLEAN
ASSUME ProcAssumption  == Writer \cap Reader = {} /\ Nobody \notin Proc

VARIABLES
  pack,      \* pack files: number -> objects in file order, or NoFile
  count,     \* pack files: number -> the object count in the file's header
  idx,       \* index runs: number -> set of entries, or NoFile
  lock,      \* holder of <dir>/.lock
  pc,        \* where each process stands
  maps,      \* per process: pack number -> objects mapped, NoFile when none
  runs,      \* per process: run number -> entries mapped, NoFile when none
  todo,      \* per process: run numbers still to be mapped or unlinked
  next,      \* per process: keeper.next_seqno
  cur,       \* per process: file_id of the open pack, 0 when none
  ents,      \* per process: entries collected, of the open pack or the merge
  committed, \* objects whose run has been published (history)
  before,    \* per process: committed when its open began (history)
  missed     \* per process: objects that a compaction had unlinked, or did
             \* unlink, between the listing of the runs and their mapping (history)

disk  == <<pack, count, idx>>
mine  == <<maps, runs, todo, next, cur, ents>>
hist  == <<committed, before, missed>>
vars  == <<pack, count, idx, lock, pc, maps, runs, todo, next, cur, ents,
           committed, before, missed>>

Entry == [obj : Obj, file : Seqno, pos : 1..MaxLen]

ASSUME NoFileAssumption ==
  NoFile \notin Seq(Obj) /\ \A es \in SUBSET Entry : es # NoFile

PC == {"idle", "packs", "list", "map", "wait", "ready",
       "feed", "trimmed", "compact", "thin", "gap"}

Nothing == [s \in Seqno |-> NoFile]

Present(f)   == {s \in Seqno : f[s] # NoFile}
MaxOf(S)     == IF S = {} THEN 0 ELSE CHOOSE m \in S : \A n \in S : n <= m
MinOf(S)     == CHOOSE m \in S : \A n \in S : m <= n
EntriesOf(f) == UNION {f[s] : s \in Present(f)}

ObjectsOf(es) == {e.obj : e \in es}

\* What can be found on disk, counting the run a live compaction is about to
\* write back.
OnDisk == EntriesOf(idx) \cup
          UNION {ents[w] : w \in {v \in Writer : pc[v] \in {"thin", "gap"}}}

\* The entry names bytes that hold the object it claims.
Points(files, e) ==
  /\ files[e.file] # NoFile
  /\ e.pos <= Len(files[e.file])
  /\ files[e.file][e.pos] = e.obj

\* The youngest m runs of a stack.
Youngest(f, m) == {s \in Present(f) : Cardinality({t \in Present(f) : t > s}) < m}

----------------------------------------------------------------------------
\* Opening: keep_open_dir_cb, keep_scan_branch_dir, DOGPupOpenAll

Goto(p, l) == pc' = [pc EXCEPT ![p] = l]

\* A process comes to the directory.
OpenBegin(p) ==
  /\ pc[p] = "idle"
  /\ Goto(p, "packs")
  /\ before' = [before EXCEPT ![p] = committed]
  /\ UNCHANGED <<disk, lock, mine, committed, missed>>

\* Packs first.
ScanPacks(p) ==
  /\ pc[p] = "packs"
  /\ maps' = [maps EXCEPT ![p] = pack]
  /\ Goto(p, "list")
  /\ UNCHANGED <<disk, lock, runs, todo, next, cur, ents, hist>>

\* Then the names of the runs are collected and, in ascending order, mapped; a
\* name that has vanished by then is skipped.
ListRuns(p) ==
  /\ pc[p] = "list"
  /\ todo' = [todo EXCEPT ![p] = Present(idx)]
  /\ missed' = [missed EXCEPT ![p] = ObjectsOf(OnDisk \ EntriesOf(idx))]
  /\ Goto(p, "map")
  /\ UNCHANGED <<disk, lock, maps, runs, next, cur, ents, committed, before>>

\* Mutant: the walk ends at the first gap in the numbering.
MapRun_Contiguous(p) ==
  /\ pc[p] = "map" /\ todo[p] # {}
  /\ LET s == MinOf(todo[p])
     IN  /\ runs' = [runs EXCEPT ![p][s] = idx[s]]
         /\ todo' = [todo EXCEPT ![p] = IF s + 1 \in @ THEN @ \ {s} ELSE {}]
  /\ UNCHANGED <<disk, lock, pc, maps, next, cur, ents, hist>>

MapRun(p) ==
  /\ pc[p] = "map" /\ todo[p] # {}
  /\ LET s == MinOf(todo[p])
     IN  /\ runs' = [runs EXCEPT ![p][s] = idx[s]]
         /\ todo' = [todo EXCEPT ![p] = @ \ {s}]
  /\ UNCHANGED <<disk, lock, pc, maps, next, cur, ents, hist>>

\* keep_recompute_next_seqno: one past every number on disk and in the
\* registries.  A writer asks for the lock only after that.
Recompute(p) ==
  /\ pc[p] = "map" /\ todo[p] = {}
  /\ next' = [next EXCEPT ![p] =
       1 + MaxOf(Present(pack) \cup Present(idx)
                 \cup Present(maps[p]) \cup Present(runs[p]))]
  /\ Goto(p, IF p \in Writer THEN "wait" ELSE "ready")
  /\ UNCHANGED <<disk, lock, maps, runs, todo, cur, ents, hist>>

Lock(p) ==
  /\ pc[p] = "wait" /\ lock = Nobody
  /\ StaleNumber \/ next[p] > MaxOf(Present(pack) \cup Present(idx))
  /\ lock' = p
  /\ Goto(p, "ready")
  /\ UNCHANGED <<disk, mine, hist>>

----------------------------------------------------------------------------
\* Writing a pack

\* Mutant: the tail pack is created anew (FILEBookCreate for FILEBook).
PackOpen_Recreate(w) ==
  /\ pc[w] = "ready" /\ w \in Writer
  /\ next[w] < MaxSeq
  /\ cur' = [cur EXCEPT ![w] = IF Present(maps[w]) # {}
                              THEN MaxOf(Present(maps[w])) ELSE next[w]]
  /\ pack' = [pack EXCEPT ![cur'[w]] = <<>>]
  /\ count' = [count EXCEPT ![cur'[w]] = 0]
  /\ Goto(w, "feed")
  /\ UNCHANGED <<idx, lock, maps, runs, todo, next, ents, hist>>

\* KEEPPackOpen: append to the tail pack of the registry, or start a file
\* under the next number; FILEBookCreate empties a file that is there, and its
\* header counts no objects yet.
PackOpen(w) ==
  /\ pc[w] = "ready" /\ w \in Writer
  /\ next[w] < MaxSeq
  /\ IF Present(maps[w]) # {}
       THEN /\ cur' = [cur EXCEPT ![w] = MaxOf(Present(maps[w]))]
            /\ maps' = [maps EXCEPT ![w][cur'[w]] = pack[cur'[w]]]
            /\ UNCHANGED <<pack, count>>
       ELSE /\ cur' = [cur EXCEPT ![w] = next[w]]
            /\ pack' = [pack EXCEPT ![next[w]] = <<>>]
            /\ count' = [count EXCEPT ![next[w]] = 0]
            /\ UNCHANGED maps
  /\ Goto(w, "feed")
  /\ UNCHANGED <<idx, lock, runs, todo, next, ents, hist>>

\* Mutant: the offset follows the last indexed object, not the file's end.
PackFeed_IndexedEnd(w, o) ==
  /\ pc[w] = "feed"
  /\ Len(pack[cur[w]]) < MaxLen
  /\ pack' = [pack EXCEPT ![cur[w]] = Append(@, o)]
  /\ ents' = [ents EXCEPT ![w] = @ \cup
       {[obj |-> o, file |-> cur[w],
         pos |-> 1 + MaxOf({e.pos : e \in {f \in EntriesOf(runs[w]) \cup ents[w] :
                                            f.file = cur[w]}})]}]
  /\ UNCHANGED <<count, idx, lock, pc, maps, runs, todo, next, cur, hist>>

\* KEEPPackFeed, whether or not the store has the object.
PackFeed(w, o) ==
  /\ pc[w] = "feed"
  /\ Len(pack[cur[w]]) < MaxLen
  /\ pack' = [pack EXCEPT ![cur[w]] = Append(@, o)]
  /\ ents' = [ents EXCEPT ![w] = @ \cup
       {[obj |-> o, file |-> cur[w], pos |-> Len(pack[cur[w]]) + 1]}]
  /\ UNCHANGED <<count, idx, lock, pc, maps, runs, todo, next, cur, hist>>

\* KEEPPackClose up to the index: the objects of this pack (one entry each) are
\* added to the count in the file's header; trim, remap, install, advance
\* next_seqno.
PackTrim(w) ==
  /\ pc[w] = "feed"
  /\ count' = [count EXCEPT ![cur[w]] = @ + Cardinality(ents[w])]
  /\ maps' = [maps EXCEPT ![w][cur[w]] = pack[cur[w]]]
  /\ next' = [next EXCEPT ![w] = IF cur[w] >= @ THEN cur[w] + 1 ELSE @]
  /\ Goto(w, "trimmed")
  /\ UNCHANGED <<pack, idx, lock, runs, todo, cur, ents, hist>>

\* Mutant: the number follows the last pack and nothing refuses a used one.
CreateRun_AfterPack(w, es) ==
  LET s == MaxOf(Present(maps[w])) + 1
  IN  /\ s <= MaxSeq
      /\ idx'  = [idx EXCEPT ![s] = es]
      /\ runs' = [runs EXCEPT ![w][s] = es]
      /\ next' = [next EXCEPT ![w] = s + 1]

\* Mutant: the number is advanced by the creation and again by its caller.
CreateRun_Twice(w, es) ==
  /\ next[w] <= MaxSeq /\ runs[w][next[w]] = NoFile
  /\ idx'  = [idx EXCEPT ![next[w]] = es]
  /\ runs' = [runs EXCEPT ![w][next[w]] = es]
  /\ next' = [next EXCEPT ![w] = @ + 2]

\* keep_pup_create_next: DOGPupCreateAt refuses a number of its own registry,
\* writes a temporary file and renames it into place.
CreateRun(w, es) ==
  /\ next[w] <= MaxSeq /\ runs[w][next[w]] = NoFile
  /\ idx'  = [idx EXCEPT ![next[w]] = es]
  /\ runs' = [runs EXCEPT ![w][next[w]] = es]
  /\ next' = [next EXCEPT ![w] = @ + 1]

PublishIdx(w) ==
  /\ pc[w] = "trimmed"
  /\ CreateRun(w, ents[w])
  /\ committed' = committed \cup {e.obj : e \in ents[w]}
  /\ ents' = [ents EXCEPT ![w] = {}]
  /\ cur' = [cur EXCEPT ![w] = 0]
  /\ Goto(w, "compact")
  /\ UNCHANGED <<pack, count, lock, maps, todo, before, missed>>

----------------------------------------------------------------------------
\* KEEPCompact, after each published run and again in KEEPClose.  Which of the
\* youngest runs HITwh128Compact merges depends on their sizes: any two or more.

CompactNot(w) ==
  /\ pc[w] = "compact"
  /\ Goto(w, "ready")
  /\ UNCHANGED <<disk, lock, mine, hist>>

\* Mutant: one run more is unlinked than was merged.
Merge_Short(w, m) ==
  /\ pc[w] \in {"compact", "ready"} /\ next[w] <= MaxSeq
  /\ m <= Cardinality(Present(runs[w]))
  /\ todo' = [todo EXCEPT ![w] = Youngest(runs[w], m)]
  /\ ents' = [ents EXCEPT ![w] = UNION {runs[w][s] : s \in Youngest(runs[w], m - 1)}]
  /\ Goto(w, "thin")
  /\ UNCHANGED <<disk, lock, maps, runs, next, cur, hist>>

Merge(w, m) ==
  /\ pc[w] \in {"compact", "ready"} /\ next[w] <= MaxSeq
  /\ m <= Cardinality(Present(runs[w]))
  /\ todo' = [todo EXCEPT ![w] = Youngest(runs[w], m)]
  /\ ents' = [ents EXCEPT ![w] = UNION {runs[w][s] : s \in todo'[w]}]
  /\ Goto(w, "thin")
  /\ UNCHANGED <<disk, lock, maps, runs, next, cur, hist>>

\* DOGPupThinTail unlinks the merged runs, the oldest first ...
ThinTail(w) ==
  /\ pc[w] = "thin"
  /\ LET s == MinOf(todo[w])
     IN  /\ idx' = [idx EXCEPT ![s] = NoFile]
         /\ runs' = [runs EXCEPT ![w][s] = NoFile]
         /\ todo' = [todo EXCEPT ![w] = @ \ {s}]
         /\ Goto(w, IF todo[w] = {s} THEN "gap" ELSE "thin")
         /\ missed' = [p \in Proc |->
              IF pc[p] = "map" /\ s \in todo[p] /\ idx[s] # NoFile
                THEN missed[p] \cup ObjectsOf(idx[s]) ELSE missed[p]]
  /\ UNCHANGED <<pack, count, lock, maps, next, cur, ents, committed, before>>

\* ... and only then is the merged run written.
CreateMerged(w) ==
  /\ pc[w] = "gap"
  /\ CreateRun(w, ents[w])
  /\ ents' = [ents EXCEPT ![w] = {}]
  /\ Goto(w, "ready")
  /\ UNCHANGED <<pack, count, lock, maps, todo, cur, hist>>

----------------------------------------------------------------------------
\* Leaving

Forget(p) ==
  /\ maps' = [maps EXCEPT ![p] = Nothing]
  /\ runs' = [runs EXCEPT ![p] = Nothing]
  /\ todo' = [todo EXCEPT ![p] = {}]
  /\ next' = [next EXCEPT ![p] = 1]
  /\ cur'  = [cur EXCEPT ![p] = 0]
  /\ ents' = [ents EXCEPT ![p] = {}]
  /\ before' = [before EXCEPT ![p] = {}]
  /\ missed' = [missed EXCEPT ![p] = {}]
  /\ lock' = IF lock = p THEN Nobody ELSE lock
  /\ Goto(p, "idle")

\* KEEPClose; a writer's lock goes last.
Close(p) ==
  /\ pc[p] = "ready"
  /\ Forget(p)
  /\ UNCHANGED <<disk, committed>>

\* The process dies; the kernel drops its lock and its maps.  Bytes of an
\* unfinished pack stay in the file, unindexed.
Crash(p) ==
  /\ p \in Writer /\ pc[p] # "idle"
  /\ pc[p] \in {"thin", "gap"} => CrashInGap
  /\ Forget(p)
  /\ UNCHANGED <<disk, committed>>

Init ==
  /\ pack = Nothing /\ idx = Nothing /\ lock = Nobody
  /\ count = [s \in Seqno |-> 0]
  /\ pc = [p \in Proc |-> "idle"]
  /\ maps = [p \in Proc |-> Nothing] /\ runs = [p \in Proc |-> Nothing]
  /\ todo = [p \in Proc |-> {}] /\ next = [p \in Proc |-> 1]
  /\ cur = [p \in Proc |-> 0] /\ ents = [p \in Proc |-> {}]
  /\ committed = {} /\ before = [p \in Proc |-> {}]
  /\ missed = [p \in Proc |-> {}]

Open(p)  == \/ OpenBegin(p) \/ ScanPacks(p) \/ ListRuns(p) \/ MapRun(p)
            \/ Recompute(p) \/ Lock(p)
Write(w) == \/ PackOpen(w) \/ \E o \in Obj : PackFeed(w, o)
            \/ PackTrim(w) \/ PublishIdx(w)
Thin(w)  == \/ CompactNot(w) \/ \E m \in 2..MaxSeq : Merge(w, m)
            \/ ThinTail(w) \/ CreateMerged(w)

Next ==
  \/ \E p \in Proc : Open(p) \/ Close(p) \/ Crash(p)
  \/ \E w \in Writer : Write(w) \/ Thin(w)

Spec == Init /\ [][Next]_vars

----------------------------------------------------------------------------
\* Properties

TypeOK ==
  /\ pack \in [Seqno -> Seq(Obj) \cup {NoFile}]
  /\ count \in [Seqno -> Nat]
  /\ idx \in [Seqno -> (SUBSET Entry) \cup {NoFile}]
  /\ lock \in Writer \cup {Nobody}
  /\ pc \in [Proc -> PC]
  /\ maps \in [Proc -> [Seqno -> Seq(Obj) \cup {NoFile}]]
  /\ runs \in [Proc -> [Seqno -> (SUBSET Entry) \cup {NoFile}]]
  /\ todo \in [Proc -> SUBSET Seqno]
  /\ next \in [Proc -> 1..MaxSeq + 1] /\ cur \in [Proc -> 0..MaxSeq]
  /\ ents \in [Proc -> SUBSET Entry]
  /\ committed \subseteq Obj /\ before \in [Proc -> SUBSET Obj]
  /\ missed \in [Proc -> SUBSET Obj]

\* A committed object stays reachable through some run, whatever is appended,
\* merged, interrupted or reopened afterwards (KEEPPackClose, KEEPCompact).
Durable ==
  \A o \in committed : \E e \in OnDisk : e.obj = o /\ Points(pack, e)

\* No run on disk, and none a process holds, ever points at the wrong bytes of
\* the pack files (keeper/INDEX.md: the entry is the object's only address).
IndexSound ==
  /\ \A e \in EntriesOf(idx) : Points(pack, e)
  /\ \A p \in Proc : \A e \in EntriesOf(runs[p]) : Points(pack, e)

\* Published runs are immutable: a number is never given to another run, by no
\* writer, however many of them opened the directory before they waited for its
\* lock, so the rename in DOGPupCreateAt replaces nothing (KEEP.c:276,
\* "globally-unique").
NoClobber ==
  [][\A s \in Seqno : idx[s] # NoFile /\ idx'[s] # NoFile => idx'[s] = idx[s]]_idx

\* Of a pack file nothing but the count in its header is ever written again
\* (KEEPPackClose, KEEPIngestStream): the objects stay at the offsets that runs
\* and the maps of lockless readers have for them, and the count never falls
\* and never runs past the objects, through packs that died half fed.
PacksAppendOnly ==
  [][\A s \in Seqno : pack[s] # NoFile =>
       /\ pack'[s] # NoFile /\ Len(pack'[s]) >= Len(pack[s])
       /\ \A i \in 1..Len(pack[s]) : pack'[s][i] = pack[s][i]
       /\ count'[s] \in count[s]..Len(pack'[s])]_<<pack, count>>

\* A process finds in its own maps everything that was committed when its open
\* began, unless a compaction had the object's run unlinked and nothing written
\* back yet when the runs were listed, or unlinked it between the listing and
\* the mapping (any entry that reads will do, KEEPGetExact).
OpenSeesCommitted ==
  \A p \in Proc : pc[p] = "ready" =>
    \A o \in before[p] \ missed[p] :
      \E e \in EntriesOf(runs[p]) : e.obj = o /\ Points(maps[p], e)

\* The same without the exception, "idx-via-rename publication keep readers
\* consistent" (KEEP.c:466): not so.
OpenSeesAll ==
  \A p \in Proc : pc[p] = "ready" =>
    \A o \in before[p] :
      \E e \in EntriesOf(runs[p]) : e.obj = o /\ Points(maps[p], e)

----------------------------------------------------------------------------
\* The inductive invariant behind the proofs of KeeperShard_proofs

Holding  == {"ready", "feed", "trimmed", "compact", "thin", "gap"}
Emptying == {"thin", "gap"}

\* g holds every file of f, with the same objects and perhaps more behind them.
Extends(f, g) ==
  \A s \in Seqno : f[s] # NoFile =>
    /\ g[s] # NoFile /\ Len(g[s]) >= Len(f[s])
    /\ \A i \in 1..Len(f[s]) : g[s][i] = f[s][i]

\* Where the entry of an object that was committed before p came can be, on p's
\* way through the directory.
Seen(p, o) ==
  CASE pc[p] \in {"idle", "packs"} -> TRUE
    [] pc[p] = "list" -> \E e \in OnDisk : e.obj = o /\ Points(maps[p], e)
    [] pc[p] = "map" -> \E s \in Seqno, e \in Entry :
         /\ e.obj = o /\ Points(maps[p], e)
         /\ IF s \in todo[p] THEN idx[s] # NoFile /\ e \in idx[s]
                             ELSE runs[p][s] # NoFile /\ e \in runs[p][s]
    [] OTHER -> \E e \in EntriesOf(runs[p])
                       \cup (IF pc[p] \in Emptying THEN ents[p] ELSE {}) :
                  e.obj = o /\ Points(maps[p], e)

Owed(p) == IF pc[p] = "list" THEN before[p] ELSE before[p] \ missed[p]

Stands(p) ==
  /\ p \in Reader => pc[p] \in {"idle", "packs", "list", "map", "ready"}
  /\ p \in Writer => (pc[p] \in Holding <=> lock = p)

\* A registry is a view of the directory, perhaps an old one.
Registered(p) ==
  /\ Extends(maps[p], pack)
  /\ \A s \in Seqno : runs[p][s] # NoFile =>
       /\ idx[s] # NoFile => idx[s] = runs[p][s]
       /\ \A e \in runs[p][s] : Points(pack, e)

Working(p) ==
  /\ \A e \in ents[p] : Points(pack, e)
  /\ pc[p] \in Emptying \cup {"feed", "trimmed"} \/ ents[p] = {}
  /\ pc[p] = "feed" =>
       /\ cur[p] \in Seqno /\ pack[cur[p]] # NoFile /\ IsFiniteSet(ents[p])
       /\ count[cur[p]] + Cardinality(ents[p]) <= Len(pack[cur[p]])
  /\ pc[p] = "thin" =>
       todo[p] # {} /\ \A s \in todo[p] : runs[p][s] # NoFile /\ runs[p][s] \subseteq ents[p]

Fine(p) ==
  /\ Stands(p) /\ Registered(p) /\ Working(p)
  /\ before[p] \subseteq committed
  /\ \A o \in Owed(p) : Seen(p, o)

\* The holder's number is past every number in use, on disk or in a registry.
Past ==
  \A w \in Writer : lock = w => \A s \in Seqno :
    /\ idx[s] # NoFile \/ (\E p \in Proc : runs[p][s] # NoFile) => s < next[w]
    /\ pack[s] # NoFile => s < next[w] \/ (pc[w] = "feed" /\ s = cur[w])

\* Unless runs are being unlinked, no registry is ahead of the directory.
Covered ==
  (\A w \in Writer : pc[w] \notin Emptying) =>
    \A p \in Proc, s \in Seqno : runs[p][s] # NoFile =>
      \E t \in Seqno : t >= s /\ (idx[t] # NoFile \/ pack[t] # NoFile)

Counting == \A s \in Seqno : pack[s] # NoFile => count[s] <= Len(pack[s])

IndexRight == \A s \in Seqno : idx[s] # NoFile => \A e \in idx[s] : Points(pack, e)

IInv == /\ TypeOK /\ (\A p \in Proc : Fine(p)) /\ Past /\ Covered
        /\ Counting /\ IndexRight /\ Durable
==============================================================================
