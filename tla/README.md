# Verification of git-dogs in TLA+

git-dogs (Beagle) is a version control system on git's object model: a set of
small C programs over one on-disk store. `dog/` holds the shared base (an
append-only event log, numbered file stacks, URIs, tokenizers), `keeper/` the
object store, the reflog and the dialogues with other stores, `graf/` the commit
graph and merging, `sniff/` the worktree and its verbs, `spot/` a search index,
`bro/` a pager and `beagle/` the dispatcher. The programs are sequential; what
makes them hard is that several processes, readers without any lock among them,
share files and shared maps, that each of them may die between any two stores,
and that a verb is a run of many small writes in several files.

This directory models the store from the bytes of its log up to the verbs of
the worktree: the event log, the packs and their index runs, the branch tree,
the reflog, the indexing of packs that arrive, push and fetch, the worktree,
and posts that replay and cascade over a tree of branches. TLC checks all of
them on small instances; TLAPS proves safety properties of all eight, and the
log's refinement, for every value of the constants.

## Inventory

| Part | State | Operations | What is hard | What makes it correct |
|---|---|---|---|---|
| `dog/ULOG.c` event log | text log, `.idx` sidecar with sentinel and mtime, two maps | open, open index, append, truncate, compact, close | death between two stores; a sidecar that looks fresh and is not | rows rise in time; a trusted index describes the log; the file is an append-only log to its users |
| `dog/DOG.c` Pup stack | numbered files of one directory, registry of maps | open all, create, thin the tail | names listed before they are mapped; create by rename | every published run is found; no number is used twice |
| `keeper/KEEP.c` shard | packs, index runs, lock, registries, `next_seqno` | open, pack open/feed/close, publish, compact, close | lockless readers; writers that wait with old numbers; death inside a pack or a compaction | nothing committed is lost; no entry points at other bytes |
| `keeper/KEEP.c`, `MIGRATE.c` branches | a directory, a lock and a pair of registries (PAST, DATA) per branch and session | open, switch, create, drop, move commits | one number space over many locks; what is loaded is more than a reader of one branch will load | numbers unique over the tree; a branch is readable from its own line |
| `keeper/REFS.c` reflog | one ULOG at the store's root | append, compare-and-append, batch, compact, resolve, load | every operation is several sessions; readers open read-write | no value lost; compare-and-append honest; compaction invisible |
| `keeper/UNPK.c` pack index | child lists threaded through the objects, forked workers, a stack per worker | index a pack that has arrived | each worker changes its own copy of the lists; workers that cannot be forked; deltas on older packs | an object is indexed once its chain of bases is there; no entry names another object |
| `keeper/WIRE*.c`, `RECV.c` wire | refs, packs and the lock of a server; refs, peer rows and commits of a client | push, delete, fetch | lost answers, deaths, retries, work on stale advertisements | the server's refs keep their history; peer rows are true; every command ends |
| `graf/` | index of the commit graph | ancestors, LCA, rebase, weave, join | deduplication of patches, merges | modelled by what it returns inside the verbs that call it |
| `sniff/` worktree | worktree log, stamps (mtimes) of files, the files, the tip | get, put, delete, post | whose a file is is read off its mtime; deaths between files, log and tip; other worktrees that post | a stamp tells the truth; edits survive; a post keeps what was staged and what others posted |
| `sniff/` branches | tips, locks, worktrees at a branch and a commit | post with replay and cascade, promote, create, reset, get | tips read before a lock is waited for; a cascade moves many tips | what was posted stays; every branch is readable alone |
| `spot/`, `bro/`, `beagle/`, `js/` | an index of its own (`spot`), else none | search, view, dispatch | nothing concurrent of their own | not modelled |

How they interact: `sniff` opens the keeper on a branch (HOME allows one
writable branch in a process), calls it to store objects, and writes the reflog
through it. The keeper's packs and runs go through the Pup stack, its reflog
and the worktree's log through ULOG. A push or a fetch starts a keeper on the
peer's side, which holds that store's trunk lock (receive-pack) or none
(upload-pack). A pack that arrives is appended to the tail pack and indexed by
UNPK. `graf` and `spot` keep run stacks of their own beside the keeper's. All
sharing between processes is by files: `flock` on one `.lock` per branch
directory for writers, nothing for readers.

The hazards this gives rise to are listed, each at its line and with the
properties that watch it, under `hazards` in PROJECT.json.

## Modules

Each model is one layer; the layers below it are taken at the grain the
properties need, and the table of each says where its atomicity comes from.

**AppendLog** is the abstract log: a sequence of rows that rise in time, which
can be extended, cut at the tail, and compacted to the latest row of each
subject. **ULog** is `dog/ULOG.c` in detail and implements it: `Implements` is
AppendLog's specification under `INSTANCE AppendLog WITH`, where a row counts
from the store that feeds it to the file.

| ULog | `dog/ULOG.c` |
|---|---|
| `log`, `torn`, `mtime` | the text file: complete rows, bytes of an unfinished one, its mtime |
| `side`, `tmp` | the slots of the `.idx` sidecar; the rows of a compaction's copy |
| `pc`, `used`, `seen`, `rec`, `filter`, `pos`, `cut` | the session: where it stands and its locals |
| `OpenLog`, `TrustIdx`, `RebuildIdx`, `RebuildStep` | `ULOGOpenBooked`, `ULOGOpenIdx`, `ulog_scan_log` |
| `AppendAt`, `Append1`, `RowFed`, `SlotWritten`, `SentinelPushed` | the stores of `ULOGAppendAt` and `ULOGAppend`, one step each |
| `TruncateTo` | `ULOGTruncate` |
| `CompactStart`, `CopyRow`, `UnlinkSides`, `RenameOk`, `RenameFails` | `ULOGCompactLatest` |
| `TrimLog`, `RefreshSentinel`, `TrimSide` | `ULOGClose`, `ULOGCloseIdx` |
| `Crash` | process death; stores through shared maps survive |

**KeeperShard** is one branch directory: the pack files with the object count
of their headers (`count`) and the runs on disk, the `.lock`, and for every
process where it stands, its maps and registries, its `next_seqno` and the pack
it builds. An open is four steps (packs, names of runs, each run, number) so
that readers and writers interleave inside it; a compaction unlinks its sources
one at a time before it creates the merged run, and `missed` remembers the
objects that an open cannot find for it. Writers open and wait for the lock as
they like; `StaleNumber` says whether one may go on with a number that was
taken while it waited.

**KeeperBranches** is the tree of such directories. One call is one step
(what happens inside one is KeeperShard's), so that sessions that open, switch,
commit, move and drop can be followed over several branches. The registries are
sequences in load order, since which copy of an object a lookup takes depends
on that order, and an object is stored whole or on a delta base that is looked
up again, by object and not by address, when it is read.

**Refs** is `keeper/REFS.c` at the level of log sessions: each operation is the
chain of opens and closes the code makes, and a close cuts the file back to the
length the session knows. Sessions overlap; `view` remembers for each open one
whether others have written to its file since (`part`) or renamed a compaction
over it (`gone`), and `Stale` says whether it may write or close all the same.
A writer holds the lock of its leaf branch (`LeafOf`) and moves some of the
local branches (`Posts`); a reader holds no lock.

**Unpk** is `keeper/UNPK.c`, the index of a pack that has arrived.

| Unpk | `keeper/UNPK.c` |
|---|---|
| `pack` | the objects: whole, a delta by place (ofs) or by id (ref) |
| `mem` | per process, the child and sibling links and the marks of what is resolved; a worker that is forked copies the parent's |
| `walk`, `out`, `index` | per worker its root, its stack and what it emits; the merged result |
| `Whole`, `WholeDone` | the first pass, with `unpk_drain_waiters` (`Drain`) |
| `Fork`, `ForkFail`, `AllForked`, `Started` | the loop over workers; one that cannot be forked runs in the parent at once |
| `NextRoot`, `Backtrack`, `Descend` | `unpk_worker_main` |
| `Merge`, `Thin`, `Finish` | the workers' outputs, the fallback over earlier packs, the end |

**Wire** is a server and its clients (`WIRECLI.c`, `RECV.c`, `REFADV.c`,
`WIRE.c`, and the commands of `KEEP.cli.c` around them).

| Wire | code |
|---|---|
| `packs`, `ref`, `lock`, `past`, `lost` | the server's store; `past` (what a ref has been) and `lost` (commits of packs it failed to take in) are history, for the properties |
| `srv`, `shown`, `req` | a receive-pack: where it stands, the refs it read, what reached it |
| `has`, `own`, `seen`, `pc`, `job`, `adv`, `snap`, `answer` | a client's store, its rows for itself and for the peer, its command |
| `Post`, `Delete`, `Retry`, `Accept`, `AlreadyThere`, `Send`, `HangUp`, `Hear`, `Record` | `keeper_post`, `keeper_delete`, `WIREPush` and its walk of commits (`HaveSet`, `ToSend`) |
| `ServerRead`, `ServerIngest`, `ServerApply`, `ServerReply` | `RECVReadRequest`, `RECVIngestPack`, which may fail, `RECVApplyUpdates`, which is called all the same, `RECVEmitResponse` |
| `Fetch`, `FetchAdvert`, `FetchTake`, `FetchRecord`, `FetchFail` | `WIREFetch`, and upload-pack's choice of packs (`Shipped`) |
| `Lose`, `ServerDie`, `PeerGone` | lost connections and deaths on both sides |
| `ServerPost`, `ClientPost`, `ClientTake` | what sniff does to the two stores meanwhile |

**Worktree** is a worktree on one branch: `sniff/AT.c`, `GET.c`, `PUT.c`,
`DEL.c`, `POST.c`. A row of the log has a time, which is its place here, and a
file that a command wrote has a row's time for its mtime; any other time is 0.
A command is one record `run` and a step per write: `Get`, `GetTip`; `GetOpen`
and `GetWrite` (a file is unlinked, created and fed, then stamped),
`GetTruncate` and `GetMerge` (a merge empties the file in place, feeds it and
then stamps it), `GetUnlink`; `Put`, `PutOne`, `PutStamp`; `DeleteFile`,
`DeleteGone`, `DeleteRow`; `PostScan` (the classification, `Fate`), `PostFeed`
(the pack), `PostReplay` and `PostConflict` (`GRAFRebase`), `PostRef`,
`PostRow` or, when the log takes no row, `PostUnlogged`, and `PostStamp`. A file
between its creation and its stamp (`run.open`) holds any part of its bytes.
`Edit` and `Remove` are the user's, `Other` another worktree's post, `Crash` a
death between two writes, `Fault` a write that fails and that the code passes
over: a merge, the tip's row in the reflog, the log's row of a post.

**Promote** is the tree of branches as the verbs move it: `POSTCommit` with its
replay and cascade (`PostStart`, `PostReplay`, `WalkRead`, `WalkReplay`,
`WalkEnd`, `PostRef`, `PostPersist`, `PostRow`), `POSTPromote` (`PromoteStart`
to `PromoteRef`, and `PutStart`, `PutRef` for a branch that is not there),
`PUTSetBranch` (`SetOwn`, `SetStart`, `SetSwitch`, `SetWrite`) and the get of a
branch (`GetStart` to `GetWrite`). Each commit knows which leaves have it, so
that what a session has loaded limits what it can read; each session holds one
branch lock and swaps it as `KEEPSwitchBranch` does.

**Places** has the few operators on parts of sequences that Refs and
KeeperBranches share, written without recursion so that they can be proved
about. The modules named `*_proofs` hold the theorems, the `MC_*` modules give
the constants values for TLC.

## Runs

Eight runs must pass.

| Run | Question | Bounds |
|---|---|---|
| `ulog` | Is the index right whenever it is trusted, through every crash, and does the file implement the abstract log? | 2 verbs, 1 key; 3 rows, clock to 3, pages of 2 slots |
| `shard` | One writer that crashes anywhere (except in the gap below), one lockless reader: is anything committed lost, does any entry point at other bytes, what may an open miss, what of a pack is written again? | 2 objects, 6 numbers, packs of 2 |
| `refs` | Two writers under one lock, one reader, sessions that overlap, crashes: are values kept, is compare-and-append honest, is compaction invisible? | 3 keys, 4 verbs (fail markers too), 2 values, 3 rows |
| `branches` | One session at a time over a trunk and two siblings: are numbers unique and is every branch readable alone? | 2 objects, 5 numbers, packs of 2 |
| `unpk` | Does the index name every object it should, and none wrongly, however the workers start and the lists lie? Does it end? | every pack of 4 objects, bases by place, by id and in older packs, copies of an object; 2 workers, chains of 3 |
| `wire` | Push, delete and fetch over connections and processes that fail: does the server keep its history, is a client's record of it true, is the trunk compared, does a push arrive, does a command end? | 2 clients, 2 branches, a fork of 3 commits, 2 commands with any number of retries, 1 death, lost answer or pack that is not taken in |
| `sniff` | One worktree, a user and other posters, a death anywhere: do stamps tell the truth, do edits survive, is what is committed stored, does the tip go forward, does a post hold what was staged? | 2 paths, 2 lines, 3 log rows, 4 commits, 2 edits, 2 deaths or failed writes |
| `promote` | Three worktrees whose commands interleave: does what was posted stay, is each branch readable alone, do cascaded branches stand on each other? | 4 branches in 3 levels, 2 lines, 5 commits, 3 commands, deaths of commands |

Each run has one type invariant; the other properties are described at their
definitions. The bounds are small but reach the cases the properties are about.
In `ulog` a compaction has something to drop and its rename may fail, and a
page of the sidecar is full at every second append. In `shard` a pack is
appended to after its first run was published and two runs are merged. In
`branches` an object is stored on a delta base of the trunk and moved to
another branch, runs are merged across sessions, and a branch is dropped and
created again. In `refs` a tombstone and a fail marker of one key can lie on
either side of a compaction, and a reader or the other writer can have the log
open while a row is appended to it. In `unpk` four objects are the least for a
chain past the limit of three, or for a waiter that is drained inside another
worker's subtree. In `wire` the fork makes the server's post and a push compete
for one tip, and the fault can hit a push whose pack is in and whose answer is
not, or its pack on the way in. In `sniff` a get can overtake an edit, be cut
off inside a file and be repeated; a post can be overtaken and replayed. In
`promote` the tree has a branch below a branch, which the cascade needs, and
three commands are enough for one to meet two others. Every action of the eight
next-state relations fires in them. `CHECK_DEADLOCK FALSE` stands where the
system may stop: a bound on commands is used up (`wire`, `sniff`, `promote`) or
the index is finished (`unpk`).

Symmetry (`shard`, `refs`, `promote`) is used only with invariants and action
properties.

### Fairness and liveness

Two properties are about what must happen.

- `Finishes` (Unpk): weak fairness of the parent process and of each worker.
  Both are plain loops that are never blocked; that they end is what the
  threading of the lists must guarantee.
- `CommandEnds` (Wire): weak fairness of the server's steps and of a client
  that only has to go on, since a process that runs goes on. Strong fairness of
  `Accept`, since a `flock` is granted to those who wait for it although others
  come and go. Strong fairness of reading the advertisement and of the server's
  reading a request, since the user tries again and of a connection that is
  tried again and again some attempt comes through; without it nothing can end.
  Losses that undo a whole attempt are unbounded, so a command may fail any
  number of times before it ends.

### What the code does otherwise

Four places where a comment or a doc says something else than the code does are
runs that TLC must refute (`findings` in PROJECT.json quotes the lines):

- `branches_deadlock`: a switch holds its old lock while it waits for the new.
- `wire_fetch`: a fetch whose stream ends before its pack succeeds, and records
  a tip whose commits the client lacks.
- `unpk_thin`: a delta over a delta on an older pack is never indexed.
- `promote_get`: a get of the trunk writes the tip it read before it waited for
  the trunk's lock, and so takes back a commit that was put there meanwhile.

The passing runs leave further such cases out by named constants, so that
everything else about the code is still checked. Each is found by TLC within
seconds or minutes when the constant is changed in the run's configuration and
the property is checked alone:

| Run and change | Property that fails | What happens |
|---|---|---|
| `shard`: `Writer <- TwoWriters`, `Reader <- NoReader`, `MaxSeq = 5`, `StaleNumber = TRUE` | `NoClobber` | the number of a run is drawn (KEEP.c:462) before the wait for the lock, and a waiting writer replaces the run its predecessor published, against "using a globally-unique seqno" (KEEP.c:277-281). With `StaleNumber = FALSE` the same two writers pass |
| `shard`: invariant `OpenSeesAll` | `OpenSeesAll` | a reader that listed the runs before a compaction unlinked them skips the vanished names (DOG.c:487) and never lists the merged run, or lists them in between and finds neither; either way it misses committed objects, against "idx-before-packs scan order plus idx-via-rename publication keep readers consistent" (KEEP.c:466-468), where the code also maps packs before runs |
| `shard`: `CrashInGap = TRUE` | `Durable` | a compaction unlinks its sources (KEEP.c:736) before it writes the merged run; KEEP.h:251-253 has the order the other way |
| `refs`: `Stale = TRUE` | `NothingLost` | a reader that opened before an append cuts the appended row off when it closes (ULOG.c:507), against "append-only reflog" (REF.md:3) |
| `refs`: `LeafOf <- TwoLeaves`, `Key <- OneBranch`, `Reader <- NoReader`, `Verb <- NoFail`, `SYMMETRY ShaSymmetry` | `CASHonest` | writers on different leaves that move one branch hold different locks, and compare-and-append (REFS.c:192) is not the "atomic check-and-set" of POST.c:2919-2923. With `Posts <- OwnPosts` (each branch moved under one lock), all keys and `MaxRows = 2` the run passes |
| `refs`: invariant `LoadFaithful` | `LoadFaithful` | a fail marker hides the ref before it from `REFSLoad` (REFS.c:254), against the comment above it |
| `branches`: `Proc <- TwoProcs`, `Obj <- OneObj` | `NumbersUnique` | two leaves, two locks, one number (KEEP.c:462 against 147-149) |
| `branches`: `Strangers = TRUE` | `DataOfLeaf` | a move registers other branches' files as the leaf's own (MIGRATE.c:225 against 234 and KEEP.c:248-250); with `MaxSeq = 6` `LineReadable` fails as well: a later compaction merges part of a sibling's runs into the leaf, and two copies of two objects become each other's delta bases |
| `branches`: `Line` and `DirOrder` of a branch on a branch (`trunk`, `fix`, `fix/sub`), `MaxSeq = 6` | `LineReadable` | a switch to a missing directory below an existing one maps the files of the directory between as DATA before it fails, and the session stays on its leaf (KEEP.c:570-593); the compaction at its close merges the youngest of those runs into the leaf, where a reader of `fix` finds their entries before the older ones they are based on, and goes round in a circle. With `MaxSeq = 5` the property holds |
| `wire`: property `FastForward` | `FastForward` | a client that is merely behind sets the server's branch back to its own older tip: nothing compares old and new for ancestry |
| `wire`: invariant `ServerWhole` | `ServerWhole` | a pack that the server could not take in is answered with "ng", but the ref has moved ("Apply updates regardless of pack status", RECV.c:448-451) to a commit the server has not got; the next push finds the advertised tip equal to its own and sends nothing |
| `wire`: `Cut = TRUE` | `ServerClosed` | a connection cut inside the pack leaves a ref whose history the server has not got |
| `sniff`: `Path <- OnePath`, `Theirs <- Back`, `MaxCommits = 6`, `MaxEdits = 1`, `MaxCrashes = 0` | `PostLands` | a replay drops a commit whose change is anywhere in the tip's history, also one that was taken back since (REBASE.c:716); the post ends well without it |
| `sniff`: property `EditsSafe` | `EditsSafe` | a get merges into the user's edited file in place: `FILECreate` (O_CREAT and O_TRUNC, GET.c:104-106) empties it before the merge is fed (GET.c:601-605), so a death or a failed write in between loses the edit |
| `sniff`: `EditDuring = TRUE` | `Closed` | a post hashes a file at the scan (POST.c:514) and reads it again for the pack (POST.c:2758): what was edited, or cannot be read (`continue` at 2743, 2751, 2759), in between is named by the tree and not stored |
| `sniff`: `Rewind = TRUE` | `TipForward` | a get of an older commit by its hash sets the branch's tip to it |
| `promote`: `Siblings = TRUE` | `Readable` | a put of a branch under another parent packs the replayed commits into the shard of the worktree's branch (POST.c:1820) |

`CrashAfterCut = FALSE` in ULog excludes a death between a truncation and its
close; only tests truncate. `OpenSeesAll`, `ServerWhole`
and `EditsSafe` differ from the properties that the runs check
(`OpenSeesCommitted`, `ServerClosed`, `EditsKept`) only by an exception left
out.

Two comments read as if they were contradicted and are not, or hardly.
LOG.md:5 (`keeper/`) says of log files that nothing is ever mutated in place;
`KEEPPackClose` (KEEP.c:1732-1739) and `KEEPIngestStream` (2538-2548) patch the
object count in the header, and nothing else (`PacksAppendOnly`). The TODO at
POST.c:1346-1352 says that a cascaded commit is in its pack and cannot be got
afterwards by `keeper get .#<sha>`: that command opens the branch the worktree
is on, whose line does not include the cascaded branch. Through the branch's
own line the commit is found (`Readable`), as test/branches/04-cascade expects.

## What is abstracted

- A row takes one unit of space and an object one position of a pack. Text,
  URIs, hashes and delta instructions are not modelled; a host of a ref key is
  compared for equality, where the code accepts a substring.
- `abc/` is an empty submodule. `FILEBook` (a map that extends the file with
  zeros and fails when the file is missing), `FILETrimBook`, `FILELock` and the
  LSM merge `HITwh128Compact` (here: union of the entries) are modelled from
  their use, and marked external where they are definitions of their own. That
  `FILEBook` fails on a missing file is read off `ULOGOpenBooked`, which falls
  back to `FILEBookCreate`.
- Which runs a compaction merges depends on their sizes; in the models it may
  be any number of the youngest.
- In KeeperBranches a commit happens only on the branch the session was opened
  on and a move only after a switch, which is how `sniff` calls the keeper, and
  a hint names an object of the branch's own history.
- In Refs the timestamp of a row is its position, which ULog's `Monotone`
  justifies.
- In ULog an append whose feed to the text map fails for want of room in the
  middle of a row (`BNOROOM`, ULOG.c:24-39, 536) and the 1024 slots of the
  index that the scan of an open fills (ULOG.c:436) are left out; in
  KeeperShard a run that is written short without an error (`FILEFeedAll`
  unchecked, DOG.c:551).
- In Unpk an object's content stands for its id, and a delta put on what is not
  its base gives garbage. Room in the two buffers is unbounded, and so is the
  caller's output (KEEP.c:2565); a forked worker does not die, whose wait
  status the code ignores (UNPK.c:482-500).
- In Wire a request is one message, since the server acts on it only once it
  has read it whole; a commit stands for its tree and blobs; the wildcard fetch
  and the transport are left out. A server that takes a pack in can write the
  row too: `REFSAppend` does not fail.
- In Worktree a file's bytes are a set of lines; the markers of a post that is
  refused are left out, and so are `--prune`, submodules, moves, directories
  and patch. The keeper's lock, held for a whole command, keeps other worktrees
  of the branch out, so `Other` posts between commands. `EditDuring = FALSE`:
  the user changes no file while a command runs; then a file that the scan
  could hash can be read again by the feed, short of a want of descriptors or
  memory that comes and goes, and a file that is gone at the scan (POST.c:515)
  is one that was gone before. A merged file gets a stamp that is no row's; the
  code's is the get's plus one tick (GET.c:613), which may equal a later row's
  if its time was bumped past the tail (AT.c:412-419). `CleanMeansClean` makes
  no claim after a death of a get or a replay until a forced get, and
  `StagedLands` speaks of posts that move the tip, which the table above
  explains.
- In Promote a compare-and-append of a tip is one step (Refs has its pieces),
  the row and the ref of a get are one (Worktree has those), trees are sets of
  lines that merge without conflict, and a put's way back to its own leaf at the
  end changes nothing the properties see. `WalkRead` reads a child's tip once,
  where the code reads it in the walk (POST.c:1468) and again in the replay
  (POST.c:1324), and the switch to the child, whose result the code ignores
  (POST.c:1358), succeeds. The caps on patch ids, on cascaded
  branches and on moved commits are not reached. A put of a commit to a branch
  (`PUTSetBranch`) is asked for by the user and exempt from `PostKeeps`.

## Proofs

Each theorem is stated for every value of the constants under the assumptions
its module names, plus the hypotheses given here; the table above shows what
goes wrong without them.

| Module | Hypotheses | Properties proved |
|---|---|---|
| `ULog_proofs` | `~CrashAfterCut` | `TypeOK`, `Monotone`, `IndexFaithful`, `TrustSound`, `CleanCloseTrusted`, `Implements` (the refinement) |
| `KeeperShard_proofs` | no writer goes on with a number that was taken while it waited (`~StaleNumber`); `~CrashInGap` | `TypeOK`, `Durable`, `IndexSound`, `OpenSeesCommitted`, `NoClobber`, `PacksAppendOnly` |
| `KeeperBranches_proofs` | `TypeOK`, `NumbersUnique`: no session makes a file while another is open (`Timely`); `NoWrongBytes`, `LineReadable`: one session at a time; `LineReadable` also: `~Strangers`, a trunk and branches on it (`Flat`), finitely many objects | `TypeOK`, `NumbersUnique`, `NoWrongBytes`, `LineReadable` |
| `Refs_proofs` | no session writes to or closes a file that another has written to since (`~Stale`); writers with different locks move different branches (`OwnBranch`); no two keys differ in their path only (`KeysApart`) | `TypeOK`, `NothingLost`, `CASHonest`, `CompactionInvisible` |
| `Wire_proofs` | no connection ends inside a pack (`~Cut`) | `TypeOK`, `ServerClosed`, `PeerRowTruth`, `TrunkCompared`, `PushArrives` |
| `Unpk_proofs` | none | `TypeOK`, `Honest`, `InPackComplete` |
| `Worktree_proofs` | the user changes no file while a command runs (`~EditDuring`); `TipForward`: a get names the tip (`~Rewind`) | `TypeOK`, `CleanMeansClean`, `Closed`, `EditsKept`, `TipForward`, `StagedLands` |
| `Promote_proofs` | `Readable`: `~Siblings` | `TypeOK`, `Readable`, `Stacked`, `PostKeeps` |

Every module proves `Invariance`, `Spec => []IInv` for an inductive `IInv`, and
derives the rest from it. Each action preserves `IInv` by a lemma of its own,
or by a frame lemma where it touches nothing of a part.

**ULog.** That a trusted sidecar describes the log depends on every
intermediate sidecar a crash can leave behind, so `IInv` says, beside the types:
that the rows of the log and of a compaction's copy rise; what shape the sidecar
has at every program point (the slots before the last describe a prefix of the
log, and a last slot at the log's size is a sentinel or an entry that stands for
all of it); what the open session's count says; and where the pending row
stands. For the refinement, every action either leaves the abstract log
unchanged or is one of AppendLog's steps: the row counts as appended at the
store that feeds it, a compaction at its rename. The mtime that the sentinel
records turned out not to be needed for safety: the shape and the size decide,
and the mtime only costs or saves a rebuild.

**KeeperShard.** Any number of writers may stand in their opens, or wait for the
lock, while one holds it. `Registered` says that whatever a process has mapped
is an older view of the directory: its packs are beginnings of the packs there
(`Extends`), its runs are the directory's unless a merge took them away, and
their entries are good in the packs as they are. The holder's number is past
every number in use, in the directory or in anyone's registry (`Past`), so a new
pack or run replaces nothing; what keeps a later holder's number past the
numbers in registries older than its own is that the directory always has a file
as young as any registry's (`Covered`). Entries wait in the writer's hands until
a run holds them, good already (`Working`), and a merge takes the entries before
their runs go. For a process that is opening, `Seen` says where the entry of a
committed object is at each step: in the directory or a compaction's hands, in
what it has listed and not mapped, or in its registry, with its bytes in the
packs that it has mapped; `missed` has those that an unlink took from under it.
The count in a header stays within the objects of its file (`Counting`), since
the bytes of a pack that died are in the file and not in the count. That a
non-empty set of numbers has a least and a greatest element is derived from the
well-foundedness of the natural numbers.

**KeeperBranches.** The invariant types the registries and puts the next number
of every open session past every number on disk (`Ahead`). Sessions may stand
open side by side, each with its own leaf's lock; `Timely` asks that none makes
a pack or a run while another is open, which is what a number drawn before the
lock (KEEP.c:462) cannot stand. The work is in the open: it scans the
directories of the line one after another, skips numbers it has, and then draws
its number from a scan of the whole tree; that each scan keeps the types, and
what it covers, is shown by a least counterexample over the directory order.
Switches that fail and leave DATA empty do not disturb it, since the number is
kept. For `NoWrongBytes` the invariant relates an entry to the time of its run
(`BytesSound`): an entry's pack is older than the run that holds the entry, and
the session's next number is past both, so a number that is drawn can become
the number of a pack that is gone but never of one that an entry in a run or in
a registry still points into. Numbers of dropped branches are drawn again, and
strangers' runs are merged into a leaf's own; neither disturbs this, since a
merge takes entries whole and gives them a run that is younger still.

`LineReadable` needs an order in which nothing is based on something later. A
session has of every directory all files or none (`Whole`), and its DATA are the
youngest of its own leaf's (`Owns`); `Tidy` is both, and a failed switch, a drop
and a put keep it. So a compaction merges runs that are next to each other, the
runs of a directory stay in the order of their packs (`Climbs`), and the base of
what an entry holds is in the trunk or earlier in the entry's own directory
(`Based`). A session opened on a branch looks through the trunk and then through
the branch, each by ascending number, so what a lookup gives for a base is older
still (`LookupFacts`, `HeldFacts`). That the chain ends within as many steps as
there are objects is not an induction over a recursive definition but a least
counterexample: the objects whose entries are older than an object's are finitely
many, and fewer for its base (`ViewResolves`). That the recursive function
behind `Resolves` exists at all is `ResolvesUnfold`, from a chain of
approximations (`Iterates`). In a tree with branches on branches `Owns` fails,
and the table above shows that the property fails with it.

**Refs.** The invariant says what each operation knows at each of its program
points: a session to which the file is whole will cut it to the length the log
has, however many are open; a writer holds its leaf's lock from its call to its
return, and one that compared still has the value it compared with, since a row
of another lock's holder is about another branch. A writer whose file another
has written to is stopped before it writes, by hypothesis; that is H7. For the
compaction a lemma counts: the rows kept are in their order (the n-th kept
place is the one with n-1 kept places before it), the latest row of each verb
and key is kept, and what resolves depends on those alone.

**Wire.** The interesting part is what the server may rely on. A client's
have-set is computed from its own store and the peer's advertisement and may be
too large or too small; `ServerClosed` holds nevertheless, because a client
that lacks a commit which it would have to send gives up, and one that has it
sends all that the have-set does not cover, which the server's own tips cover.
A pack that is not taken in leaves its commits in `lost`, and the ref moves; so
the invariant is about what the server was once sent (`Known`: the packs and
`lost` together), which the tips it advertises lead to. For `TrunkCompared` the
lemma `NeverRefused` shows that the comparison in `RECVApplyUpdates` can never
fail for keeper's own clients: it compares the client's copy of the
advertisement with the server's copy of the same. What makes the property true
is that the lock is taken before the refs are read and kept until they are
written. The same lemma carries `PushArrives`: since the server never refuses,
a push ends in only two ways (`Final`, `PushEnds`), with its row recorded,
which an answer or the advertisement has vouched for, or with nothing to send,
and then an advertised tip leads to the commit (`NothingToSend`), which needs
the commit's history in the client's store.

**Unpk.** Everything that hangs below an object in any process's copy of the
lists has that object for its base, siblings share a base, each object hangs in
one list, and what a stack holds is the true content of its object; so what a
worker applies fits, and what it emits is right. Whether a worker was forked or
ran in the parent does not matter to it. `InPackComplete` needs an invariant of
its own (`CInv`), for packs that hold no object twice. In each memory a list is
an upper part of the deltas on its object, in one order (`Ordered`): those by id
before those by place, the last of a kind first. What hangs below the whole
objects of a worker is its share; shares are disjoint, and a worker changes
nothing of another's, in whichever memory it runs (`ShareFrame`). While a worker
runs, every delta on a resolved object of its share is on that object's list, or
resolved, or too deep, and a list that is not empty is on the stack or is a root
to come (`Walked`); the stack goes one link down with each frame, so only a
delta that is too deep meets a full one; and a slab is never full, since no
object is emitted twice (`RoomLeft`, by the pigeonhole principle). When the last
root is done there is nothing left, which is shown for all chains by the least
depth at which something could be missing.

**Worktree.** Half of the invariant is about stamps: while nothing has died in
a get, a tracked file that a get's or a post's stamp vouches for has the base's
bytes, unless the get under way has yet to come to it (`StampsTrue`). What a
get may not touch is decided before its first write, so `GetShape` carries that
decision to the write it is for: the files it will overwrite or unlink without
a merge hold nothing but what the keeper has. While a file is open its bytes
are what the get is about to write (`run.text`), and its stamp is no row's, so
a death leaves a file that every later command takes for the user's; only of a
file that a merge has emptied is there no other copy (`Torn`). The other half
follows a post's tree through its steps: at the scan it is the base with the
staged files' bytes (`ScanShape`), which the feed stores, and what becomes of
it at the tip, with and without a replay, is `PostShape`. Ancestry is a
recursive function of the commits, defined with `CHOOSE`; that there is such a
function (`AncestorsUnfold`) is shown by giving one, as the smallest set closed
under parents, and what it yields by a least counterexample: a commit's history
is transitive, and a new commit changes nobody's.

**Promote.** The constants are any tree of branches (one trunk, and the way up
ends there), any number of worktrees, and any store that commands like these can
have left. Commits are only ever added, so what a command has found out about
the commits it read stays true (`Extended`, `ShapeKept`): that is why a post, a
promote or a cascade can read tips before it waits for a lock. Tips can move
meanwhile, and for each program point `IInv` says what the command may still
rely on: the tip it compares with, the replayed commit that contains what that
tip has, where the commits are packed, and whose lock is held (`PostShape`,
`TodoShape`, `KidShape`, `DoneShape`, `LockShape`). A cascade goes from parents to
children and carries what it made of the branch above along with each branch
that it has yet to look at; that the new commits stand on it (`DoneShape`) is
`Stacked`. `PostKeeps` then follows from the compare-and-append at each tip,
`Readable` from where each verb packs the commits it makes.

Model-checked only: liveness (`Finishes`, `CommandEnds`), which is out of the
prover's reach, and the four properties that a run refutes.

## Not modelled

- `bro`, `beagle` and `js`: user interface, dispatch and bindings.
- `spot`, and `graf`'s own index: run stacks over the same Pup calls as the
  keeper's; what they add is search and text.
- The tokenizers, `DEF`, `HUNK`, `IGNO`, `WHIFF`, `DPATH`, pack and delta
  encoding, SHA-1 and the merges of text (`WEAVE`, `JOIN`): functions over bytes
  without shared state. They make up most of the lines of the repository, which
  is why the models cover a small share of its lines although they cover most of
  what changes the store.
- `keeper/WALK.c`, `RESOLVE.c`, `PROJ.c`: read-only.
- `sniff`'s patch, submodules, moves and directory forms, tags and the watch
  daemon; the deletion of a branch by a verb, whose drop of the shard is in
  KeeperBranches. The daemon writes the worktree's log beside the foreground
  through sessions that Refs shows to cut each other's rows.
- Fixed tables (`KEEP_MAX_LEVELS`, `KEEP_MAX_FILES`), which TLC cannot fill.
- Code that scans a whole log file object by object, and so meets the zeros
  that `FILEBook` leaves behind when a writer dies.
