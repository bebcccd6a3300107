------------------------------ MODULE Worktree ------------------------------
(***************************************************************************)
(* sniff: a worktree on trunk, its log and the branch's tip.  Every row of *)
(* the log has a time, and a file that a command writes or stages gets the *)
(* row's time for its mtime; so a file whose mtime is no row's time was    *)
(* written by the user.  A command is a run of small writes (files, the    *)
(* log, the tip) and may die between any two; the keeper's lock, taken for *)
(* the whole command, keeps other worktrees of the branch out meanwhile,   *)
(* and between commands they move the tip.                                 *)
(*                                                                         *)
(* A time is the row's place in the log, 0 is any other time.  A file's    *)
(* bytes are a set of lines.                                               *)
(***************************************************************************)
EXTENDS Integers, Sequences, FiniteSets

CONSTANTS
  Path,         \* paths, numbered as the tree walk orders them
  Line,         \* what files are made of
  Mine, Theirs, \* the bytes the user writes, and other worktrees post
  None,         \* no file
  MaxRows,      \* bound on the log
  MaxCommits,   \* bound on commits
  MaxEdits,     \* bound on the user's edits
  MaxCrashes,   \* bound on deaths and on writes that fail
  EditDuring,   \* whether the user changes files while a command runs
  Rewind        \* whether a get may name a commit that is not the tip

Blob == SUBSET Line

ASSUME PathAssumption == Path \subseteq Nat /\ \A b \in Blob : b # None
ASSUME BlobAssumption == Mine \cup Theirs \subseteq Blob
ASSUME BoundAssumption == MaxRows \in Nat \ {0}
ASSUME FileAssumption == None \notin [b : Blob, at : -1..MaxRows]
ASSUME FlagAssumption == EditDuring \in BOOLEAN /\ Rewind \in BOOLEAN

VARIABLES
  log,      \* .be/wtlog: rows of a verb, a path and a commit
  tip,      \* the branch's tip in REFS
  commits,  \* every commit made: its parent and its tree
  stored,   \* the blobs the keeper has
  disk,     \* the files: bytes and the time stamp
  run,      \* the command that runs and how far it got
  drift,    \* whether a death or a replay left files behind the log
  edits, crashes

vars == <<log, tip, commits, stored, disk, run, drift, edits, crashes>>
user == <<edits, crashes>>

Idle == [cmd |-> "none"]

\* The stamp of a post's row before the row is there.
Pending == -1

----------------------------------------------------------------------------
\* Reading the log and the tree

Least(S)   == CHOOSE x \in S : \A y \in S : x <= y
Last(S)    == CHOOSE x \in S : \A y \in S : x >= y
Rows(vs)   == {i \in 1..Len(log) : log[i].v \in vs}

Cur   == log[Last(Rows({"get", "post"}))].c      \* SNIFFAtCurTip
Floor == Last({0} \cup Rows({"post"}))           \* SNIFFAtLastPostTs

\* The paths that put and delete rows after the last post name.
Named(v) == {log[i].p : i \in {j \in Rows({v}) : j > Floor}}

Base      == commits[Cur].tree
Tracked   == {p \in Path : Base[p] # None}
Known(p)  == disk[p].at > 0                      \* SNIFFAtKnown
Clean(p)  == Known(p) /\ log[disk[p].at].v \in {"get", "post"}
OnDisk(p) == disk[p] # None

File(b, at)  == [b |-> b, at |-> at]
Row(v, p, c) == [v |-> v, p |-> p, c |-> c]

\* A commit and what is behind it
AncestorsIn(cs, c) ==
  LET up[n \in 0..Len(cs)] == IF n = 0 THEN {} ELSE {n} \cup up[cs[n].up]
  IN  up[c]

Ancestors(c) == AncestorsIn(commits, c)

\* Three texts into one; neither side's new lines are lost.
Merged(base, ours, theirs) == (ours \ (base \ theirs)) \cup (theirs \ base)

----------------------------------------------------------------------------
\* get: checkout of a commit, GETCheckout

Changed(t) == {p \in Path : Base[p] # t[p]}

\* Mutant: only tracked files are looked at.
Dirty_Tracked == {p \in Path : OnDisk(p) /\ ~Known(p) /\ Base[p] # None}

Dirty == {p \in Path : OnDisk(p) /\ ~Known(p)}

\* get_overlap_step: a changed path with an edit and no base stops the get
Refused(t, force) == ~force /\ \E p \in Changed(t) \cap Dirty : Base[p] = None

\* ... one with an edit of a base is merged
Merges(t, force) ==
  {p \in Changed(t) \cap Dirty : ~force /\ Base[p] # disk[p].b}

Unlinks(t, force) ==
  {p \in Changed(t) \ Merges(t, force) : t[p] = None /\ OnDisk(p)}

\* ... and one that does not change is left as it is, if it is there.
Noops(t, force) == IF force THEN {} ELSE Path \ Changed(t)

\* The row first, then the tip, then the files.
Get(c, force) ==
  LET t == commits[c].tree IN
  /\ run = Idle
  /\ Len(log) < MaxRows
  /\ c = tip \/ Rewind
  /\ ~Refused(t, force)
  /\ log' = Append(log, Row("get", 0, c))
  /\ run' = [cmd |-> "get", c |-> c, base |-> Base, at |-> Len(log) + 1,
             force |-> force, tipped |-> FALSE, open |-> {}, text |-> {},
             noop |-> Noops(t, force), merge |-> Merges(t, force),
             write |-> {p \in Path : t[p] # None} \ Merges(t, force),
             unlink |-> Unlinks(t, force)]
  /\ UNCHANGED <<tip, commits, stored, disk, drift, user>>

\* A get that has nothing left to do ends.
GetOn(r) ==
  IF r.write \cup r.merge \cup r.unlink # {}
  THEN run' = r /\ UNCHANGED drift
  ELSE run' = Idle /\ drift' = (drift /\ ~r.force)

GetTip ==
  /\ run.cmd = "get" /\ ~run.tipped
  /\ tip' = run.c
  /\ GetOn([run EXCEPT !.tipped = TRUE])
  /\ UNCHANGED <<log, commits, stored, disk, user>>

\* A file that is done with
Wrote(r, p) ==
  GetOn([r EXCEPT !.write = @ \ {p}, !.merge = @ \ {p}, !.open = {}, !.text = {}])

Fault == crashes < MaxCrashes /\ crashes' = crashes + 1

\* get_write_one: the old file is unlinked, the new one created and fed ...
GetOpen ==
  LET p == Least(run.write)
      t == commits[run.c].tree[p] IN
  /\ run.cmd = "get" /\ run.tipped /\ run.write # {} /\ run.open = {}
  /\ ~(p \in run.noop /\ OnDisk(p))
  /\ \E f \in {None} \cup {File(part, 0) : part \in SUBSET t} : disk' = [disk EXCEPT ![p] = f]
  /\ run' = [run EXCEPT !.open = {p}, !.text = t]
  /\ UNCHANGED <<log, tip, commits, stored, drift, user>>

\* ... and stamped; get_visit passes over a file that stays.
GetWrite ==
  LET p == Least(run.write) IN
  /\ run.cmd = "get" /\ run.tipped /\ run.write # {}
  /\ \/ run.open = {} /\ p \in run.noop /\ OnDisk(p) /\ UNCHANGED disk
     \/ run.open = {p} /\ disk' = [disk EXCEPT ![p] = File(run.text, run.at)]
  /\ Wrote(run, p)
  /\ UNCHANGED <<log, tip, commits, stored, user>>

\* The edit of the base and the new version, or the edit alone when the target
\* has no such file
MergeText(p) ==
  LET t == commits[run.c].tree[p] IN
  IF t = None THEN disk[p].b
  ELSE IF OnDisk(p) THEN Merged(run.base[p], disk[p].b, t) ELSE t

\* get_drain_merges writes in place: it empties the file and feeds it ...
GetTruncate ==
  LET p == Least(run.merge) IN
  /\ run.cmd = "get" /\ run.tipped /\ run.write = {} /\ run.merge # {} /\ run.open = {}
  /\ OnDisk(p) \/ commits[run.c].tree[p] # None
  /\ \E part \in SUBSET MergeText(p) : disk' = [disk EXCEPT ![p] = File(part, 0)]
  /\ run' = [run EXCEPT !.open = {p}, !.text = MergeText(p)]
  /\ UNCHANGED <<log, tip, commits, stored, drift, user>>

\* ... with a stamp that is no row's.  A merge or a write that fails leaves the
\* file as it is by then, and the get goes on.
GetMerge ==
  LET p == Least(run.merge) IN
  /\ run.cmd = "get" /\ run.tipped /\ run.write = {} /\ run.merge # {}
  /\ \/ /\ run.open = {p} /\ disk' = [disk EXCEPT ![p] = File(run.text, 0)]
        /\ UNCHANGED crashes
     \/ /\ run.open = {} /\ ~OnDisk(p) /\ commits[run.c].tree[p] = None
        /\ UNCHANGED <<disk, crashes>>
     \/ Fault /\ UNCHANGED disk
  /\ Wrote(run, p)
  /\ UNCHANGED <<log, tip, commits, stored, edits>>

\* get_drain_unlinks
GetUnlink ==
  LET p == Least(run.unlink) IN
  /\ run.cmd = "get" /\ run.tipped
  /\ run.write \cup run.merge = {} /\ run.unlink # {}
  /\ disk' = [disk EXCEPT ![p] = None]
  /\ GetOn([run EXCEPT !.unlink = @ \ {p}])
  /\ UNCHANGED <<log, tip, commits, stored, user>>

----------------------------------------------------------------------------
\* put and delete: rows for the next post

\* Named paths are staged whatever they hold, unless clean; a bare put looks
\* at every tracked file.
Put(S, bare) ==
  /\ run = Idle
  /\ bare \/ \A p \in S : OnDisk(p) /\ ~(p \in Tracked /\ Clean(p))
  /\ run' = [cmd |-> "put", todo |-> S, bare |-> bare, row |-> FALSE]
  /\ UNCHANGED <<log, tip, commits, stored, disk, drift, user>>

Rest(S) == IF S = {} THEN Idle ELSE [run EXCEPT !.todo = S]

\* Mutant: a bare put stamps a file it has not compared.
PutOne_Trust ==
  LET p == Least(run.todo) IN
  /\ run.cmd = "put" /\ ~run.row
  /\ log'  = IF OnDisk(p) /\ ~run.bare THEN Append(log, Row("put", p, 0)) ELSE log
  /\ disk' = IF OnDisk(p)
             THEN [disk EXCEPT ![p].at = Last(Rows({"get", "post"}))] ELSE disk
  /\ run' = Rest(run.todo \ {p})
  /\ UNCHANGED <<tip, commits, stored, drift, user>>

\* put_visit_tracked for a bare put, the loop at the end of PUTStage for names:
\* the row, or for a file with the base's bytes the stamp alone
PutOne ==
  LET p     == Least(run.todo)
      skip  == ~OnDisk(p) \/ (run.bare /\ Clean(p))
      same  == run.bare /\ ~skip /\ disk[p].b = Base[p]
      stage == ~skip /\ ~same IN
  /\ run.cmd = "put" /\ ~run.row
  /\ stage => Len(log) < MaxRows
  /\ log'  = IF stage THEN Append(log, Row("put", p, 0)) ELSE log
  /\ disk' = IF same THEN [disk EXCEPT ![p].at = Last(Rows({"get", "post"}))] ELSE disk
  /\ run'  = IF stage THEN [run EXCEPT !.row = TRUE] ELSE Rest(run.todo \ {p})
  /\ UNCHANGED <<tip, commits, stored, drift, user>>

\* ... and then the stamp of the row.
PutStamp ==
  LET p == Least(run.todo) IN
  /\ run.cmd = "put" /\ run.row
  /\ disk' = IF OnDisk(p) THEN [disk EXCEPT ![p].at = Len(log)] ELSE disk
  /\ run'  = IF run.todo = {p} THEN Idle
             ELSE [run EXCEPT !.todo = @ \ {p}, !.row = FALSE]
  /\ UNCHANGED <<log, tip, commits, stored, drift, user>>

\* A file that is there is unlinked at once, when its stamp is a row's.
DeleteFile(p) ==
  /\ run = Idle
  /\ OnDisk(p) /\ Known(p)
  /\ disk' = [disk EXCEPT ![p] = None]
  /\ run'  = [cmd |-> "delete", todo |-> {p}]
  /\ UNCHANGED <<log, tip, commits, stored, drift, user>>

\* A tracked path that is gone, by name, or all of them.
DeleteGone(S) ==
  /\ run = Idle
  /\ run' = [cmd |-> "delete", todo |-> S]
  /\ UNCHANGED <<log, tip, commits, stored, disk, drift, user>>

Gone == {p \in Tracked : ~OnDisk(p)}

\* Mutant: the row has lost its path.
DeleteRow_NoPath ==
  /\ run.cmd = "delete"
  /\ Len(log) < MaxRows
  /\ log' = Append(log, Row("delete", 0, 0))
  /\ run' = Rest(run.todo \ {Least(run.todo)})
  /\ UNCHANGED <<tip, commits, stored, disk, drift, user>>

DeleteRow ==
  LET p == Least(run.todo) IN
  /\ run.cmd = "delete"
  /\ Len(log) < MaxRows
  /\ log' = Append(log, Row("delete", p, 0))
  /\ run' = Rest(run.todo \ {p})
  /\ UNCHANGED <<tip, commits, stored, disk, drift, user>>

----------------------------------------------------------------------------
\* post: a commit, POSTCommit

\* post_classify_step: "keep" has the base's bytes, "add" the file's, "drop"
\* has none and unlinks the file; "none" is not the commit's business.
Fate(p) ==
  LET pd == Named("put") \cup Named("delete") # {} IN
  IF p \in Named("delete") THEN IF p \in Tracked \/ OnDisk(p) THEN "drop" ELSE "none"
  ELSE IF p \in Named("put") THEN IF OnDisk(p) THEN "add"
                                  ELSE IF p \in Tracked THEN "drop" ELSE "none"
  ELSE IF p \notin Tracked THEN IF OnDisk(p) /\ ~pd /\ Known(p) /\ ~Clean(p)
                                THEN "add" ELSE "none"
  ELSE IF pd                THEN IF OnDisk(p) /\ Known(p) /\ ~Clean(p)
                                THEN "add" ELSE "keep"
  ELSE IF ~OnDisk(p)        THEN "drop"
  ELSE IF Clean(p) \/ (~Known(p) /\ disk[p].b = Base[p]) THEN "keep" ELSE "add"

TreeOf(fate) ==
  [p \in Path |-> CASE fate[p] = "keep" -> Base[p]
                    [] fate[p] = "add"  -> disk[p].b
                    [] OTHER            -> None]

\* A file whose stamp drifted and whose bytes did not is stamped anew.
Drifted == {p \in Tracked \cap Dirty : disk[p].b = Base[p]}

\* Mutant: the ancestor test with its arguments swapped.
NeedsRebase_Swapped == Cur \notin Ancestors(tip)

\* The ff pre-flight: somebody moved the tip since the last get or post.
NeedsRebase == tip \notin Ancestors(Cur)

\* The scan; the files that go are unlinked, and then a commit without changes
\* is refused.
PostScan ==
  LET fate    == [p \in Path |-> Fate(p)]
      tree    == TreeOf(fate)
      pd      == Named("put") \cup Named("delete") # {} IN
  /\ run = Idle
  /\ Len(log) < MaxRows
  /\ Len(commits) + 2 <= MaxCommits
  /\ disk' = [p \in Path |->
       CASE fate[p] = "drop" -> None
         [] p \in Drifted /\ ~pd /\ fate[p] = "keep" ->
              File(disk[p].b, IF tree = Base THEN 0 ELSE Pending)
         [] OTHER -> disk[p]]
  /\ run' = IF tree = Base THEN Idle
            ELSE [cmd |-> "post", at |-> "feed", base |-> Cur, tree |-> tree,
                  add |-> {p \in Path : fate[p] = "add"}, new |-> 0,
                  replay |-> NeedsRebase]
  /\ UNCHANGED <<log, tip, commits, stored, drift, user>>

\* Mutant: what a put staged is taken to be in the keeper.
PostFeed_Staged ==
  /\ run.cmd = "post" /\ run.at = "feed"
  /\ commits' = Append(commits, [up |-> run.base, tree |-> run.tree])
  /\ stored'  = stored \cup {disk[p].b : p \in {q \in run.add : OnDisk(q) /\ ~Known(q)}}
  /\ run' = [run EXCEPT !.at = IF run.replay THEN "replay" ELSE "ref",
                        !.new = Len(commits) + 1]
  /\ UNCHANGED <<log, tip, disk, drift, user>>

\* The pack: the commit, its trees, and the files' bytes, read again.  A file
\* that cannot be read any more is passed over.
PostFeed ==
  /\ run.cmd = "post" /\ run.at = "feed"
  /\ commits' = Append(commits, [up |-> run.base, tree |-> run.tree])
  /\ \E read \in IF EditDuring THEN SUBSET run.add ELSE {run.add} :
       stored' = stored \cup {disk[p].b : p \in {q \in read : OnDisk(q)}}
  /\ run' = [run EXCEPT !.at = IF run.replay THEN "replay" ELSE "ref",
                        !.new = Len(commits) + 1]
  /\ UNCHANGED <<log, tip, disk, drift, user>>

\* Mutant: a removal wins over a change.
MergedPath_Remove(base, ours, theirs) ==
  IF ours = base THEN theirs
  ELSE IF theirs \in {base, ours} THEN ours
  ELSE IF None \in {ours, theirs} THEN None
  ELSE Merged(IF base = None THEN {} ELSE base, ours, theirs)

\* tm_merge_trees, a path: what one side alone changed is that side's; where
\* one removed what the other changed, the change stays; the files that both
\* changed are merged.
MergedPath(base, ours, theirs) ==
  IF ours \in {base, None} /\ theirs # base THEN theirs
  ELSE IF theirs \in {base, ours, None} THEN ours
  ELSE Merged(IF base = None THEN {} ELSE base, ours, theirs)

\* GRAFPatchId: what a commit changed
Patch(c) ==
  LET old(p) == IF commits[c].up = 0 THEN None ELSE commits[commits[c].up].tree[p]
  IN  {<<p, old(p), commits[c].tree[p]>> :
         p \in {q \in Path : old(q) # commits[c].tree[q]}}

\* GRAFRebase of the one new commit onto the tip.  A commit whose change is
\* one of the tip's history already is left out.
Seen(c) == \E a \in Ancestors(tip) : commits[a].up # 0 /\ Patch(a) = Patch(c)

Replayed ==
  LET base == commits[run.base].tree
      ours == commits[tip].tree IN
  [p \in Path |-> MergedPath(base[p], ours[p], run.tree[p])]

PostReplay ==
  /\ run.cmd = "post" /\ run.at = "replay"
  /\ IF Seen(run.new)
     THEN /\ run' = [run EXCEPT !.at = "ref", !.new = tip]
          /\ UNCHANGED <<commits, stored>>
     ELSE /\ commits' = Append(commits, [up |-> tip, tree |-> Replayed])
          /\ stored'  = stored \cup {Replayed[p] : p \in {q \in Path : Replayed[q] # None}}
          /\ run' = [run EXCEPT !.at = "ref", !.new = Len(commits) + 1]
  /\ UNCHANGED <<log, tip, disk, drift, user>>

\* The two sides' edits overlap: GRAFCNFL
PostConflict ==
  LET base == commits[run.base].tree
      ours == commits[tip].tree IN
  /\ run.cmd = "post" /\ run.at = "replay" /\ ~Seen(run.new)
  /\ \E p \in Path : /\ None \notin {ours[p], run.tree[p]}
                     /\ Cardinality({base[p], ours[p], run.tree[p]}) = 3
  /\ disk' = [p \in Path |-> IF OnDisk(p) /\ disk[p].at = Pending
                             THEN File(disk[p].b, 0) ELSE disk[p]]
  /\ run' = Idle
  /\ UNCHANGED <<log, tip, commits, stored, drift, user>>

\* That the row could not be appended goes unnoticed, if another's tip is not why.
PostRef ==
  /\ run.cmd = "post" /\ run.at = "ref"
  /\ \/ tip' = run.new /\ UNCHANGED crashes
     \/ Fault /\ UNCHANGED tip
  /\ run' = [run EXCEPT !.at = "row"]
  /\ UNCHANGED <<log, commits, stored, disk, drift, edits>>

PostRow ==
  /\ run.cmd = "post" /\ run.at = "row"
  /\ log'  = Append(log, Row("post", 0, run.new))
  /\ disk' = [p \in Path |-> IF OnDisk(p) /\ disk[p].at = Pending
                             THEN File(disk[p].b, Len(log) + 1) ELSE disk[p]]
  /\ drift' = (drift \/ run.replay)
  /\ run'  = [run EXCEPT !.at = "stamp"]
  /\ UNCHANGED <<tip, commits, stored, user>>

\* The same when the log takes no row: the files get a stamp that is no row's.
PostUnlogged ==
  /\ run.cmd = "post" /\ run.at = "row"
  /\ Fault
  /\ disk' = [p \in Path |-> IF OnDisk(p) /\ (disk[p].at = Pending \/ p \in run.add)
                             THEN File(disk[p].b, 0) ELSE disk[p]]
  /\ run'  = Idle
  /\ UNCHANGED <<log, tip, commits, stored, drift, edits>>

PostStamp ==
  /\ run.cmd = "post" /\ run.at = "stamp"
  /\ disk' = [p \in Path |-> IF p \in run.add /\ OnDisk(p)
                             THEN File(disk[p].b, Len(log)) ELSE disk[p]]
  /\ run' = Idle
  /\ UNCHANGED <<log, tip, commits, stored, drift, user>>

----------------------------------------------------------------------------
\* The user, the other worktrees, deaths

MayEdit == (run = Idle \/ EditDuring) /\ edits < MaxEdits

Edit(p, b) ==
  /\ MayEdit
  /\ OnDisk(p) => disk[p].b # b
  /\ disk'  = [disk EXCEPT ![p] = File(b, 0)]
  /\ edits' = edits + 1
  /\ UNCHANGED <<log, tip, commits, stored, run, drift, crashes>>

Remove(p) ==
  /\ MayEdit
  /\ OnDisk(p)
  /\ disk'  = [disk EXCEPT ![p] = None]
  /\ edits' = edits + 1
  /\ UNCHANGED <<log, tip, commits, stored, run, drift, crashes>>

\* Another worktree posts on the tip.
Other(p, b) ==
  /\ run = Idle
  /\ Len(commits) < MaxCommits
  /\ commits[tip].tree[p] # b
  /\ commits' = Append(commits, [up |-> tip, tree |-> [commits[tip].tree EXCEPT ![p] = b]])
  /\ stored'  = stored \cup ({b} \ {None})
  /\ tip'     = Len(commits) + 1
  /\ UNCHANGED <<log, disk, run, drift, user>>

Crash ==
  /\ run # Idle
  /\ crashes < MaxCrashes
  /\ crashes' = crashes + 1
  /\ disk'  = [p \in Path |-> IF OnDisk(p) /\ disk[p].at = Pending
                              THEN File(disk[p].b, 0) ELSE disk[p]]
  /\ drift' = (drift \/ run.cmd = "get")
  /\ run'   = Idle
  /\ UNCHANGED <<log, tip, commits, stored, edits>>

Init ==
  LET t == [p \in Path |-> IF p = Least(Path) THEN {} ELSE None] IN
    /\ commits = <<[up |-> 0, tree |-> t]>>
    /\ stored  = {{}}
    /\ disk    = [p \in Path |-> IF t[p] = None THEN None ELSE File(t[p], 1)]
    /\ log     = <<Row("get", 0, 1)>>
    /\ tip = 1 /\ run = Idle /\ drift = FALSE
    /\ edits = 0 /\ crashes = 0

Steps ==
  \/ GetTip \/ GetOpen \/ GetWrite \/ GetTruncate \/ GetMerge \/ GetUnlink
  \/ PutOne \/ PutStamp \/ DeleteRow
  \/ PostFeed \/ PostReplay \/ PostConflict \/ PostRef \/ PostRow \/ PostUnlogged \/ PostStamp

Next ==
  \/ \E c \in 1..Len(commits), force \in BOOLEAN : Get(c, force)
  \/ \E p \in Path : Put({p}, FALSE) \/ DeleteFile(p)
  \/ Tracked # {} /\ Put(Tracked, TRUE)
  \/ \E S \in ({Gone} \cup {{p} : p \in Gone}) \ {{}} : DeleteGone(S)
  \/ PostScan
  \/ Steps
  \/ \E p \in Path, b \in Mine : Edit(p, b)
  \/ \E p \in Path : Remove(p)
  \/ \E p \in Path, b \in Theirs \cup {None} : Other(p, b)
  \/ Crash

Spec == Init /\ [][Next]_vars

----------------------------------------------------------------------------
\* Properties

TypeOK ==
  /\ tip \in 1..Len(commits)
  /\ \A i \in 1..Len(commits) :
       /\ commits[i].up \in 0..i-1
       /\ \A p \in Path : commits[i].tree[p] # None => commits[i].tree[p] \in Blob
  /\ stored \subseteq Blob
  /\ \A p \in Path : OnDisk(p) => disk[p].b \in Blob /\ disk[p].at \in Pending..Len(log)
  /\ \A p \in Path : OnDisk(p) /\ disk[p].at = Pending => run.cmd = "post"
  /\ \A i \in 1..Len(log) :
       \/ log[i].v \in {"get", "post"} /\ log[i].c \in 1..Len(commits)
       \/ log[i].v \in {"put", "delete"} /\ log[i].p \in Path

\* sniff/AT.c, SNIFFAtKnown's callers: a tracked file with the stamp of a get
\* or a post row has the bytes of the tree the log is at, or the next post
\* drops what it holds.  Deaths and replays break it until a forced get.
CleanMeansClean ==
  run = Idle /\ ~drift =>
    \A p \in Tracked : OnDisk(p) /\ Clean(p) => disk[p].b = Base[p]

\* sniff/POST.c, the classification and the feed: every file of every commit
\* that the tip has behind it can be read back.
Closed ==
  \A c \in Ancestors(tip) : \A p \in Path :
    commits[c].tree[p] # None => commits[c].tree[p] \in stored

\* A file's bytes, on disk or in the hands of the get that writes them
Text(p) == IF run.cmd = "get" /\ p \in run.open THEN run.text ELSE disk[p].b

\* What the user wrote and never staged, and the keeper does not have
Unsaved(p) ==
  /\ OnDisk(p) /\ ~Known(p) /\ Text(p) \notin stored
  /\ ~(run.cmd = "get" /\ run.force) /\ p \notin Named("delete")

\* A step keeps it, but for the lines that are the base's.
Keeps(p) ==
  /\ disk'[p] # None
  /\ Text(p) \ (IF run.cmd = "get" /\ run.base[p] # None THEN run.base[p] ELSE {})
       \subseteq Text(p)'

\* A death or a failed write while a merged file is emptied and not yet fed
Torn(p) == run.cmd = "get" /\ p \in run.open /\ crashes' # crashes

\* sniff/GET.c, get_overlap_step: what is the user's alone is not lost by a
\* command or by its death, save a forced get, the post of a path with a delete
\* row, and the one file that a get has emptied to write the merge in its place.
EditsKept ==
  [][\A p \in Path : edits' = edits /\ Unsaved(p) /\ ~Torn(p) => Keeps(p)]_vars

\* The same for that file too, which get_drain_merges does not keep: it creates
\* over the user's only copy (FILECreate truncates) before it writes.
EditsSafe == [][\A p \in Path : edits' = edits /\ Unsaved(p) => Keeps(p)]_vars

\* sniff/POST.c, the ff check, and sniff/GET.c, the commit point: a step moves
\* the branch forward only.  Nobody's commit falls out of its history.
TipForward == [][AncestorsIn(commits, tip) \subseteq AncestorsIn(commits', tip')]_vars

\* What the staged change of a file became in a tree
Landed(p, tree) ==
  LET base == commits[run.base].tree[p]
      mine == disk[p].b IN
  base = mine \/ (/\ tree[p] # None
                  /\ mine \ (IF base = None THEN {} ELSE base) \subseteq tree[p])

Staged == (Named("put") \cap run.add) \ Named("delete")

\* sniff/POST.c and graf/REBASE.c: when a post's new commit becomes the tip,
\* what the rows since the last post stage is in the tip's tree, whatever the
\* other worktrees posted meanwhile.
StagedLands ==
  [][run.cmd = "post" /\ tip' # tip =>
       \A p \in Staged : Landed(p, commits[tip'].tree)]_vars

\* sniff/POST.c, the end of a post: so it is for every post that ends well.
PostLands ==
  [][run.cmd = "post" /\ run.at = "ref" /\ run'.cmd = "post" =>
       \A p \in Staged : Landed(p, commits[tip'].tree)]_vars
=============================================================================
