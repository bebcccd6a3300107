------------------------------ MODULE Promote ------------------------------
(***************************************************************************)
(* sniff and graf over the tree of branches: worktrees that post, promote, *)
(* create, reset and switch branches of one store.  A command opens the    *)
(* keeper on its worktree's branch, whose lock it holds, and may move on   *)
(* to another leaf, whose lock it waits for; it reads tips before it       *)
(* waits and moves them after.  A post that has been overtaken replays its *)
(* commit onto the tip and then every branch below (the cascade).          *)
(*                                                                         *)
(* A tree is a set of lines and a post adds one.  A tip's compare-and-     *)
(* append is one step (module Refs has its pieces), and so are a get's row *)
(* and its ref (module Worktree has those).                                *)
(***************************************************************************)
EXTENDS Integers, Sequences, FiniteSets

CONSTANTS
  Wt,          \* worktrees
  Up,          \* by branch: the branch above it, None for the trunk
  None,        \* no branch, nobody
  Line,        \* what a post may add
  Store, Heads,  \* the commits and the tips there are at first
  Goto,        \* the branches that a get may name
  Siblings,    \* whether a put makes a branch elsewhere of own commits
  MaxCommits,  \* bound on commits
  MaxCommands  \* bound on commands

Branch == DOMAIN Up
Trunk  == CHOOSE b \in Branch : Up[b] = None

\* One trunk, and the way up ends there.
ASSUME UpAssumption ==
  /\ None \notin Branch \cup Wt
  /\ Up \in [Branch -> Branch \cup {None}]
  /\ \E t \in Branch : Up[t] = None /\ \A b \in Branch \ {t} : Up[b] # None
  /\ \A S \in SUBSET Branch : S # {} => \E b \in S : Up[b] \notin S
ASSUME GotoAssumption == Goto \subseteq Branch /\ Siblings \in BOOLEAN

VARIABLES
  commits,   \* every commit made: its parent, its tree, the leaves that have it
  tips,      \* REFS: each branch's tip, 0 when there is no such branch
  wt,        \* the branch and the commit that each worktree is at
  job,       \* the command that each worktree runs and how far it got
  lock,      \* by branch: who holds its .lock
  commands   \* how many commands were given

vars == <<commits, tips, wt, job, lock, commands>>

Idle == [cmd |-> "none", at |-> "idle"]

----------------------------------------------------------------------------
\* Branches, commits

Above(b) ==
  LET up[x \in Branch \cup {None}] == IF x = None THEN {} ELSE {x} \cup up[Up[x]]
  IN  up[b]

Lines  == Line \cup UNION {Store[i].tree : i \in DOMAIN Store}
Commit == [up : Nat, tree : SUBSET Lines, in : (SUBSET Branch) \ {{}}]

Ancestors(cs, c) ==
  LET up[n \in 0..Len(cs)] == IF n = 0 THEN {} ELSE {n} \cup up[cs[n].up]
  IN  up[c]

\* The keeper finds what is in the leaves it has loaded.
SeenIn(cs, bs, c) == \A a \in Ancestors(cs, c) : cs[a].in \cap bs # {}

\* One first commit, and trees that grow.
Grown(cs) ==
  \A i \in 1..Len(cs) :
    /\ cs[i].up \in 0..i-1
    /\ i # 1 => cs[i].up # 0 /\ cs[cs[i].up].tree \subseteq cs[i].tree

\* The store is one that commands like these have left.
ASSUME StoreAssumption ==
  /\ Store \in Seq(Commit) /\ Grown(Store)
  /\ Heads \in [Branch -> 0..Len(Store)] /\ Heads[Trunk] # 0
  /\ \A b \in Branch : Heads[b] # 0 => SeenIn(Store, Above(b), Heads[b])

Behind(c)  == Ancestors(commits, c)
Last(S)    == CHOOSE x \in S : \A y \in S : x >= y
Fork(a, b) == Last(Behind(a) \cap Behind(b))             \* GRAFLca

\* The first-parent chain down to a commit, which is left out
Chain(cs, stop, tip) == Ancestors(cs, tip) \ Ancestors(cs, stop)

SeenFrom(bs, c) == SeenIn(commits, bs, c)

\* KEEPMoveCommits into a leaf
Copied(cs, S, b) ==
  [i \in DOMAIN cs |-> IF i \in S THEN [cs[i] EXCEPT !.in = @ \cup {b}] ELSE cs[i]]

----------------------------------------------------------------------------
\* GRAFRebase

\* GRAFPatchId
Patch(cs, c) == <<IF cs[c].up = 0 THEN {} ELSE cs[cs[c].up].tree, cs[c].tree>>

\* tm_merge_trees without a conflict
Merged(base, ours, theirs) == (ours \ (base \ theirs)) \cup (theirs \ base)

\* The commits after `from` up to tip, replayed onto another commit, the oldest
\* first, without those whose change is there already; written into leaf b.
Rebased(cs, from, onto, tip, b) ==
  LET chain == Chain(cs, from, tip)
      Next1(s, c) ==
        IF Patch(cs, c) \in s.pids THEN s
        ELSE [cs   |-> Append(s.cs,
                         [up   |-> s.head,
                          tree |-> Merged(cs[cs[c].up].tree, s.cs[s.head].tree, cs[c].tree),
                          in   |-> {b}]),
              head |-> Len(s.cs) + 1,
              pids |-> s.pids \cup {Patch(cs, c)}]
      upto[n \in 0..Len(cs)] ==
        IF n = 0 THEN [cs |-> cs, head |-> onto,
                       pids |-> {Patch(cs, a) : a \in Ancestors(cs, onto)}]
        ELSE IF n \in chain THEN Next1(upto[n-1], n) ELSE upto[n-1]
  IN  upto[Len(cs)]

----------------------------------------------------------------------------
\* Sessions

Leaf(w)    == CHOOSE b \in Branch : lock[b] = w
Free(b)    == lock[b] = None
Dropped(w) == [b \in Branch |-> IF lock[b] = w THEN None ELSE lock[b]]

\* Mutant: the old leaf's lock is kept.
Taken_Both(w, b) == [lock EXCEPT ![b] = w]

Taken(w, b) == [Dropped(w) EXCEPT ![b] = w]

\* A command starts with the lock of the worktree's branch.
Start(w, j) ==
  /\ job[w] = Idle
  /\ commands < MaxCommands
  /\ Free(wt[w].b)
  /\ commands' = commands + 1
  /\ lock' = Taken(w, wt[w].b)
  /\ job'  = [job EXCEPT ![w] = j]

Go(w, j) == job' = [job EXCEPT ![w] = j] /\ UNCHANGED commands
End(w)   == Go(w, Idle) /\ lock' = Dropped(w)

\* KEEPSwitchBranch: the other leaf's lock, and only then this one's is let go
Switch(w, b, at) ==
  /\ Free(b) \/ lock[b] = w
  /\ lock' = Taken(w, b)
  /\ Go(w, [job[w] EXCEPT !.at = at])

\* What the session has loaded: its branch's line, and its target's
View(w, b) == Above(wt[w].b) \cup Above(b)

\* Mutant: the value is not compared.
Cas_Blind(b, old, new) == tips' = [tips EXCEPT ![b] = new]

\* REFSCompareAndAppend
Cas(b, old, new) == tips' = [tips EXCEPT ![b] = IF @ = old THEN new ELSE @]

\* A command fails or dies; what it wrote stays.
Die(w) ==
  /\ job[w] # Idle
  /\ End(w)
  /\ UNCHANGED <<commits, tips, wt>>

----------------------------------------------------------------------------
\* post: a commit on the worktree's branch, POSTCommit

PostStart(w, l) ==
  LET b   == wt[w].b
      c   == wt[w].c
      old == tips[b] IN
  /\ l \notin commits[c].tree
  /\ Len(commits) < MaxCommits
  /\ Start(w, [cmd |-> "post", old |-> old, new |-> Len(commits) + 1,
               at |-> IF old \in Behind(c) THEN "ref" ELSE "replay",
               todo |-> <<>>, kid |-> <<>>, recs |-> <<>>, made |-> <<>>])
  /\ commits' = Append(commits, [up |-> c, tree |-> commits[c].tree \cup {l}, in |-> {b}])
  /\ UNCHANGED <<tips, wt>>

Kids(b, old, new) == {[b |-> k, old |-> old, new |-> new] : k \in {x \in Branch : Up[x] = b}}

PostReplay(w) ==
  LET j == job[w]
      r == Rebased(commits, wt[w].c, j.old, j.new, Leaf(w)) IN
  /\ j.cmd = "post" /\ j.at = "replay"
  /\ SeenFrom(View(w, wt[w].b), j.old)
  /\ commits' = r.cs
  /\ Go(w, [j EXCEPT !.at = "walk", !.new = r.head,
                     !.todo = <<Kids(wt[w].b, j.old, r.head)>>])
  /\ UNCHANGED <<tips, wt, lock>>

\* post_cascade_walk: the next branch below, depth first.  Its tip is read
\* before the keeper moves to its leaf.
WalkRead(w) ==
  LET j == job[w] IN
  /\ j.cmd = "post" /\ j.at = "walk" /\ j.todo # <<>>
  /\ IF Head(j.todo) = {} THEN Go(w, [j EXCEPT !.todo = Tail(@)])
     ELSE \E k \in Head(j.todo) :
            LET rest == [j EXCEPT !.todo = <<Head(@) \ {k}>> \o Tail(@)] IN
            IF tips[k.b] = 0 THEN Go(w, rest)
            ELSE Go(w, [rest EXCEPT !.at = "switch",
                         !.kid = [b |-> k.b, tip |-> tips[k.b], old |-> k.old, new |-> k.new]])
  /\ UNCHANGED <<commits, tips, wt, lock>>

\* Mutant: the branches below are replayed onto the post's commit as well.
Below_Post(w, k, new) == Kids(k.b, k.tip, job[w].new)

\* The next level's fork point and base are this branch's old and new tip.
Below(w, k, new) == Kids(k.b, k.tip, new)

\* post_cascade_one; a branch that is behind the new tip stays.
WalkReplay(w) ==
  LET j == job[w]
      k == j.kid
      r == IF k.tip \in Behind(k.new) THEN [cs |-> commits, head |-> k.tip]
           ELSE Rebased(commits, Fork(k.old, k.tip), k.new, k.tip, k.b) IN
  /\ j.cmd = "post" /\ j.at = "switch"
  /\ Free(k.b) \/ lock[k.b] = w
  /\ SeenFrom(View(w, k.b), k.tip)
  /\ lock' = Taken(w, k.b)
  /\ commits' = r.cs
  /\ Go(w, [j EXCEPT !.at = "walk",
              !.recs = Append(@, [b |-> k.b, old |-> k.tip, new |-> r.head]),
              !.todo = <<Below(w, k, r.head)>> \o @])
  /\ UNCHANGED <<tips, wt>>

WalkEnd(w) ==
  /\ job[w].cmd = "post" /\ job[w].at = "walk" /\ job[w].todo = <<>>
  /\ Go(w, [job[w] EXCEPT !.at = "ref"])
  /\ UNCHANGED <<commits, tips, wt, lock>>

\* The branch first ...
PostRef(w) ==
  LET j == job[w] IN
  /\ j.cmd = "post" /\ j.at = "ref"
  /\ Cas(wt[w].b, j.old, j.new)
  /\ IF tips[wt[w].b] = j.old
     THEN Go(w, [j EXCEPT !.at = "persist"]) /\ UNCHANGED lock
     ELSE End(w)
  /\ UNCHANGED <<commits, wt>>

\* ... and then those below, one at a time; a lost race is only reported.
PostPersist(w) ==
  LET j == job[w]
      r == Head(j.recs) IN
  /\ j.cmd = "post" /\ j.at = "persist" /\ j.recs # <<>>
  /\ Cas(r.b, r.old, r.new)
  /\ Go(w, [j EXCEPT !.recs = Tail(@), !.made = Append(@, r)])
  /\ UNCHANGED <<commits, wt, lock>>

PostRow(w) ==
  LET j == job[w] IN
  /\ j.cmd = "post" /\ j.at = "persist" /\ j.recs = <<>>
  /\ wt' = [wt EXCEPT ![w].c = j.new]
  /\ End(w)
  /\ UNCHANGED <<commits, tips>>

----------------------------------------------------------------------------
\* post and put of a branch, POSTPromote

Job(cmd, at, b, old, new) == [cmd |-> cmd, at |-> at, b |-> b, old |-> old, new |-> new]

\* put: the branch is not there.  Below the worktree's branch it starts at the
\* worktree's commit; elsewhere at its own parent's tip, with the worktree's
\* commits replayed onto it, into the leaf the worktree's branch has.
PutStart(w, b) ==
  LET c   == wt[w].c
      p   == tips[Up[b]]
      sub == wt[w].b \in Above(b)
      r   == IF sub \/ p \in Behind(c) THEN [cs |-> commits, head |-> c]
             ELSE IF c \in Behind(p)   THEN [cs |-> commits, head |-> p]
             ELSE Rebased(commits, Fork(c, p), p, c, wt[w].b) IN
  /\ b \notin {Trunk, wt[w].b} /\ tips[b] = 0 /\ p # 0
  /\ Siblings \/ sub \/ c \in Behind(p)
  /\ Start(w, Job("put", "create", b, 0, r.head))
  /\ commits' = r.cs
  /\ UNCHANGED <<tips, wt>>

\* When somebody else has made it meanwhile, the put goes on as a promote, on
\* the leaf it has.
PutRef(w) ==
  LET j == job[w] IN
  /\ j.cmd = "put" /\ j.at = "create"
  /\ Cas(j.b, 0, j.new)
  /\ IF tips[j.b] = 0 THEN End(w)
     ELSE Go(w, [j EXCEPT !.cmd = "promote", !.at = "move", !.old = tips[j.b]])
          /\ UNCHANGED lock
  /\ UNCHANGED <<commits, wt>>

\* post to a branch: the tip is read before the keeper moves to the leaf.
PromoteStart(w, b) ==
  /\ b # wt[w].b /\ tips[b] # 0
  /\ Start(w, Job("promote", "switch", b, tips[b], 0))
  /\ UNCHANGED <<commits, tips, wt>>

PromoteSwitch(w) ==
  /\ job[w].cmd = "promote" /\ job[w].at = "switch"
  /\ Switch(w, job[w].b, "move")
  /\ UNCHANGED <<commits, tips, wt>>

\* Mutant: the tip moves and the commits stay where they are.
PromoteMove_Label(w) ==
  LET j == job[w]
      c == wt[w].c IN
  /\ j.cmd = "promote" /\ j.at = "move"
  /\ IF j.old \in Behind(c) \ {c} /\ wt[w].b \notin Above(j.b)
     THEN Go(w, [j EXCEPT !.at = "ref", !.new = c]) /\ UNCHANGED lock
     ELSE End(w)
  /\ UNCHANGED <<commits, tips, wt>>

\* A branch above or beside goes forward to the worktree's commit, if it can,
\* and the commits it lacks are copied into its leaf.  A branch below stays
\* where it is, ahead or behind.
PromoteMove(w) ==
  LET j    == job[w]
      c    == wt[w].c
      sub  == wt[w].b \in Above(j.b)
      ff   == ~sub /\ j.old \in Behind(c) \ {c}
      same == sub /\ c \in Behind(j.old) \ {j.old} IN
  /\ j.cmd = "promote" /\ j.at = "move"
  /\ commits' = IF ff THEN Copied(commits, Chain(commits, j.old, c), Leaf(w))
                ELSE IF same THEN Copied(commits, Chain(commits, c, j.old), Leaf(w))
                ELSE commits
  /\ IF ff \/ same
     THEN Go(w, [j EXCEPT !.at = "ref", !.new = IF ff THEN c ELSE j.old]) /\ UNCHANGED lock
     ELSE End(w)
  /\ UNCHANGED <<tips, wt>>

PromoteRef(w) ==
  /\ job[w].cmd = "promote" /\ job[w].at = "ref"
  /\ Cas(job[w].b, job[w].old, job[w].new)
  /\ End(w)
  /\ UNCHANGED <<commits, wt>>

----------------------------------------------------------------------------
\* put of a branch and a commit, PUTSetBranch

\* The worktree's own branch is set at once, to any commit.
SetOwn(w, c) ==
  /\ job[w] = Idle /\ commands < MaxCommands /\ Free(wt[w].b)
  /\ SeenFrom(Above(wt[w].b), c)
  /\ tips' = [tips EXCEPT ![wt[w].b] = c]
  /\ commands' = commands + 1
  /\ UNCHANGED <<commits, wt, job, lock>>

\* Another goes forward only, as its tip is now.
SetStart(w, b, c) ==
  /\ b # wt[w].b
  /\ Start(w, Job("set", "switch", b, tips[b], c))
  /\ tips[b] # 0 => tips[b] \in Behind(c)
  /\ b # Trunk => tips[Up[b]] # 0
  /\ SeenFrom(Above(wt[w].b), c)
  /\ UNCHANGED <<commits, tips, wt>>

SetSwitch(w) ==
  /\ job[w].cmd = "set" /\ job[w].at = "switch"
  /\ Switch(w, job[w].b, "write")
  /\ UNCHANGED <<commits, tips, wt>>

SetWrite(w) ==
  LET j == job[w] IN
  /\ j.cmd = "set" /\ j.at = "write"
  /\ commits' = Copied(commits, Chain(commits, j.old, j.new), Leaf(w))
  /\ tips' = [tips EXCEPT ![j.b] = j.new]
  /\ End(w)
  /\ UNCHANGED wt

----------------------------------------------------------------------------
\* get of a branch, SNIFFGetURI and GETCheckout

GetStart(w, b) ==
  /\ tips[b] # 0
  /\ Start(w, Job("get", "switch", b, 0, tips[b]))
  /\ UNCHANGED <<commits, tips, wt>>

GetSwitch(w) ==
  /\ job[w].cmd = "get" /\ job[w].at = "switch"
  /\ Switch(w, job[w].b, "check")
  /\ UNCHANGED <<commits, tips, wt>>

\* The ff gate, which the trunk does not have
GetCheck(w) ==
  LET j == job[w] IN
  /\ j.cmd = "get" /\ j.at = "check"
  /\ IF (j.b # Trunk => tips[j.b] \in Behind(j.new)) /\ SeenFrom(View(w, j.b), j.new)
     THEN Go(w, [j EXCEPT !.at = "write"]) /\ UNCHANGED lock
     ELSE End(w)
  /\ UNCHANGED <<commits, tips, wt>>

\* The row and the ref, whatever it is by now
GetWrite(w) ==
  LET j == job[w] IN
  /\ j.cmd = "get" /\ j.at = "write"
  /\ tips' = [tips EXCEPT ![j.b] = j.new]
  /\ wt'   = [wt EXCEPT ![w] = [b |-> j.b, c |-> j.new]]
  /\ End(w)
  /\ UNCHANGED commits

----------------------------------------------------------------------------

Init ==
  /\ commits = Store
  /\ tips = Heads
  /\ wt \in [Wt -> {[b |-> b, c |-> Heads[b]] : b \in {x \in Branch : Heads[x] # 0}}]
  /\ job  = [w \in Wt |-> Idle]
  /\ lock = [b \in Branch |-> None]
  /\ commands = 0

Post(w) == PostReplay(w) \/ WalkRead(w) \/ WalkReplay(w) \/ WalkEnd(w)
           \/ PostRef(w) \/ PostPersist(w) \/ PostRow(w)

Next ==
  \E w \in Wt :
    \/ \E l \in Line : PostStart(w, l)
    \/ Post(w)
    \/ \E b \in Branch : PutStart(w, b) \/ PromoteStart(w, b)
    \/ PutRef(w) \/ PromoteSwitch(w) \/ PromoteMove(w) \/ PromoteRef(w)
    \/ \E c \in 1..Len(commits) : SetOwn(w, c) \/ (\E b \in Branch : SetStart(w, b, c))
    \/ SetSwitch(w) \/ SetWrite(w)
    \/ \E b \in Goto : GetStart(w, b)
    \/ GetSwitch(w) \/ GetCheck(w) \/ GetWrite(w)
    \/ Die(w)

Spec == Init /\ [][Next]_vars

----------------------------------------------------------------------------
\* Properties

TypeOK ==
  /\ commits \in Seq(Commit) /\ \A i \in 1..Len(commits) : commits[i].up \in 0..i-1
  /\ tips \in [Branch -> 0..Len(commits)]
  /\ wt \in [Wt -> [b : Branch, c : 1..Len(commits)]]
  /\ lock \in [Branch -> Wt \cup {None}]
  /\ \A w \in Wt : Cardinality({b \in Branch : lock[b] = w}) = IF job[w] = Idle THEN 0 ELSE 1

\* What commands other than these do to a tip keeps what was posted.
Keeps(cmds) ==
  \A b \in Branch :
    \/ tips[b] = 0
    \/ commits[tips[b]].tree \subseteq commits'[tips'[b]].tree
    \/ \E w \in Wt : job[w].cmd \in cmds /\ job'[w] = Idle

\* sniff/POST.c, the compare-and-append after the replay and the cascade:
\* whoever posts, promotes or creates on whatever branches meanwhile, the line
\* that a post put on a branch stays on it.
PostKeeps == [][Keeps({"get", "set"}) \/ (\E w \in Wt, c \in 1..Len(commits) : SetOwn(w, c))]_vars

\* sniff/GET.c, the commit point: nor does a get take it away.
GetKeeps == [][Keeps({"set"}) \/ (\E w \in Wt, c \in 1..Len(commits) : SetOwn(w, c))]_vars

\* keeper/MIGRATE.c, KEEPMoveCommits: the history of a branch can be read by a
\* session that opens the branch alone.
Readable == \A b \in Branch : tips[b] # 0 => SeenFrom(Above(b), tips[b])

\* sniff/POST.c, post_cascade_walk: a branch that the cascade moves stands on
\* what the cascade made of the branch above it.
Stacked ==
  \A w \in Wt : job[w].cmd = "post" /\ job[w].at = "persist" =>
    \A i \in 1..Len(job[w].made) :
      LET r == job[w].made[i]
          up == {m \in {job[w].made[n] : n \in 1..i} : m.b = Up[r.b]}
          base == IF Up[r.b] = wt[w].b THEN {job[w].new} ELSE {m.new : m \in up}
      IN  r.new = r.old \/ base \subseteq Behind(r.new)
=============================================================================
