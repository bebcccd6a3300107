-------------------------------- MODULE Wire --------------------------------
(***************************************************************************)
(* The dialogues of two keepers: receive-pack (keeper post, keeper delete) *)
(* and upload-pack (keeper get).  One server, several clients; a client    *)
(* process holds its own store's lock from start to end, so it has one     *)
(* dialogue at a time.  receive-pack holds the lock of the server's trunk  *)
(* before it reads the refs it advertises and until it has answered;       *)
(* upload-pack takes no lock and looks at its index before the refs.       *)
(*                                                                         *)
(* A commit stands for itself and its tree.  Connections are lost, clients *)
(* die, the server fails to take a pack in and moves the ref all the same, *)
(* and it dies between the two.                                            *)
(***************************************************************************)
EXTENDS Integers, Sequences, FiniteSets

CONSTANTS
  Client, Server,  \* the parties
  Commit,          \* commit ids
  Parents,         \* the commits a commit names as parents
  Author,          \* the party that creates a commit
  Root,            \* the commit every party starts from
  Branch, Trunk,   \* branch names; the trunk's leaf is the one receive-pack locks
  None,            \* no commit, no job, no request
  Cut,             \* may a connection end in the middle of a pack?
  MaxJobs,         \* bound on the commands that are begun; retries are free
  MaxFaults        \* bound on deaths of the server, on packs it fails to take in
                   \* and on losses of an answer

ASSUME PartyAssumption  == Server \notin Client /\ None \notin Client \cup {Server}
ASSUME CommitAssumption == None \notin Commit /\ Parents \in [Commit -> SUBSET Commit]
ASSUME RootAssumption   == Root \in Commit /\ Parents[Root] = {}
ASSUME AuthorAssumption == Author \in [Commit -> Client \cup {Server}]
ASSUME TrunkAssumption  == Trunk \in Branch
ASSUME BoundAssumption  == MaxJobs \in Nat /\ MaxFaults \in Nat /\ Cut \in BOOLEAN

Tip == Commit \cup {None}

VARIABLES
  packs,   \* the server's pack log, a sequence of sets of commits
  lost,    \* the commits of the packs it failed to take in (history)
  ref,     \* the server's rows for its own branches
  past,    \* the commits each of those rows has held (history)
  lock,    \* the client whose receive-pack holds the server's lock, or None
  srv,     \* where that receive-pack stands
  shown,   \* the refs it has advertised
  req,     \* what its client has sent: a request, None, or Eof
  jobs,    \* the commands begun so far
  faults,  \* the deaths of the server, failed packs and lost answers so far
  has,     \* per client: the commits in its store
  own,     \* per client: its rows for its own branches
  seen,    \* per client: its rows for the server's branches
  pc,      \* per client: where it stands
  job,     \* per client: the push, delete or fetch it is about, or None
  adv,     \* per client: the advertisement it was sent
  snap,    \* per client: the packs in the index its upload-pack opened
  answer   \* per client: the report it was sent, or None

server == <<packs, lost, ref, past, lock, srv, shown, req>>
client == <<has, own, seen, pc, job, adv, snap, answer>>
bounds == <<jobs, faults>>
vars   == <<server, client, bounds>>

Job == [op : {"push", "delete", "fetch"}, branch : Branch, tip : Tip]

Eof     == [branch |-> Trunk, old |-> None, new |-> None, pack |-> {}, eof |-> TRUE]
Request == [branch : Branch, old : Tip, new : Tip, pack : SUBSET Commit, eof : BOOLEAN]

PC == {"idle", "dial", "push", "wait", "record", "ask", "want", "take", "row"}

----------------------------------------------------------------------------
\* Walks

\* Everything reachable from a set of commits, entering only commits of a set.
Reach(from, through) ==
  {x \in Commit :
     \A S \in SUBSET Commit :
       (from \subseteq S /\ \A c \in S \cap through : Parents[c] \subseteq S)
         => x \in S}

Closure(x) == Reach({x}, Commit)

Tips(a) == {a[b] : b \in Branch} \ {None}

\* wcli_collect_haves: every row of the client, its own and the peer's.
Haves(c) == Tips(own[c]) \cup Tips(seen[c])

\* Mutant: the haves of a fetch taken for what the peer has.
HaveSet_OwnRows(c) == Reach(Haves(c), has[c])

\* The walk over every advertised tip marks a commit before it looks for it,
\* and enters it only when the client has it.
HaveSet(c) == Reach(Tips(adv[c]), has[c])

\* wpush_walk_commit for the local tip: what the have-set holds is neither
\* sent nor entered.
ToSend(c, x) == Reach({x}, has[c] \ HaveSet(c)) \ HaveSet(c)

Held == UNION {packs[i] : i \in DOMAIN packs}

\* wire_locate_sha and wire_find_pack: the oldest pack of the snapshot that
\* holds the commit, 0 when none does.
PackOf(x, n) ==
  LET at == {i \in 1..n : x \in packs[i]}
  IN  IF at = {} THEN 0 ELSE CHOOSE i \in at : \A j \in at : i <= j

\* WIREBuildSegments: the packs after the last one that covers a have, up to
\* the one with the want; nothing when the snapshot lacks the want.
Shipped(c) ==
  LET n    == snap[c]
      last == PackOf(adv[c][job[c].branch], n)
      ends == {PackOf(h, n) : h \in Haves(c)} \cup {0}
      mark == CHOOSE i \in ends : \A j \in ends : j <= i
  IN  UNION {packs[i] : i \in mark + 1 .. last}

----------------------------------------------------------------------------
NoTips == [b \in Branch |-> None]

\* The clients have just cloned the server's first commit.
Init ==
  LET cloned == [NoTips EXCEPT ![Trunk] = Root]
  IN  /\ packs = <<{Root}>> /\ lost = {}
      /\ ref = cloned
      /\ past = [b \in Branch |-> {cloned[b]} \ {None}]
      /\ lock = None /\ srv = "off" /\ req = None /\ shown = NoTips
      /\ has = [c \in Client |-> {Root}]
      /\ own = [c \in Client |-> cloned]
      /\ seen = [c \in Client |-> cloned]
      /\ pc = [c \in Client |-> "idle"]
      /\ job = [c \in Client |-> None]
      /\ adv = [c \in Client |-> NoTips]
      /\ snap = [c \in Client |-> 0]
      /\ answer = [c \in Client |-> None]
      /\ jobs = 0 /\ faults = 0

Goto(c, l) == pc' = [pc EXCEPT ![c] = l]

\* The client's process ends; what it was about may be tried again or not.
Quit(c, j) ==
  /\ Goto(c, "idle")
  /\ job' = [job EXCEPT ![c] = j]
  /\ adv' = [adv EXCEPT ![c] = NoTips]
  /\ snap' = [snap EXCEPT ![c] = 0]
  /\ answer' = [answer EXCEPT ![c] = None]

----------------------------------------------------------------------------
\* Local commits, which the dialogues meet

\* Mutant: the trunk's lock is not taken.
ServerPost_NoLock(b, x) ==
  /\ Author[x] = Server /\ x \notin Held /\ Parents[x] \subseteq Held
  /\ ref[b] # None => ref[b] \in Parents[x]
  /\ packs' = Append(packs, {x})
  /\ ref' = [ref EXCEPT ![b] = x]
  /\ past' = [past EXCEPT ![b] = @ \cup {x}]
  /\ UNCHANGED <<lost, lock, srv, shown, req, bounds, client>>

\* sniff posts on the server: on the trunk under the lock receive-pack holds,
\* on another branch under that leaf's own.  The tip is compared and set.
ServerPost(b, x) ==
  /\ Author[x] = Server /\ x \notin Held /\ Parents[x] \subseteq Held
  /\ ref[b] # None => ref[b] \in Parents[x]
  /\ b = Trunk => lock = None
  /\ packs' = Append(packs, {x})
  /\ ref' = [ref EXCEPT ![b] = x]
  /\ past' = [past EXCEPT ![b] = @ \cup {x}]
  /\ UNCHANGED <<lost, lock, srv, shown, req, client, bounds>>

\* A client commits on its tip, or on the server's tip it has fetched.
ClientPost(c, b, x) ==
  /\ pc[c] = "idle" /\ job[c] = None
  /\ Author[x] = c /\ x \notin has[c] /\ Parents[x] \subseteq has[c]
  /\ Parents[x] = {} \/ {own[c][b], seen[c][b]} \cap Parents[x] # {}
  /\ has' = [has EXCEPT ![c] = @ \cup {x}]
  /\ own' = [own EXCEPT ![c][b] = x]
  /\ UNCHANGED <<server, bounds, seen, pc, job, adv, snap, answer>>

\* sniff get: the local branch takes the fetched tip; its checkout needs the
\* commit.
ClientTake(c, b) ==
  /\ pc[c] = "idle" /\ job[c] = None
  /\ seen[c][b] \in has[c] /\ own[c][b] # seen[c][b]
  /\ own' = [own EXCEPT ![c][b] = seen[c][b]]
  /\ UNCHANGED <<server, bounds, has, seen, pc, job, adv, snap, answer>>

----------------------------------------------------------------------------
\* The client's half of receive-pack

Begin(c, op, b, x) ==
  /\ pc[c] = "idle" /\ job[c] = None /\ jobs < MaxJobs
  /\ jobs' = jobs + 1
  /\ job' = [job EXCEPT ![c] = [op |-> op, branch |-> b, tip |-> x]]
  /\ snap' = [snap EXCEPT ![c] = IF op = "fetch" THEN Len(packs) ELSE 0]
  /\ UNCHANGED <<server, faults, has, own, seen, adv, answer>>

\* keeper post //server: the worktree's tip goes to the branch of its name.
Post(c, b) == own[c][b] # None /\ Begin(c, "push", b, own[c][b]) /\ Goto(c, "dial")

\* keeper delete //server?b
Delete(c, b) == Begin(c, "delete", b, None) /\ Goto(c, "dial")

\* The same command is given again after a failure.
Retry(c) ==
  /\ pc[c] = "idle" /\ job[c] # None
  /\ Goto(c, "dial")
  /\ UNCHANGED <<server, bounds, has, own, seen, job, adv, snap, answer>>

\* receive-pack opens the store read-write, then reads its refs and sends them.
Accept(c) ==
  /\ pc[c] = "dial" /\ lock = None
  /\ lock' = c /\ srv' = "read" /\ req' = None
  /\ shown' = ref /\ adv' = [adv EXCEPT ![c] = ref]
  /\ Goto(c, "push")
  /\ UNCHANGED <<packs, lost, ref, past, bounds, has, own, seen, job, snap, answer>>

\* The advertisement is not needed any more.
Drained(c) == adv' = [adv EXCEPT ![c] = NoTips]

\* What a client writes reaches the process that was started for it.
Say(c, m) == req' = IF lock = c THEN m ELSE req

Asked(c, new, pack) ==
  Say(c, [branch |-> job[c].branch, old |-> adv[c][job[c].branch], new |-> new,
          pack |-> pack, eof |-> FALSE])

\* The peer is where the client wants it: nothing is sent, the row is recorded.
AlreadyThere(c) ==
  /\ pc[c] = "push" /\ job[c].op = "push"
  /\ adv[c][job[c].branch] = job[c].tip
  /\ Say(c, Eof)
  /\ Drained(c)
  /\ Goto(c, "record")
  /\ UNCHANGED <<packs, lost, ref, past, lock, srv, shown, bounds,
                 has, own, seen, job, snap, answer>>

\* An empty pack, or one with a commit that is not there to be sent, is an
\* error; so is the deletion of what is not advertised.
CanSend(c) ==
  LET out == ToSend(c, job[c].tip)
  IN  IF job[c].op = "delete" THEN adv[c][job[c].branch] # None
      ELSE out # {} /\ out \subseteq has[c]

Send(c) ==
  /\ pc[c] = "push" /\ lock = c /\ CanSend(c)
  /\ job[c].op = "push" => adv[c][job[c].branch] # job[c].tip
  /\ IF job[c].op = "delete" THEN Asked(c, None, {})
                             ELSE Asked(c, job[c].tip, ToSend(c, job[c].tip))
  /\ Drained(c)
  /\ Goto(c, "wait")
  /\ UNCHANGED <<packs, lost, ref, past, lock, srv, shown, bounds,
                 has, own, seen, job, snap, answer>>

HangUp(c) ==
  /\ pc[c] = "push" /\ ~CanSend(c)
  /\ job[c].op = "push" => adv[c][job[c].branch] # job[c].tip
  /\ Say(c, Eof)
  /\ Quit(c, None)
  /\ UNCHANGED <<packs, lost, ref, past, lock, srv, shown, bounds, has, own, seen>>

\* wpush_drain_status: only "unpack ok" and "ok <ref>" together are a success.
Hear(c) ==
  /\ pc[c] = "wait" /\ answer[c] # None
  /\ IF answer[c] = "ok"
       THEN Goto(c, "record") /\ answer' = [answer EXCEPT ![c] = None]
                              /\ UNCHANGED <<job, adv, snap>>
       ELSE Quit(c, None)
  /\ UNCHANGED <<server, bounds, has, own, seen>>

\* The client's row for the peer's branch; that it could not be written goes
\* unnoticed.
Record(c) ==
  /\ pc[c] = "record"
  /\ \/ seen' = [seen EXCEPT ![c][job[c].branch] = job[c].tip]
     \/ UNCHANGED seen
  /\ Quit(c, None)
  /\ UNCHANGED <<server, bounds, has, own>>

\* Mutant: the server does not notice that its client is gone.
Fates_Silent == {req}

\* What the server may get of a request whose connection is lost: nothing, all
\* of it, or, if packs may be cut, some of its pack.
Fates ==
  IF req = None THEN {Eof}
  ELSE {Eof, req} \cup IF Cut THEN {[req EXCEPT !.pack = part] : part \in SUBSET req.pack}
                      ELSE {}

\* The connection is lost or the client dies.  The losses that undo the whole
\* attempt are not counted.
Lose(c) ==
  /\ pc[c] \in {"push", "wait", "record"}
  /\ Quit(c, job[c])
  /\ req' \in IF srv = "read" /\ lock = c THEN Fates ELSE {req}
  /\ \/ pc[c] # "record" /\ srv = "read" /\ lock = c /\ req' = Eof
        /\ UNCHANGED faults
     \/ faults < MaxFaults /\ faults' = faults + 1
  /\ UNCHANGED <<packs, lost, ref, past, lock, srv, shown, jobs, has, own, seen>>

----------------------------------------------------------------------------
\* receive-pack

\* Mutant: the lock file stays locked.
Leave_Locked ==
  /\ srv' = "off" /\ req' = None
  /\ shown' = NoTips
  /\ UNCHANGED lock

Leave ==
  /\ srv' = "off" /\ lock' = None /\ req' = None
  /\ shown' = NoTips

\* RECVReadRequest; a client that hung up or sent no update ends the session.
ServerRead ==
  /\ srv = "read" /\ req # None
  /\ IF req.eof THEN Leave ELSE srv' = "ingest" /\ UNCHANGED <<lock, shown, req>>
  /\ UNCHANGED <<packs, lost, ref, past, client, bounds>>

\* Mutant: the pack of a client that is gone is not kept.
ServerIngest_Drop ==
  /\ srv = "ingest"
  /\ packs' = IF pc[lock] # "wait" THEN packs ELSE Append(packs, req.pack)
  /\ srv' = "apply"
  /\ UNCHANGED <<lost, ref, past, lock, shown, req, bounds, client>>

\* RECVIngestPack: a stream without objects is as good as one with them.  A pack
\* that cannot be read, stored or indexed leaves no entry of the index.
ServerIngest ==
  /\ srv = "ingest"
  /\ \/ /\ packs' = IF req.pack = {} THEN packs ELSE Append(packs, req.pack)
        /\ srv' = "apply"
        /\ UNCHANGED <<lost, faults>>
     \/ /\ req.pack # {} /\ faults < MaxFaults
        /\ faults' = faults + 1
        /\ lost' = lost \cup req.pack
        /\ srv' = "unpack_failed"
        /\ UNCHANGED packs
  /\ UNCHANGED <<ref, past, lock, shown, req, client, jobs>>

\* RECVApplyUpdates compares the old value the client names with the refs it
\* was shown; a creation and a deletion are not compared with anything.
Refused ==
  req.old # None /\ req.new # None /\ shown[req.branch] # req.old

Applying == srv \in {"apply", "unpack_failed"}

\* "Apply updates regardless of pack status": what a failed pack changes is the
\* answer, not the row.
ServerApply ==
  /\ Applying
  /\ IF Refused
       THEN UNCHANGED <<ref, past>>
       ELSE /\ ref' = [ref EXCEPT ![req.branch] = req.new]
            /\ past' = [past EXCEPT ![req.branch] = @ \cup ({req.new} \ {None})]
  /\ srv' = IF Refused \/ srv = "unpack_failed" THEN "refuse" ELSE "reply"
  /\ UNCHANGED <<packs, lost, lock, shown, req, client, bounds>>

\* RECVEmitResponse, and the end of the process.
ServerReply ==
  /\ srv \in {"reply", "refuse"}
  /\ answer' = [answer EXCEPT ![lock] =
                  IF pc[lock] # "wait" THEN @
                  ELSE IF srv = "reply" THEN "ok" ELSE "ng"]
  /\ Leave
  /\ UNCHANGED <<packs, lost, ref, past, bounds, has, own, seen, pc, job, adv, snap>>

\* The kernel drops the lock of a process that dies, its pack stays.
ServerDie ==
  /\ srv # "off" /\ faults < MaxFaults
  /\ faults' = faults + 1
  /\ Leave
  /\ UNCHANGED <<packs, lost, ref, past, client, jobs>>

\* Mutant: the end of the answer is taken for a success.
PeerGone_Ok(c) ==
  /\ pc[c] \in {"push", "wait"} /\ lock # c /\ answer[c] = None
  /\ Goto(c, "record")
  /\ UNCHANGED <<server, bounds, has, own, seen, job, adv, snap, answer>>

\* A client whose peer is gone reads the end of the answer.
PeerGone(c) ==
  /\ pc[c] \in {"push", "wait"} /\ lock # c /\ answer[c] = None
  /\ Quit(c, job[c])
  /\ UNCHANGED <<server, bounds, has, own, seen>>

----------------------------------------------------------------------------
\* upload-pack and its client

\* The index is opened when upload-pack starts, before it reads the refs.
Fetch(c, b) ==
  /\ Begin(c, "fetch", b, None)
  /\ Goto(c, "ask")

\* A failed fetch is journalled; under the same key its row hides what was seen.
Failed(c) ==
  /\ seen' \in {seen, [seen EXCEPT ![c][job[c].branch] = None]}
  /\ Quit(c, None)

FetchAdvert(c) ==
  /\ pc[c] = "ask"
  /\ IF ref[job[c].branch] = None
       THEN Failed(c)
       ELSE /\ adv' = [adv EXCEPT ![c] = ref]
            /\ Goto(c, "take")
            /\ UNCHANGED <<seen, job, snap, answer>>
  /\ UNCHANGED <<server, bounds, has, own>>

\* KEEPIngestStream: an answer that ends before the first byte of a pack is a
\* success too.
FetchTake(c) ==
  /\ pc[c] = "take"
  /\ \/ has' = [has EXCEPT ![c] = @ \cup Shipped(c)]
     \/ UNCHANGED has
  /\ Goto(c, "row")
  /\ UNCHANGED <<server, bounds, own, seen, job, adv, snap, answer>>

FetchRecord(c) ==
  /\ pc[c] = "row"
  /\ seen' = [seen EXCEPT ![c][job[c].branch] = adv[c][job[c].branch]]
  /\ Quit(c, None)
  /\ UNCHANGED <<server, bounds, has, own>>

\* A fetch that failed before its pack or could not write its row.
FetchFail(c) ==
  /\ pc[c] \in {"ask", "row"}
  /\ Failed(c)
  /\ UNCHANGED <<server, bounds, has, own>>

----------------------------------------------------------------------------
ServerStep == ServerRead \/ ServerIngest \/ ServerApply \/ ServerReply

Next ==
  \/ \E b \in Branch, x \in Commit : ServerPost(b, x)
  \/ \E c \in Client, b \in Branch, x \in Commit : ClientPost(c, b, x)
  \/ \E c \in Client, b \in Branch :
       ClientTake(c, b) \/ Post(c, b) \/ Delete(c, b) \/ Fetch(c, b)
  \/ \E c \in Client :
       \/ Retry(c) \/ Accept(c) \/ AlreadyThere(c) \/ Send(c) \/ HangUp(c)
       \/ Hear(c) \/ Record(c) \/ Lose(c) \/ PeerGone(c)
       \/ FetchAdvert(c) \/ FetchTake(c) \/ FetchRecord(c) \/ FetchFail(c)
  \/ ServerRead \/ ServerIngest \/ ServerApply \/ ServerReply \/ ServerDie

Spec == Init /\ [][Next]_vars

\* A client that only has to go on.
Proceeds(c) ==
  \/ Retry(c) \/ Hear(c) \/ Record(c) \/ PeerGone(c)
  \/ FetchAdvert(c) \/ FetchTake(c) \/ FetchRecord(c)

\* A process that runs goes on; a process that waits for the lock gets it in
\* the end, a flock being granted to those who wait; a command that failed is
\* given again; and of a connection that is tried again and again some attempt
\* reads the advertisement, and some carries the whole request.
Fairness ==
  /\ WF_vars(ServerStep) /\ SF_vars(ServerRead /\ ~req.eof)
  /\ \A c \in Client :
       /\ WF_vars(Proceeds(c))
       /\ SF_vars(Accept(c))
       /\ SF_vars(AlreadyThere(c) \/ Send(c) \/ HangUp(c))

FairSpec == Spec /\ Fairness

----------------------------------------------------------------------------
\* Properties

TypeOK ==
  /\ packs \in Seq(SUBSET Commit) /\ jobs \in 0..MaxJobs /\ faults \in 0..MaxFaults
  /\ ref \in [Branch -> Tip] /\ past \in [Branch -> SUBSET Commit]
  /\ shown \in [Branch -> Tip]
  /\ lock \in Client \cup {None}
  /\ lost \subseteq Commit
  /\ srv \in {"off", "read", "ingest", "apply", "unpack_failed", "reply", "refuse"}
  /\ req \in Request \cup {None}
  /\ srv = "off" <=> lock = None
  /\ srv \in {"ingest", "apply", "unpack_failed", "reply", "refuse"} => req # None
  /\ has \in [Client -> SUBSET Commit]
  /\ own \in [Client -> [Branch -> Tip]]
  /\ seen \in [Client -> [Branch -> Tip]]
  /\ adv \in [Client -> [Branch -> Tip]]
  /\ pc \in [Client -> PC] /\ job \in [Client -> Job \cup {None}]
  /\ snap \in [Client -> Nat]
  /\ answer \in [Client -> {None, "ok", "ng"}]

\* Every branch the server has leads only to commits it holds or has failed to
\* take in, whatever was lost on the way, who died, and what the clients are
\* themselves missing: the pack is cut down by the tips the server advertises,
\* walked in the client's store (WIRECLI.c, RECV.c).
ServerClosed ==
  \A b \in Branch : ref[b] # None => Closure(ref[b]) \subseteq Held \cup lost

\* The same without the excuse, which RECVServe does not keep: it moves the ref
\* to a commit whose pack it has just failed to take in, and answers "ng".
ServerWhole ==
  \A b \in Branch : ref[b] # None => Closure(ref[b]) \subseteq Held

\* A row for a peer's branch is a commit that branch has really been at
\* (keeper_post, wcli_record_ref), retries and lost answers included.
PeerRowTruth ==
  \A c \in Client, b \in Branch : seen[c][b] \in past[b] \cup {None}

\* A push moves the trunk from the very commit its client was shown and named,
\* or not at all: what is compared is an old copy, and only the lock, taken
\* before the refs are read, makes it a current one (RECV.c, keeper_receive_pack).
TrunkCompared ==
  [][Applying /\ ref'[Trunk] # ref[Trunk] => ref[Trunk] = req.old]_vars

\* When a push is over, some branch of the server has led to the commit, even
\* if the client was told of a failure: a client that has what it pushes gives
\* up only on a commit the server already leads to (WIREPush).
PushArrives ==
  [][\A c \in Client :
       LET x == job[c].tip
       IN  (/\ job[c] # None /\ job'[c] = None /\ job[c].op = "push"
            /\ Closure(x) \subseteq has[c])
             => \E b \in Branch : \E t \in past'[b] : x \in Closure(t)]_vars

\* A command that is given again until it is answered comes to an end: no lock
\* is left behind, and what was done before an answer was lost is recognised as
\* done (WIREPush, keeper_receive_pack).
CommandEnds == \A c \in Client : job[c] # None ~> job[c] = None

\* What a client has a row for, it has the history of (WIREFetch).
FetchClosed ==
  \A c \in Client, b \in Branch :
    seen[c][b] # None => Closure(seen[c][b]) \subseteq has[c]

\* A push only adds to what a branch already leads to (VERBS.md: "FF-checked at
\* the wire").
FastForward ==
  [][Applying => \A b \in Branch :
       ref[b] # None /\ ref'[b] # None => ref[b] \in Closure(ref'[b])]_vars
=============================================================================
