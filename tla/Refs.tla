-------------------------------- MODULE Refs --------------------------------
(***************************************************************************)
(* keeper/REFS.c: the reflog that maps ref keys to commit ids.  Every      *)
(* operation is a chain of short sessions on one log file; each session    *)
(* maps the file read-write, remembers the length it found, and cuts the   *)
(* file back to its own length when it closes (ULOGClose with rw set),     *)
(* readers included.  The file is the one of the store's root; a writer    *)
(* holds the keeper lock of the leaf branch it has open, readers none.     *)
(*                                                                         *)
(* A row takes one unit of space; its timestamp is its place in the log    *)
(* (module ULog shows that the two orders agree).                          *)
(***************************************************************************)
EXTENDS Integers, Sequences, FiniteSets, Places

CONSTANTS
  Writer, Reader,  \* processes with and without a keeper lock
  LeafOf,          \* the leaf branch a writer has open, by writer
  Key,             \* ref keys: records [host, path, query]
  Sha,             \* commit ids
  Local,           \* the empty host of a local branch key
  Dot, Wild,       \* inputs: `.` for every host, no `?` for every query
  None,            \* absent: no value, an empty or zero fragment
  Hole,            \* bytes of the file that hold no row
  Verb,            \* verbs in use, a subset of the five below
  MaxRows,         \* bound on the rows of the log
  Posts,           \* the local branch keys a writer moves, by writer
  Stale            \* may a session write to a file, or close it, that another
                   \* session has written to since it was opened?

Proc    == Writer \cup Reader
Fail    == {"get_fail", "post_fail"}
AllVerb == {"get", "post", "delete"} \cup Fail

ASSUME VerbAssumption  == Verb \subseteq AllVerb
ASSUME NoneAssumption  == None \notin Sha /\ Hole # None
ASSUME BoundAssumption == MaxRows \in Nat /\ Stale \in BOOLEAN
ASSUME ProcAssumption  == Writer \cap Reader = {} /\ None \notin Proc
ASSUME LeafAssumption  == Writer \subseteq DOMAIN LeafOf

Leaf == {LeafOf[w] : w \in Writer}

VARIABLES
  log,     \* the rows of the file, Holes included
  len,     \* per process: the length its open session works with, or -1
  view,    \* per process: is its open session's file whole to it, longer than
           \* it knows ("part"), or renamed away ("gone")? (history)
  pc,      \* where each process stands
  rows,    \* per process: the rows its operation has yet to append
  want,    \* per process: value a compare-and-append expects, Wild when none
  got,     \* per process: value its REFSResolve returned
  lock,    \* per leaf: the writer that holds its .lock, or None
  promise  \* the value each key should resolve to (history)

vars == <<log, len, view, pc, rows, want, got, lock, promise>>

Row == [verb : Verb, key : Key, val : Sha \cup {None}]

ASSUME HoleAssumption == Hole \notin Row

PC == {"idle", "cas", "cas_read", "probe", "probing", "check", "checking",
       "put", "putting", "compact", "swap", "load", "loading"}

----------------------------------------------------------------------------
\* What the log says

\* ulog_scan_log stops at the first byte that is not a row.
Scan(f) ==
  LET holes == {i \in DOMAIN f : f[i] = Hole}
  IN  IF holes = {} THEN f
      ELSE SubSeq(f, 1, (CHOOSE i \in holes : \A j \in holes : i <= j) - 1)

\* The latest row for which P holds, ULOGFindLatest; 0 when there is none.
LatestIn(is) == IF is = {} THEN 0 ELSE CHOOSE i \in is : \A j \in is : j <= i

Value(f, i) == IF i = 0 \/ f[i].verb = "delete" THEN None ELSE f[i].val

\* refs_match_pred: fail markers never match; the query matches literally; a
\* host restricts to rows of that host, no host to rows without one.  The path
\* takes no part.
Matches(row, in) ==
  /\ row.verb \notin Fail
  /\ in.query = Wild \/ row.key.query = in.query
  /\ in.host = Dot \/ row.key.host = in.host

Resolve(file, in) ==
  LET f == Scan(file)
  IN  Value(f, LatestIn({i \in DOMAIN f : Matches(f[i], in)}))

\* REFSLoad over ULOGeachLatestKey: the latest row of a key decides, whatever
\* its verb, and a fail marker decides for "nothing".
Load(file, k) ==
  LET f == Scan(file)
      i == LatestIn({j \in DOMAIN f : f[j].key = k})
  IN  IF i # 0 /\ f[i].verb \in Fail THEN None ELSE Value(f, i)

Input == [host : {k.host : k \in Key} \cup {Dot},
          query : {k.query : k \in Key} \cup {Wild}]

\* Mutant: the latest row of a key wins, whatever its verb.
Compacted_AnyVerb(f) ==
  At(f, {i \in DOMAIN f : \A j \in DOMAIN f : i < j => f[j].key # f[i].key})

Kept(f) ==
  {i \in DOMAIN f : \A j \in DOMAIN f :
     i < j => f[j].verb # f[i].verb \/ f[j].key # f[i].key}

\* ULOGCompactLatest keeps the latest row of every (verb, key).
Compacted(f) == At(f, Kept(f))

----------------------------------------------------------------------------
\* Sessions

\* Holes stand in for what the file is extended by.
Padded(f, n) == [i \in 1..n |-> IF i <= Len(f) THEN f[i] ELSE Hole]

Opened(p) ==
  /\ len' = [len EXCEPT ![p] = Len(Scan(log))]
  /\ view' = [view EXCEPT ![p] = "whole"]

\* FILETrimBook: the file gets exactly the session's length, be it the log or
\* the one that a compaction has put aside.
Closed(p) ==
  /\ view[p] = "part" => Stale
  /\ log' = IF view[p] = "gone" THEN log ELSE Padded(log, len[p])
  /\ len' = [len EXCEPT ![p] = -1]
  /\ view' = [view EXCEPT ![p] = "whole"]

\* What the sessions that others have open are left with.
Left(p, v) ==
  [q \in Proc |-> IF q # p /\ len[q] # -1 /\ view[q] # "gone" THEN v ELSE view[q]]

Goto(p, l) == pc' = [pc EXCEPT ![p] = l]

Return(p) ==
  /\ Goto(p, "idle")
  /\ rows' = [rows EXCEPT ![p] = <<>>]
  /\ want' = [want EXCEPT ![p] = Wild]
  /\ got' = [got EXCEPT ![p] = None]
  /\ lock' = [l \in Leaf |-> IF lock[l] = p THEN None ELSE lock[l]]

----------------------------------------------------------------------------
\* Calls

Call(w, rs, l) ==
  /\ pc[w] = "idle" /\ w \in Writer /\ lock[LeafOf[w]] = None
  /\ Len(Scan(log)) + Len(rs) <= MaxRows
  /\ lock' = [lock EXCEPT ![LeafOf[w]] = w]
  /\ rows' = [rows EXCEPT ![w] = rs]
  /\ Goto(w, l)
  /\ UNCHANGED <<log, len, view, got, promise>>

\* REFSAppendVerb.  Only local branches are deleted, only exchanges with a
\* peer are marked as failed; both rows come without a commit.
CallAppend(w, v, k, x) ==
  /\ (x = None) <=> (v \in Fail \cup {"delete"})
  /\ v = "delete" => k.host = Local
  /\ k.host = Local => k \in Posts[w]
  /\ v \in Fail => k.host # Local
  /\ Call(w, <<[verb |-> v, key |-> k, val |-> x]>>, "probe")
  /\ UNCHANGED want

\* Mutant: a compare-and-append from a keeper that was opened to read.
CallCAS_Unlocked(w, k, old, new) ==
  /\ k.host = Local /\ k \in Posts[w] /\ "post" \in Verb
  /\ pc[w] = "idle" /\ Len(Scan(log)) < MaxRows
  /\ rows' = [rows EXCEPT ![w] = <<[verb |-> "post", key |-> k, val |-> new]>>]
  /\ want' = [want EXCEPT ![w] = old]
  /\ Goto(w, "cas")
  /\ UNCHANGED <<log, len, view, got, lock, promise>>

\* REFSCompareAndAppend, on local branch keys.
CallCAS(w, k, old, new) ==
  /\ k.host = Local /\ k \in Posts[w] /\ "post" \in Verb
  /\ Call(w, <<[verb |-> "post", key |-> k, val |-> new]>>, "cas")
  /\ want' = [want EXCEPT ![w] = old]

\* REFSSyncRecord: several observations of a peer in one session, none compared.
CallSync(w, k, j, x, y) ==
  /\ k # j /\ k.host # Local /\ j.host # Local /\ "get" \in Verb
  /\ Call(w, <<[verb |-> "get", key |-> k, val |-> x],
               [verb |-> "get", key |-> j, val |-> y]>>, "put")
  /\ UNCHANGED want

CallCompact(w) == Call(w, <<>>, "compact") /\ UNCHANGED want

\* REFSLoad, REFSEach, REFSResolve from a process without the lock.
CallLoad(r) ==
  /\ pc[r] = "idle" /\ r \in Reader
  /\ Goto(r, "load")
  /\ UNCHANGED <<log, len, view, rows, want, got, lock, promise>>

----------------------------------------------------------------------------
\* Steps

\* Sessions that only read: what is resolved is resolved while they are open.
ReadOpen(p, from, to) ==
  /\ pc[p] = from
  /\ Opened(p)
  /\ Goto(p, to)
  /\ got' = IF rows[p] = <<>> THEN got
            ELSE [got EXCEPT ![p] = Resolve(log, rows[p][1].key)]
  /\ UNCHANGED <<log, rows, want, lock, promise>>

CasCheck(w) ==
  /\ pc[w] = "cas_read"
  /\ Closed(w)
  /\ IF got[w] = want[w]
       THEN Goto(w, "probe") /\ UNCHANGED <<rows, want, got, lock>>
       ELSE Return(w)
  /\ UNCHANGED promise

\* The first session of REFSAppendVerb only composes the row.
ProbeClose(w) ==
  /\ pc[w] = "probing"
  /\ Closed(w)
  /\ Goto(w, "check")
  /\ UNCHANGED <<rows, want, got, lock, promise>>

\* The row is dropped when its key already resolves to its value.
AlreadySo(w) == got[w] # None /\ got[w] = rows[w][1].val

CheckClose(w) ==
  /\ pc[w] = "checking"
  /\ Closed(w)
  /\ IF AlreadySo(w)
       THEN Return(w)
       ELSE Goto(w, "put") /\ UNCHANGED <<rows, want, got, lock>>
  /\ UNCHANGED promise

PutOpen(w) ==
  /\ pc[w] = "put"
  /\ Opened(w)
  /\ Goto(w, "putting")
  /\ UNCHANGED <<log, rows, want, got, lock, promise>>

\* Mutant: the session's length is not advanced, so its close cuts the row off.
PutRow_Short(w) ==
  /\ pc[w] = "putting" /\ rows[w] # <<>> /\ len[w] < MaxRows /\ view[w] = "whole"
  /\ log' = [Padded(log, len[w] + 1) EXCEPT ![len[w] + 1] = Head(rows[w])]
  /\ promise' = IF Head(rows[w]).verb \in Fail THEN promise
                ELSE [promise EXCEPT ![Head(rows[w]).key] = Head(rows[w]).val]
  /\ rows' = [rows EXCEPT ![w] = SubSeq(@, 2, Len(@))]
  /\ view' = Left(w, "part")
  /\ UNCHANGED <<len, pc, want, got, lock>>

\* Mutant: the row's length is added to the session's twice.
PutRow_Twice(w) ==
  /\ pc[w] = "putting" /\ rows[w] # <<>> /\ len[w] < MaxRows /\ view[w] = "whole"
  /\ log' = [Padded(log, len[w] + 1) EXCEPT ![len[w] + 1] = Head(rows[w])]
  /\ promise' = [promise EXCEPT ![Head(rows[w]).key] = Head(rows[w]).val]
  /\ len' = [len EXCEPT ![w] = @ + 2]
  /\ view' = Left(w, "part")
  /\ rows' = [rows EXCEPT ![w] = SubSeq(@, 2, Len(@))]
  /\ UNCHANGED <<pc, want, got, lock>>

\* ULOGAppendAt through the session's own map, at the session's own length.
\* A store beyond a file that was cut meanwhile may or may not survive, one to
\* a file that was renamed away does not.
PutRow(w) ==
  /\ pc[w] = "putting" /\ rows[w] # <<>> /\ len[w] < MaxRows
  /\ view[w] # "whole" => Stale
  /\ LET r == Head(rows[w])
         at == len[w] + 1
         size == IF at > Len(log) THEN at ELSE Len(log)
     IN  /\ IF view[w] = "gone" THEN log' = log
            ELSE log' \in {[Padded(log, size) EXCEPT ![at] = x] :
                              x \in IF len[w] > Len(log) THEN {r, Hole} ELSE {r}}
         /\ promise' = IF r.verb \in Fail THEN promise
                       ELSE [promise EXCEPT ![r.key] = r.val]
  /\ len' = [len EXCEPT ![w] = @ + 1]
  /\ view' = IF view[w] = "gone" THEN view ELSE Left(w, "part")
  /\ rows' = [rows EXCEPT ![w] = SubSeq(@, 2, Len(@))]
  /\ UNCHANGED <<pc, want, got, lock>>

PutClose(w) ==
  /\ pc[w] = "putting" /\ rows[w] = <<>>
  /\ Closed(w) /\ Return(w)
  /\ UNCHANGED promise

CompactOpen(w) ==
  /\ pc[w] = "compact"
  /\ Opened(w)
  /\ Goto(w, "swap")
  /\ UNCHANGED <<log, rows, want, got, lock, promise>>

\* The compacted copy of the rows the session knows is renamed over the log (the
\* copying is module ULog's).
CompactSwap(w) ==
  /\ pc[w] = "swap"
  /\ view[w] = "whole" \/ (view[w] = "part" /\ Stale)
  /\ log' = Compacted(Scan(Padded(log, len[w])))
  /\ len' = [len EXCEPT ![w] = -1]
  /\ view' = [Left(w, "gone") EXCEPT ![w] = "whole"]
  /\ Return(w)
  /\ UNCHANGED promise

LoadClose(r) ==
  /\ pc[r] = "loading"
  /\ Closed(r) /\ Return(r)
  /\ UNCHANGED promise

\* The process dies wherever it is; nobody trims for it.
Crash(p) ==
  /\ pc[p] # "idle"
  /\ len' = [len EXCEPT ![p] = -1]
  /\ view' = [view EXCEPT ![p] = "whole"]
  /\ Return(p)
  /\ UNCHANGED <<log, promise>>

Init ==
  /\ log = <<>> /\ len = [p \in Proc |-> -1] /\ view = [p \in Proc |-> "whole"]
  /\ pc = [p \in Proc |-> "idle"] /\ rows = [p \in Proc |-> <<>>]
  /\ want = [p \in Proc |-> Wild] /\ got = [p \in Proc |-> None]
  /\ lock = [l \in Leaf |-> None] /\ promise = [k \in Key |-> None]

Called(w) ==
  \/ \E v \in Verb, k \in Key, x \in Sha \cup {None} : CallAppend(w, v, k, x)
  \/ \E k \in Key, old \in Sha \cup {None}, new \in Sha : CallCAS(w, k, old, new)
  \/ \E k, j \in Key, x, y \in Sha : CallSync(w, k, j, x, y)
  \/ CallCompact(w)

WriterStep(w) ==
  \/ ReadOpen(w, "cas", "cas_read") \/ CasCheck(w)
  \/ ReadOpen(w, "probe", "probing") \/ ProbeClose(w)
  \/ ReadOpen(w, "check", "checking") \/ CheckClose(w)
  \/ PutOpen(w) \/ PutRow(w) \/ PutClose(w)
  \/ CompactOpen(w) \/ CompactSwap(w)

ReaderStep(r) == CallLoad(r) \/ ReadOpen(r, "load", "loading") \/ LoadClose(r)

Next ==
  \/ \E w \in Writer : Called(w) \/ WriterStep(w)
  \/ \E r \in Reader : ReaderStep(r)
  \/ \E p \in Proc : Crash(p)

Spec == Init /\ [][Next]_vars

----------------------------------------------------------------------------
\* Properties

TypeOK ==
  /\ log \in Seq(Row \cup {Hole})
  /\ len \in [Proc -> -1..MaxRows] /\ pc \in [Proc -> PC]
  /\ view \in [Proc -> {"whole", "part", "gone"}]
  /\ rows \in [Proc -> Seq(Row)]
  /\ want \in [Proc -> Sha \cup {None, Wild}] /\ got \in [Proc -> Sha \cup {None}]
  /\ lock \in [Leaf -> Writer \cup {None}] /\ promise \in [Key -> Sha \cup {None}]

\* A key resolves to the value last appended for it (REF.md:3, "append-only
\* reflog"), through closes, compactions, fail markers and crashes of every
\* process, as long as no session writes to or closes a file that another has
\* written to since it was opened (Stale; readers have no lock, so the code
\* allows it).
NothingLost == \A k \in Key : Resolve(log, k) = promise[k]

\* A compare-and-append lands only on the value it expected, although the
\* comparison and the append are four sessions apart: "atomic check-and-set on
\* the *expected* tip" (POST.c:2920).
CASHonest ==
  [][\A w \in Writer :
       want[w] # Wild /\ rows[w] # <<>> /\ rows'[w] = <<>> /\ pc'[w] = "putting"
         => Resolve(log, rows[w][1].key) = want[w]]_vars

\* "Compaction only trims history; it never changes what REFSResolve or
\* REFSLoad return" (REF.md, Compaction), for every form of input.
CompactionInvisible ==
  [][(\E w \in Writer : pc[w] = "swap" /\ pc'[w] = "idle" /\ log' # log) =>
       /\ \A in \in Input : Resolve(log', in) = Resolve(log, in)
       /\ \A k \in Key : Load(log', k) = Load(log, k)]_vars

\* What was appended is what REFSLoad lists, fail markers notwithstanding
\* ("journal-only ... don't change resolved state", REFS.c:260).
LoadFaithful == \A k \in Key : Load(log, k) = promise[k]
==============================================================================
