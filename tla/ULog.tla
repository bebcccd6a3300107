-------------------------------- MODULE ULog --------------------------------
(***************************************************************************)
(* dog/ULOG.c: one append-only log file and its sidecar index, written by  *)
(* one read-write session at a time.  Both files are shared mmaps, so a    *)
(* process that dies leaves behind exactly the stores it has made: every   *)
(* store that another open could observe is a step of its own.             *)
(*                                                                         *)
(* A row occupies one unit of log space (offset of row i = i - 1), the     *)
(* encoding in which two different histories most easily have equal sizes. *)
(* The sidecar is a sequence of slots, the file's zero padding included.   *)
(***************************************************************************)
EXTENDS Integers, Sequences

CONSTANTS
  Verb, Key,      \* verbs and URIs-minus-fragment
  None,           \* "no verb": the zero verb of a sentinel, no filter
  PageSlots,      \* sidecar slots per page (FILEBook rounds the file up)
  MaxTs,          \* bound on the clock and on timestamps
  MaxRows,        \* bound on the rows of the log
  CrashAfterCut   \* may a session die after ULOGTruncate, before its close?

ASSUME PageAssumption  == PageSlots \in Nat \ {0}
ASSUME BoundAssumption == MaxTs \in Nat \ {0} /\ MaxRows \in Nat
ASSUME NoneAssumption  == None \notin Verb
ASSUME CutAssumption   == CrashAfterCut \in BOOLEAN

VARIABLES
  log,     \* the complete rows of the log file
  torn,    \* bytes of an unfinished row follow them
  mtime,   \* modification time of the log file, 0 when there is no file
  side,    \* the slots of the sidecar file, <<>> when there is no file
  tmp,     \* the rows of <path>.tmp, <<>> when there is no file
  clock,   \* RONNow
  pc,      \* where the session stands
  used,    \* slots in use in the mapped index, the sentinel included
  seen,    \* the log's mtime as read before FILEBook touched the file
  rec,     \* the row being appended, or None
  filter,  \* the verb a compaction is restricted to, or None
  pos,     \* the row a compaction copies next, 0 outside a compaction
  cut,     \* ULOGTruncate ran in this session
  clean    \* the last session ended in ULOGClose (history)

file == <<log, torn, mtime>>
work == <<rec, filter, pos, tmp>>
vars == <<log, torn, mtime, side, tmp, clock, pc, used, seen, rec, filter,
          pos, cut, clean>>

A == INSTANCE AppendLog WITH log <- log

Row  == [ts : 1..MaxTs, verb : Verb, key : Key]
Slot == [key : 0..MaxTs, off : 0..MaxRows, verb : Verb \cup {None}]
PC   == {"closed", "reopen", "booked", "rebuild", "open", "fed", "slotted",
         "feeding", "copy", "trimmed", "refreshed", "unlink", "rename"}

----------------------------------------------------------------------------
\* Slots

Zero            == [key |-> 0, off |-> 0, verb |-> None]
Entry(i)        == [key |-> log[i].ts, off |-> i - 1, verb |-> log[i].verb]
Sentinel(m, sz) == [key |-> m, off |-> sz, verb |-> None]

\* Stores beyond the end of the sidecar grow it by whole, zeroed pages.
Pages(n)    == n + (-n % PageSlots)
Fit(s, n)   == [j \in 1..Pages(n) |-> IF j <= Len(s) THEN s[j] ELSE Zero]
Grown(s, i) == IF i <= Len(s) THEN s ELSE Fit(s, i)
Store(s, i, slot) == [Grown(s, i) EXCEPT ![i] = slot]

\* Mutant: any last slot with a key will do, whatever size it was pushed at.
IsFresh_AnySize(s, size, expected) ==
  /\ s # <<>>
  /\ s[Len(s)].key # 0
  /\ expected = 0 \/ s[Len(s)].key = expected

\* The freshness test looks at the last slot only and does not ask whether
\* that slot is a sentinel: a row's entry has the same layout.
IsFresh(s, size, expected) ==
  /\ s # <<>>
  /\ s[Len(s)].off = size
  /\ s[Len(s)].key # 0
  /\ expected = 0 \/ s[Len(s)].key = expected

Count  == used - 1
TailTs == IF Count > 0 THEN side[Count].key ELSE 0

----------------------------------------------------------------------------
\* Opening

\* ULOGOpenBooked up to ULOGOpenIdx: stat, map (the ftruncate up to a page may
\* touch the mtime), scan.  A scan that meets a timestamp out of order fails.
OpenLog ==
  /\ pc \in {"closed", "reopen"}
  /\ A!Increasing(log)
  /\ seen' = mtime
  /\ mtime' \in IF mtime = 0 THEN {clock} ELSE {mtime, clock}
  /\ pc' = "booked" /\ clean' = FALSE
  /\ UNCHANGED <<log, torn, side, clock, used, work, cut>>

TrustIdx ==
  /\ pc = "booked" /\ IsFresh(side, Len(log), seen)
  /\ used' = Len(side) /\ side' = Fit(side, Len(side))
  /\ pc' = "open" /\ seen' = 0
  /\ UNCHANGED <<file, clock, work, cut, clean>>

RebuildIdx ==
  /\ pc = "booked" /\ ~IsFresh(side, Len(log), seen)
  /\ used' = 0 /\ side' = Fit(side, Len(side))
  /\ pc' = "rebuild" /\ seen' = 0
  /\ UNCHANGED <<file, clock, work, cut, clean>>

RebuildStep ==
  /\ pc = "rebuild"
  /\ used' = used + 1
  /\ IF used < Len(log)
       THEN /\ side' = Store(side, used + 1, Entry(used + 1))
            /\ pc' = "rebuild"
       ELSE /\ side' = Store(side, used + 1, Sentinel(mtime, Len(log)))
            /\ pc' = "open"
  /\ UNCHANGED <<file, clock, seen, work, cut, clean>>

----------------------------------------------------------------------------
\* Appending

\* Mutant: a timestamp equal to the tail's is let through.
AppendAt_Equal(r) ==
  /\ pc = "open" /\ Len(log) < MaxRows
  /\ r.ts >= TailTs
  /\ rec' = r /\ torn' = TRUE
  /\ mtime' \in {mtime, clock}
  /\ pc' = "feeding"
  /\ UNCHANGED <<log, side, clock, used, seen, filter, pos, tmp, cut, clean>>

\* ULOGAppendAt: the tail is read from the index, not from the log.
AppendAt(r) ==
  /\ pc = "open" /\ Len(log) < MaxRows
  /\ r.ts > TailTs
  /\ rec' = r /\ torn' = TRUE
  /\ mtime' \in {mtime, clock}
  /\ pc' = "feeding"
  /\ UNCHANGED <<log, side, clock, used, seen, filter, pos, tmp, cut, clean>>

\* ULOGAppend: the clock, or one past the tail when the clock is not later.
Append1(v, k) ==
  LET now == IF clock <= TailTs THEN TailTs + 1 ELSE clock
  IN  now <= MaxTs /\ AppendAt([ts |-> now, verb |-> v, key |-> k])

RowFed ==
  /\ pc = "feeding"
  /\ log' = Append(log, rec) /\ torn' = FALSE
  /\ pc' = "fed" /\ rec' = None
  /\ UNCHANGED <<mtime, side, clock, used, seen, filter, pos, tmp, cut, clean>>

SlotWritten ==
  /\ pc = "fed"
  /\ side' = Store(side, used, Entry(Len(log)))
  /\ pc' = "slotted"
  /\ UNCHANGED <<file, clock, used, seen, work, cut, clean>>

SentinelPushed ==
  /\ pc = "slotted"
  /\ side' = Store(side, used + 1, Sentinel(mtime, Len(log)))
  /\ used' = used + 1
  /\ pc' = "open"
  /\ UNCHANGED <<file, clock, seen, work, cut, clean>>

\* Mutant: the sentinel gets the offset of the last row kept, not of its end.
TruncateTo_LastRow(n) ==
  /\ pc = "open" /\ n < Count
  /\ log' = SubSeq(log, 1, n) /\ torn' = FALSE
  /\ mtime' \in {mtime, clock}
  /\ side' = Store(side, n + 1, Sentinel(mtime', n - 1))
  /\ used' = n + 1 /\ cut' = TRUE
  /\ UNCHANGED <<clock, pc, seen, work, clean>>

\* ULOGTruncate: zero the tail, forget its slots, push a sentinel.
TruncateTo(n) ==
  /\ pc = "open" /\ n < Count
  /\ log' = SubSeq(log, 1, n) /\ torn' = FALSE
  /\ mtime' \in {mtime, clock}
  /\ side' = Store(side, n + 1, Sentinel(mtime', n))
  /\ used' = n + 1 /\ cut' = TRUE
  /\ UNCHANGED <<clock, pc, seen, work, clean>>

----------------------------------------------------------------------------
\* Compacting

\* Mutant: the latest row of a URI wins, whatever its verb.
Kept_AnyVerb(i) ==
  \/ filter # None /\ log[i].verb # filter
  \/ \A j \in DOMAIN log : i < j => log[j].key # log[i].key

\* A row survives when the filter exempts its verb or no later row has its
\* verb and key.
Kept(i) ==
  \/ filter # None /\ log[i].verb # filter
  \/ A!IsLatest(log, i)

CompactStart(f) ==
  /\ pc = "open" /\ Count > 0
  /\ filter' = f /\ pos' = 1 /\ tmp' = <<>>
  /\ pc' = "copy"
  /\ UNCHANGED <<file, side, clock, used, seen, rec, cut, clean>>

CopyRow ==
  /\ pc = "copy" /\ pos <= Count
  /\ tmp' = IF Kept(pos) THEN Append(tmp, log[pos]) ELSE tmp
  /\ pos' = pos + 1
  /\ UNCHANGED <<file, side, clock, pc, used, seen, rec, filter, cut, clean>>

UnlinkSides ==
  /\ pc = "unlink"
  /\ side' = <<>> /\ pc' = "rename"
  /\ UNCHANGED <<file, clock, used, seen, work, cut, clean>>

RenameOk ==
  /\ pc = "rename"
  /\ log' = tmp /\ tmp' = <<>> /\ torn' = FALSE
  /\ mtime' = clock
  /\ pos' = 0 /\ filter' = None /\ pc' = "reopen"
  /\ UNCHANGED <<side, clock, used, seen, rec, cut, clean>>

\* The original is still in place; <path>.tmp stays until the next compaction.
RenameFails ==
  /\ pc = "rename"
  /\ pos' = 0 /\ filter' = None /\ pc' = "reopen"
  /\ UNCHANGED <<file, side, clock, used, seen, rec, tmp, cut, clean>>

----------------------------------------------------------------------------
\* Closing: ULOGClose with rw set, also the first half of the swap

TrimLog ==
  /\ pc = "open" \/ (pc = "copy" /\ pos > Count)
  /\ torn' = FALSE /\ mtime' = clock
  /\ pc' = "trimmed"
  /\ UNCHANGED <<log, side, clock, used, seen, work, cut, clean>>

\* Mutant: the close trims the log and leaves the sentinel's mtime as it was.
RefreshSentinel_Stale ==
  /\ pc = "trimmed" /\ pc' = "refreshed"
  /\ UNCHANGED <<file, side, clock, used, seen, work, cut, clean>>

RefreshSentinel ==
  /\ pc = "trimmed"
  /\ side' = Store(side, used, Sentinel(mtime, Len(log)))
  /\ pc' = "refreshed"
  /\ UNCHANGED <<file, clock, used, seen, work, cut, clean>>

TrimSide ==
  /\ pc = "refreshed"
  /\ side' = SubSeq(side, 1, used)
  /\ used' = 0 /\ cut' = FALSE
  /\ pc' = IF pos = 0 THEN "closed" ELSE "unlink"
  /\ clean' = (pos = 0)
  /\ UNCHANGED <<file, clock, seen, work>>

----------------------------------------------------------------------------
\* Surroundings

Tick ==
  /\ clock < MaxTs /\ clock' = clock + 1
  /\ UNCHANGED <<file, side, pc, used, seen, work, cut, clean>>

\* The process dies; its stores stay, its registers do not.
Crash ==
  /\ pc # "closed"
  /\ cut => CrashAfterCut
  /\ pc' = "closed" /\ used' = 0 /\ pos' = 0 /\ cut' = FALSE
  /\ clean' = FALSE /\ seen' = 0 /\ rec' = None /\ filter' = None
  /\ UNCHANGED <<file, side, clock, tmp>>

Init ==
  /\ log = <<>> /\ torn = FALSE /\ mtime = 0
  /\ side = <<>> /\ tmp = <<>>
  /\ clock = 1 /\ pc = "closed" /\ used = 0 /\ seen = 0
  /\ rec = None /\ filter = None /\ pos = 0
  /\ cut = FALSE /\ clean = FALSE

Opening    == OpenLog \/ TrustIdx \/ RebuildIdx \/ RebuildStep
Appending  == \/ \E r \in Row : AppendAt(r)
              \/ \E v \in Verb, k \in Key : Append1(v, k)
              \/ RowFed \/ SlotWritten \/ SentinelPushed
Truncating == \E n \in 0..MaxRows : TruncateTo(n)
Compacting == \/ \E f \in Verb \cup {None} : CompactStart(f)
              \/ CopyRow \/ UnlinkSides \/ RenameOk \/ RenameFails
Closing    == TrimLog \/ RefreshSentinel \/ TrimSide

Next == \/ Opening \/ Appending \/ Truncating \/ Compacting \/ Closing
        \/ Tick \/ Crash

Spec == Init /\ [][Next]_vars

----------------------------------------------------------------------------
\* Properties

TypeOK ==
  /\ log \in Seq(Row) /\ Len(log) <= MaxRows
  /\ tmp \in Seq(Row)
  /\ torn \in BOOLEAN /\ cut \in BOOLEAN /\ clean \in BOOLEAN
  /\ mtime \in 0..MaxTs /\ clock \in 1..MaxTs /\ seen \in 0..MaxTs
  /\ side \in Seq(Slot)
  /\ pc \in PC /\ used \in 0..MaxRows + 1
  /\ rec \in Row \cup {None} /\ filter \in Verb \cup {None} /\ pos \in 0..MaxRows + 1

\* Timestamps rise strictly along the file whatever was appended, compacted,
\* cut or left by a crash, although ULOGAppendAt only ever compares with the
\* index (ULOG.c:520-526): otherwise the next open fails with ULOGCLOCK.
Monotone == A!Increasing(log)

\* The index s describes the log: one entry per row, then a sentinel.
Describes(s) ==
  /\ Len(s) = Len(log) + 1
  /\ \A i \in 1..Len(log) : s[i] = Entry(i)
  /\ s[Len(s)].off = Len(log)

\* While a session is ready for calls its index answers for every row, no
\* matter whether the open trusted the sidecar or rebuilt it.
IndexFaithful == pc \in {"open", "copy"} => Describes(SubSeq(side, 1, used))

\* At no instant would a sidecar that passes the freshness test mislead the
\* next open (or a read-only open beside the writer): ULOG.c:296-308.
TrustSound == ~cut /\ IsFresh(side, Len(log), mtime) => Describes(side)

\* A session that ends in ULOGClose leaves a sidecar the next open trusts,
\* which is what makes an open O(1) (ULOG.md, ULOG.c:494-512).
CleanCloseTrusted == clean => IsFresh(side, Len(log), mtime)

\* The file implements the abstract log through every crash.
Implements == A!Spec

----------------------------------------------------------------------------
\* The inductive invariant behind the properties (theorems in ULog_proofs)

\* The first n slots of s index the first n rows.
Indexes(s, n) == n <= Len(s) /\ \A j \in 1..n : s[j] = Entry(j)

\* Every slot that is not padding follows the entries of the rows before it
\* and is the entry of its row or a sentinel pushed when the log ended there.
Shaped(s) ==
  \A i \in DOMAIN s : s[i] # Zero =>
    /\ i <= Len(log) + 1
    /\ Indexes(s, i - 1)
    /\ \/ i <= Len(log) /\ s[i] = Entry(i)
       \/ s[i].verb = None /\ s[i].off = i - 1

SlotShape == ~cut => Shaped(side)

Settled == {"open", "feeding", "copy", "trimmed", "refreshed"}

SessionShape ==
  /\ pc \in Settled =>
       /\ used = Len(log) + 1 /\ used <= Len(side)
       /\ Indexes(side, Len(log))
       /\ side[used].off = Len(log)
  /\ pc = "rebuild" => used <= Len(log) /\ Indexes(side, used)
  /\ pc = "fed"     => /\ used = Len(log) /\ used <= Len(side)
                       /\ Indexes(side, used - 1)
  /\ pc = "slotted" => used = Len(log) /\ Indexes(side, used)
  /\ pc \in {"fed", "slotted"} => used > 0
  /\ pc = "refreshed" => side[used] = Sentinel(mtime, Len(log))
  /\ pc = "rename" => side = <<>>
  /\ cut => pc \in Settled \cup {"fed", "slotted"}
  /\ pc # "closed" => mtime # 0

PendingRow ==
  pc = "feeding" =>
    /\ rec \in Row /\ Len(log) < MaxRows
    /\ \A i \in DOMAIN log : log[i].ts < rec.ts

\* A compaction has copied exactly the kept ones of the rows before pos.
CopyShape ==
  /\ pos # 0 => /\ pc \in {"copy", "trimmed", "refreshed", "unlink", "rename"}
                /\ pos <= Len(log) + 1
                /\ Len(tmp) < pos /\ A!Increasing(tmp)
                /\ \A j \in DOMAIN tmp : \E i \in 1..pos - 1 : tmp[j] = log[i]
                /\ \A i \in 1..pos - 1 : Kept(i) => \E j \in DOMAIN tmp : tmp[j] = log[i]
  /\ pc \in {"copy", "unlink", "rename"} => pos # 0
  /\ pos # 0 /\ pc # "copy" => pos = Len(log) + 1

CleanShape == clean => pc = "closed" /\ ~cut

IInv == /\ TypeOK /\ Monotone /\ SlotShape /\ SessionShape
        /\ PendingRow /\ CopyShape /\ CleanShape /\ CleanCloseTrusted
==============================================================================
