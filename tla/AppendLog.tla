------------------------------ MODULE AppendLog ------------------------------
(***************************************************************************)
(* What dog/ULOG promises about one log file, with no index, no mmap and   *)
(* no temporary file: the log is a strictly increasing sequence of rows    *)
(* that is extended at the tail, rewritten by a compaction that loses no   *)
(* latest row, or cut back to a prefix.                                    *)
(***************************************************************************)
EXTENDS Integers, Sequences

VARIABLE log

\* Rows are kept in strictly increasing timestamp order (ULOG.h, ULOGCLOCK).
Increasing(rows) ==
  \A i, j \in DOMAIN rows : i < j => rows[i].ts < rows[j].ts

\* Two rows speak of the same thing: equal verb, equal URI up to the fragment.
SameSubject(r, s) == r.verb = s.verb /\ r.key = s.key

\* Row i is the last word on its subject.
IsLatest(rows, i) ==
  \A j \in DOMAIN rows : i < j => ~SameSubject(rows[i], rows[j])

Init == log = <<>>

Extend ==
  /\ Len(log') = Len(log) + 1
  /\ \A i \in DOMAIN log : log'[i] = log[i]
  /\ Increasing(log')

\* A rewrite invents no row and keeps the latest row of every subject.  Both
\* logs are increasing, so the kept rows are also in their old order.
Compact ==
  /\ Increasing(log')
  /\ \A j \in DOMAIN log' : \E i \in DOMAIN log : log'[j] = log[i]
  /\ \A i \in DOMAIN log :
       IsLatest(log, i) => \E j \in DOMAIN log' : log'[j] = log[i]

Truncate ==
  /\ Len(log') < Len(log)
  /\ \A i \in DOMAIN log' : log'[i] = log[i]

Next == Extend \/ Compact \/ Truncate

Spec == Init /\ [][Next]_log
==============================================================================
