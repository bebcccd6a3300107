-------------------------------- MODULE Unpk --------------------------------
(***************************************************************************)
(* keeper/UNPK.c: the index of a pack that has arrived.  The objects given *)
(* whole are hashed first; every other one is a delta over an object that  *)
(* is named by its place (ofs) or by its id (ref).  The deltas hang in     *)
(* child lists threaded through the objects; forked workers take the whole *)
(* objects in turn and walk down, each in its own copy of the lists, each  *)
(* taking an entry off a list when it gets to it.  A ref delta gets on a   *)
(* list when the object with its base's id turns up.  The ref deltas left  *)
(* over are tried on the packs the store had before.                       *)
(*                                                                         *)
(* An object's content stands for its id; applying a delta to what is not  *)
(* its base gives Garbage.                                                 *)
(***************************************************************************)
EXTENDS Integers, Sequences, FiniteSets

CONSTANTS
  Packs,       \* the packs to index
  Size,        \* how many objects a pack has
  Outside,     \* ids of objects the store had before
  Garbage,     \* no id at all
  MaxWorkers,  \* bound on the workers
  MaxChain     \* UNPK_MAX_CHAIN, the walk's stack

Obj == 1..Size

\* An object has a kind, "whole", "ofs" or "ref", and an id; at is the base's
\* place, for an ofs delta; of the base's id, for a ref delta.
ASSUME SizeAssumption   == Size \in Nat \ {0} /\ MaxWorkers \in Nat \ {0}
ASSUME ChainAssumption  == MaxChain \in Nat \ {0}
ASSUME PackAssumption   ==
  \A p \in Packs : /\ DOMAIN p = Obj
                   /\ \A i \in Obj : p[i].kind = "ofs" => p[i].at \in 1..i-1
                   /\ \A i \in Obj : p[i].id # Garbage

VARIABLES
  pack,    \* the pack
  nw,      \* the number of workers
  stage,   \* "whole", "fork", "run", "thin" or "done"
  next,    \* the object, or the worker to start, that is next
  mem,     \* per process: the child lists and the marks of what is resolved
  walk,    \* per worker: where it runs, its root and its stack
  out,     \* per worker: what it has emitted
  index    \* what the caller gets: pairs of an id and a place

vars == <<pack, nw, stage, next, mem, walk, out, index>>

Worker == 0..MaxWorkers - 1

----------------------------------------------------------------------------
\* The lists

Waiters(id) == {i \in Obj : pack[i].kind = "ref" /\ pack[i].of = id}

\* The last object of a set, 0 when there is none.
Highest(is) == IF is = {} THEN 0 ELSE CHOOSE i \in is : \A j \in is : j <= i

\* Putting the members of a set of objects in front of a parent's list, in the
\* order of their places: the last one ends up first.
Hang(m, parent, set) ==
  LET after(i) == {j \in set : j < i}
  IN  [m EXCEPT !.child[parent] = IF set = {} THEN @ ELSE Highest(set),
                !.sibling = [i \in Obj |->
                  IF i \notin set THEN m.sibling[i]
                  ELSE IF after(i) = {} THEN m.child[parent] ELSE Highest(after(i))]]

\* unpk_drain_waiters
Drain(m, id, parent) ==
  Hang(m, parent, {i \in Waiters(id) : ~m.resolved[i]})

\* The lists as the ofs deltas make them, object after object.
OfsLists(p) ==
  LET on(j) == {i \in Obj : p[i].kind = "ofs" /\ p[i].at = j}
  IN  [child    |-> [i \in Obj |-> Highest(on(i))],
       sibling  |-> [i \in Obj |-> IF p[i].kind = "ofs"
                                   THEN Highest({j \in on(p[i].at) : j < i}) ELSE 0],
       resolved |-> [i \in Obj |-> FALSE]]

----------------------------------------------------------------------------
Idle == [runs |-> "no", root |-> 0, stack |-> <<>>]

Init ==
  /\ pack \in Packs
  /\ nw \in 1..MaxWorkers
  /\ stage = "whole" /\ next = 1
  /\ mem = [w \in Worker |-> OfsLists(pack)]
  /\ walk = [w \in Worker |-> Idle]
  /\ out = [w \in Worker |-> <<>>]
  /\ index = {}

\* The whole objects, in order: each is emitted and its waiters are hung below.
Whole ==
  /\ stage = "whole" /\ next <= Size
  /\ IF pack[next].kind = "whole"
       THEN /\ index' = index \cup {<<pack[next].id, next>>}
            /\ mem' = [mem EXCEPT ![0] =
                 Drain([@ EXCEPT !.resolved[next] = TRUE], pack[next].id, next)]
       ELSE UNCHANGED <<index, mem>>
  /\ next' = next + 1
  /\ UNCHANGED <<pack, nw, stage, walk, out>>

WholeDone ==
  /\ stage = "whole" /\ next > Size
  /\ stage' = "fork" /\ next' = 1
  /\ UNCHANGED <<pack, nw, mem, walk, out, index>>

Started(w, where) == [walk EXCEPT ![w] = [runs |-> where, root |-> w + 1, stack |-> <<>>]]

\* A child starts from a copy of the parent's memory.
Fork ==
  /\ stage = "fork" /\ next < nw
  /\ mem' = [mem EXCEPT ![next] = mem[0]]
  /\ walk' = Started(next, "child")
  /\ next' = next + 1
  /\ UNCHANGED <<pack, nw, stage, out, index>>

\* Mutant: a worker that could not be started is not run.
ForkFail_Skip ==
  /\ stage = "fork" /\ next < nw
  /\ next' = next + 1
  /\ UNCHANGED <<pack, nw, stage, mem, walk, out, index>>

\* No process to be had: the worker runs in the parent, before the next start.
ForkFail ==
  /\ stage = "fork" /\ next < nw
  /\ walk' = Started(next, "inline")
  /\ next' = next + 1
  /\ UNCHANGED <<pack, nw, stage, mem, out, index>>

\* The parent is busy with a worker it runs itself.
Busy == \E w \in Worker : walk[w].runs \in {"inline", "parent"}

AllForked ==
  /\ stage = "fork" /\ next = nw /\ ~Busy
  /\ stage' = "run"
  /\ walk' = Started(0, "parent")
  /\ UNCHANGED <<pack, nw, next, mem, out, index>>

----------------------------------------------------------------------------
\* unpk_worker_main

Runs(w) == walk[w].runs # "no"

Home(w) == IF walk[w].runs = "child" THEN w ELSE 0

\* The next whole object of the worker's share.
NextRoot(w) ==
  LET r == walk[w].root
      m == mem[Home(w)]
  IN  /\ Runs(w) /\ walk[w].stack = <<>>
      /\ walk' = [walk EXCEPT ![w] =
           IF r > Size THEN Idle
           ELSE [@ EXCEPT !.root = r + nw,
                          !.stack = IF /\ m.child[r] # 0 /\ m.resolved[r]
                                       /\ pack[r].kind = "whole"
                                    THEN <<[node |-> r, content |-> pack[r].id]>>
                                    ELSE <<>>]]
      /\ UNCHANGED <<pack, nw, stage, next, mem, out, index>>

Top(w) == walk[w].stack[Len(walk[w].stack)]

Backtrack(w) ==
  /\ Runs(w) /\ walk[w].stack # <<>>
  /\ mem[Home(w)].child[Top(w).node] = 0
  /\ walk' = [walk EXCEPT ![w].stack = SubSeq(@, 1, Len(@) - 1)]
  /\ UNCHANGED <<pack, nw, stage, next, mem, out, index>>

\* The id of a delta's base.
Base(i) == IF pack[i].kind = "ofs" THEN pack[pack[i].at].id ELSE pack[i].of

\* What a delta makes of a content: its object if the content is its base's.
Applied(i, content) == IF content = Base(i) THEN pack[i].id ELSE Garbage

\* Mutant: a delta that does not fit the stack stays on its list.
Descend_Keep(w) ==
  LET c    == mem[Home(w)].child[Top(w).node]
      rest == [mem[Home(w)] EXCEPT !.child[Top(w).node] = mem[Home(w)].sibling[c]]
      id   == Applied(c, Top(w).content)
  IN  /\ Runs(w) /\ walk[w].stack # <<>> /\ c # 0
      /\ IF Len(walk[w].stack) >= MaxChain \/ Len(out[w]) >= Size
           THEN UNCHANGED <<mem, walk, out>>
           ELSE /\ out' = [out EXCEPT ![w] = Append(@, <<id, c>>)]
                /\ mem' = [mem EXCEPT ![Home(w)] =
                     Drain([rest EXCEPT !.resolved[c] = TRUE], id, c)]
                /\ walk' = [walk EXCEPT ![w].stack =
                     Append(@, [node |-> c, content |-> id])]
      /\ UNCHANGED <<pack, nw, stage, next, index>>

\* Mutant: the stack is taken to be large enough.
Descend_Deep(w) ==
  LET c    == mem[Home(w)].child[Top(w).node]
      rest == [mem[Home(w)] EXCEPT !.child[Top(w).node] = mem[Home(w)].sibling[c]]
      id   == Applied(c, Top(w).content)
  IN  /\ Runs(w) /\ walk[w].stack # <<>> /\ c # 0
      /\ IF Len(out[w]) >= Size
           THEN mem' = [mem EXCEPT ![Home(w)] = rest] /\ UNCHANGED <<walk, out>>
           ELSE /\ out' = [out EXCEPT ![w] = Append(@, <<id, c>>)]
                /\ mem' = [mem EXCEPT ![Home(w)] =
                     Drain([rest EXCEPT !.resolved[c] = TRUE], id, c)]
                /\ walk' = [walk EXCEPT ![w].stack =
                     Append(@, [node |-> c, content |-> id])]
      /\ UNCHANGED <<pack, nw, stage, next, index>>

\* Mutant: the walk goes on below the root's own content.
Descend_Root(w) ==
  LET c    == mem[Home(w)].child[Top(w).node]
      rest == [mem[Home(w)] EXCEPT !.child[Top(w).node] = mem[Home(w)].sibling[c]]
      id   == Applied(c, walk[w].stack[1].content)
  IN  /\ Runs(w) /\ walk[w].stack # <<>> /\ c # 0
      /\ IF Len(walk[w].stack) >= MaxChain \/ Len(out[w]) >= Size
           THEN mem' = [mem EXCEPT ![Home(w)] = rest] /\ UNCHANGED <<walk, out>>
           ELSE /\ out' = [out EXCEPT ![w] = Append(@, <<id, c>>)]
                /\ mem' = [mem EXCEPT ![Home(w)] =
                     Drain([rest EXCEPT !.resolved[c] = TRUE], id, c)]
                /\ walk' = [walk EXCEPT ![w].stack =
                     Append(@, [node |-> c, content |-> id])]
      /\ UNCHANGED <<pack, nw, stage, next, index>>

\* The next delta of the list is taken off it, whatever becomes of it: on a full
\* stack it is dropped, on a full slab too.
Descend(w) ==
  LET c    == mem[Home(w)].child[Top(w).node]
      rest == [mem[Home(w)] EXCEPT !.child[Top(w).node] = mem[Home(w)].sibling[c]]
      id   == Applied(c, Top(w).content)
  IN  /\ Runs(w) /\ walk[w].stack # <<>> /\ c # 0
      /\ IF Len(walk[w].stack) >= MaxChain \/ Len(out[w]) >= Size
           THEN mem' = [mem EXCEPT ![Home(w)] = rest] /\ UNCHANGED <<walk, out>>
           ELSE /\ out' = [out EXCEPT ![w] = Append(@, <<id, c>>)]
                /\ mem' = [mem EXCEPT ![Home(w)] =
                     Drain([rest EXCEPT !.resolved[c] = TRUE], id, c)]
                /\ walk' = [walk EXCEPT ![w].stack =
                     Append(@, [node |-> c, content |-> id])]
      /\ UNCHANGED <<pack, nw, stage, next, index>>

----------------------------------------------------------------------------
\* The parent again

\* All children have been waited for; their slabs are read.
Merge ==
  /\ stage = "run" /\ \A w \in Worker : ~Runs(w)
  /\ index' = index \cup UNION {{out[w][i] : i \in DOMAIN out[w]} : w \in Worker}
  /\ stage' = "thin" /\ next' = 1
  /\ UNCHANGED <<pack, nw, mem, walk, out>>

\* A ref delta the parent knows nothing of is tried on the earlier packs.
Thin ==
  /\ stage = "thin" /\ next <= Size
  /\ IF /\ pack[next].kind = "ref" /\ ~mem[0].resolved[next]
        /\ pack[next].of \in Outside
       THEN /\ index' = index \cup {<<pack[next].id, next>>}
            /\ mem' = [mem EXCEPT ![0].resolved[next] = TRUE]
       ELSE UNCHANGED <<index, mem>>
  /\ next' = next + 1
  /\ UNCHANGED <<pack, nw, stage, walk, out>>

Finish ==
  /\ stage = "thin" /\ next > Size
  /\ stage' = "done"
  /\ UNCHANGED <<pack, nw, next, mem, walk, out, index>>

Work(w) == NextRoot(w) \/ Backtrack(w) \/ Descend(w)

\* While the parent runs a worker itself it starts no other.
Next ==
  \/ Whole \/ WholeDone \/ AllForked
  \/ ~Busy /\ (Fork \/ ForkFail)
  \/ \E w \in Worker : Work(w)
  \/ Merge \/ Thin \/ Finish

Spec == Init /\ [][Next]_vars

\* The parent and each of its children goes on running.
FairSpec == Spec /\ WF_vars(Next) /\ \A w \in Worker : WF_vars(Work(w))

----------------------------------------------------------------------------
\* Properties

\* The objects whose chain of bases within the pack has at most d links.
Depth(d) ==
  LET upto[n \in 0..d] ==
        IF n = 0 THEN {i \in Obj : pack[i].kind = "whole"}
        ELSE upto[n - 1]
               \cup {i \in Obj : pack[i].kind = "ofs" /\ pack[i].at \in upto[n - 1]}
               \cup {i \in Obj : /\ pack[i].kind = "ref"
                                 /\ \E j \in upto[n - 1] : pack[j].id = pack[i].of}
  IN  upto[d]

\* The same, chains that end outside the pack included.
Reachable ==
  LET upto[n \in 0..Size] ==
        IF n = 0 THEN {i \in Obj : \/ pack[i].kind = "whole"
                                   \/ pack[i].kind = "ref" /\ pack[i].of \in Outside}
        ELSE upto[n - 1]
               \cup {i \in Obj : pack[i].kind = "ofs" /\ pack[i].at \in upto[n - 1]}
               \cup {i \in Obj : /\ pack[i].kind = "ref"
                                 /\ \E j \in upto[n - 1] : pack[j].id = pack[i].of}
  IN  upto[Size]

Once(i) == \A j \in Obj : pack[j].id = pack[i].id => j = i

TypeOK ==
  /\ DOMAIN pack = Obj /\ nw \in 1..MaxWorkers
  /\ stage \in {"whole", "fork", "run", "thin", "done"}
  /\ next \in 1..Size + MaxWorkers + 1
  /\ \A w \in Worker :
       /\ mem[w].child \in [Obj -> 0..Size] /\ mem[w].sibling \in [Obj -> 0..Size]
       /\ mem[w].resolved \in [Obj -> BOOLEAN]
       /\ walk[w].runs \in {"no", "child", "inline", "parent"}
       /\ Len(walk[w].stack) <= MaxChain /\ Len(out[w]) <= Size

\* An id is indexed at the place where its object is, and nothing but ids of the
\* pack's objects: a delta is never put on an object that is not its base,
\* however the lists were taken apart and threaded anew (UNPKIndex).
Honest ==
  /\ \A e \in index : e[1] = pack[e[2]].id
  /\ \A w \in Worker : \A i \in DOMAIN out[w] : out[w][i][1] = pack[out[w][i][2]].id

\* Whatever the number of workers, and however many of them could not be forked,
\* every object with a chain of bases in the pack that fits the stack is
\* indexed; provided the pack holds no object twice (UNPKIndex).
InPackComplete ==
  (stage = "done" /\ \A i \in Obj : Once(i))
    => \A i \in Depth(MaxChain - 1) : <<pack[i].id, i>> \in index

\* The lists never turn into rings: the index is finished (unpk_worker_main).
Finishes == <>(stage = "done")

\* UNPK.h: "emit one wh128 entry per object".
Complete ==
  stage = "done" => \A i \in Reachable : <<pack[i].id, i>> \in index
=============================================================================
