---------------------------- MODULE Wire_proofs ----------------------------
(***************************************************************************)
(* The safety of the dialogues for any clients, branches and histories, as *)
(* long as a pack arrives whole or not at all.                             *)
(***************************************************************************)
EXTENDS Wire, SequenceTheorems, WellFoundedInduction, TLAPS

\* The commits the server has been sent whole packs of
Known == Held \cup lost

----------------------------------------------------------------------------
\* Walks

LEMMA ReachFrom ==
  ASSUME NEW from \in SUBSET Commit, NEW T
  PROVE  from \subseteq Reach(from, T) /\ Reach(from, T) \subseteq Commit
  BY DEF Reach

\* A walk goes on to the parents of what it enters,
LEMMA ReachParents ==
  ASSUME NEW from, NEW T, NEW x \in Reach(from, T), x \in T
  PROVE  Parents[x] \subseteq Reach(from, T)
<1>1. Parents[x] \subseteq Commit
  BY CommitAssumption DEF Reach
<1> SUFFICES ASSUME NEW y \in Parents[x], NEW S \in SUBSET Commit, from \subseteq S,
                    \A c \in S \cap T : Parents[c] \subseteq S
             PROVE  y \in S
  BY <1>1 DEF Reach
<1>2. x \in S
  BY DEF Reach
<1> QED
  BY <1>2

\* and stays in every set that does the same.
LEMMA ReachWithin ==
  ASSUME NEW from, NEW T, NEW S \in SUBSET Commit, from \subseteq S,
         \A c \in S \cap T : Parents[c] \subseteq S
  PROVE  Reach(from, T) \subseteq S
  BY DEF Reach

LEMMA HeldFacts ==
  ASSUME packs \in Seq(SUBSET Commit)
  PROVE  Held \in SUBSET Commit
<1>1. \A i \in DOMAIN packs : packs[i] \in SUBSET Commit
  BY ElementOfSeq, LenProperties
<1> QED
  BY <1>1 DEF Held

LEMMA HeldGrows ==
  ASSUME packs \in Seq(SUBSET Commit), NEW p \in SUBSET Commit, packs' = Append(packs, p)
  PROVE  Held' = Held \cup p /\ packs' \in Seq(SUBSET Commit) /\ Len(packs') = Len(packs) + 1
<1>1. /\ packs' \in Seq(SUBSET Commit) /\ Len(packs') = Len(packs) + 1
      /\ \A i \in 1..Len(packs) : packs'[i] = packs[i]
      /\ packs'[Len(packs) + 1] = p
  BY AppendProperties
<1>2. Len(packs) \in Nat /\ DOMAIN packs = 1..Len(packs) /\ DOMAIN packs' = 1..Len(packs)+1
  BY <1>1, LenProperties
<1>3. ASSUME NEW x \in Held'
      PROVE  x \in Held \cup p
  <2>1. PICK i \in 1..Len(packs)+1 : x \in packs'[i]
    BY <1>2, <1>3 DEF Held
  <2>2. i = Len(packs) + 1 \/ i \in 1..Len(packs)
    BY <1>2, <2>1
  <2> QED
    BY <1>1, <1>2, <2>1, <2>2 DEF Held
<1>4. ASSUME NEW x \in Held
      PROVE  x \in Held'
  <2>1. PICK i \in 1..Len(packs) : x \in packs[i]
    BY <1>2, <1>4 DEF Held
  <2>2. i \in 1..Len(packs)+1 /\ x \in packs'[i]
    BY <1>1, <1>2, <2>1
  <2> QED
    BY <1>2, <2>2 DEF Held
<1>5. p \subseteq Held'
  <2>1. Len(packs) + 1 \in DOMAIN packs'
    BY <1>2
  <2> QED
    BY <1>1, <2>1 DEF Held
<1> QED
  BY <1>1, <1>3, <1>4, <1>5

\* A set of numbers up to n has a greatest.
LEMMA GreatestExists ==
  ASSUME NEW n \in Nat, NEW S \in SUBSET (0..n), S # {}
  PROVE  \E m \in S : \A k \in S : k <= m
<1> DEFINE T == {n - k : k \in S}
<1>1. T \in SUBSET Nat /\ T # {}
  <2>1. \A u \in T : u \in Nat
    OBVIOUS
  <2>2. PICK k \in S : TRUE
    OBVIOUS
  <2>3. n - k \in T
    BY <2>2
  <2> QED
    BY <2>1, <2>3
<1>2. PICK t \in T : \A u \in T : ~ (<<u, t>> \in OpToRel(<, Nat))
  <2>1. IsWellFoundedOn(OpToRel(<, Nat), Nat)
    BY NatLessThanWellFounded
  <2> HIDE DEF T
  <2> QED
    BY <1>1, <2>1, WFMin
<1>3. \A u \in T : ~ (u < t)
  <2> TAKE u \in T
  <2>1. u \in Nat /\ t \in Nat
    BY <1>1
  <2> QED
    BY <1>2, <2>1 DEF OpToRel
<1>4. PICK m \in S : t = n - m
  OBVIOUS
<1>5. \A k \in S : k <= m
  <2> TAKE k \in S
  <2>1. ~ (n - k < t)
    BY <1>3
  <2> QED
    BY <1>4, <2>1
<1> QED
  BY <1>5

\* upload-pack sends commits of the log.
LEMMA ShippedFacts ==
  ASSUME packs \in Seq(SUBSET Commit), NEW c, snap[c] \in 0..Len(packs)
  PROVE  Shipped(c) \subseteq Commit
<1> DEFINE n == snap[c]
           ends == {PackOf(h, n) : h \in Haves(c)} \cup {0}
           mark == CHOOSE i \in ends : \A j \in ends : j <= i
           last == PackOf(adv[c][job[c].branch], n)
<1>1. n \in Nat /\ Len(packs) \in Nat /\ n <= Len(packs)
  BY LenProperties
<1>2. \A i \in 1..n : packs[i] \in SUBSET Commit
  BY <1>1, ElementOfSeq
<1>3. \A x : PackOf(x, n) \in 0..n
  <2> TAKE x
  <2> DEFINE at == {i \in 1..n : x \in packs[i]}
  <2>1. CASE at = {}
    BY <1>1, <2>1 DEF PackOf
  <2>2. CASE at # {}
    <3>1. \E m \in at : \A k \in at : m <= k
      <4>1. {n - k : k \in at} \in SUBSET (0..n) /\ {n - k : k \in at} # {}
        BY <1>1, <2>2
      <4>2. PICK u \in {n - k : k \in at} : \A v \in {n - k : k \in at} : v <= u
        BY <1>1, <4>1, GreatestExists
      <4>3. PICK m \in at : u = n - m
        OBVIOUS
      <4>4. \A k \in at : m <= k
        <5> TAKE k \in at
        <5>1. n - k <= n - m
          BY <4>2, <4>3
        <5> QED
          BY <1>1, <5>1
      <4> QED
        BY <4>4
    <3>2. PackOf(x, n) = CHOOSE i \in at : \A j \in at : i <= j
      BY <2>2 DEF PackOf
    <3>3. at \subseteq 0..n
      BY <1>1
    <3> HIDE DEF at
    <3>4. (CHOOSE i \in at : \A j \in at : i <= j) \in at
      BY <3>1
    <3> QED
      BY <3>2, <3>3, <3>4
  <2> QED
    BY <2>1, <2>2
<1>4. mark \in 0..n
  <2>1. ends \in SUBSET (0..n) /\ ends # {}
    BY <1>1, <1>3
  <2>2. \E i \in ends : \A j \in ends : j <= i
    <3> HIDE DEF ends, n
    <3> QED
      BY <1>1, <2>1, GreatestExists
  <2> QED
    BY <2>1, <2>2
<1>5. last \in 0..n
  BY <1>3
<1>6. \A i \in mark + 1 .. last : i \in 1..n
  <2> HIDE DEF mark, last, n
  <2> QED
    BY <1>1, <1>4, <1>5
<1>7. Shipped(c) = UNION {packs[i] : i \in mark + 1 .. last}
  BY DEF Shipped
<1> HIDE DEF mark, last, n
<1> QED
  BY <1>2, <1>6, <1>7

LEMMA KnownStays == packs' = packs /\ lost' = lost => Known' = Known
  BY DEF Held, Known

----------------------------------------------------------------------------
\* The inductive invariant

\* The branch a client's command is about has been at the commit it is about.
Backed(c) == job[c].tip \in past[job[c].branch] \cup {None}

\* A client: what it was told and what it recorded has been true, and while the
\* server serves it the two know the same.
Dialogue(c) ==
  /\ pc[c] # "idle" \/ job[c] # None =>
       job[c] \in Job /\ (job[c].op = "delete" => job[c].tip = None)
  /\ pc[c] # "wait" => answer[c] = None
  /\ pc[c] = "record" => Backed(c)
  /\ answer[c] # None => Backed(c)
  /\ snap[c] <= Len(packs)
  /\ \A b \in Branch : adv[c][b] \in past[b] \cup {None} /\ seen[c][b] \in past[b] \cup {None}
  /\ lock = c /\ pc[c] = "push" => srv = "read" /\ req = None /\ adv[c] = shown
  /\ lock = c /\ pc[c] = "wait" /\ req # None
       => req.branch = job[c].branch /\ req.new = job[c].tip

\* The server's session: the trunk stays what it was shown as until the update.
Served ==
  /\ srv \in {"ingest", "apply", "unpack_failed", "reply", "refuse"} => ~req.eof
  /\ req # None /\ ~req.eof => req.old = shown[req.branch]
  /\ srv \in {"read", "ingest", "apply", "unpack_failed"} => shown[Trunk] = ref[Trunk]
  /\ srv \in {"reply", "refuse"} => req.new \in past[req.branch] \cup {None}

\* The server knows the parents of what it knows, all that a branch has ever
\* been at, and with a request's pack what the request is about.
Whole ==
  /\ \A x \in Known : Parents[x] \subseteq Known
  /\ \A b \in Branch : past[b] \subseteq Known /\ ref[b] \in past[b] \cup {None}
  /\ req # None /\ ~req.eof =>
       /\ \A x \in req.pack : Parents[x] \subseteq Known \cup req.pack
       /\ req.new \in Known \cup req.pack \cup {None}
  /\ Applying => req.new \in Known \cup {None}

IInv == TypeOK /\ Served /\ Whole /\ \A c \in Client : Dialogue(c)

LEMMA InitIInv == Init => IInv
<1> SUFFICES ASSUME Init PROVE IInv
  OBVIOUS
<1> USE PartyAssumption, CommitAssumption, RootAssumption, TrunkAssumption, BoundAssumption
<1>1. Known = {Root}
  BY DEF Init, Held, Known
<1>2. packs \in Seq(SUBSET Commit)
  BY DEF Init
<1>3. TypeOK
  BY <1>2 DEF Init, TypeOK, Tip, PC, NoTips
<1>4. Served
  BY DEF Init, Served, NoTips
<1>5. Whole
  BY <1>1 DEF Init, Whole, NoTips, Applying
<1>6. \A c \in Client : Dialogue(c)
  BY DEF Init, Dialogue, NoTips
<1> QED
  BY <1>3, <1>4, <1>5, <1>6 DEF IInv

----------------------------------------------------------------------------
\* The clients on their own

\* What a step of one client leaves alone
Aside(c) ==
  \A d \in Client : d # c =>
    /\ pc'[d] = pc[d] /\ job'[d] = job[d] /\ adv'[d] = adv[d]
    /\ seen'[d] = seen[d] /\ answer'[d] = answer[d] /\ snap'[d] = snap[d]

\* A step that leaves the server alone keeps its part and the other clients'.
LEMMA ClientFrame ==
  ASSUME IInv, UNCHANGED server, NEW c \in Client, Aside(c), Dialogue(c)'
  PROVE  Served' /\ Whole' /\ \A d \in Client : Dialogue(d)'
<1> USE DEF server
<1>1. Known' = Known
  BY KnownStays
<1>2. Served'
  BY DEF IInv, Served
<1>3. Whole'
  BY <1>1 DEF IInv, Whole, Applying
<1>4. ASSUME NEW d \in Client, d # c
      PROVE  Dialogue(d)'
  BY <1>4 DEF IInv, Dialogue, Backed, Aside
<1> QED
  BY <1>2, <1>3, <1>4

LEMMA ClientPostKeeps ==
  ASSUME IInv, NEW c \in Client, NEW b \in Branch, NEW x \in Commit, ClientPost(c, b, x)
  PROVE  IInv'
<1> USE DEF ClientPost, server, bounds
<1>1. TypeOK'
  BY DEF IInv, TypeOK, Tip
<1>2. Dialogue(c)' /\ Aside(c)
  BY DEF IInv, Dialogue, Backed, Aside
<1> QED
  BY <1>1, <1>2, ClientFrame DEF IInv

LEMMA ClientTakeKeeps ==
  ASSUME IInv, NEW c \in Client, NEW b \in Branch, ClientTake(c, b)
  PROVE  IInv'
<1> USE DEF ClientTake, server, bounds
<1>1. TypeOK'
  BY DEF IInv, TypeOK, Tip
<1>2. Dialogue(c)' /\ Aside(c)
  BY DEF IInv, Dialogue, Backed, Aside
<1> QED
  BY <1>1, <1>2, ClientFrame DEF IInv

LEMMA BeginKeeps ==
  ASSUME IInv, NEW c \in Client, NEW op \in {"push", "delete", "fetch"},
         NEW b \in Branch, NEW x \in Tip, NEW l \in {"dial", "ask"},
         op = "delete" => x = None, Begin(c, op, b, x), Goto(c, l)
  PROVE  IInv'
<1> USE DEF Begin, Goto, server
<1>1. [op |-> op, branch |-> b, tip |-> x] \in Job
  BY DEF Job
<1>2. Len(packs) \in Nat
  BY LenProperties DEF IInv, TypeOK
<1>3. TypeOK'
  BY <1>1, <1>2, BoundAssumption DEF IInv, TypeOK, PC
<1>4. Dialogue(c)' /\ Aside(c)
  BY <1>1, <1>2 DEF IInv, TypeOK, Dialogue, Backed, Aside
<1> QED
  BY <1>3, <1>4, ClientFrame DEF IInv

LEMMA RetryKeeps ==
  ASSUME IInv, NEW c \in Client, Retry(c)
  PROVE  IInv'
<1> USE DEF Retry, Goto, server, bounds
<1>1. TypeOK'
  BY DEF IInv, TypeOK, PC
<1>2. Dialogue(c)' /\ Aside(c)
  BY DEF IInv, TypeOK, Dialogue, Backed, Aside
<1> QED
  BY <1>1, <1>2, ClientFrame DEF IInv

\* The client's rows are true, and the others' as they were.
SeenRight(c) ==
  /\ seen' \in [Client -> [Branch -> Tip]]
  /\ \A d \in Client : d # c => seen'[d] = seen[d]
  /\ \A b \in Branch : seen'[c][b] \in past[b] \cup {None}

LEMMA SeenSame ==
  ASSUME IInv, NEW c \in Client, UNCHANGED seen
  PROVE  SeenRight(c)
  BY DEF IInv, TypeOK, Dialogue, SeenRight

LEMMA SeenSet ==
  ASSUME IInv, NEW c \in Client, NEW b \in Branch, NEW t \in Tip,
         t \in past[b] \cup {None}, seen' = [seen EXCEPT ![c][b] = t]
  PROVE  SeenRight(c)
<1>1. seen \in [Client -> [Branch -> Tip]]
  BY DEF IInv, TypeOK
<1>2. seen'[c] = [seen[c] EXCEPT ![b] = t] /\ \A d \in Client : d # c => seen'[d] = seen[d]
  BY <1>1
<1>3. \A i \in Branch : seen[c][i] \in past[i] \cup {None}
  BY DEF IInv, Dialogue
<1>4. seen' \in [Client -> [Branch -> Tip]]
  BY <1>1
<1>5. \A i \in Branch : seen'[c][i] = IF i = b THEN t ELSE seen[c][i]
  BY <1>1, <1>2
<1> QED
  BY <1>2, <1>3, <1>4, <1>5 DEF SeenRight

\* A client that ends, with its row for the peer as it was or set to something
\* the peer's branch has been at
LEMMA QuitKeeps ==
  ASSUME IInv, UNCHANGED server, UNCHANGED bounds, UNCHANGED <<has, own>>,
         NEW c \in Client, NEW j \in {job[c], None}, Quit(c, j),
         SeenRight(c)
  PROVE  IInv'
<1> USE DEF Quit, Goto, SeenRight, server, bounds
<1>1. TypeOK'
  BY DEF IInv, TypeOK, PC, NoTips, Tip
<1>2. Dialogue(c)' /\ Aside(c)
  BY DEF IInv, TypeOK, Dialogue, Backed, Aside, NoTips
<1> QED
  BY <1>1, <1>2, ClientFrame DEF IInv

LEMMA HearKeeps ==
  ASSUME IInv, NEW c \in Client, Hear(c)
  PROVE  IInv'
<1>1. CASE Quit(c, None)
  BY <1>1, SeenSame, QuitKeeps DEF Hear
<1>2. CASE answer[c] = "ok" /\ Goto(c, "record") /\ UNCHANGED <<job, adv, snap>>
           /\ answer' = [answer EXCEPT ![c] = None]
  <2> USE <1>2 DEF Hear, Goto, server, bounds
  <2>1. TypeOK'
    BY DEF IInv, TypeOK, PC
  <2>2. Dialogue(c)' /\ Aside(c)
    BY DEF IInv, TypeOK, Dialogue, Backed, Aside
  <2> QED
    BY <2>1, <2>2, ClientFrame DEF IInv
<1> QED
  BY <1>1, <1>2 DEF Hear

LEMMA RecordKeeps ==
  ASSUME IInv, NEW c \in Client, Record(c)
  PROVE  IInv'
<1>1. job[c].branch \in Branch /\ job[c].tip \in Tip /\ Backed(c)
  BY DEF IInv, Dialogue, Record, Job
<1>2. SeenRight(c)
  BY <1>1, SeenSame, SeenSet DEF Record, Backed
<1> QED
  BY <1>2, QuitKeeps DEF Record

LEMMA PeerGoneKeeps ==
  ASSUME IInv, NEW c \in Client, PeerGone(c)
  PROVE  IInv'
  BY SeenSame, QuitKeeps DEF PeerGone

LEMMA FailedKeeps ==
  ASSUME IInv, NEW c \in Client, pc[c] # "idle", Failed(c),
         UNCHANGED server, UNCHANGED bounds, UNCHANGED <<has, own>>
  PROVE  IInv'
<1>1. job[c].branch \in Branch /\ None \in Tip
  BY DEF IInv, Dialogue, Job, Tip
<1>2. SeenRight(c)
  BY <1>1, SeenSame, SeenSet DEF Failed
<1> QED
  BY <1>2, QuitKeeps DEF Failed

LEMMA FetchAdvertKeeps ==
  ASSUME IInv, NEW c \in Client, FetchAdvert(c)
  PROVE  IInv'
<1>1. CASE ref[job[c].branch] = None
  BY <1>1, FailedKeeps DEF FetchAdvert
<1>2. CASE ref[job[c].branch] # None
  <2>0. /\ adv' = [adv EXCEPT ![c] = ref] /\ pc' = [pc EXCEPT ![c] = "take"]
        /\ pc[c] = "ask" /\ UNCHANGED <<server, bounds, has, own, seen, job, snap, answer>>
    BY <1>2 DEF FetchAdvert, Goto
  <2> USE <2>0 DEF server, bounds
  <2>1. TypeOK'
    BY DEF IInv, TypeOK, PC
  <2>2. Dialogue(c)' /\ Aside(c)
    BY DEF IInv, TypeOK, Dialogue, Backed, Aside, Whole
  <2> QED
    BY <2>1, <2>2, ClientFrame DEF IInv
<1> QED
  BY <1>1, <1>2

LEMMA FetchTakeKeeps ==
  ASSUME IInv, NEW c \in Client, FetchTake(c)
  PROVE  IInv'
<1>1. Shipped(c) \subseteq Commit
  <2>1. packs \in Seq(SUBSET Commit) /\ Len(packs) \in Nat /\ snap[c] \in Nat
    BY LenProperties DEF IInv, TypeOK
  <2>2. snap[c] <= Len(packs)
    BY DEF IInv, Dialogue
  <2> QED
    BY <2>1, <2>2, ShippedFacts
<1> USE DEF FetchTake, Goto, server, bounds
<1>2. TypeOK'
  BY <1>1 DEF IInv, TypeOK, PC
<1>3. Dialogue(c)' /\ Aside(c)
  BY DEF IInv, TypeOK, Dialogue, Backed, Aside
<1> QED
  BY <1>2, <1>3, ClientFrame DEF IInv

LEMMA FetchRecordKeeps ==
  ASSUME IInv, NEW c \in Client, FetchRecord(c)
  PROVE  IInv'
<1>1. job[c].branch \in Branch
  BY DEF IInv, Dialogue, FetchRecord, Job
<1>2. adv[c][job[c].branch] \in Tip /\ adv[c][job[c].branch] \in past[job[c].branch] \cup {None}
  BY <1>1 DEF IInv, TypeOK, Dialogue
<1>3. SeenRight(c)
  BY <1>1, <1>2, SeenSet DEF FetchRecord
<1> QED
  BY <1>3, QuitKeeps DEF FetchRecord

LEMMA FetchFailKeeps ==
  ASSUME IInv, NEW c \in Client, FetchFail(c)
  PROVE  IInv'
  BY FailedKeeps DEF FetchFail

----------------------------------------------------------------------------
\* The clients and what they say

LEMMA EofFacts == Eof \in Request /\ Eof.eof
  BY TrunkAssumption DEF Eof, Request, Tip

\* A request that the server can follow when it comes from the client it serves
Fits(m) ==
  /\ m.old = shown[m.branch]
  /\ \A x \in m.pack : Parents[x] \subseteq Known \cup m.pack
  /\ m.new \in Known \cup m.pack \cup {None}

Busy == srv \in {"ingest", "apply", "unpack_failed", "reply", "refuse"}

LEMMA SayKeeps ==
  ASSUME IInv, NEW c \in Client, pc[c] = "push", pc'[c] # "push",
         UNCHANGED <<packs, lost, ref, past, lock, srv, shown>>, Aside(c),
         NEW m \in Request, m.eof \/ (lock = c => Fits(m)), Say(c, m)
  PROVE  /\ Served' /\ Whole' /\ \A d \in Client : d # c => Dialogue(d)'
         /\ req' \in Request \cup {None}
         /\ Busy' => req' # None
<1>1. Known' = Known
  BY KnownStays
<1>2. CASE lock = c
  <2>1. srv = "read" /\ req' = m
    BY <1>2 DEF IInv, Dialogue, Say
  <2>2. Served'
    BY <1>2, <2>1 DEF IInv, Served, Fits
  <2>3. Whole'
    BY <1>1, <1>2, <2>1 DEF IInv, Whole, Fits, Applying
  <2>4. ASSUME NEW d \in Client, d # c
        PROVE  Dialogue(d)'
    BY <1>2, <2>4 DEF IInv, Dialogue, Backed, Aside
  <2> QED
    BY <2>1, <2>2, <2>3, <2>4 DEF Busy
<1>3. CASE lock # c
  <2>1. req' = req
    BY <1>3 DEF Say
  <2>2. UNCHANGED server
    BY <2>1 DEF server
  <2>3. ASSUME NEW d \in Client, d # c
        PROVE  Dialogue(d)'
    BY <2>2, <2>3 DEF IInv, Dialogue, Backed, Aside, server
  <2>4. Served' /\ Whole'
    BY <1>1, <2>2 DEF IInv, Served, Whole, server, Applying
  <2> QED
    BY <2>1, <2>3, <2>4 DEF IInv, TypeOK, Busy
<1> QED
  BY <1>2, <1>3

LEMMA AlreadyThereKeeps ==
  ASSUME IInv, NEW c \in Client, AlreadyThere(c)
  PROVE  IInv'
<1> USE DEF AlreadyThere, Drained, Goto, bounds
<1>1. pc[c] = "push" /\ pc'[c] # "push" /\ Aside(c) /\ job[c] \in Job
  BY DEF Aside, IInv, TypeOK, Dialogue
<1>2. /\ Served' /\ Whole' /\ \A d \in Client : d # c => Dialogue(d)'
      /\ req' \in Request \cup {None}
      /\ Busy' => req' # None
  BY <1>1, EofFacts, SayKeeps
<1>3. adv[c][job[c].branch] \in past[job[c].branch] \cup {None}
  BY <1>1 DEF IInv, Dialogue, Job
<1>4. Dialogue(c)'
  BY <1>1, <1>3 DEF IInv, TypeOK, Dialogue, Backed, NoTips
<1>5. TypeOK'
  BY <1>1, <1>2 DEF IInv, TypeOK, PC, NoTips, Tip, Busy
<1> QED
  BY <1>2, <1>4, <1>5 DEF IInv

LEMMA HangUpKeeps ==
  ASSUME IInv, NEW c \in Client, HangUp(c)
  PROVE  IInv'
<1> USE DEF HangUp, Quit, Goto, bounds
<1>1. pc[c] = "push" /\ pc'[c] # "push" /\ Aside(c)
  BY DEF Aside, IInv, TypeOK
<1>2. /\ Served' /\ Whole' /\ \A d \in Client : d # c => Dialogue(d)'
      /\ req' \in Request \cup {None}
      /\ Busy' => req' # None
  BY <1>1, EofFacts, SayKeeps
<1>3. Len(packs) \in Nat
  BY LenProperties DEF IInv, TypeOK
<1>4. Dialogue(c)'
  BY <1>1, <1>3 DEF IInv, TypeOK, Dialogue, Backed, NoTips
<1>5. TypeOK'
  BY <1>1, <1>2 DEF IInv, TypeOK, PC, NoTips, Tip, Busy
<1> QED
  BY <1>2, <1>4, <1>5 DEF IInv

\* What the client takes for the server's is the server's,
LEMMA HaveSetKnown ==
  ASSUME IInv, NEW c \in Client
  PROVE  HaveSet(c) \subseteq Known
<1>1. Known \in SUBSET Commit
  BY HeldFacts DEF IInv, TypeOK, Known
<1>2. Tips(adv[c]) \subseteq Known
  BY DEF IInv, Dialogue, Whole, Tips
<1>3. \A x \in Known : Parents[x] \subseteq Known
  BY DEF IInv, Whole
<1> QED
  BY <1>1, <1>2, <1>3, ReachWithin DEF HaveSet

\* and so what it sends fits what the server knows.
LEMMA SendFits ==
  ASSUME IInv, NEW c \in Client, NEW x \in Tip,
         ToSend(c, x) \subseteq has[c]
  PROVE  /\ ToSend(c, x) \subseteq Commit
         /\ \A y \in ToSend(c, x) : Parents[y] \subseteq Known \cup ToSend(c, x)
         /\ x \in Known \cup ToSend(c, x) \cup {None}
<1> DEFINE walk == Reach({x}, has[c] \ HaveSet(c))
<1>1. ToSend(c, x) = walk \ HaveSet(c)
  BY DEF ToSend
<1>2. walk \subseteq Commit
  BY DEF Reach
<1>3. HaveSet(c) \subseteq Known
  BY HaveSetKnown
<1>4. ASSUME NEW y \in ToSend(c, x)
      PROVE  Parents[y] \subseteq Known \cup ToSend(c, x)
  <2>1. y \in walk /\ y \in has[c] \ HaveSet(c)
    BY <1>1, <1>4
  <2>2. Parents[y] \subseteq walk
    BY <2>1, ReachParents
  <2> QED
    BY <1>1, <1>3, <2>2
<1>5. ASSUME x # None
      PROVE  x \in Known \cup ToSend(c, x)
  <2>1. x \in walk
    BY <1>5, ReachFrom DEF Tip
  <2> QED
    BY <1>1, <1>3, <2>1
<1> HIDE DEF walk
<1> QED
  BY <1>1, <1>2, <1>4, <1>5

LEMMA SendKeeps ==
  ASSUME IInv, NEW c \in Client, Send(c)
  PROVE  IInv'
<1> USE DEF Drained, Goto, bounds
<1>1. /\ pc[c] = "push" /\ pc'[c] = "wait" /\ lock = c /\ job[c] \in Job
      /\ Aside(c) /\ adv[c] = shown
  BY DEF Send, Aside, IInv, TypeOK, Dialogue
<1>0. /\ pc' = [pc EXCEPT ![c] = "wait"] /\ adv' = [adv EXCEPT ![c] = NoTips]
      /\ UNCHANGED <<packs, lost, ref, past, lock, srv, shown, jobs, faults, has, own, seen,
                     job, snap, answer>>
  BY DEF Send
<1> DEFINE new  == IF job[c].op = "delete" THEN None ELSE job[c].tip
           pack == IF job[c].op = "delete" THEN {} ELSE ToSend(c, job[c].tip)
           m    == [branch |-> job[c].branch, old |-> adv[c][job[c].branch],
                    new |-> new, pack |-> pack, eof |-> FALSE]
<1>2. Say(c, m)
  BY DEF Send, Asked
<1>3. /\ pack \subseteq Commit /\ new \in Tip
      /\ \A y \in pack : Parents[y] \subseteq Known \cup pack
      /\ new \in Known \cup pack \cup {None}
  <2>1. CASE job[c].op = "delete"
    BY <2>1 DEF Tip
  <2>2. CASE job[c].op # "delete"
    BY <1>1, <2>2, SendFits DEF Send, CanSend, Job
  <2> QED
    BY <2>1, <2>2
<1>4. m \in Request
  BY <1>1, <1>3 DEF Request, Job, IInv, TypeOK, Tip
<1>5. Fits(m)
  BY <1>1, <1>3 DEF Fits
<1>6. m.branch = job[c].branch /\ m.new = new /\ req' = m
  BY <1>1, <1>2 DEF Say
<1> HIDE DEF m
<1>7. /\ Served' /\ Whole' /\ \A d \in Client : d # c => Dialogue(d)'
      /\ req' \in Request \cup {None}
      /\ Busy' => req' # None
  BY <1>1, <1>2, <1>4, <1>5, SayKeeps DEF Send
<1>9. new = job[c].tip
  BY <1>1 DEF IInv, Dialogue
<1>8. Dialogue(c)'
  BY <1>0, <1>1, <1>6, <1>9 DEF IInv, TypeOK, Dialogue, Backed, NoTips, new
<1>10. TypeOK'
  BY <1>0, <1>4, <1>6, <1>7 DEF IInv, TypeOK, PC, NoTips, Tip, Busy
<1> QED
  BY <1>7, <1>8, <1>10 DEF IInv

LEMMA AcceptKeeps ==
  ASSUME IInv, NEW c \in Client, Accept(c)
  PROVE  IInv'
<1>0. c # None
  BY PartyAssumption
<1> USE DEF Accept, Goto, bounds
<1>1. TypeOK'
  BY <1>0 DEF IInv, TypeOK, PC
<1>2. Served'
  BY TrunkAssumption DEF IInv, Served
<1>3. Whole'
  BY KnownStays DEF IInv, Whole, Applying
<1>4. Dialogue(c)'
  BY DEF IInv, TypeOK, Dialogue, Backed, Whole
<1>5. ASSUME NEW d \in Client, d # c
      PROVE  Dialogue(d)'
  BY <1>5 DEF IInv, TypeOK, Dialogue, Backed
<1> QED
  BY <1>1, <1>2, <1>3, <1>4, <1>5 DEF IInv

\* With packs that are not cut a lost request is all there or not at all.
LEMMA LoseKeeps ==
  ASSUME IInv, ~Cut, NEW c \in Client, Lose(c)
  PROVE  IInv'
<1>1. \/ req' = req
      \/ srv = "read" /\ lock = c /\ req' = Eof
  BY DEF Lose, Fates
<1>0. /\ pc' = [pc EXCEPT ![c] = "idle"] /\ job' = job /\ adv' = [adv EXCEPT ![c] = NoTips]
      /\ snap' = [snap EXCEPT ![c] = 0] /\ answer' = [answer EXCEPT ![c] = None]
      /\ UNCHANGED <<packs, lost, ref, past, lock, srv, shown, jobs, has, own, seen>>
      /\ job[c] \in Job /\ faults' \in 0..MaxFaults
  BY BoundAssumption DEF Lose, Quit, Goto, IInv, TypeOK, Dialogue
<1>2. Len(packs) \in Nat
  BY LenProperties DEF IInv, TypeOK
<1>3. TypeOK'
  BY <1>0, <1>1, EofFacts DEF IInv, TypeOK, PC, NoTips, Tip
<1>4. Served'
  BY <1>0, <1>1, EofFacts DEF IInv, Served
<1>5. Whole'
  BY <1>0, <1>1, EofFacts, KnownStays DEF IInv, Whole, Applying
<1>6. Dialogue(c)'
  BY <1>0, <1>2 DEF IInv, TypeOK, Dialogue, Backed, NoTips
<1>7. ASSUME NEW d \in Client, d # c
      PROVE  Dialogue(d)'
  BY <1>0, <1>1, <1>7 DEF IInv, TypeOK, Dialogue, Backed
<1> QED
  BY <1>3, <1>4, <1>5, <1>6, <1>7 DEF IInv

----------------------------------------------------------------------------
\* The server

LEMMA ServerPostKeeps ==
  ASSUME IInv, NEW b \in Branch, NEW x \in Commit, ServerPost(b, x)
  PROVE  IInv'
<1> USE DEF ServerPost, client, bounds
<1>1. Known' = Known \cup {x} /\ packs' \in Seq(SUBSET Commit) /\ Len(packs') = Len(packs) + 1
  <2>1. {x} \in SUBSET Commit /\ packs \in Seq(SUBSET Commit) /\ packs' = Append(packs, {x})
    BY DEF IInv, TypeOK
  <2> QED
    BY <2>1, HeldGrows DEF Known
<1>2. Len(packs) \in Nat
  BY LenProperties DEF IInv, TypeOK
<1>3. TypeOK'
  BY <1>1 DEF IInv, TypeOK, Tip
<1>4. Served'
  BY TrunkAssumption DEF IInv, TypeOK, Served
<1>5. Whole'
  <2>1. Parents[x] \subseteq Known
    BY DEF Known
  <2> QED
    BY <1>1, <2>1 DEF IInv, TypeOK, Whole, Applying
<1>6. ASSUME NEW c \in Client
      PROVE  Dialogue(c)'
  BY <1>1, <1>2 DEF IInv, TypeOK, Dialogue, Backed, Job
<1> QED
  BY <1>3, <1>4, <1>5, <1>6 DEF IInv

LEMMA LeaveKeeps ==
  ASSUME IInv, Leave, UNCHANGED <<packs, lost, ref, past, has, own, seen, pc, job, adv, snap, jobs>>,
         faults' \in 0..MaxFaults, answer' \in [Client -> {None, "ok", "ng"}],
         \A c \in Client : \/ answer'[c] = answer[c]
                           \/ pc[c] = "wait" /\ Backed(c)
  PROVE  IInv'
<1> USE DEF Leave
<1>1. TypeOK'
  BY DEF IInv, TypeOK, NoTips, Tip
<1>2. Served'
  BY DEF IInv, Served
<1>3. Whole'
  BY KnownStays DEF IInv, Whole, Applying
<1>4. ASSUME NEW c \in Client
      PROVE  Dialogue(c)'
  <2>1. c # None
    BY PartyAssumption
  <2> QED
    BY <2>1 DEF IInv, TypeOK, Dialogue, Backed
<1> QED
  BY <1>1, <1>2, <1>3, <1>4 DEF IInv

LEMMA ServerReadKeeps ==
  ASSUME IInv, ServerRead
  PROVE  IInv'
<1> USE DEF ServerRead, client, bounds
<1>1. CASE req.eof
  BY <1>1, LeaveKeeps DEF IInv, TypeOK
<1>2. CASE ~req.eof
  <2>1. TypeOK'
    BY <1>2 DEF IInv, TypeOK
  <2>2. Served'
    BY <1>2 DEF IInv, Served
  <2>3. Whole'
    BY <1>2, KnownStays DEF IInv, Whole, Applying
  <2>4. ASSUME NEW c \in Client
        PROVE  Dialogue(c)'
    BY <1>2 DEF IInv, TypeOK, Dialogue, Backed
  <2> QED
    BY <2>1, <2>2, <2>3, <2>4 DEF IInv
<1> QED
  BY <1>1, <1>2

\* Whether the pack is stored or lost, the server knows its commits.
LEMMA IngestKnown ==
  ASSUME IInv, ServerIngest
  PROVE  /\ Known' = Known \cup req.pack /\ packs' \in Seq(SUBSET Commit)
         /\ Len(packs') >= Len(packs) /\ lost' \subseteq Commit
<1>0. /\ req \in Request /\ packs \in Seq(SUBSET Commit) /\ lost \subseteq Commit
      /\ Len(packs) \in Nat
  BY LenProperties DEF IInv, TypeOK, ServerIngest
<1>1. CASE req.pack = {} /\ packs' = packs /\ lost' = lost
  BY <1>0, <1>1, KnownStays
<1>2. CASE req.pack # {} /\ packs' = Append(packs, req.pack) /\ lost' = lost
  <2>1. req.pack \in SUBSET Commit
    BY <1>0 DEF Request
  <2>2. Held' = Held \cup req.pack /\ packs' \in Seq(SUBSET Commit)
        /\ Len(packs') = Len(packs) + 1
    BY <1>0, <1>2, <2>1, HeldGrows
  <2> QED
    BY <1>0, <1>2, <2>2 DEF Known
<1>3. CASE packs' = packs /\ lost' = lost \cup req.pack
  BY <1>0, <1>3 DEF Known, Held, Request
<1> QED
  BY <1>1, <1>2, <1>3 DEF ServerIngest

LEMMA ServerIngestKeeps ==
  ASSUME IInv, ServerIngest
  PROVE  IInv'
<1>0. req # None /\ req \in Request /\ ~req.eof /\ srv = "ingest"
  BY DEF IInv, TypeOK, Served, ServerIngest
<1>1. /\ srv' \in {"apply", "unpack_failed"} /\ faults' \in 0..MaxFaults
      /\ UNCHANGED <<ref, past, lock, shown, req, client, jobs>>
  BY BoundAssumption DEF IInv, TypeOK, ServerIngest
<1>2. /\ Known' = Known \cup req.pack /\ packs' \in Seq(SUBSET Commit)
      /\ Len(packs') >= Len(packs) /\ lost' \subseteq Commit
  BY IngestKnown
<1>3. Len(packs) \in Nat /\ Len(packs') \in Nat
  BY <1>2, LenProperties DEF IInv, TypeOK
<1> USE DEF client
<1>4. TypeOK'
  BY <1>0, <1>1, <1>2 DEF IInv, TypeOK
<1>5. Served'
  BY <1>0, <1>1 DEF IInv, Served
<1>6. Whole'
  BY <1>0, <1>1, <1>2 DEF IInv, Whole
<1>7. ASSUME NEW c \in Client
      PROVE  Dialogue(c)'
  BY <1>0, <1>1, <1>2, <1>3 DEF IInv, TypeOK, Dialogue, Backed
<1> QED
  BY <1>4, <1>5, <1>6, <1>7 DEF IInv

\* The value that is compared is the one the client was shown.
LEMMA NeverRefused ==
  ASSUME IInv, Applying
  PROVE  ~Refused
  BY DEF IInv, TypeOK, Served, Refused, Applying

LEMMA ServerApplyKeeps ==
  ASSUME IInv, ServerApply
  PROVE  IInv'
<1>0. req # None /\ req \in Request /\ ~req.eof /\ req.new \in Known \cup {None}
  BY DEF IInv, TypeOK, Served, Whole, ServerApply, Applying
<1>1. /\ ref' = [ref EXCEPT ![req.branch] = req.new]
      /\ past' = [past EXCEPT ![req.branch] = @ \cup ({req.new} \ {None})]
      /\ srv \in {"apply", "unpack_failed"} /\ srv' \in {"reply", "refuse"}
      /\ UNCHANGED <<packs, lost, lock, shown, req, client, bounds>>
  BY NeverRefused DEF ServerApply, Applying
<1>2. req.branch \in Branch /\ req.new \in Tip
  BY <1>0 DEF Request
<1> USE DEF client, bounds
<1>3. TypeOK'
  BY <1>0, <1>1, <1>2 DEF IInv, TypeOK, Tip
<1>4. Served'
  BY <1>0, <1>1, <1>2 DEF IInv, TypeOK, Served
<1>5. Known' = Known
  BY <1>1, KnownStays
<1>6. Whole'
  BY <1>0, <1>1, <1>2, <1>5 DEF IInv, TypeOK, Whole, Applying
<1>7. ASSUME NEW c \in Client
      PROVE  Dialogue(c)'
  BY <1>1, <1>2 DEF IInv, TypeOK, Dialogue, Backed, Job
<1> QED
  BY <1>3, <1>4, <1>6, <1>7 DEF IInv

LEMMA ServerReplyKeeps ==
  ASSUME IInv, ServerReply
  PROVE  IInv'
<1>1. lock \in Client /\ req # None
  BY DEF IInv, TypeOK, ServerReply
<1>2. ASSUME pc[lock] = "wait"
      PROVE  Backed(lock)
  BY <1>1, <1>2 DEF IInv, Served, Dialogue, Backed, ServerReply
<1>3. /\ answer' \in [Client -> {None, "ok", "ng"}]
      /\ \A c \in Client : c # lock => answer'[c] = answer[c]
      /\ \/ answer'[lock] = answer[lock]
         \/ pc[lock] = "wait"
  BY <1>1 DEF ServerReply, IInv, TypeOK
<1> QED
  BY <1>1, <1>2, <1>3, LeaveKeeps DEF ServerReply, IInv, TypeOK, bounds

LEMMA ServerDieKeeps ==
  ASSUME IInv, ServerDie
  PROVE  IInv'
<1>1. faults' \in 0..MaxFaults
  BY BoundAssumption DEF ServerDie, IInv, TypeOK
<1>2. answer' \in [Client -> {None, "ok", "ng"}]
  BY DEF ServerDie, client, IInv, TypeOK
<1> QED
  BY <1>1, <1>2, LeaveKeeps DEF ServerDie, client

----------------------------------------------------------------------------
\* Theorems

LEMMA NextKeeps ==
  ASSUME IInv, ~Cut, [Next]_vars
  PROVE  IInv'
<1>1. CASE UNCHANGED vars
  <2>1. Known' = Known
    BY <1>1, KnownStays DEF vars, server
  <2> QED
    BY <1>1, <2>1 DEF vars, server, client, bounds, IInv, TypeOK, Served, Whole, Dialogue,
       Backed, Applying
<1>2. ASSUME NEW b \in Branch, NEW x \in Commit, ServerPost(b, x)
      PROVE  IInv'
  BY <1>2, ServerPostKeeps
<1>3. ASSUME NEW c \in Client, NEW b \in Branch, NEW x \in Commit, ClientPost(c, b, x)
      PROVE  IInv'
  BY <1>3, ClientPostKeeps
<1>4. ASSUME NEW c \in Client, NEW b \in Branch, ClientTake(c, b)
      PROVE  IInv'
  BY <1>4, ClientTakeKeeps
<1>5. ASSUME NEW c \in Client, NEW b \in Branch, Post(c, b)
      PROVE  IInv'
  <2>1. own[c][b] \in Tip
    BY DEF IInv, TypeOK
  <2> QED
    BY <1>5, <2>1, BeginKeeps DEF Post
<1>6. ASSUME NEW c \in Client, NEW b \in Branch, Delete(c, b) \/ Fetch(c, b)
      PROVE  IInv'
  <2>1. None \in Tip
    BY DEF Tip
  <2> QED
    BY <1>6, <2>1, BeginKeeps DEF Delete, Fetch
<1>7. ASSUME NEW c \in Client,
             \/ Retry(c) \/ Accept(c) \/ AlreadyThere(c) \/ Send(c) \/ HangUp(c)
             \/ Hear(c) \/ Record(c) \/ Lose(c) \/ PeerGone(c)
      PROVE  IInv'
  BY <1>7, RetryKeeps, AcceptKeeps, AlreadyThereKeeps, SendKeeps, HangUpKeeps, HearKeeps,
     RecordKeeps, LoseKeeps, PeerGoneKeeps
<1>8. ASSUME NEW c \in Client,
             FetchAdvert(c) \/ FetchTake(c) \/ FetchRecord(c) \/ FetchFail(c)
      PROVE  IInv'
  BY <1>8, FetchAdvertKeeps, FetchTakeKeeps, FetchRecordKeeps, FetchFailKeeps
<1>9. CASE ServerRead \/ ServerIngest \/ ServerApply \/ ServerReply \/ ServerDie
  BY <1>9, ServerReadKeeps, ServerIngestKeeps, ServerApplyKeeps, ServerReplyKeeps,
     ServerDieKeeps
<1> QED
  BY <1>1, <1>2, <1>3, <1>4, <1>5, <1>6, <1>7, <1>8, <1>9 DEF Next

\* The inductive invariant of the dialogues (keeper/WIRE*.c, RECV.c).
THEOREM Invariance ==
  ASSUME ~Cut
  PROVE  Spec => []IInv
<1>1. IInv /\ [Next]_vars => IInv'
  BY NextKeeps
<1> QED
  BY InitIInv, <1>1, PTL DEF Spec

\* Every variable keeps its type; the server is at work exactly while a client
\* has its lock.
THEOREM TypeCorrect ==
  ASSUME ~Cut
  PROVE  Spec => []TypeOK
<1>1. IInv => TypeOK
  BY DEF IInv
<1> QED
  BY <1>1, Invariance, PTL

LEMMA IInvClosed == IInv => ServerClosed
<1> SUFFICES ASSUME IInv, NEW b \in Branch, ref[b] # None
             PROVE  Closure(ref[b]) \subseteq Known
  BY DEF ServerClosed, Known
<1>1. Known \in SUBSET Commit
  BY HeldFacts DEF IInv, TypeOK, Known
<1>2. {ref[b]} \subseteq Known /\ \A x \in Known : Parents[x] \subseteq Known
  BY DEF IInv, Whole
<1> QED
  BY <1>1, <1>2, ReachWithin DEF Closure

\* Every branch of the server leads only to commits the server holds or was sent
\* in a pack it failed to take in, for every history, whoever pushed and whatever
\* was lost on the way, if packs are not cut (RECV.c, WIRECLI.c).  The failed pack
\* is the exception the code makes: RECVServe moves the ref all the same.
THEOREM ServerAlwaysClosed ==
  ASSUME ~Cut
  PROVE  Spec => []ServerClosed
  BY IInvClosed, Invariance, PTL

\* A client's row for a peer's branch is a commit that branch has been at
\* (wcli_record_ref).
THEOREM PeerRowsTrue ==
  ASSUME ~Cut
  PROVE  Spec => []PeerRowTruth
<1>1. IInv => PeerRowTruth
  BY DEF IInv, Dialogue, PeerRowTruth
<1> QED
  BY <1>1, Invariance, PTL

LEMMA StepCompares ==
  ASSUME IInv, [Next]_vars, Applying, ref'[Trunk] # ref[Trunk]
  PROVE  ref[Trunk] = req.old
<1>1. ServerApply
  <2>1. lock # None
    BY DEF IInv, TypeOK, Applying
  <2>2. \A b \in Branch, x \in Commit : ServerPost(b, x) => ref'[Trunk] = ref[Trunk]
    BY <2>1, TrunkAssumption DEF ServerPost, IInv, TypeOK
  <2> QED
    BY <2>2 DEF Next, vars, server, ClientPost, ClientTake, Post, Delete, Fetch, Begin, Retry,
       Accept, AlreadyThere, Send, HangUp, Hear, Record, Lose, PeerGone, FetchAdvert,
       FetchTake, FetchRecord, FetchFail, ServerRead, ServerIngest, ServerReply, ServerDie
<1>2. ref' = [ref EXCEPT ![req.branch] = req.new]
  BY <1>1, NeverRefused DEF ServerApply
<1>3. req.branch = Trunk
  BY <1>2, TrunkAssumption DEF IInv, TypeOK
<1>4. req # None /\ ~req.eof
  BY DEF IInv, TypeOK, Served, Applying
<1> QED
  BY <1>3, <1>4 DEF IInv, Served, Applying

\* A push moves the trunk only from the commit its client named, which no check
\* of the code ensures but the lock it holds since it read the refs (RECV.c).
THEOREM TrunkAlwaysCompared ==
  ASSUME ~Cut
  PROVE  Spec => TrunkCompared
<1>1. IInv /\ [Next]_vars =>
        [Applying /\ ref'[Trunk] # ref[Trunk] => ref[Trunk] = req.old]_vars
  BY StepCompares
<1> QED
  BY <1>1, Invariance, PTL DEF Spec, TrunkCompared

----------------------------------------------------------------------------
\* The end of a push

\* What is pushed is a commit.
Told(c) ==
  /\ pc[c] \in {"ask", "take", "row"} => job[c].op = "fetch"
  /\ job[c] # None /\ job[c].op = "push" => job[c].tip # None

Final == \A c \in Client : Told(c)

LEMMA InitFinal == Init => Final
  BY DEF Init, Final, Told

\* A client that ends
LEMMA QuitFinal ==
  ASSUME IInv, Final, NEW c \in Client, NEW j \in {job[c], None}, Quit(c, j)
  PROVE  Final'
<1>1. \A d \in Client : d # c => pc'[d] = pc[d] /\ job'[d] = job[d]
  BY DEF IInv, TypeOK, Quit, Goto
<1>2. pc'[c] = "idle" /\ job'[c] = j
  BY DEF IInv, TypeOK, Quit, Goto
<1> QED
  BY <1>1, <1>2 DEF Final, Told

\* A client that goes on with the command it is about
LEMMA GoesOnFinal ==
  ASSUME IInv, Final, NEW c \in Client, NEW l \in PC, Goto(c, l), UNCHANGED job,
         l \in {"ask", "take", "row"} => pc[c] \in {"ask", "take", "row"}
  PROVE  Final'
<1>1. \A d \in Client : d # c => pc'[d] = pc[d]
  BY DEF IInv, TypeOK, Goto
<1>2. pc'[c] = l
  BY DEF IInv, TypeOK, Goto
<1> QED
  BY <1>1, <1>2 DEF Final, Told

LEMMA BeginFinal ==
  ASSUME IInv, Final, NEW c \in Client, NEW op \in {"push", "delete", "fetch"},
         NEW b \in Branch, NEW x \in Tip, NEW l \in {"dial", "ask"},
         op = "push" => x # None, l = "ask" => op = "fetch",
         Begin(c, op, b, x), Goto(c, l)
  PROVE  Final'
<1>1. /\ \A d \in Client : d # c => pc'[d] = pc[d] /\ job'[d] = job[d]
      /\ pc'[c] = l /\ job'[c] = [op |-> op, branch |-> b, tip |-> x]
  BY DEF IInv, TypeOK, Begin, Goto
<1> QED
  BY <1>1 DEF Final, Told

LEMMA ServerFinal ==
  ASSUME Final, ServerRead \/ ServerIngest \/ ServerApply \/ ServerReply \/ ServerDie
  PROVE  Final'
  BY DEF ServerRead, ServerIngest, ServerApply, ServerReply, ServerDie, client, Final, Told

LEMMA NextFinal ==
  ASSUME IInv, Final, [Next]_vars
  PROVE  Final'
<1>1. CASE UNCHANGED vars
  BY <1>1 DEF vars, server, client, Final, Told
<1>2. ASSUME NEW b \in Branch, NEW x \in Commit, ServerPost(b, x)
      PROVE  Final'
  BY <1>2 DEF ServerPost, client, Final, Told
<1>3. ASSUME NEW c \in Client, NEW b \in Branch, NEW x \in Commit,
             ClientPost(c, b, x)
      PROVE  Final'
  BY <1>3 DEF ClientPost, server, Final, Told
<1>4. ASSUME NEW c \in Client, NEW b \in Branch, ClientTake(c, b)
      PROVE  Final'
  BY <1>4 DEF ClientTake, server, Final, Told
<1>5. ASSUME NEW c \in Client, NEW b \in Branch, Post(c, b)
      PROVE  Final'
  <2>1. own[c][b] \in Tip /\ own[c][b] # None
    BY <1>5 DEF Post, IInv, TypeOK
  <2> QED
    BY <1>5, <2>1, BeginFinal DEF Post
<1>6. ASSUME NEW c \in Client, NEW b \in Branch, Delete(c, b) \/ Fetch(c, b)
      PROVE  Final'
  <2>1. None \in Tip
    BY DEF Tip
  <2> QED
    BY <1>6, <2>1, BeginFinal DEF Delete, Fetch
<1>7. ASSUME NEW c \in Client,
             Retry(c) \/ Accept(c) \/ AlreadyThere(c) \/ Send(c) \/ FetchTake(c)
      PROVE  Final'
  <2>1. /\ UNCHANGED job
        /\ \/ Goto(c, "dial") \/ Goto(c, "push") \/ Goto(c, "record") \/ Goto(c, "wait")
           \/ Goto(c, "row") /\ pc[c] = "take"
    BY <1>7 DEF Retry, Accept, AlreadyThere, Send, FetchTake
  <2> QED
    BY <2>1, GoesOnFinal DEF PC
<1>8. ASSUME NEW c \in Client,
             HangUp(c) \/ Record(c) \/ Lose(c) \/ PeerGone(c) \/ FetchRecord(c) \/ FetchFail(c)
      PROVE  Final'
  <2>1. Quit(c, None) \/ Quit(c, job[c])
    BY <1>8 DEF HangUp, Record, Lose, PeerGone, FetchRecord, FetchFail, Failed
  <2> QED
    BY <2>1, QuitFinal
<1>9. ASSUME NEW c \in Client, Hear(c) \/ FetchAdvert(c)
      PROVE  Final'
  <2>1. CASE Quit(c, None)
    BY <2>1, QuitFinal
  <2>2. CASE ~Quit(c, None)
    BY <1>9, <2>2, GoesOnFinal DEF Hear, FetchAdvert, Failed, PC
  <2> QED
    BY <2>1, <2>2
<1>10. CASE ServerRead \/ ServerIngest \/ ServerApply \/ ServerReply \/ ServerDie
  BY <1>10, ServerFinal
<1> QED
  BY <1>1, <1>2, <1>3, <1>4, <1>5, <1>6, <1>7, <1>8, <1>9, <1>10 DEF Next

\* What a walk from several commits reaches is reached from one of them.
LEMMA ReachFromOne ==
  ASSUME NEW from \in SUBSET Commit, NEW T, NEW x \in Reach(from, T)
  PROVE  \E t \in from : x \in Closure(t)
<1> DEFINE S == {y \in Commit : \E t \in from : y \in Closure(t)}
<1>1. from \subseteq S
  <2> SUFFICES ASSUME NEW t \in from
               PROVE  t \in Closure(t)
    OBVIOUS
  <2>1. {t} \in SUBSET Commit
    OBVIOUS
  <2> QED
    BY <2>1, ReachFrom DEF Closure
<1>2. \A c \in S \cap T : Parents[c] \subseteq S
  <2> SUFFICES ASSUME NEW c \in S, NEW p \in Parents[c]
               PROVE  p \in S
    OBVIOUS
  <2>1. PICK t \in from : c \in Closure(t)
    OBVIOUS
  <2>2. c \in Commit
    OBVIOUS
  <2>3. Parents[c] \subseteq Closure(t)
    BY <2>1, <2>2, ReachParents DEF Closure
  <2>4. p \in Commit
    BY <2>2, CommitAssumption
  <2> QED
    BY <2>3, <2>4
<1> HIDE DEF S
<1>3. S \in SUBSET Commit
  BY DEF S
<1>4. x \in S
  BY <1>1, <1>2, <1>3, ReachWithin
<1> QED
  BY <1>4 DEF S

\* A client that has the history of what it pushes hangs up only on a commit
\* an advertised tip leads to.
LEMMA NothingToSend ==
  ASSUME IInv, NEW c \in Client, NEW x \in Commit, Closure(x) \subseteq has[c],
         ToSend(c, x) = {} \/ ~ (ToSend(c, x) \subseteq has[c])
  PROVE  \E b \in Branch : \E t \in past[b] : x \in Closure(t)
<1> DEFINE walk == Reach({x}, has[c] \ HaveSet(c))
<1>1. ToSend(c, x) = walk \ HaveSet(c)
  BY DEF ToSend
<1>2. walk \subseteq Closure(x)
  <2>1. {x} \subseteq Closure(x) /\ Closure(x) \in SUBSET Commit
    BY ReachFrom DEF Closure
  <2>2. \A y \in Closure(x) : Parents[y] \subseteq Closure(x)
    BY ReachParents DEF Closure, Reach
  <2> QED
    BY <2>1, <2>2, ReachWithin
<1>3. x \in walk
  BY ReachFrom
<1> HIDE DEF walk
<1>4. x \in HaveSet(c)
  BY <1>1, <1>2, <1>3
<1>5. Tips(adv[c]) \in SUBSET Commit
  BY DEF Tips, IInv, TypeOK, Tip
<1>6. PICK t \in Tips(adv[c]) : x \in Closure(t)
  BY <1>4, <1>5, ReachFromOne DEF HaveSet
<1>7. PICK b \in Branch : adv[c][b] = t /\ t # None
  BY DEF Tips
<1>8. t \in past[b]
  BY <1>7 DEF IInv, Dialogue
<1> QED
  BY <1>6, <1>8

\* A branch's history only grows.
LEMMA PastGrows ==
  ASSUME IInv, [Next]_vars, NEW b \in Branch
  PROVE  past[b] \subseteq past'[b]
<1>1. \/ past' = past
      \/ \E i \in Branch, x \in Commit : ServerPost(i, x)
      \/ ServerApply
  BY DEF Next, vars, server, ClientPost, ClientTake, Post, Delete, Fetch, Begin, Retry, Accept,
     AlreadyThere, Send, HangUp, Hear, Record, Lose, PeerGone, FetchAdvert, FetchTake,
     FetchRecord, FetchFail, ServerRead, ServerIngest, ServerReply, ServerDie
<1>2. ASSUME NEW i \in Branch, NEW x \in Commit, ServerPost(i, x)
      PROVE  past[b] \subseteq past'[b]
  BY <1>2 DEF ServerPost, IInv, TypeOK
<1>3. ASSUME ServerApply
      PROVE  past[b] \subseteq past'[b]
  <2>1. PICK i : i = req.branch
    OBVIOUS
  <2>2. PICK S : S = {req.new} \ {None}
    OBVIOUS
  <2>3. past' \in {past, [past EXCEPT ![i] = past[i] \cup S]}
    BY <1>3, <2>1, <2>2 DEF ServerApply
  <2> QED
    BY <2>3 DEF IInv, TypeOK
<1> QED
  BY <1>1, <1>2, <1>3

\* The steps that end a push
LEMMA PushEnds ==
  ASSUME IInv, Final, [Next]_vars, NEW c \in Client,
         job[c] # None, job'[c] = None, job[c].op = "push"
  PROVE  HangUp(c) \/ Record(c) \/ Hear(c)
<1>0. job \in [Client -> Job \cup {None}] /\ job' # job
  BY DEF IInv, TypeOK
<1>1. PICK d \in Client :
        \/ HangUp(d) \/ Hear(d) \/ Record(d)
        \/ FetchAdvert(d) \/ FetchRecord(d) \/ FetchFail(d)
        \/ job[d] = None /\ \E j : job' = [job EXCEPT ![d] = j]
  BY <1>0 DEF Next, vars, server, client, ServerPost, ClientPost, ClientTake, Post, Delete, Fetch,
     Begin, Retry, Accept, AlreadyThere, Send, Lose, PeerGone, Quit, FetchTake, ServerRead,
     ServerIngest, ServerApply, ServerReply, ServerDie
<1>2. d = c
  BY <1>0, <1>1 DEF HangUp, Hear, Record, FetchAdvert, FetchRecord, FetchFail, Failed, Quit
<1>3. ~ (FetchAdvert(c) \/ FetchRecord(c) \/ FetchFail(c))
  BY DEF FetchAdvert, FetchRecord, FetchFail, Final, Told
<1> QED
  BY <1>1, <1>2, <1>3

LEMMA StepArrives ==
  ASSUME IInv, Final, [Next]_vars, NEW c \in Client,
         job[c] # None, job'[c] = None, job[c].op = "push", Closure(job[c].tip) \subseteq has[c]
  PROVE  \E b \in Branch : \E t \in past'[b] : job[c].tip \in Closure(t)
<1>1. PICK x \in Commit : x = job[c].tip
  BY DEF IInv, Dialogue, Job, Tip, Final, Told
<1>2. \E b \in Branch : \E t \in past[b] : x \in Closure(t)
  <2>1. CASE HangUp(c)
    BY <1>1, <2>1, NothingToSend DEF HangUp, CanSend
  <2>2. CASE Record(c) \/ Hear(c)
    <3>1. x \in past[job[c].branch] /\ job[c].branch \in Branch
      BY <1>1, <2>2, CommitAssumption DEF Record, Hear, IInv, Dialogue, Backed, Job
    <3>2. x \in Closure(x)
      BY ReachFrom DEF Closure
    <3> QED
      BY <3>1, <3>2
  <2> QED
    BY <2>1, <2>2, PushEnds
<1> QED
  BY <1>1, <1>2, PastGrows

\* When a push is over, a branch of the server has led to its commit, for every
\* history, if the client has that commit's history: only a row that was moved,
\* or an advertised tip that leads there already, ends it (WIREPush).
THEOREM PushAlwaysArrives ==
  ASSUME ~Cut
  PROVE  Spec => PushArrives
<1>1. IInv /\ Final /\ [Next]_vars => Final'
  BY NextFinal
<1>2. IInv /\ Final /\ [Next]_vars =>
        [\A c \in Client :
           LET x == job[c].tip
           IN  (/\ job[c] # None /\ job'[c] = None /\ job[c].op = "push"
                /\ Closure(x) \subseteq has[c])
                 => \E b \in Branch : \E t \in past'[b] : x \in Closure(t)]_vars
  BY StepArrives
<1> QED
  BY <1>1, <1>2, InitFinal, Invariance, PTL DEF Spec, PushArrives
=============================================================================
