----------------------------- MODULE ULog_proofs -----------------------------
(***************************************************************************)
(* The properties of ULog for every set of verbs and keys, every page size *)
(* and every bound, provided no session dies between ULOGTruncate and its  *)
(* close.  They all follow from the inductive invariant IInv of ULog.      *)
(***************************************************************************)
EXTENDS ULog, SequenceTheorems, TLAPS

----------------------------------------------------------------------------
\* Slots and sidecars

LEMMA ZeroSlot == Zero \in Slot
  BY BoundAssumption DEF Zero, Slot

LEMMA PageFacts ==
  ASSUME NEW n \in Nat
  PROVE  Pages(n) \in Nat /\ Pages(n) >= n
  BY PageAssumption DEF Pages

\* Fit keeps what is there and fills the rest of the last page with zeros.
LEMMA FitFacts ==
  ASSUME NEW s \in Seq(Slot), NEW n \in Nat, n >= Len(s)
  PROVE  /\ Fit(s, n) \in Seq(Slot)
         /\ Len(Fit(s, n)) >= n
         /\ \A j \in 1..Len(s) : Fit(s, n)[j] = s[j]
         /\ \A j \in Len(s) + 1..Len(Fit(s, n)) : Fit(s, n)[j] = Zero
<1>1. Pages(n) \in Nat /\ Pages(n) >= n
  BY PageFacts
<1>2. Len(s) \in Nat /\ \A j \in 1..Len(s) : s[j] \in Slot
  BY LenProperties, ElementOfSeq
<1>3. Fit(s, n) \in [1..Pages(n) -> Slot]
  BY <1>1, <1>2, ZeroSlot DEF Fit
<1>4. Fit(s, n) \in Seq(Slot) /\ Len(Fit(s, n)) = Pages(n)
  BY <1>1, <1>3, SeqDef, LenProperties
<1> QED
  BY <1>1, <1>2, <1>4 DEF Fit

\* A store changes one slot; the slots a new page adds are zero.
Filed(s, i, x, t) ==
  /\ t \in Seq(Slot) /\ Len(t) >= i /\ Len(t) >= Len(s)
  /\ t[i] = x
  /\ \A j \in 1..Len(s) : j # i => t[j] = s[j]
  /\ \A j \in Len(s) + 1..Len(t) : j # i => t[j] = Zero

LEMMA StoreFacts ==
  ASSUME NEW s \in Seq(Slot), NEW i \in 1..Len(s) + 1, NEW x \in Slot
  PROVE  Filed(s, i, x, Store(s, i, x))
<1> DEFINE g == Grown(s, i)
<1>1. Len(s) \in Nat
  BY LenProperties
<1>2. /\ g \in Seq(Slot) /\ Len(g) >= i /\ Len(g) >= Len(s)
      /\ \A j \in 1..Len(s) : g[j] = s[j]
      /\ \A j \in Len(s) + 1..Len(g) : g[j] = Zero
  <2>1. CASE i <= Len(s)
    BY <1>1, <2>1 DEF Grown
  <2>2. CASE i > Len(s)
    <3>1. i \in Nat /\ i >= Len(s) /\ g = Fit(s, i)
      BY <1>1, <2>2 DEF Grown
    <3> QED
      BY <1>1, <2>2, <3>1, FitFacts, LenProperties
  <2> QED
    BY <1>1, <2>1, <2>2
<1>3. Len(g) \in Nat /\ i \in 1..Len(g)
  BY <1>1, <1>2, LenProperties
<1>4. /\ [g EXCEPT ![i] = x] \in Seq(Slot)
      /\ Len([g EXCEPT ![i] = x]) = Len(g)
      /\ \A j \in 1..Len(g) : [g EXCEPT ![i] = x][j] = IF j = i THEN x ELSE g[j]
  BY <1>2, <1>3, ExceptSeq
<1>5. Store(s, i, x) = [g EXCEPT ![i] = x]
  BY DEF Store
<1> HIDE DEF g
<1> QED
  BY <1>1, <1>2, <1>3, <1>4, <1>5 DEF Filed

\* What TypeOK says of the elements of the log and of the sidecar.
LEMMA Elements ==
  ASSUME TypeOK
  PROVE  /\ Len(log) \in Nat /\ DOMAIN log = 1..Len(log)
         /\ \A i \in 1..Len(log) :
              log[i] \in Row /\ log[i].ts \in 1..MaxTs /\ Entry(i) \in Slot
         /\ Len(side) \in Nat /\ DOMAIN side = 1..Len(side)
         /\ \A i \in 1..Len(side) : side[i] \in Slot
         /\ \A m \in 0..MaxTs : Sentinel(m, Len(log)) \in Slot
<1>1. Len(log) \in Nat /\ DOMAIN log = 1..Len(log) /\ Len(log) <= MaxRows
  BY LenProperties DEF TypeOK
<1>2. \A i \in 1..Len(log) : log[i] \in Row
  BY ElementOfSeq DEF TypeOK
<1>3. Len(side) \in Nat /\ DOMAIN side = 1..Len(side)
  BY LenProperties DEF TypeOK
<1>4. \A i \in 1..Len(side) : side[i] \in Slot
  BY ElementOfSeq DEF TypeOK
<1>5. \A i \in 1..Len(log) : log[i].ts \in 1..MaxTs /\ log[i].verb \in Verb
  BY <1>2 DEF Row
<1>6. \A i \in 1..Len(log) : Entry(i) \in Slot
  BY <1>1, <1>5, BoundAssumption DEF Entry, Slot
<1>7. \A m \in 0..MaxTs : Sentinel(m, Len(log)) \in Slot
  BY <1>1, BoundAssumption DEF Sentinel, Slot
<1> QED
  BY <1>1, <1>2, <1>3, <1>4, <1>5, <1>6, <1>7

\* An entry stored where the index ends extends it and keeps the shape.
LEMMA EntryStored ==
  ASSUME TypeOK, NEW i \in 1..Len(log), Indexes(side, i - 1)
  PROVE  LET t == Store(side, i, Entry(i))
         IN  /\ t \in Seq(Slot) /\ Len(t) >= Len(side)
             /\ Indexes(t, i)
             /\ Shaped(side) => Shaped(t)
<1> DEFINE t == Store(side, i, Entry(i))
<1>1. /\ Len(log) \in Nat /\ Len(side) \in Nat /\ side \in Seq(Slot)
      /\ i \in 1..Len(side) + 1 /\ Entry(i) \in Slot
  BY Elements DEF TypeOK, Indexes
<1>2. /\ t \in Seq(Slot) /\ Len(t) >= i /\ Len(t) >= Len(side)
      /\ t[i] = Entry(i)
      /\ \A j \in 1..Len(side) : j # i => t[j] = side[j]
      /\ \A j \in Len(side) + 1..Len(t) : j # i => t[j] = Zero
  <2>1. Filed(side, i, Entry(i), t)
    BY <1>1, StoreFacts
  <2> HIDE DEF t
  <2> QED
    BY <2>1 DEF Filed
<1>3. Len(t) \in Nat /\ DOMAIN t = 1..Len(t) /\ DOMAIN side = 1..Len(side)
  BY <1>1, <1>2, LenProperties
<1> HIDE DEF t
<1>4. Indexes(t, i)
  BY <1>1, <1>2, <1>3 DEF Indexes
<1>5. ASSUME Shaped(side) PROVE Shaped(t)
  <2> SUFFICES ASSUME NEW k \in DOMAIN t, t[k] # Zero
               PROVE  /\ k <= Len(log) + 1 /\ Indexes(t, k - 1)
                      /\ \/ k <= Len(log) /\ t[k] = Entry(k)
                         \/ t[k].verb = None /\ t[k].off = k - 1
    BY DEF Shaped
  <2>1. CASE k <= i
    BY <1>1, <1>2, <1>3, <1>4, <2>1, <1>5 DEF Indexes, Shaped
  <2>2. CASE k > i
    <3>1. k \in DOMAIN side /\ side[k] # Zero /\ t[k] = side[k]
      BY <1>1, <1>2, <1>3, <2>2
    <3> QED
      BY <1>1, <1>2, <1>3, <1>5, <3>1 DEF Indexes, Shaped
  <2> QED
    BY <1>1, <1>3, <2>1, <2>2
<1> QED
  BY <1>2, <1>4, <1>5 DEF t

\* So does a sentinel stored after the last row's entry.
LEMMA SentinelStored ==
  ASSUME TypeOK, Indexes(side, Len(log)), NEW m \in 0..MaxTs
  PROVE  LET t == Store(side, Len(log) + 1, Sentinel(m, Len(log)))
         IN  /\ t \in Seq(Slot) /\ Len(t) >= Len(log) + 1
             /\ Indexes(t, Len(log))
             /\ t[Len(log) + 1] = Sentinel(m, Len(log))
             /\ Shaped(side) => Shaped(t)
<1> DEFINE n == Len(log)
           x == Sentinel(m, n)
           i == n + 1
           t == Store(side, i, x)
<1>1. /\ n \in Nat /\ Len(side) \in Nat /\ side \in Seq(Slot)
      /\ i \in 1..Len(side) + 1 /\ x \in Slot
      /\ x.verb = None /\ x.off = n /\ i = n + 1 /\ Indexes(side, n)
  BY Elements DEF TypeOK, Indexes, Sentinel
<1> HIDE DEF n, x, i
<1>2. /\ t \in Seq(Slot) /\ Len(t) >= i /\ Len(t) >= Len(side)
      /\ t[i] = x
      /\ \A j \in 1..Len(side) : j # i => t[j] = side[j]
      /\ \A j \in Len(side) + 1..Len(t) : j # i => t[j] = Zero
  <2>1. side \in Seq(Slot) /\ i \in 1..Len(side) + 1 /\ x \in Slot
    BY <1>1
  <2>2. Filed(side, i, x, t)
    BY <2>1, StoreFacts DEF t
  <2> QED
    BY <2>2 DEF Filed
<1>3. Len(t) \in Nat /\ DOMAIN t = 1..Len(t) /\ DOMAIN side = 1..Len(side)
  BY <1>1, <1>2, LenProperties
<1> HIDE DEF t
<1>4. Indexes(t, n)
  BY <1>1, <1>2, <1>3 DEF Indexes
<1>5. ASSUME Shaped(side) PROVE Shaped(t)
  <2> SUFFICES ASSUME NEW k \in DOMAIN t, t[k] # Zero
               PROVE  /\ k <= n + 1 /\ Indexes(t, k - 1)
                      /\ \/ k <= n /\ t[k] = Entry(k)
                         \/ t[k].verb = None /\ t[k].off = k - 1
    BY DEF Shaped, n
  <2>1. CASE k <= n + 1
    BY <1>1, <1>2, <1>3, <1>4, <2>1 DEF Indexes
  <2>2. CASE k > n + 1
    <3>1. k \in DOMAIN side /\ side[k] # Zero
      BY <1>1, <1>2, <1>3, <2>2
    <3> QED
      BY <1>1, <1>3, <1>5, <2>2, <3>1 DEF Shaped, n
  <2> QED
    BY <1>1, <1>3, <2>1, <2>2
<1> QED
  BY <1>2, <1>4, <1>5 DEF t, n, x, i

----------------------------------------------------------------------------
\* The inductive invariant, action by action

LEMMA InitIInv == Init => IInv
<1> SUFFICES ASSUME Init PROVE IInv
  OBVIOUS
<1>1. TypeOK
  <2>1. /\ log \in Seq(Row) /\ tmp \in Seq(Row) /\ side \in Seq(Slot)
        /\ Len(log) = 0
    BY EmptySeq DEF Init
  <2>2. rec \in Row \cup {None} /\ filter \in Verb \cup {None}
    BY DEF Init
  <2>3. /\ pc \in PC
        /\ torn \in BOOLEAN /\ cut \in BOOLEAN /\ clean \in BOOLEAN
    BY DEF Init, PC
  <2>4. /\ mtime \in 0..MaxTs /\ clock \in 1..MaxTs /\ seen \in 0..MaxTs
        /\ used \in 0..MaxRows + 1 /\ pos \in 0..MaxRows + 1
        /\ Len(log) <= MaxRows
    BY <2>1, BoundAssumption DEF Init
  <2> QED
    BY <2>1, <2>2, <2>3, <2>4 DEF TypeOK
<1>2. Monotone /\ SlotShape
  BY EmptySeq DEF Init, Monotone, A!Increasing, SlotShape, Shaped
<1>3. SessionShape /\ PendingRow /\ CopyShape /\ CleanShape /\ CleanCloseTrusted
  BY DEF Init, SessionShape, PendingRow, CopyShape, CleanShape,
         CleanCloseTrusted, Settled
<1> QED
  BY <1>1, <1>2, <1>3 DEF IInv

LEMMA OpenLogIInv == IInv /\ OpenLog => IInv'
<1> SUFFICES ASSUME IInv, OpenLog PROVE IInv'
  OBVIOUS
<1> USE DEF IInv, OpenLog, work
<1>1. TypeOK'
  <2>1. mtime' \in 0..MaxTs /\ seen' \in 0..MaxTs
    BY DEF TypeOK
  <2>2. pc' \in PC /\ clean' \in BOOLEAN
    BY DEF PC
  <2> QED
    BY <2>1, <2>2 DEF TypeOK
<1>2. Monotone' /\ SlotShape'
  BY DEF Monotone, SlotShape, Shaped, Indexes, Entry
<1>3. SessionShape'
  BY BoundAssumption DEF SessionShape, Settled, Indexes, Entry, TypeOK
<1>4. PendingRow' /\ CopyShape' /\ CleanShape' /\ CleanCloseTrusted'
  BY DEF PendingRow, CopyShape, CleanShape, CleanCloseTrusted, SessionShape, Settled
<1> QED
  BY <1>1, <1>2, <1>3, <1>4

\* Growing the sidecar to a whole page adds padding only.
LEMMA FitShape ==
  ASSUME TypeOK
  PROVE  LET t == Fit(side, Len(side))
         IN  /\ t \in Seq(Slot) /\ Len(t) >= Len(side)
             /\ \A j \in 1..Len(side) : t[j] = side[j]
             /\ \A n \in Nat : Indexes(side, n) => Indexes(t, n)
             /\ Shaped(side) => Shaped(t)
<1> DEFINE t == Fit(side, Len(side))
<1>1. side \in Seq(Slot) /\ Len(side) \in Nat /\ Len(log) \in Nat
  BY Elements DEF TypeOK
<1>2. /\ t \in Seq(Slot) /\ Len(t) >= Len(side)
      /\ \A j \in 1..Len(side) : t[j] = side[j]
      /\ \A j \in Len(side) + 1..Len(t) : t[j] = Zero
  BY <1>1, FitFacts
<1>3. Len(t) \in Nat /\ DOMAIN t = 1..Len(t) /\ DOMAIN side = 1..Len(side)
  BY <1>1, <1>2, LenProperties
<1> HIDE DEF t
<1>4. \A n \in Nat : Indexes(side, n) => Indexes(t, n)
  BY <1>1, <1>2, <1>3 DEF Indexes
<1>5. ASSUME Shaped(side) PROVE Shaped(t)
  <2> SUFFICES ASSUME NEW k \in DOMAIN t, t[k] # Zero
               PROVE  /\ k <= Len(log) + 1 /\ Indexes(t, k - 1)
                      /\ \/ k <= Len(log) /\ t[k] = Entry(k)
                         \/ t[k].verb = None /\ t[k].off = k - 1
    BY DEF Shaped
  <2>1. k \in DOMAIN side /\ side[k] # Zero /\ t[k] = side[k] /\ k - 1 \in Nat
    BY <1>1, <1>2, <1>3
  <2> QED
    BY <1>1, <1>4, <1>5, <2>1 DEF Shaped
<1> QED
  BY <1>2, <1>4, <1>5 DEF t

LEMMA TrustIdxIInv == IInv /\ TrustIdx => IInv'
<1> SUFFICES ASSUME IInv, TrustIdx PROVE IInv'
  OBVIOUS
<1> USE DEF IInv, TrustIdx, work, file
<1>1. /\ Len(log) \in Nat /\ Len(log) <= MaxRows
      /\ Len(side) \in Nat /\ DOMAIN side = 1..Len(side)
  BY Elements DEF TypeOK
<1>2. ~cut /\ pos = 0 /\ ~clean
  BY DEF SessionShape, Settled, CopyShape, CleanShape
\* The last slot is not padding, so it is a row's entry or a sentinel; an
\* entry's offset lies before the end of the log.
<1>3. /\ Len(side) = Len(log) + 1 /\ side[Len(side)].off = Len(log)
      /\ Indexes(side, Len(log))
  <2>1. Len(side) \in DOMAIN side /\ side[Len(side)] # Zero
    BY <1>1, EmptySeq DEF IsFresh, Zero, TypeOK
  <2>2. side[Len(side)].off = Len(log)
    BY DEF IsFresh
  <2>3. /\ Indexes(side, Len(side) - 1) /\ Len(side) <= Len(log) + 1
        /\ \/ Len(side) <= Len(log) /\ side[Len(side)] = Entry(Len(side))
           \/ side[Len(side)].off = Len(side) - 1
    BY <1>2, <2>1 DEF SlotShape, Shaped
  <2>4. Entry(Len(side)).off = Len(side) - 1
    BY DEF Entry
  <2>5. Len(side) = Len(log) + 1
    BY <1>1, <2>2, <2>3, <2>4
  <2> QED
    BY <1>1, <2>2, <2>3, <2>5
<1>4. /\ side' \in Seq(Slot) /\ Len(side') >= Len(side)
      /\ side'[Len(side)] = side[Len(side)]
      /\ Indexes(side', Len(log)) /\ Shaped(side')
  BY <1>1, <1>2, <1>3, FitShape DEF SlotShape
<1>5. TypeOK'
  BY <1>1, <1>3, <1>4, BoundAssumption DEF TypeOK, PC
<1>6. Monotone' /\ SlotShape'
  BY <1>4 DEF Monotone, SlotShape, Shaped, Indexes, Entry
<1>7. SessionShape'
  BY <1>1, <1>2, <1>3, <1>4 DEF SessionShape, Settled, Indexes, Entry
<1>8. PendingRow' /\ CopyShape' /\ CleanShape' /\ CleanCloseTrusted'
  BY <1>2 DEF PendingRow, CopyShape, CleanShape, CleanCloseTrusted
<1> QED
  BY <1>5, <1>6, <1>7, <1>8

LEMMA RebuildIdxIInv == IInv /\ RebuildIdx => IInv'
<1> SUFFICES ASSUME IInv, RebuildIdx PROVE IInv'
  OBVIOUS
<1> USE DEF IInv, RebuildIdx, work, file
<1>1. Len(log) \in Nat /\ Len(side) \in Nat
  BY Elements
<1>2. ~cut /\ pos = 0 /\ ~clean
  BY DEF SessionShape, Settled, CopyShape, CleanShape
<1>3. /\ side' \in Seq(Slot) /\ Len(side') >= Len(side) /\ Len(side') \in Nat
      /\ Shaped(side')
  BY <1>2, FitShape, LenProperties DEF SlotShape
<1>4. TypeOK'
  BY <1>3, BoundAssumption DEF TypeOK, PC
<1>5. Monotone' /\ SlotShape'
  BY <1>3 DEF Monotone, SlotShape, Shaped, Indexes, Entry
<1>6. SessionShape'
  BY <1>1, <1>2, <1>3 DEF SessionShape, Settled, Indexes, Entry
<1>7. PendingRow' /\ CopyShape' /\ CleanShape' /\ CleanCloseTrusted'
  BY <1>2 DEF PendingRow, CopyShape, CleanShape, CleanCloseTrusted
<1> QED
  BY <1>4, <1>5, <1>6, <1>7

LEMMA RebuildStepIInv == IInv /\ RebuildStep => IInv'
<1> SUFFICES ASSUME IInv, RebuildStep PROVE IInv'
  OBVIOUS
<1> USE DEF IInv, work, file
<1>1. /\ Len(log) \in Nat /\ Len(log) <= MaxRows /\ used \in Nat
      /\ used <= Len(log) /\ Indexes(side, used)
  BY Elements, BoundAssumption DEF TypeOK, SessionShape, RebuildStep
<1>2. ~cut /\ pos = 0 /\ ~clean
  BY DEF SessionShape, Settled, CopyShape, CleanShape, RebuildStep
<1>3. PendingRow' /\ CopyShape' /\ CleanShape' /\ CleanCloseTrusted'
  BY <1>2 DEF PendingRow, CopyShape, CleanShape, CleanCloseTrusted, RebuildStep
<1>4. CASE used < Len(log)
  <2>1. used' = used + 1 /\ pc' = "rebuild"
    BY <1>4 DEF RebuildStep
  <2>2. side' \in Seq(Slot) /\ Indexes(side', used + 1) /\ Shaped(side')
    <3>1. used + 1 \in 1..Len(log) /\ Indexes(side, (used + 1) - 1)
      BY <1>1, <1>4
    <3>2. side' = Store(side, used + 1, Entry(used + 1))
      BY <1>4 DEF RebuildStep
    <3> QED
      BY <1>2, <3>1, <3>2, EntryStored DEF SlotShape
  <2>3. TypeOK'
    BY <1>1, <1>4, <2>1, <2>2, BoundAssumption DEF TypeOK, PC, RebuildStep
  <2>4. Monotone' /\ SlotShape'
    BY <2>2 DEF Monotone, SlotShape, Shaped, Indexes, Entry, RebuildStep
  <2>5. SessionShape'
    BY <1>1, <1>2, <1>4, <2>1, <2>2
    DEF SessionShape, Settled, Indexes, Entry, RebuildStep
  <2> QED
    BY <1>3, <2>3, <2>4, <2>5
<1>5. CASE used = Len(log)
  <2>1. used' = Len(log) + 1 /\ pc' = "open"
    BY <1>1, <1>5 DEF RebuildStep
  <2>2. /\ side' \in Seq(Slot) /\ Len(side') >= Len(log) + 1
        /\ Indexes(side', Len(log)) /\ Shaped(side')
        /\ side'[Len(log) + 1].off = Len(log)
    <3>1. mtime \in 0..MaxTs /\ Indexes(side, Len(log))
      BY <1>1, <1>5 DEF TypeOK
    <3>2. side' = Store(side, Len(log) + 1, Sentinel(mtime, Len(log)))
      BY <1>1, <1>5 DEF RebuildStep
    <3>3. Sentinel(mtime, Len(log)).off = Len(log)
      BY DEF Sentinel
    <3> QED
      BY <1>2, <3>1, <3>2, <3>3, SentinelStored DEF SlotShape
  <2>3. TypeOK'
    BY <1>1, <1>5, <2>1, <2>2, BoundAssumption DEF TypeOK, PC, RebuildStep
  <2>4. Monotone' /\ SlotShape'
    BY <2>2 DEF Monotone, SlotShape, Shaped, Indexes, Entry, RebuildStep
  <2>5. SessionShape'
    BY <1>1, <1>2, <1>5, <2>1, <2>2
    DEF SessionShape, Settled, Indexes, Entry, RebuildStep
  <2> QED
    BY <1>3, <2>3, <2>4, <2>5
<1> QED
  BY <1>1, <1>4, <1>5
\* What the index says of the tail is what the log says of it.
LEMMA TailFacts ==
  ASSUME IInv, pc = "open"
  PROVE  /\ Len(log) \in Nat /\ used = Len(log) + 1 /\ Count = Len(log)
         /\ TailTs \in Nat
         /\ \A i \in 1..Len(log) : log[i].ts <= TailTs
<1>1. /\ Len(log) \in Nat /\ DOMAIN log = 1..Len(log)
      /\ \A i \in 1..Len(log) : log[i].ts \in Nat
  BY Elements, BoundAssumption DEF IInv
<1>2. used = Len(log) + 1 /\ Indexes(side, Len(log))
  BY DEF IInv, SessionShape, Settled
<1>3. Count = Len(log)
  BY <1>1, <1>2 DEF Count
<1>4. CASE Len(log) = 0
  BY <1>1, <1>2, <1>3, <1>4 DEF TailTs
<1>5. CASE Len(log) > 0
  <2>1. TailTs = log[Len(log)].ts
    <3>1. TailTs = side[Len(log)].key
      BY <1>3, <1>5 DEF TailTs
    <3>2. side[Len(log)] = Entry(Len(log))
      BY <1>1, <1>2, <1>5 DEF Indexes
    <3>3. Entry(Len(log)).key = log[Len(log)].ts
      BY DEF Entry
    <3> QED
      BY <3>1, <3>2, <3>3
  <2>2. \A i \in 1..Len(log) : i < Len(log) => log[i].ts < log[Len(log)].ts
    BY <1>1, <1>5 DEF IInv, Monotone, A!Increasing
  <2>3. \A i \in 1..Len(log) : log[i].ts <= log[Len(log)].ts
    BY <1>1, <1>5, <2>2
  <2> QED
    BY <1>1, <1>2, <1>3, <1>5, <2>1, <2>3
<1> QED
  BY <1>1, <1>4, <1>5

\* The guard compares with the index; the index holds the tail's timestamp.
LEMMA AppendAtIInv ==
  ASSUME IInv, NEW r \in Row, AppendAt(r)
  PROVE  IInv'
<1> USE DEF IInv, AppendAt, work, file
<1>1. /\ Len(log) \in Nat /\ DOMAIN log = 1..Len(log) /\ used = Len(log) + 1
      /\ \A i \in 1..Len(log) : log[i].ts \in 1..MaxTs
      /\ r.ts \in 1..MaxTs
  BY Elements DEF SessionShape, Settled, Row
<1>2. pos = 0 /\ ~clean
  BY DEF CopyShape, CleanShape
<1>3. \A i \in DOMAIN log : log[i].ts < r.ts
  <2>1. TailTs \in Nat /\ r.ts \in Nat /\ \A i \in 1..Len(log) : log[i].ts <= TailTs
    BY <1>1, TailFacts, BoundAssumption
  <2>2. \A i \in 1..Len(log) : log[i].ts \in Nat
    BY <1>1, BoundAssumption
  <2> QED
    BY <1>1, <2>1, <2>2
<1>4. TypeOK'
  <2>1. mtime' \in 0..MaxTs
    BY BoundAssumption DEF TypeOK
  <2> QED
    BY <2>1 DEF TypeOK, PC
<1>5. Monotone' /\ SlotShape'
  BY DEF Monotone, SlotShape, Shaped, Indexes, Entry
<1>6. SessionShape'
  BY BoundAssumption DEF SessionShape, Settled, Indexes, Entry, TypeOK
<1>7. PendingRow'
  BY <1>3 DEF PendingRow
<1>8. CopyShape' /\ CleanShape' /\ CleanCloseTrusted'
  BY <1>2 DEF CopyShape, CleanShape, CleanCloseTrusted
<1> QED
  BY <1>4, <1>5, <1>6, <1>7, <1>8

\* ULOGAppend takes a timestamp ULOGAppendAt accepts.
LEMMA Append1IInv ==
  ASSUME IInv, NEW v \in Verb, NEW k \in Key, Append1(v, k)
  PROVE  IInv'
<1> DEFINE now == IF clock <= TailTs THEN TailTs + 1 ELSE clock
           r   == [ts |-> now, verb |-> v, key |-> k]
<1>1. now <= MaxTs /\ AppendAt(r)
  BY DEF Append1
<1>2. now \in Nat \ {0}
  <2>1. pc = "open" /\ clock \in Nat \ {0}
    BY <1>1, BoundAssumption DEF IInv, TypeOK, AppendAt
  <2>2. TailTs \in Nat
    BY <2>1, TailFacts
  <2> QED
    BY <2>1, <2>2
<1>3. r \in Row
  BY <1>1, <1>2, BoundAssumption DEF Row
<1> QED
  BY <1>1, <1>3, AppendAtIInv DEF IInv

LEMMA RowFedIInv == IInv /\ RowFed => IInv'
<1> SUFFICES ASSUME IInv, RowFed PROVE IInv'
  OBVIOUS
<1> USE DEF IInv, RowFed, work, file
<1>1. /\ Len(log) \in Nat /\ DOMAIN log = 1..Len(log) /\ Len(log) < MaxRows
      /\ Len(side) \in Nat /\ rec \in Row /\ log \in Seq(Row)
      /\ \A i \in 1..Len(log) : log[i].ts < rec.ts
  BY Elements DEF PendingRow, TypeOK
<1>2. /\ log' \in Seq(Row) /\ Len(log') = Len(log) + 1
      /\ \A i \in 1..Len(log) : log'[i] = log[i]
      /\ log'[Len(log) + 1] = rec
      /\ DOMAIN log' = 1..Len(log) + 1
  BY <1>1, AppendProperties, LenProperties
<1>3. pos = 0 /\ ~clean
  BY DEF CopyShape, CleanShape
<1>4. TypeOK'
  <2>1. rec' \in Row \cup {None} /\ pc' \in PC
    BY DEF PC
  <2>2. Len(log') <= MaxRows
    BY <1>1, <1>2, BoundAssumption
  <2> QED
    BY <1>2, <2>1, <2>2 DEF TypeOK
<1>5. Monotone'
  BY <1>1, <1>2 DEF Monotone, A!Increasing
<1>6. \A n \in Int : n <= Len(log) /\ Indexes(side, n) => Indexes(side, n)'
  BY <1>1, <1>2 DEF Indexes, Entry
<1>7. SlotShape'
  <2> SUFFICES ASSUME ~cut, NEW i \in DOMAIN side, side[i] # Zero
               PROVE  /\ i <= Len(log') + 1 /\ Indexes(side, i - 1)'
                      /\ \/ i <= Len(log') /\ side[i] = Entry(i)'
                         \/ side[i].verb = None /\ side[i].off = i - 1
    BY DEF SlotShape, Shaped
  <2>1. i \in Nat \ {0}
    BY Elements
  <2>2. /\ i <= Len(log) + 1 /\ Indexes(side, i - 1)
        /\ \/ i <= Len(log) /\ side[i] = Entry(i)
           \/ side[i].verb = None /\ side[i].off = i - 1
    BY DEF SlotShape, Shaped
  <2>3. i <= Len(log) => Entry(i)' = Entry(i)
    BY <1>1, <1>2, <2>1 DEF Entry
  <2> QED
    BY <1>1, <1>2, <1>6, <2>1, <2>2, <2>3
<1>8. SessionShape'
  <2>1. /\ used = Len(log) + 1 /\ used <= Len(side) /\ Indexes(side, Len(log))
        /\ mtime # 0
    BY DEF SessionShape, Settled
  <2>2. Indexes(side, used - 1)'
    BY <1>1, <1>6, <2>1
  <2> QED
    BY <1>1, <1>2, <2>1, <2>2 DEF SessionShape, Settled
<1>9. PendingRow' /\ CopyShape' /\ CleanShape' /\ CleanCloseTrusted'
  BY <1>3 DEF PendingRow, CopyShape, CleanShape, CleanCloseTrusted
<1> QED
  BY <1>4, <1>5, <1>7, <1>8, <1>9

LEMMA SlotWrittenIInv == IInv /\ SlotWritten => IInv'
<1> SUFFICES ASSUME IInv, SlotWritten PROVE IInv'
  OBVIOUS
<1> USE DEF IInv, SlotWritten, work, file
<1>1. Len(log) \in Nat /\ used = Len(log) /\ used > 0 /\ Indexes(side, used - 1)
  BY Elements DEF SessionShape
<1>2. pos = 0 /\ ~clean
  BY DEF CopyShape, CleanShape
<1>3. /\ side' \in Seq(Slot) /\ Indexes(side', used)
      /\ Shaped(side) => Shaped(side')
  BY <1>1, EntryStored
<1>4. TypeOK'
  BY <1>3 DEF TypeOK, PC
<1>5. Monotone' /\ SlotShape'
  BY <1>3 DEF Monotone, SlotShape, Shaped, Indexes, Entry
<1>6. SessionShape'
  BY <1>1, <1>3 DEF SessionShape, Settled, Indexes, Entry
<1>7. PendingRow' /\ CopyShape' /\ CleanShape' /\ CleanCloseTrusted'
  BY <1>2 DEF PendingRow, CopyShape, CleanShape, CleanCloseTrusted
<1> QED
  BY <1>4, <1>5, <1>6, <1>7

LEMMA SentinelPushedIInv == IInv /\ SentinelPushed => IInv'
<1> SUFFICES ASSUME IInv, SentinelPushed PROVE IInv'
  OBVIOUS
<1> USE DEF IInv, SentinelPushed, work, file
<1>1. /\ Len(log) \in Nat /\ Len(log) <= MaxRows /\ used = Len(log)
      /\ Indexes(side, Len(log)) /\ mtime \in 0..MaxTs
  BY Elements DEF SessionShape, TypeOK
<1>2. pos = 0 /\ ~clean
  BY DEF CopyShape, CleanShape
<1>3. /\ side' \in Seq(Slot) /\ Len(side') >= Len(log) + 1
      /\ Indexes(side', Len(log)) /\ side'[Len(log) + 1].off = Len(log)
      /\ Shaped(side) => Shaped(side')
  <2>1. Sentinel(mtime, Len(log)).off = Len(log)
    BY DEF Sentinel
  <2> QED
    BY <1>1, <2>1, SentinelStored
<1>4. TypeOK'
  BY <1>1, <1>3, BoundAssumption DEF TypeOK, PC
<1>5. Monotone' /\ SlotShape'
  BY <1>3 DEF Monotone, SlotShape, Shaped, Indexes, Entry
<1>6. SessionShape'
  BY <1>1, <1>3 DEF SessionShape, Settled, Indexes, Entry
<1>7. PendingRow' /\ CopyShape' /\ CleanShape' /\ CleanCloseTrusted'
  BY <1>2 DEF PendingRow, CopyShape, CleanShape, CleanCloseTrusted
<1> QED
  BY <1>4, <1>5, <1>6, <1>7
LEMMA PrefixFacts ==
  ASSUME NEW S, NEW s \in Seq(S), NEW n \in 0..Len(s)
  PROVE  /\ SubSeq(s, 1, n) \in Seq(S) /\ Len(SubSeq(s, 1, n)) = n
         /\ DOMAIN SubSeq(s, 1, n) = 1..n
         /\ \A i \in 1..n : SubSeq(s, 1, n)[i] = s[i]
<1>1. Len(s) \in Nat /\ n \in Nat /\ \A i \in 1..n : s[i] \in S
  BY LenProperties, ElementOfSeq
<1>2. /\ SubSeq(s, 1, n) \in Seq(S)
      /\ Len(SubSeq(s, 1, n)) = IF 1 <= n THEN n - 1 + 1 ELSE 0
      /\ \A i \in 1..n - 1 + 1 : SubSeq(s, 1, n)[i] = s[1 + i - 1]
  BY <1>1, SubSeqProperties
<1> QED
  BY <1>1, <1>2, LenProperties

\* A cut leaves old slots behind the sentinel, so nothing is claimed of the
\* sidecar's shape until the close.
LEMMA TruncateToIInv ==
  ASSUME IInv, NEW n \in 0..MaxRows, TruncateTo(n)
  PROVE  IInv'
<1>1. /\ Len(log) \in Nat /\ DOMAIN log = 1..Len(log) /\ Len(log) <= MaxRows
      /\ log \in Seq(Row) /\ side \in Seq(Slot) /\ Len(side) \in Nat
      /\ n \in Nat /\ n < Len(log) /\ Len(side) >= Len(log) + 1
      /\ Indexes(side, Len(log))
  BY Elements, TailFacts, BoundAssumption
  DEF IInv, TruncateTo, TypeOK, SessionShape, Settled
<1>2. /\ log' \in Seq(Row) /\ Len(log') = n /\ DOMAIN log' = 1..n
      /\ \A i \in 1..n : log'[i] = log[i]
  BY <1>1, PrefixFacts DEF TruncateTo
<1>3. mtime' \in 0..MaxTs /\ mtime' # 0
  BY BoundAssumption DEF IInv, TruncateTo, TypeOK, SessionShape
<1>4. /\ side' \in Seq(Slot) /\ Len(side') >= n + 1 /\ Indexes(side, n)'
      /\ side'[n + 1].off = n
  <2> DEFINE x == Sentinel(mtime', n)
             i == n + 1
  <2>1. x \in Slot /\ x.off = n
    BY <1>1, <1>3, BoundAssumption DEF Sentinel, Slot
  <2>2. i \in 1..Len(side) + 1 /\ i = n + 1 /\ side' = Store(side, i, x)
    BY <1>1 DEF TruncateTo
  <2> HIDE DEF x, i
  <2>3. /\ side' \in Seq(Slot) /\ Len(side') >= i /\ side'[i] = x
        /\ \A j \in 1..Len(side) : j # i => side'[j] = side[j]
    <3>1. side \in Seq(Slot)
      BY <1>1
    <3>2. Filed(side, i, x, side')
      BY <2>1, <2>2, <3>1, StoreFacts
    <3> QED
      BY <3>2 DEF Filed
  <2>4. \A j \in 1..n : side'[j] = Entry(j)
    <3>1. \A j \in 1..n : j \in 1..Len(side) /\ j # i /\ side[j] = Entry(j)
      BY <1>1, <2>2 DEF Indexes
    <3> QED
      BY <2>3, <3>1
  <2>5. \A j \in 1..n : Entry(j)' = Entry(j)
    BY <1>2 DEF Entry
  <2>6. n <= Len(side')
    BY <1>1, <2>2, <2>3, LenProperties
  <2>7. Indexes(side, n)'
    BY <2>4, <2>5, <2>6 DEF Indexes
  <2> QED
    BY <2>1, <2>2, <2>3, <2>7
<1>5. pos = 0 /\ ~clean
  BY DEF IInv, TruncateTo, CopyShape, CleanShape
<1>6. TypeOK'
  <2>1. /\ Len(log') <= MaxRows /\ used' \in 0..MaxRows + 1
        /\ torn' = FALSE /\ cut' = TRUE
    BY <1>1, <1>2, BoundAssumption DEF TruncateTo
  <2> QED
    BY <1>2, <1>3, <1>4, <2>1 DEF IInv, TruncateTo, TypeOK, work
<1>7. Monotone' /\ SlotShape'
  BY <1>1, <1>2 DEF IInv, TruncateTo, Monotone, A!Increasing, SlotShape
<1>8. SessionShape'
  <2>1. pc' = "open" /\ used' = n + 1 /\ cut'
    BY DEF TruncateTo
  <2> QED
    BY <1>2, <1>3, <1>4, <2>1 DEF SessionShape, Settled
<1>9. PendingRow' /\ CopyShape' /\ CleanShape' /\ CleanCloseTrusted'
  BY <1>5 DEF TruncateTo, work, PendingRow, CopyShape, CleanShape, CleanCloseTrusted
<1> QED
  BY <1>6, <1>7, <1>8, <1>9 DEF IInv

LEMMA CompactStartIInv ==
  ASSUME IInv, NEW f \in Verb \cup {None}, CompactStart(f)
  PROVE  IInv'
<1> USE DEF IInv, CompactStart, file
<1>1. Len(log) \in Nat /\ tmp' \in Seq(Row) /\ Len(tmp') = 0
  BY Elements, EmptySeq
<1>2. 1 \in 0..MaxRows + 1 /\ 1 <= Len(log) + 1
  BY <1>1, BoundAssumption
<1>3. TypeOK'
  BY <1>1, <1>2 DEF TypeOK, PC
<1>4. Monotone' /\ SlotShape'
  BY DEF Monotone, SlotShape, Shaped, Indexes, Entry
<1>5. SessionShape'
  BY DEF SessionShape, Settled, Indexes, Entry
<1>6. CopyShape'
  <2>1. A!Increasing(tmp') /\ DOMAIN tmp' = {}
    BY <1>1, LenProperties DEF A!Increasing
  <2> QED
    BY <1>1, <1>2, <2>1 DEF CopyShape
<1>7. PendingRow' /\ CleanShape' /\ CleanCloseTrusted'
  BY DEF PendingRow, CleanShape, CleanCloseTrusted
<1> QED
  BY <1>3, <1>4, <1>5, <1>6, <1>7

LEMMA CopyRowIInv == IInv /\ CopyRow => IInv'
<1> SUFFICES ASSUME IInv, CopyRow PROVE IInv'
  OBVIOUS
<1>1. /\ Len(log) \in Nat /\ DOMAIN log = 1..Len(log) /\ Len(log) <= MaxRows
      /\ \A i \in 1..Len(log) : log[i] \in Row /\ log[i].ts \in Nat
      /\ used = Len(log) + 1 /\ Count = Len(log)
  BY Elements, BoundAssumption 
  DEF IInv, CopyRow, TypeOK, SessionShape, Settled, Count
<1>2. pos \in 1..Len(log)
  BY <1>1, BoundAssumption DEF IInv, CopyRow, TypeOK, CopyShape
<1>3. /\ tmp \in Seq(Row) /\ Len(tmp) \in Nat /\ Len(tmp) < pos
      /\ DOMAIN tmp = 1..Len(tmp) /\ A!Increasing(tmp)
      /\ \A j \in 1..Len(tmp) : \E i \in 1..pos - 1 : tmp[j] = log[i]
      /\ \A i \in 1..pos - 1 : Kept(i) => \E j \in 1..Len(tmp) : tmp[j] = log[i]
  <2>1. tmp \in Seq(Row)
    BY DEF IInv, TypeOK
  <2>2. Len(tmp) \in Nat /\ DOMAIN tmp = 1..Len(tmp)
    BY <2>1, LenProperties
  <2>3. pos # 0 /\ CopyShape
    BY <1>2 DEF IInv
  <2> QED
    BY <2>1, <2>2, <2>3 DEF CopyShape
<1>4. \A i \in 1..Len(log) : Kept(i)' <=> Kept(i)
  BY DEF CopyRow, file, Kept, A!IsLatest, A!SameSubject
<1>5. /\ tmp' \in Seq(Row) /\ Len(tmp') <= pos /\ Len(tmp') \in Nat
      /\ DOMAIN tmp' = 1..Len(tmp') /\ A!Increasing(tmp')
      /\ \A j \in 1..Len(tmp') : \E i \in 1..pos : tmp'[j] = log[i]
      /\ \A i \in 1..pos : Kept(i) => \E j \in 1..Len(tmp') : tmp'[j] = log[i]
  <2>1. CASE ~Kept(pos)
    <3>1. tmp' = tmp
      BY <2>1 DEF CopyRow
    <3>2. \A i \in 1..pos : Kept(i) => i \in 1..pos - 1
      BY <1>2, <2>1
    <3>3. \A i \in 1..pos - 1 : i \in 1..pos
      BY <1>2
    <3> QED
      BY <1>2, <1>3, <3>1, <3>2, <3>3
  <2>2. CASE Kept(pos)
    <3> DEFINE t == Append(tmp, log[pos])
    <3>1. /\ t \in Seq(Row) /\ Len(t) = Len(tmp) + 1
          /\ DOMAIN t = 1..Len(tmp) + 1 /\ t[Len(tmp) + 1] = log[pos]
          /\ \A j \in 1..Len(tmp) : t[j] = tmp[j]
      BY <1>1, <1>2, <1>3, AppendProperties, LenProperties
    <3>2. tmp' = t
      BY <2>2 DEF CopyRow
    <3> HIDE DEF t
    <3>3. \A i \in 1..pos - 1 : log[i].ts < log[pos].ts
      BY <1>1, <1>2 DEF IInv, Monotone, A!Increasing
    <3>4. \A j \in 1..Len(tmp) : tmp[j].ts < log[pos].ts
      BY <1>3, <3>3
    <3>5. A!Increasing(t)
      BY <1>3, <3>1, <3>4 DEF A!Increasing
    <3>6. \A j \in 1..Len(t) : \E i \in 1..pos : t[j] = log[i]
      <4> SUFFICES ASSUME NEW j \in 1..Len(t) PROVE \E i \in 1..pos : t[j] = log[i]
        OBVIOUS
      <4>1. CASE j = Len(tmp) + 1
        BY <1>2, <3>1, <4>1
      <4>2. CASE j # Len(tmp) + 1
        <5>1. j \in 1..Len(tmp) /\ t[j] = tmp[j]
          BY <1>3, <3>1, <4>2
        <5>2. PICK i \in 1..pos - 1 : tmp[j] = log[i]
          BY <1>3, <5>1
        <5> QED
          BY <1>2, <5>1, <5>2
      <4> QED
        BY <4>1, <4>2
    <3>7. \A i \in 1..pos : Kept(i) => \E j \in 1..Len(t) : t[j] = log[i]
      <4> SUFFICES ASSUME NEW i \in 1..pos, Kept(i)
                   PROVE  \E j \in 1..Len(t) : t[j] = log[i]
        OBVIOUS
      <4>1. CASE i = pos
        BY <1>3, <3>1, <4>1
      <4>2. CASE i # pos
        <5>1. PICK j \in 1..Len(tmp) : tmp[j] = log[i]
          BY <1>2, <1>3, <4>2
        <5> QED
          BY <1>3, <3>1, <5>1
      <4> QED
        BY <4>1, <4>2
    <3> QED
      <4>1. Len(t) \in Nat /\ Len(t) <= pos /\ DOMAIN t = 1..Len(t)
        BY <1>2, <1>3, <3>1
      <4> QED
        BY <3>1, <3>2, <3>5, <3>6, <3>7, <4>1
  <2> QED
    BY <2>1, <2>2
<1>6. TypeOK'
  BY <1>1, <1>2, <1>5, BoundAssumption DEF IInv, CopyRow, TypeOK, file
<1>7. Monotone' /\ SlotShape'
  BY DEF IInv, CopyRow, file, Monotone, SlotShape, Shaped, Indexes, Entry
<1>8. SessionShape'
  BY DEF IInv, CopyRow, file, SessionShape, Settled, Indexes, Entry
<1>9. CopyShape'
  <2>1. pos' = pos + 1 /\ pos' - 1 = pos /\ pos' <= Len(log) + 1 /\ pos' # 0
        /\ pc' = "copy" /\ log' = log
    BY <1>1, <1>2 DEF CopyRow, file
  <2>2. \A i \in 1..pos' - 1 : Kept(i)' <=> Kept(i)
    BY <1>1, <1>2, <1>4, <2>1
  <2> QED
    <3>1. /\ Len(tmp') < pos' /\ A!Increasing(tmp')
          /\ \A j \in DOMAIN tmp' : \E i \in 1..pos' - 1 : tmp'[j] = log'[i]
          /\ \A i \in 1..pos' - 1 : Kept(i)' => \E j \in DOMAIN tmp' : tmp'[j] = log'[i]
      <4>1. /\ DOMAIN tmp' = 1..Len(tmp') /\ A!Increasing(tmp')
            /\ 1..pos' - 1 = 1..pos /\ log' = log
        BY <1>5, <2>1
      <4>2. Len(tmp') < pos'
        BY <1>2, <1>5, <2>1
      <4>3. \A j \in DOMAIN tmp' : \E i \in 1..pos' - 1 : tmp'[j] = log'[i]
        BY <1>5, <4>1
      <4>4. \A i \in 1..pos' - 1 : Kept(i) => \E j \in DOMAIN tmp' : tmp'[j] = log'[i]
        BY <1>5, <4>1
      <4> QED
        BY <2>2, <4>1, <4>2, <4>3, <4>4
    <3> QED
      BY <2>1, <3>1 DEF CopyShape, A!Increasing
<1>10. PendingRow' /\ CleanShape' /\ CleanCloseTrusted'
  BY DEF IInv, CopyRow, PendingRow, CleanShape, CleanCloseTrusted
<1> QED
  BY <1>6, <1>7, <1>8, <1>9, <1>10 DEF IInv
\* The sidecar goes first: its absence says nothing false about either log.
LEMMA UnlinkSidesIInv == IInv /\ UnlinkSides => IInv'
<1> SUFFICES ASSUME IInv, UnlinkSides PROVE IInv'
  OBVIOUS
<1>1. side' \in Seq(Slot) /\ DOMAIN side' = {}
  <2>1. side' = <<>>
    BY DEF UnlinkSides
  <2> QED
    BY <2>1, EmptySeq
<1>2. ~clean /\ ~cut
  BY DEF IInv, UnlinkSides, CleanShape, SessionShape, Settled
<1>3. TypeOK'
  BY <1>1 DEF IInv, UnlinkSides, TypeOK, PC, work, file
<1>4. Monotone' /\ SlotShape'
  BY <1>1 DEF IInv, UnlinkSides, Monotone, SlotShape, Shaped, file
<1>5. SessionShape'
  BY <1>2 DEF IInv, UnlinkSides, SessionShape, Settled, file
<1>6. PendingRow' /\ CleanShape' /\ CleanCloseTrusted'
  BY <1>2 DEF UnlinkSides, PendingRow, CleanShape, CleanCloseTrusted
<1>7. CopyShape'
  BY DEF IInv, UnlinkSides, CopyShape, Kept, A!IsLatest, A!SameSubject, file, work
<1> QED
  BY <1>3, <1>4, <1>5, <1>6, <1>7 DEF IInv

LEMMA RenameOkIInv == IInv /\ RenameOk => IInv'
<1> SUFFICES ASSUME IInv, RenameOk PROVE IInv'
  OBVIOUS
<1>1. /\ pos # 0 /\ pos = Len(log) + 1 /\ tmp \in Seq(Row)
      /\ Len(tmp) < pos /\ A!Increasing(tmp)
      /\ ~clean /\ ~cut /\ side = <<>>
  BY DEF IInv, RenameOk, CopyShape, CleanShape, SessionShape, Settled, TypeOK
<1>2. Len(tmp) <= MaxRows
  BY <1>1, Elements, LenProperties, BoundAssumption DEF IInv, TypeOK
<1>3. TypeOK'
  <2>1. tmp' \in Seq(Row) /\ mtime' \in 0..MaxTs /\ pos' \in 0..MaxRows + 1
    BY EmptySeq, BoundAssumption DEF IInv, RenameOk, TypeOK
  <2> QED
    BY <1>1, <1>2, <2>1 DEF IInv, RenameOk, TypeOK, PC
<1>4. Monotone'
  BY <1>1 DEF RenameOk, Monotone, A!Increasing
<1>5. SlotShape'
  <2>1. DOMAIN side' = {}
    BY <1>1 DEF RenameOk
  <2> QED
    BY <2>1 DEF SlotShape, Shaped
<1>6. SessionShape'
  BY <1>1, BoundAssumption DEF IInv, TypeOK, RenameOk, SessionShape, Settled
<1>7. PendingRow' /\ CopyShape' /\ CleanShape' /\ CleanCloseTrusted'
  BY <1>1 DEF RenameOk, PendingRow, CopyShape, CleanShape, CleanCloseTrusted
<1> QED
  BY <1>3, <1>4, <1>5, <1>6, <1>7 DEF IInv

LEMMA RenameFailsIInv == IInv /\ RenameFails => IInv'
<1> SUFFICES ASSUME IInv, RenameFails PROVE IInv'
  OBVIOUS
<1>1. ~clean /\ ~cut
  BY DEF IInv, RenameFails, CleanShape, SessionShape, Settled
<1>2. TypeOK'
  BY BoundAssumption DEF IInv, RenameFails, TypeOK, PC, file
<1>3. Monotone' /\ SlotShape'
  BY DEF IInv, RenameFails, Monotone, SlotShape, Shaped, Indexes, Entry, file
<1>4. SessionShape'
  BY <1>1 DEF IInv, RenameFails, SessionShape, Settled, file
<1>5. PendingRow' /\ CopyShape' /\ CleanShape' /\ CleanCloseTrusted'
  BY <1>1 DEF RenameFails, PendingRow, CopyShape, CleanShape, CleanCloseTrusted
<1> QED
  BY <1>2, <1>3, <1>4, <1>5 DEF IInv

LEMMA TrimLogIInv == IInv /\ TrimLog => IInv'
<1> SUFFICES ASSUME IInv, TrimLog PROVE IInv'
  OBVIOUS
<1>1. ~clean /\ pc \in {"open", "copy"} /\ pc' = "trimmed" /\ log' = log
  BY DEF IInv, TrimLog, CleanShape
<1>2. TypeOK'
  <2>1. mtime' \in 0..MaxTs
    BY BoundAssumption DEF IInv, TrimLog, TypeOK
  <2>2. pc' \in PC /\ torn' \in BOOLEAN
    BY DEF TrimLog, PC
  <2> QED
    BY <2>1, <2>2 DEF IInv, TrimLog, TypeOK, work
<1>3. Monotone' /\ SlotShape'
  BY DEF IInv, TrimLog, Monotone, SlotShape, Shaped, Indexes, Entry
<1>4. SessionShape'
  BY BoundAssumption
  DEF IInv, TrimLog, TypeOK, SessionShape, Settled, Indexes, Entry
<1>5. CopyShape'
  <2>1. used = Len(log) + 1 /\ Len(log) \in Nat /\ pos \in Nat
    BY <1>1, Elements, BoundAssumption DEF IInv, SessionShape, Settled, TypeOK
  <2>2. pos # 0 => pos = Len(log) + 1
    BY <1>1, <2>1 DEF IInv, TrimLog, CopyShape, Count
  <2> QED
    BY <1>1, <2>2
    DEF IInv, TrimLog, CopyShape, Kept, A!IsLatest, A!SameSubject, work
<1>6. PendingRow' /\ CleanShape' /\ CleanCloseTrusted'
  BY <1>1 DEF TrimLog, PendingRow, CleanShape, CleanCloseTrusted
<1> QED
  BY <1>2, <1>3, <1>4, <1>5, <1>6 DEF IInv

LEMMA RefreshSentinelIInv == IInv /\ RefreshSentinel => IInv'
<1> SUFFICES ASSUME IInv, RefreshSentinel PROVE IInv'
  OBVIOUS
<1>1. /\ Len(log) \in Nat /\ used = Len(log) + 1 /\ mtime \in 0..MaxTs
      /\ Indexes(side, Len(log)) /\ mtime # 0
  BY Elements DEF IInv, RefreshSentinel, SessionShape, Settled, TypeOK
<1>2. /\ side' \in Seq(Slot) /\ Len(side') >= Len(log) + 1
      /\ Indexes(side', Len(log))
      /\ side'[Len(log) + 1] = Sentinel(mtime, Len(log))
      /\ Shaped(side) => Shaped(side')
  <2>1. side' = Store(side, Len(log) + 1, Sentinel(mtime, Len(log)))
    BY <1>1 DEF RefreshSentinel
  <2> QED
    BY <1>1, <2>1, SentinelStored DEF IInv
<1>3. ~clean
  BY DEF IInv, RefreshSentinel, CleanShape
<1>4. TypeOK'
  BY <1>2 DEF IInv, RefreshSentinel, TypeOK, PC, file, work
<1>5. Monotone' /\ SlotShape'
  BY <1>2 DEF IInv, RefreshSentinel, Monotone, SlotShape, Shaped, Indexes, Entry, file
<1>6. SessionShape'
  <2>1. Sentinel(mtime, Len(log)).off = Len(log)
    BY DEF Sentinel
  <2> QED
    BY <1>1, <1>2, <2>1
    DEF RefreshSentinel, SessionShape, Settled, Indexes, Entry, Sentinel, file
<1>7. CopyShape'
  BY DEF IInv, RefreshSentinel, CopyShape, Kept, A!IsLatest, A!SameSubject, file, work
<1>8. PendingRow' /\ CleanShape' /\ CleanCloseTrusted'
  BY <1>3 DEF RefreshSentinel, PendingRow, CleanShape, CleanCloseTrusted
<1> QED
  BY <1>4, <1>5, <1>6, <1>7, <1>8 DEF IInv

\* The slots a cut left behind the sentinel go away with the padding.
LEMMA TrimSideIInv == IInv /\ TrimSide => IInv'
<1> SUFFICES ASSUME IInv, TrimSide PROVE IInv'
  OBVIOUS
<1>1. /\ Len(log) \in Nat /\ used = Len(log) + 1 /\ mtime # 0
      /\ side \in Seq(Slot) /\ used \in 0..Len(side) /\ Indexes(side, Len(log))
      /\ side[used] = Sentinel(mtime, Len(log))
  BY Elements DEF IInv, TrimSide, SessionShape, Settled, TypeOK
<1>2. /\ side' \in Seq(Slot) /\ Len(side') = used /\ DOMAIN side' = 1..used
      /\ \A i \in 1..used : side'[i] = side[i]
  BY <1>1, PrefixFacts DEF TrimSide
<1>3. Indexes(side', Len(log))
  BY <1>1, <1>2 DEF Indexes
<1>4. TypeOK'
  <2>1. used' \in 0..MaxRows + 1 /\ pc' \in PC
    BY BoundAssumption DEF TrimSide, PC
  <2> QED
    BY <1>2, <2>1 DEF IInv, TrimSide, TypeOK, file, work
<1>5. Monotone' /\ Shaped(side)'
  <2>1. Shaped(side')
    <3>1. side'[used].verb = None /\ side'[used].off = Len(log)
      BY <1>1, <1>2 DEF Sentinel
    <3>2. \A i \in 1..used : Indexes(side', i - 1)
      BY <1>1, <1>2, <1>3 DEF Indexes
    <3>3. \A i \in 1..Len(log) : side'[i] = Entry(i)
      BY <1>3 DEF Indexes
    <3>4. \A i \in 1..used : i = used \/ i \in 1..Len(log)
      BY <1>1
    <3> QED
      BY <1>1, <1>2, <3>1, <3>2, <3>3, <3>4 DEF Shaped
  <2>2. log' = log
    BY DEF TrimSide, file
  <2> QED
    BY <2>1, <2>2 DEF IInv, Monotone, Shaped, Indexes, Entry
<1>6. SessionShape'
  BY <1>1 DEF IInv, TrimSide, SessionShape, Settled, file
<1>7. CopyShape'
  BY DEF IInv, TrimSide, CopyShape, Kept, A!IsLatest, A!SameSubject, file, work
<1>8. CleanCloseTrusted'
  <2>1. side' # <<>>
    BY <1>1, <1>2
  <2>2. side'[Len(side')] = Sentinel(mtime, Len(log))
    BY <1>1, <1>2
  <2>3. IsFresh(side', Len(log), mtime)
    BY <1>1, <2>1, <2>2 DEF IsFresh, Sentinel
  <2> QED
    BY <2>3 DEF TrimSide, CleanCloseTrusted, file
<1>9. SlotShape' /\ PendingRow' /\ CleanShape'
  BY <1>5 DEF TrimSide, SlotShape, PendingRow, CleanShape
<1> QED
  BY <1>4, <1>5, <1>6, <1>7, <1>8, <1>9 DEF IInv

LEMMA TickIInv == IInv /\ Tick => IInv'
<1> SUFFICES ASSUME IInv, Tick PROVE IInv'
  OBVIOUS
<1>1. TypeOK'
  BY BoundAssumption DEF IInv, Tick, TypeOK, file, work
<1>2. Monotone' /\ SlotShape' /\ CleanShape' /\ CleanCloseTrusted' /\ PendingRow'
  BY DEF IInv, Tick, file, work, Monotone, SlotShape, Shaped, Indexes, Entry,
         CleanShape, CleanCloseTrusted, PendingRow
<1>3. SessionShape' /\ CopyShape'
  BY DEF IInv, Tick, file, work, SessionShape, Settled, Indexes, Entry,
         CopyShape, Kept, A!IsLatest, A!SameSubject
<1> QED
  BY <1>1, <1>2, <1>3 DEF IInv

LEMMA CrashIInv == ~CrashAfterCut /\ IInv /\ Crash => IInv'
<1> SUFFICES ASSUME ~CrashAfterCut, IInv, Crash PROVE IInv'
  OBVIOUS
<1>1. ~cut /\ ~cut' /\ ~clean'
  BY DEF Crash
<1>2. TypeOK'
  <2>1. /\ pc' \in PC /\ used' \in 0..MaxRows + 1 /\ pos' \in 0..MaxRows + 1
        /\ seen' \in 0..MaxTs
    BY BoundAssumption DEF Crash, PC
  <2>2. /\ rec' \in Row \cup {None} /\ filter' \in Verb \cup {None}
        /\ cut' \in BOOLEAN /\ clean' \in BOOLEAN
    BY DEF Crash
  <2> QED
    BY <2>1, <2>2 DEF IInv, Crash, TypeOK, file
<1>3. Monotone' /\ SlotShape'
  BY <1>1 DEF IInv, Crash, file, Monotone, SlotShape, Shaped, Indexes, Entry
<1>4. SessionShape' /\ CopyShape' /\ PendingRow' /\ CleanShape' /\ CleanCloseTrusted'
  BY <1>1 DEF Crash, SessionShape, Settled, CopyShape, PendingRow, CleanShape,
              CleanCloseTrusted
<1> QED
  BY <1>2, <1>3, <1>4 DEF IInv

LEMMA StutterIInv == IInv /\ UNCHANGED vars => IInv'
<1> SUFFICES ASSUME IInv, UNCHANGED vars PROVE IInv'
  OBVIOUS
<1>1. TypeOK'
  BY DEF IInv, vars, TypeOK
<1>2. Monotone' /\ SlotShape' /\ CleanShape' /\ CleanCloseTrusted' /\ PendingRow'
  BY DEF IInv, vars, Monotone, SlotShape, Shaped, Indexes, Entry, CleanShape,
         CleanCloseTrusted, PendingRow
<1>3. SessionShape' /\ CopyShape'
  BY DEF IInv, vars, SessionShape, Settled, Indexes, Entry, CopyShape, Kept,
         A!IsLatest, A!SameSubject
<1> QED
  BY <1>1, <1>2, <1>3 DEF IInv
LEMMA NextIInv == ~CrashAfterCut /\ IInv /\ [Next]_vars => IInv'
<1> SUFFICES ASSUME ~CrashAfterCut, IInv, [Next]_vars PROVE IInv'
  OBVIOUS
<1>1. CASE Opening
  BY <1>1, OpenLogIInv, TrustIdxIInv, RebuildIdxIInv, RebuildStepIInv DEF Opening
<1>2. CASE Appending
  BY <1>2, AppendAtIInv, Append1IInv, RowFedIInv, SlotWrittenIInv,
     SentinelPushedIInv
  DEF Appending
<1>3. CASE Truncating
  BY <1>3, TruncateToIInv DEF Truncating
<1>4. CASE Compacting
  BY <1>4, CompactStartIInv, CopyRowIInv, UnlinkSidesIInv, RenameOkIInv,
     RenameFailsIInv
  DEF Compacting
<1>5. CASE Closing
  BY <1>5, TrimLogIInv, RefreshSentinelIInv, TrimSideIInv DEF Closing
<1>6. CASE Tick
  BY <1>6, TickIInv
<1>7. CASE Crash
  BY <1>7, CrashIInv
<1>8. CASE UNCHANGED vars
  BY <1>8, StutterIInv
<1> QED
  BY <1>1, <1>2, <1>3, <1>4, <1>5, <1>6, <1>7, <1>8 DEF Next

\* What every session, crash and close preserves.
THEOREM Invariance ==
  ASSUME ~CrashAfterCut
  PROVE  Spec => []IInv
<1>1. Init => IInv
  BY InitIInv
<1>2. IInv /\ [Next]_vars => IInv'
  BY NextIInv
<1> QED
  BY <1>1, <1>2, PTL DEF Spec

----------------------------------------------------------------------------
\* The properties

\* Every variable keeps its type, the bounds included.
THEOREM TypeCorrect ==
  ASSUME ~CrashAfterCut
  PROVE  Spec => []TypeOK
<1>1. IInv => TypeOK
  BY DEF IInv
<1> QED
  BY <1>1, Invariance, PTL

\* The rows stay in strictly increasing timestamp order (ULOGAppendAt guards
\* with the index, which the invariant ties to the log), so no open of a log
\* written by single sessions ever fails with ULOGCLOCK.
THEOREM MonotoneAlways ==
  ASSUME ~CrashAfterCut
  PROVE  Spec => []Monotone
<1>1. IInv => Monotone
  BY DEF IInv
<1> QED
  BY <1>1, Invariance, PTL

\* A ready session's index is the log's index, trusted or rebuilt.
THEOREM IndexAlwaysFaithful ==
  ASSUME ~CrashAfterCut
  PROVE  Spec => []IndexFaithful
<1>1. IInv => IndexFaithful
  <2> SUFFICES ASSUME IInv, pc \in {"open", "copy"}
               PROVE  Describes(SubSeq(side, 1, used))
    BY DEF IndexFaithful
  <2>1. /\ side \in Seq(Slot) /\ Len(log) \in Nat /\ Len(side) \in Nat
        /\ used = Len(log) + 1 /\ used <= Len(side) /\ side[used].off = Len(log)
        /\ \A j \in 1..Len(log) : side[j] = Entry(j)
    BY Elements DEF IInv, TypeOK, SessionShape, Settled, Indexes
  <2>2. /\ Len(SubSeq(side, 1, used)) = used
        /\ \A i \in 1..used : SubSeq(side, 1, used)[i] = side[i]
    BY <2>1, PrefixFacts
  <2> QED
    BY <2>1, <2>2 DEF Describes
<1> QED
  BY <1>1, Invariance, PTL

\* A sidecar that passes ulog_idx_is_fresh is right, at every instant of every
\* session and after every crash.  The size alone decides: the last slot is
\* padding, an entry whose offset is short of the end, or a sentinel pushed
\* when the log had exactly this many rows, and then all entries precede it.
THEOREM TrustAlwaysSound ==
  ASSUME ~CrashAfterCut
  PROVE  Spec => []TrustSound
<1>1. IInv => TrustSound
  <2> SUFFICES ASSUME IInv, ~cut, IsFresh(side, Len(log), mtime)
               PROVE  Describes(side)
    BY DEF TrustSound
  <2>1. /\ side \in Seq(Slot) /\ Len(log) \in Nat /\ Len(side) \in Nat
        /\ DOMAIN side = 1..Len(side) /\ Shaped(side)
    BY Elements DEF IInv, TypeOK, SlotShape
  <2>2. /\ Len(side) \in DOMAIN side /\ side[Len(side)] # Zero
        /\ side[Len(side)].off = Len(log)
    BY <2>1, EmptySeq DEF IsFresh, Zero
  <2>3. /\ Indexes(side, Len(side) - 1) /\ Len(side) <= Len(log) + 1
        /\ \/ Len(side) <= Len(log) /\ side[Len(side)] = Entry(Len(side))
           \/ side[Len(side)].off = Len(side) - 1
    BY <2>1, <2>2 DEF Shaped
  <2>4. Entry(Len(side)).off = Len(side) - 1
    BY DEF Entry
  <2>5. Len(side) = Len(log) + 1
    <3>1. Len(log) \in Nat /\ Len(side) \in Nat
      BY <2>1
    <3>2. CASE side[Len(side)] = Entry(Len(side))
      BY <2>2, <2>3, <2>4, <3>1, <3>2
    <3>3. CASE side[Len(side)].off = Len(side) - 1
      BY <2>2, <3>1, <3>3
    <3> QED
      BY <2>3, <3>2, <3>3
  <2> QED
    BY <2>1, <2>2, <2>3, <2>5 DEF Describes, Indexes
<1> QED
  BY <1>1, Invariance, PTL

\* After a ULOGClose the next open takes the sidecar as it is.
THEOREM CleanCloseAlwaysTrusted ==
  ASSUME ~CrashAfterCut
  PROVE  Spec => []CleanCloseTrusted
<1>1. IInv => CleanCloseTrusted
  BY DEF IInv
<1> QED
  BY <1>1, Invariance, PTL

----------------------------------------------------------------------------
\* The file implements the abstract log

LEMMA RowFedExtends == IInv /\ RowFed => A!Extend
<1> SUFFICES ASSUME IInv, RowFed PROVE A!Extend
  OBVIOUS
<1>1. log \in Seq(Row) /\ rec \in Row /\ log' = Append(log, rec)
  BY DEF IInv, TypeOK, PendingRow, RowFed
<1>2. /\ Len(log') = Len(log) + 1 /\ DOMAIN log = 1..Len(log)
      /\ \A i \in 1..Len(log) : log'[i] = log[i]
  BY <1>1, AppendProperties, LenProperties
<1>3. A!Increasing(log')
  BY RowFedIInv DEF IInv, Monotone, A!Increasing
<1> QED
  BY <1>2, <1>3 DEF A!Extend

LEMMA RenameCompacts == IInv /\ RenameOk => A!Compact
<1> SUFFICES ASSUME IInv, RenameOk PROVE A!Compact
  OBVIOUS
<1>1. log' = tmp /\ Len(log) \in Nat /\ DOMAIN log = 1..Len(log)
  BY Elements DEF IInv, RenameOk
<1>2. /\ pos - 1 = Len(log) /\ A!Increasing(tmp)
      /\ \A j \in DOMAIN tmp : \E i \in 1..pos - 1 : tmp[j] = log[i]
      /\ \A i \in 1..pos - 1 : Kept(i) => \E j \in DOMAIN tmp : tmp[j] = log[i]
  BY <1>1 DEF IInv, RenameOk, CopyShape
<1>3. \A i \in DOMAIN log : A!IsLatest(log, i) => Kept(i)
  BY DEF Kept
<1> QED
  BY <1>1, <1>2, <1>3 DEF A!Compact, A!Increasing

LEMMA TruncateCuts ==
  ASSUME IInv, NEW n \in 0..MaxRows, TruncateTo(n)
  PROVE  A!Truncate
<1>1. /\ log \in Seq(Row) /\ Len(log) \in Nat /\ DOMAIN log = 1..Len(log)
      /\ n \in 0..Len(log) /\ n < Len(log) /\ log' = SubSeq(log, 1, n)
  BY Elements, TailFacts, BoundAssumption DEF IInv, TruncateTo, TypeOK
<1>2. /\ Len(log') = n /\ DOMAIN log' = 1..n
      /\ \A i \in 1..n : log'[i] = log[i]
  BY <1>1, PrefixFacts
<1> QED
  BY <1>1, <1>2 DEF A!Truncate

LEMMA StepRefines == IInv /\ [Next]_vars => [A!Next]_log
<1> SUFFICES ASSUME IInv, [Next]_vars PROVE [A!Next]_log
  OBVIOUS
<1>1. CASE Opening
  BY <1>1 DEF Opening, OpenLog, TrustIdx, RebuildIdx, RebuildStep, file
<1>2. CASE Appending
  <2>1. CASE RowFed
    BY <2>1, RowFedExtends DEF A!Next
  <2>2. CASE SlotWritten \/ SentinelPushed
    BY <2>2 DEF SlotWritten, SentinelPushed, file
  <2>3. ASSUME NEW r, AppendAt(r) PROVE log' = log
    BY <2>3 DEF AppendAt
  <2>4. ASSUME NEW v \in Verb, NEW k \in Key, Append1(v, k) PROVE log' = log
    BY <2>3, <2>4 DEF Append1
  <2> QED
    BY <1>2, <2>1, <2>2, <2>3, <2>4 DEF Appending
<1>3. CASE Truncating
  BY <1>3, TruncateCuts DEF Truncating, A!Next
<1>4. CASE Compacting
  <2>1. CASE RenameOk
    BY <2>1, RenameCompacts DEF A!Next
  <2>2. CASE CopyRow \/ UnlinkSides \/ RenameFails
    BY <2>2 DEF CopyRow, UnlinkSides, RenameFails, file
  <2>3. ASSUME NEW f, CompactStart(f) PROVE log' = log
    BY <2>3 DEF CompactStart, file
  <2> QED
    BY <1>4, <2>1, <2>2, <2>3 DEF Compacting
<1>5. CASE Closing
  BY <1>5 DEF Closing, TrimLog, RefreshSentinel, TrimSide, file
<1>6. CASE Tick \/ Crash \/ UNCHANGED vars
  BY <1>6 DEF Tick, Crash, vars, file
<1> QED
  BY <1>1, <1>2, <1>3, <1>4, <1>5, <1>6 DEF Next

\* Every behaviour of the file, crashes included, is one of the abstract log:
\* rows are only ever added at the tail, cut back, or rewritten by a
\* compaction that keeps the last row of every verb and URI.
THEOREM Refinement ==
  ASSUME ~CrashAfterCut
  PROVE  Spec => Implements
<1>1. Init => A!Init
  BY DEF Init, A!Init
<1>2. IInv /\ [Next]_vars => [A!Next]_log
  BY StepRefines
<1> QED
  BY <1>1, <1>2, Invariance, PTL DEF Spec, Implements, A!Spec
=============================================================================
