----------------------------- MODULE TableProofs -----------------------------
(***************************************************************************)
(* Proofs about rows that several processes write.  AlertIngest, for any   *)
(* number of collectors and events, any rate limit and any queue and batch *)
(* sizes; CperDecoding, for any number of workers and alerts and any batch *)
(* size and limit of attempts; SystemPlacement, for any racks, heights and *)
(* names and any interleaving of the writers.                              *)
(***************************************************************************)
EXTENDS AlertIngest, CperDecoding, SystemPlacement, SequenceTheorems, FiniteSetTheorems, TLAPS

USE IngestAssumption

-----------------------------------------------------------------------------
(* Keys and sequences of keys.                                             *)

\* The keys of the alerts that the handlers make: an event with a time has
\* one key, whoever receives it and by whichever way.  (The second part of a key
\* is its event.)
MadeKeys == {k \in AllKeys : k[2] \in Dated => k = <<"content", k[2]>>}

LEMMA MadeKey ==
    ASSUME NEW e \in Events, NEW s \in BOOLEAN, NEW p \in Procs
    PROVE  dedup_key([ev |-> e, dated |-> e \in Dated, src |-> s, by |-> p]) \in MadeKeys
<1> DEFINE a == [ev |-> e, dated |-> e \in Dated, src |-> s, by |-> p]
<1>1. a \in Alert
  BY DEF Alert
<1>2. dedup_key(a) \in AllKeys
  BY <1>1 DEF AllKeys
<1>3. CASE e \in Dated
  <2>1. dedup_key(a) = <<"content", e>>
    BY <1>3 DEF dedup_key
  <2> QED
    BY <1>2, <2>1 DEF MadeKeys
<1>4. CASE e \notin Dated
  <2>1. dedup_key(a)[2] = e
    BY <1>4 DEF dedup_key
  <2> QED
    BY <1>2, <1>4, <2>1 DEF MadeKeys
<1> QED
  BY <1>3, <1>4

LEMMA KeysOfEmpty == Keys(<<>>) = {}
BY DEF Keys, Range

LEMMA KeysOfAppend ==
    ASSUME NEW S, NEW s \in Seq(S), NEW x \in S
    PROVE  Keys(Append(s, x)) = Keys(s) \cup {x}
<1>1. /\ Append(s, x) \in Seq(S)
      /\ Len(Append(s, x)) = Len(s) + 1
      /\ \A i \in 1 .. Len(s) : Append(s, x)[i] = s[i]
      /\ Append(s, x)[Len(s) + 1] = x
  BY AppendProperties
<1>2. /\ DOMAIN Append(s, x) = 1 .. Len(s) + 1
      /\ DOMAIN s = 1 .. Len(s)
      /\ Len(s) \in Nat
  BY <1>1, LenProperties
<1> QED
  BY <1>1, <1>2 DEF Keys, Range

LEMMA KeysOfTail ==
    ASSUME NEW S, NEW s \in Seq(S), s # <<>>
    PROVE  Keys(s) = {Head(s)} \cup Keys(Tail(s))
<1>1. /\ Tail(s) \in Seq(S)
      /\ Len(Tail(s)) = Len(s) - 1
      /\ \A i \in 1 .. Len(Tail(s)) : Tail(s)[i] = s[i + 1]
  BY HeadTailProperties
<1>2. /\ DOMAIN Tail(s) = 1 .. Len(s) - 1
      /\ DOMAIN s = 1 .. Len(s)
      /\ Len(s) \in Nat \ {0}
      /\ Head(s) = s[1]
  BY <1>1, LenProperties, EmptySeq
<1>3. ASSUME NEW k \in Keys(s) PROVE k \in {Head(s)} \cup Keys(Tail(s))
  <2>1. PICK i \in 1 .. Len(s) : k = s[i]
    BY <1>2, <1>3 DEF Keys, Range
  <2>2. CASE i = 1
    BY <1>2, <2>1, <2>2
  <2>3. CASE i # 1
    <3>1. i - 1 \in 1 .. Len(Tail(s)) /\ Tail(s)[i - 1] = s[i]
      BY <1>1, <1>2, <2>3
    <3> QED
      BY <1>1, <1>2, <2>1, <3>1 DEF Keys, Range
  <2> QED
    BY <2>2, <2>3
<1>4. ASSUME NEW k \in {Head(s)} \cup Keys(Tail(s)) PROVE k \in Keys(s)
  BY <1>1, <1>2, <1>4 DEF Keys, Range
<1> QED
  BY <1>3, <1>4


LEMMA CapType == Cap \in Nat /\ Cap >= BatchSize /\ BatchSize \in Nat \ {0}
<1>1. BatchSize \in Nat \ {0} /\ KeepBatches \in Nat \ {0}
  OBVIOUS
<1>2. KeepBatches * BatchSize \in Nat
  BY <1>1
<1> QED
  BY <1>1, <1>2 DEF Cap

\* A batch that could not be written is cut in two: the newest alerts stay, the
\* others are counted as dropped.
LEMMA KeptAndOverflow ==
    ASSUME NEW S, NEW b \in Seq(S)
    PROVE  /\ Kept(b) \in Seq(S) /\ Len(Kept(b)) <= Cap
           /\ Keys(b) = Keys(Kept(b)) \cup Keys(Overflow(b))
<1>1. CASE Len(b) > Cap
  <2> DEFINE n == Len(b) - Cap
  <2>1. /\ Len(b) \in Nat /\ n \in 1 .. Len(b) /\ DOMAIN b = 1 .. Len(b)
        /\ \A i \in 1 .. Len(b) : b[i] \in S
    BY <1>1, CapType, LenProperties, ElementOfSeq
  <2>2. /\ Kept(b) = SubSeq(b, n + 1, Len(b))
        /\ Overflow(b) = SubSeq(b, 1, n)
    BY <1>1 DEF Kept, Overflow
  <2>3. /\ Kept(b) \in Seq(S) /\ Len(Kept(b)) = Cap
        /\ \A i \in 1 .. Cap : Kept(b)[i] = b[n + i]
    <3>1. /\ n + 1 \in Int /\ Len(b) \in Int /\ n + 1 <= Len(b) /\ Len(b) - (n + 1) + 1 = Cap
          /\ \A i \in 1 .. Cap : (n + 1) + i - 1 = n + i
      BY <2>1, CapType
    <3>2. \A i \in n + 1 .. Len(b) : b[i] \in S
      BY <2>1
    <3> HIDE DEF n
    <3>3. /\ SubSeq(b, n + 1, Len(b)) \in Seq(S)
          /\ Len(SubSeq(b, n + 1, Len(b))) = Len(b) - (n + 1) + 1
          /\ \A i \in 1 .. Len(b) - (n + 1) + 1 : SubSeq(b, n + 1, Len(b))[i] = b[(n + 1) + i - 1]
      BY <3>1, <3>2, SubSeqProperties
    <3>4. Len(SubSeq(b, n + 1, Len(b))) = Cap
      BY <3>1, <3>3
    <3>5. ASSUME NEW i \in 1 .. Cap PROVE SubSeq(b, n + 1, Len(b))[i] = b[n + i]
      <4>1. i \in 1 .. Len(b) - (n + 1) + 1 /\ (n + 1) + i - 1 = n + i
        BY <3>1
      <4> QED
        BY <3>3, <4>1
    <3> QED
      BY <2>2, <3>3, <3>4, <3>5
  <2>4. /\ Overflow(b) \in Seq(S) /\ Len(Overflow(b)) = n
        /\ \A i \in 1 .. n : Overflow(b)[i] = b[i]
    BY <2>1, <2>2, SubSeqProperties
  <2>5. DOMAIN Kept(b) = 1 .. Cap /\ DOMAIN Overflow(b) = 1 .. n
    BY <2>3, <2>4, LenProperties
  <2>6. ASSUME NEW i \in 1 .. Len(b) PROVE b[i] \in Keys(Kept(b)) \cup Keys(Overflow(b))
    <3>1. CASE i <= n
      BY <2>1, <2>4, <2>5, <3>1 DEF Keys, Range
    <3>2. CASE i > n
      <4>1. i - n \in 1 .. Cap /\ b[n + (i - n)] = b[i]
        BY <2>1, <3>2, CapType
      <4> QED
        BY <2>3, <2>5, <4>1 DEF Keys, Range
    <3> QED
      BY <2>1, <3>1, <3>2
  <2>7. ASSUME NEW i \in 1 .. Cap PROVE Kept(b)[i] \in Keys(b)
    <3>1. n + i \in DOMAIN b
      BY <2>1, CapType
    <3>2. Kept(b)[i] = b[n + i]
      BY <2>3
    <3> QED
      BY <3>1, <3>2 DEF Keys, Range
  <2>8. ASSUME NEW i \in 1 .. n PROVE Overflow(b)[i] \in Keys(b)
    <3>1. i \in DOMAIN b /\ Overflow(b)[i] = b[i]
      BY <2>1, <2>4
    <3> QED
      BY <3>1 DEF Keys, Range
  <2>9. Keys(b) \subseteq Keys(Kept(b)) \cup Keys(Overflow(b))
    BY <2>1, <2>6 DEF Keys, Range
  <2>10. Keys(Kept(b)) \cup Keys(Overflow(b)) \subseteq Keys(b)
    BY <2>5, <2>7, <2>8 DEF Keys, Range
  <2> QED
    BY <2>3, <2>9, <2>10, CapType
<1>2. CASE ~(Len(b) > Cap)
  <2>1. Kept(b) = b /\ Overflow(b) = <<>>
    BY <1>2 DEF Kept, Overflow
  <2> QED
    BY <1>2, <2>1, CapType, KeysOfEmpty, LenProperties
<1> QED
  BY <1>1, <1>2

-----------------------------------------------------------------------------
(* The inductive invariant.                                                *)

Shape ==
    /\ up \in [Procs -> {"up", "final", "flush"}]
    /\ window \in [Procs -> 0 .. RateLimit]
    /\ phase \in [Procs -> {"get", "check", "insert"}]
    /\ queue \in [Procs -> Seq(MadeKeys)] /\ batch \in [Procs -> Seq(MadeKeys)]
    /\ existing \in [Procs -> SUBSET MadeKeys]
    /\ store \subseteq [key : MadeKeys, by : Procs]

\* A batch grows past the cap by one alert only, and is then written or cut.
Bounds ==
    \A p \in Procs :
        /\ Len(queue[p]) <= QueueSize /\ Len(batch[p]) <= Cap + 1
        /\ existing[p] \subseteq Keys(batch[p])
        /\ phase[p] # "insert" => existing[p] = {}
        /\ up[p] # "up" => phase[p] = "get"
        /\ up[p] = "flush" => batch[p] = <<>>
        /\ up[p] = "up" /\ phase[p] = "get" => Len(batch[p]) <= Cap

\* The unique index on dedup_key.
UniqueRows == \A r, s \in store : r.key = s.key => r = s

\* What is in the table, or was when a write looked, has been stored.
RowsSettled == Stored \subseteq settled /\ \A p \in Procs : existing[p] \subseteq settled

IngestInv == Shape /\ Bounds /\ UniqueRows /\ RowsSettled /\ NoSilentLoss

\* What a write of a collector leaves in the table.
LEMMA InsertKeepsRows ==
    ASSUME Shape, UniqueRows, NEW p \in Procs, NEW K, K \subseteq MadeKeys,
           store' = store \cup Rows(p, Insertable(p, K))
    PROVE  store' \subseteq [key : MadeKeys, by : Procs] /\ UniqueRows'
<1>1. Rows(p, Insertable(p, K)) \subseteq [key : MadeKeys, by : Procs]
  BY DEF Rows, Insertable, Storable
<1>2. ASSUME NEW r \in Rows(p, Insertable(p, K))
      PROVE  r = [key |-> r.key, by |-> p] /\ \A s \in store : s.key # r.key
  BY DEF Rows, Insertable, Stored
<1>3. ASSUME NEW r \in store', NEW s \in store', r.key = s.key PROVE r = s
  <2>1. CASE r \in store /\ s \in store
    BY <1>3, <2>1 DEF UniqueRows
  <2>2. CASE r \in Rows(p, Insertable(p, K)) /\ s \in Rows(p, Insertable(p, K))
    <3>1. r = [key |-> r.key, by |-> p] /\ s = [key |-> s.key, by |-> p]
      BY <1>2, <2>2
    <3> QED
      BY <1>3, <3>1
  <2> QED
    BY <1>2, <1>3, <2>1, <2>2
<1> QED
  BY <1>1, <1>3 DEF Shape, UniqueRows

\* The argument for NoSilentLoss, the same for every step of a collector: what
\* leaves its memory is settled, or has no row; what it is handed is in memory or
\* settled.
LEMMA NothingSlips ==
    ASSUME NoSilentLoss, NEW p \in Procs,
           \A q \in Procs \ {p} : InFlight(q)' = InFlight(q),
           \A k \in InFlight(p) : k[2] \notin Unstorable => k \in InFlight(p)' \cup settled',
           settled \subseteq settled',
           handed' \subseteq handed \cup InFlight(p)' \cup settled'
    PROVE  NoSilentLoss'
<1> SUFFICES ASSUME NEW k \in handed', k[2] \notin Unstorable
             PROVE  k \in settled' \/ \E q \in Procs : k \in InFlight(q)'
  BY DEF NoSilentLoss, Storable
<1>1. CASE k \in handed
  <2>1. k \in settled \/ \E q \in Procs : k \in InFlight(q)
    BY <1>1 DEF NoSilentLoss, Storable
  <2> QED
    BY <2>1 DEF Storable
<1>2. CASE k \notin handed
  BY <1>2
<1> QED
  BY <1>1, <1>2

\* The same for RowsSettled: what a step writes to the table is settled.
LEMMA RowsStay ==
    ASSUME RowsSettled, settled \subseteq settled',
           store' \subseteq store \/ Stored' \subseteq settled',
           \A q \in Procs : existing'[q] \subseteq existing[q] \cup Stored
    PROVE  RowsSettled'
BY DEF RowsSettled, Stored

\* A last write settles all it was given.
LEMMA LastRows ==
    ASSUME IngestInv, NEW p \in Procs, NEW b, LastWrite(p, b), UNCHANGED existing
    PROVE  RowsSettled'
<1>1. PICK K \in SUBSET Keys(b) : store' = store \cup Rows(p, Insertable(p, K))
  BY DEF LastWrite
<1>2. Stored' \subseteq settled'
  BY <1>1 DEF LastWrite, Stored, Rows, Insertable, Storable, IngestInv, RowsSettled
<1> QED
  BY <1>2, RowsStay DEF LastWrite, IngestInv

-----------------------------------------------------------------------------
(* Every step keeps the invariant.                                         *)

LEMMA InitIngest == Init => IngestInv
<1> SUFFICES ASSUME Init PROVE IngestInv
  OBVIOUS
<1>1. Shape
  BY EmptySeq DEF Init, Shape
<1>2. Bounds
  BY CapType, KeysOfEmpty DEF Init, Bounds
<1> QED
  BY <1>1, <1>2 DEF Init, UniqueRows, RowsSettled, Stored, Storable, NoSilentLoss, IngestInv

\* An alert that is handed to the manager is queued or counted as dropped.
LEMMA EnqueueIngest ==
    ASSUME IngestInv, NEW p \in Procs, NEW a, dedup_key(a) \in MadeKeys, enqueue(p, a),
           UNCHANGED <<up, batch, phase, existing, store>>,
           window' \in [Procs -> 0 .. RateLimit]
    PROVE  IngestInv'
<1>1. CASE Room(p)
  <2>1. queue' = Put(queue, p, Append(queue[p], dedup_key(a)))
    BY <1>1 DEF enqueue
  <2>2. /\ queue'[p] = Append(queue[p], dedup_key(a))
        /\ queue'[p] \in Seq(MadeKeys) /\ Len(queue'[p]) <= QueueSize
        /\ Keys(queue'[p]) = Keys(queue[p]) \cup {dedup_key(a)}
    <3>1. queue[p] \in Seq(MadeKeys) /\ Len(queue[p]) < QueueSize /\ Len(queue[p]) \in Nat
      BY <1>1, LenProperties DEF IngestInv, Shape, Room
    <3>2. queue'[p] = Append(queue[p], dedup_key(a))
      BY <2>1 DEF Put, IngestInv, Shape
    <3> QED
      BY <3>1, <3>2, AppendProperties, KeysOfAppend
  <2>3. Shape'
    BY <2>1, <2>2 DEF IngestInv, Shape, Put
  <2>4. Bounds'
    BY <2>1, <2>2 DEF IngestInv, Shape, Bounds, Put
  <2>5. NoSilentLoss'
    <3>1. \A q \in Procs \ {p} : InFlight(q)' = InFlight(q)
      BY <2>1 DEF IngestInv, Shape, Put, InFlight
    <3>2. InFlight(p)' = InFlight(p) \cup {dedup_key(a)}
      BY <2>2 DEF InFlight
    <3>3. settled' = settled /\ handed' = handed \cup {dedup_key(a)}
      BY <1>1 DEF enqueue
    <3> QED
      BY <3>1, <3>2, <3>3, NothingSlips DEF IngestInv
  <2>6. RowsSettled'
    BY <1>1, RowsStay DEF enqueue, IngestInv
  <2> QED
    BY <2>3, <2>4, <2>5, <2>6 DEF IngestInv, UniqueRows
<1>2. CASE ~Room(p)
  <2>1. /\ queue' = queue /\ settled' = settled \cup {dedup_key(a)}
        /\ handed' = handed \cup {dedup_key(a)}
    BY <1>2 DEF enqueue
  <2>2. \A q \in Procs : InFlight(q)' = InFlight(q)
    BY <2>1 DEF InFlight
  <2>3. NoSilentLoss'
    BY <2>1, <2>2, NothingSlips DEF IngestInv
  <2>4. RowsSettled'
    BY <2>1, RowsStay DEF IngestInv
  <2> QED
    BY <2>1, <2>3, <2>4 DEF IngestInv, Shape, Bounds, UniqueRows
<1> QED
  BY <1>1, <1>2

LEMMA OnAlertIngest ==
    ASSUME IngestInv, NEW p \in Procs, NEW e \in Events, on_alert(p, e)
    PROVE  IngestInv'
<1>1. dedup_key(Live(p, e)) \in MadeKeys
  BY MadeKey DEF Live
<1>2. CASE allow(p) /\ enqueue(p, Live(p, e)) /\ window' = Put(window, p, window[p] + 1)
  <2>1. window' \in [Procs -> 0 .. RateLimit]
    BY <1>2 DEF IngestInv, Shape, allow, Put
  <2> QED
    BY <1>1, <1>2, <2>1, EnqueueIngest DEF on_alert
<1>3. CASE /\ ~allow(p)
           /\ handed' = handed \cup {dedup_key(Live(p, e))}
           /\ settled' = settled \cup {dedup_key(Live(p, e))}
           /\ UNCHANGED <<queue, window>>
  <2>1. \A q \in Procs : InFlight(q)' = InFlight(q)
    BY <1>3 DEF InFlight, on_alert
  <2>2. NoSilentLoss'
    BY <1>3, <2>1, NothingSlips DEF IngestInv
  <2>3. RowsSettled'
    BY <1>3, RowsStay DEF on_alert, IngestInv
  <2> QED
    BY <1>3, <2>2, <2>3 DEF on_alert, IngestInv, Shape, Bounds, UniqueRows
<1> QED
  BY <1>2, <1>3 DEF on_alert

LEMMA BaselineIngest ==
    ASSUME IngestInv, NEW p \in Procs, NEW e \in Events, on_baseline_alert(p, e)
    PROVE  IngestInv'
<1> DEFINE a == [ev |-> e, dated |-> e \in Dated, src |-> TRUE, by |-> p]
<1>1. dedup_key(a) \in MadeKeys
  BY MadeKey
<1>2. /\ enqueue(p, a) /\ UNCHANGED <<up, batch, phase, existing, store>>
      /\ window' \in [Procs -> 0 .. RateLimit]
  BY DEF on_baseline_alert, IngestInv, Shape
<1> HIDE DEF a
<1> QED
  BY <1>1, <1>2, EnqueueIngest

LEMMA MinuteIngest ==
    ASSUME IngestInv, NEW p \in Procs, MinutePasses(p)
    PROVE  IngestInv'
<1>1. window' \in [Procs -> 0 .. RateLimit]
  BY DEF MinutePasses, IngestInv, Shape, Put
<1>2. RowsSettled'
  BY RowsStay DEF MinutePasses, IngestInv
<1>3. Shape'
  BY <1>1 DEF MinutePasses, IngestInv, Shape
<1>4. Bounds' /\ UniqueRows'
  BY DEF MinutePasses, IngestInv, Bounds, UniqueRows
<1>5. NoSilentLoss'
  BY DEF MinutePasses, IngestInv, NoSilentLoss, InFlight
<1> QED
  BY <1>2, <1>3, <1>4, <1>5 DEF IngestInv

LEMMA LoopIngest ==
    ASSUME IngestInv, NEW p \in Procs, batch_processor_loop(p)
    PROVE  IngestInv'
<1> DEFINE b == IF queue[p] = <<>> THEN batch[p] ELSE Append(batch[p], Head(queue[p]))
           q == IF queue[p] = <<>> THEN <<>> ELSE Tail(queue[p])
<1>1. PICK d \in Due(b) :
         /\ batch' = Put(batch, p, b) /\ queue' = Put(queue, p, q) /\ phase' = Put(phase, p, d)
         /\ up[p] = "up" /\ phase[p] = "get"
         /\ UNCHANGED <<up, window, existing, store, handed, settled>>
  BY DEF batch_processor_loop
<1>2. /\ queue[p] \in Seq(MadeKeys) /\ batch[p] \in Seq(MadeKeys)
      /\ Len(batch[p]) \in Nat /\ Len(batch[p]) <= Cap
      /\ Len(queue[p]) \in Nat /\ Len(queue[p]) <= QueueSize
      /\ existing[p] = {}
  BY <1>1, LenProperties DEF IngestInv, Shape, Bounds
<1>3. /\ b \in Seq(MadeKeys) /\ q \in Seq(MadeKeys)
      /\ Len(b) \in Nat /\ Len(b) <= Cap + 1 /\ Len(q) <= QueueSize
      /\ Keys(b) \cup Keys(q) = Keys(batch[p]) \cup Keys(queue[p])
  <2>1. CASE queue[p] = <<>>
    BY <1>2, <2>1, CapType
  <2>2. CASE queue[p] # <<>>
    <3>1. /\ Head(queue[p]) \in MadeKeys /\ Tail(queue[p]) \in Seq(MadeKeys)
          /\ Len(Tail(queue[p])) = Len(queue[p]) - 1
          /\ Keys(queue[p]) = {Head(queue[p])} \cup Keys(Tail(queue[p]))
      BY <1>2, <2>2, HeadTailProperties, KeysOfTail
    <3>2. /\ Append(batch[p], Head(queue[p])) \in Seq(MadeKeys)
          /\ Len(Append(batch[p], Head(queue[p]))) = Len(batch[p]) + 1
          /\ Keys(Append(batch[p], Head(queue[p]))) = Keys(batch[p]) \cup {Head(queue[p])}
      BY <1>2, <3>1, AppendProperties, KeysOfAppend
    <3> QED
      BY <1>2, <2>2, <3>1, <3>2, CapType
  <2> QED
    BY <2>1, <2>2
<1>4. d \in {"get", "check"} /\ (d = "get" => Len(b) <= Cap)
  BY <1>3, CapType DEF Due
<1> HIDE DEF b, q
<1>5. Shape'
  BY <1>1, <1>3, <1>4 DEF IngestInv, Shape, Put
<1>6. Bounds'
  BY <1>1, <1>2, <1>3, <1>4 DEF IngestInv, Shape, Bounds, Put
<1>7. NoSilentLoss'
  <2>1. \A r \in Procs \ {p} : InFlight(r)' = InFlight(r)
    BY <1>1 DEF IngestInv, Shape, Put, InFlight
  <2>2. InFlight(p)' = InFlight(p)
    BY <1>1, <1>3 DEF IngestInv, Shape, Put, InFlight
  <2> QED
    BY <1>1, <2>1, <2>2, NothingSlips DEF IngestInv
<1>8. RowsSettled'
  BY <1>1, RowsStay DEF IngestInv
<1> QED
  BY <1>1, <1>5, <1>6, <1>7, <1>8 DEF IngestInv, UniqueRows

LEMMA MemoryKeys ==
    ASSUME Shape, NEW p \in Procs
    PROVE  /\ queue[p] \in Seq(MadeKeys) /\ Keys(queue[p]) \subseteq MadeKeys
           /\ batch[p] \in Seq(MadeKeys) /\ Keys(batch[p]) \subseteq MadeKeys
BY RangeOfSeq DEF Shape, Keys

LEMMA CheckIngest ==
    ASSUME IngestInv, NEW p \in Procs, CheckExisting(p)
    PROVE  IngestInv'
<1>1. Shape'
  BY MemoryKeys DEF CheckExisting, IngestInv, Shape, Put
<1>2. Bounds'
  BY DEF CheckExisting, IngestInv, Shape, Bounds, Put
<1>3. NoSilentLoss'
  BY DEF CheckExisting, IngestInv, NoSilentLoss, InFlight
<1>4. RowsSettled'
  <2>1. \A q \in Procs : existing'[q] \subseteq existing[q] \cup Stored
    BY DEF CheckExisting, IngestInv, Shape, Put
  <2> QED
    BY <2>1, RowsStay DEF CheckExisting, IngestInv
<1> QED
  BY <1>1, <1>2, <1>3, <1>4 DEF CheckExisting, IngestInv, UniqueRows

LEMMA WriteIngest ==
    ASSUME IngestInv, NEW p \in Procs, create_alerts_batch(p)
    PROVE  IngestInv'
<1>1. store' \subseteq [key : MadeKeys, by : Procs] /\ UniqueRows'
  BY InsertKeepsRows, MemoryKeys DEF create_alerts_batch, IngestInv
<1>2. Shape'
  BY <1>1, EmptySeq DEF create_alerts_batch, IngestInv, Shape, Put
<1>3. Bounds'
  BY CapType, KeysOfEmpty DEF create_alerts_batch, IngestInv, Shape, Bounds, Put
<1>4. NoSilentLoss'
  <2>1. \A q \in Procs \ {p} : InFlight(q)' = InFlight(q)
    BY DEF create_alerts_batch, IngestInv, Shape, Put, InFlight
  <2>2. ASSUME NEW k \in Keys(batch[p]), k[2] \notin Unstorable PROVE k \in settled'
    <3>1. k \in existing[p] \cup Stored \cup Insertable(p, Keys(batch[p]))
      BY <2>2 DEF Insertable, Storable
    <3>2. Insertable(p, Keys(batch[p])) \subseteq Stored'
      <4> SUFFICES ASSUME NEW i \in Insertable(p, Keys(batch[p])) PROVE i \in Stored'
        OBVIOUS
      <4>1. [key |-> i, by |-> p] \in store'
        BY DEF create_alerts_batch, Rows
      <4> QED
        BY <4>1 DEF Stored
    <3> QED
      BY <3>1, <3>2 DEF create_alerts_batch, IngestInv, RowsSettled
  <2>3. queue' = queue
    BY DEF create_alerts_batch
  <2> QED
    BY <2>1, <2>2, <2>3, NothingSlips DEF create_alerts_batch, IngestInv, InFlight
<1>5. RowsSettled'
  <2>1. \A q \in Procs : existing'[q] \subseteq existing[q] \cup Stored
    BY DEF create_alerts_batch, IngestInv, Shape, Put
  <2> QED
    BY <2>1, RowsStay DEF create_alerts_batch, IngestInv
<1> QED
  BY <1>1, <1>2, <1>3, <1>4, <1>5 DEF IngestInv

LEMMA WriteFailsIngest ==
    ASSUME IngestInv, NEW p \in Procs, WriteFails(p)
    PROVE  IngestInv'
<1>1. PICK K \in {{}} \cup SUBSET Keys(batch[p]) :
         /\ store' = store \cup Rows(p, Insertable(p, K))
         /\ settled' = settled \cup Stored' \cup Keys(Overflow(batch[p]))
  BY DEF WriteFails
<1>2. store' \subseteq [key : MadeKeys, by : Procs] /\ UniqueRows'
  BY <1>1, InsertKeepsRows, MemoryKeys DEF IngestInv
<1>3. /\ Kept(batch[p]) \in Seq(MadeKeys) /\ Len(Kept(batch[p])) <= Cap
      /\ Keys(batch[p]) = Keys(Kept(batch[p])) \cup Keys(Overflow(batch[p]))
  BY MemoryKeys, KeptAndOverflow DEF IngestInv
<1>4. Len(Kept(batch[p])) <= Cap + 1
  BY <1>3, CapType, LenProperties
<1>5. Shape'
  BY <1>2, <1>3 DEF WriteFails, IngestInv, Shape, Put
<1>6. Bounds'
  BY <1>3, <1>4 DEF WriteFails, IngestInv, Shape, Bounds, Put
<1>7. NoSilentLoss'
  <2>1. \A q \in Procs \ {p} : InFlight(q)' = InFlight(q)
    BY DEF WriteFails, IngestInv, Shape, Put, InFlight
  <2>2. batch'[p] = Kept(batch[p]) /\ queue'[p] = queue[p] /\ handed' = handed
    BY DEF WriteFails, IngestInv, Shape, Put
  <2>3. InFlight(p) \subseteq InFlight(p)' \cup settled'
    BY <1>1, <1>3, <2>2 DEF InFlight
  <2> QED
    BY <1>1, <2>1, <2>2, <2>3, NothingSlips DEF IngestInv
<1>8. RowsSettled'
  <2>1. \A q \in Procs : existing'[q] \subseteq existing[q] \cup Stored
    BY DEF WriteFails, IngestInv, Shape, Put
  <2> QED
    BY <1>1, <2>1, RowsStay DEF IngestInv
<1> QED
  BY <1>2, <1>5, <1>6, <1>7, <1>8 DEF IngestInv

LEMMA RetentionIngest == IngestInv /\ delete_alerts_before => IngestInv'
<1> SUFFICES ASSUME IngestInv, delete_alerts_before PROVE IngestInv'
  OBVIOUS
<1>1. store' \subseteq store
  BY DEF delete_alerts_before
<1>2. RowsSettled'
  BY <1>1, RowsStay DEF delete_alerts_before, IngestInv
<1> QED
  BY <1>1, <1>2 DEF delete_alerts_before, IngestInv, Shape, Bounds, UniqueRows, NoSilentLoss, InFlight

LEMMA StopIngest ==
    ASSUME IngestInv, NEW p \in Procs, Stop(p)
    PROVE  IngestInv'
<1>1. PICK K \in SUBSET Keys(batch[p]) :
         /\ store' = store \cup Rows(p, Insertable(p, K)) /\ settled' = settled \cup Stored'
  BY DEF Stop
<1>2. store' \subseteq [key : MadeKeys, by : Procs] /\ UniqueRows'
  BY <1>1, InsertKeepsRows, MemoryKeys DEF IngestInv
<1>3. Shape'
  BY <1>2 DEF Stop, IngestInv, Shape, Put
<1>4. Bounds'
  BY DEF Stop, IngestInv, Shape, Bounds, Put
<1>5. NoSilentLoss'
  BY <1>1 DEF Stop, IngestInv, NoSilentLoss, InFlight
<1>6. RowsSettled'
  <2>1. \A q \in Procs : existing'[q] \subseteq existing[q] \cup Stored
    BY DEF Stop, IngestInv, Shape, Put
  <2> QED
    BY <1>1, <2>1, RowsStay DEF IngestInv
<1> QED
  BY <1>2, <1>3, <1>4, <1>5, <1>6 DEF IngestInv

LEMMA FinalWriteIngest ==
    ASSUME IngestInv, NEW p \in Procs, FinalWrite(p)
    PROVE  IngestInv'
<1>1. PICK K \in SUBSET Keys(batch[p]) : store' = store \cup Rows(p, Insertable(p, K))
  BY DEF FinalWrite, LastWrite
<1>2. store' \subseteq [key : MadeKeys, by : Procs] /\ UniqueRows'
  BY <1>1, InsertKeepsRows, MemoryKeys DEF IngestInv
<1>3. Shape'
  BY <1>2, EmptySeq DEF FinalWrite, IngestInv, Shape, Put
<1>4. Bounds'
  BY CapType, KeysOfEmpty DEF FinalWrite, IngestInv, Shape, Bounds, Put
<1>5. NoSilentLoss'
  <2>1. \A q \in Procs \ {p} : InFlight(q)' = InFlight(q)
    BY DEF FinalWrite, IngestInv, Shape, Put, InFlight
  <2>2. /\ settled' = settled \cup Keys(batch[p]) /\ handed' = handed
        /\ InFlight(p) \subseteq InFlight(p)' \cup settled'
    BY DEF FinalWrite, LastWrite, InFlight
  <2> QED
    BY <2>1, <2>2, NothingSlips DEF IngestInv
<1>6. RowsSettled'
  BY LastRows DEF FinalWrite
<1> QED
  BY <1>2, <1>3, <1>4, <1>5, <1>6 DEF IngestInv

LEMMA FlushIngest ==
    ASSUME IngestInv, NEW p \in Procs, flush_batch(p)
    PROVE  IngestInv'
<1>1. PICK K \in SUBSET Keys(queue[p]) : store' = store \cup Rows(p, Insertable(p, K))
  BY DEF flush_batch, LastWrite
<1>2. store' \subseteq [key : MadeKeys, by : Procs] /\ UniqueRows'
  BY <1>1, InsertKeepsRows, MemoryKeys DEF IngestInv
<1>3. Shape'
  BY <1>2, EmptySeq DEF flush_batch, IngestInv, Shape, Put
<1>4. Bounds'
  BY CapType DEF flush_batch, IngestInv, Shape, Bounds, Put
<1>5. NoSilentLoss'
  <2>1. \A q \in Procs \ {p} : InFlight(q)' = InFlight(q)
    BY DEF flush_batch, IngestInv, Shape, Put, InFlight
  <2>2. /\ settled' = settled \cup Keys(queue[p]) /\ handed' = handed
        /\ InFlight(p) \subseteq InFlight(p)' \cup settled'
    BY DEF flush_batch, LastWrite, InFlight
  <2> QED
    BY <2>1, <2>2, NothingSlips DEF IngestInv
<1>6. RowsSettled'
  BY LastRows DEF flush_batch
<1> QED
  BY <1>2, <1>3, <1>4, <1>5, <1>6 DEF IngestInv

LEMMA CrashIngest ==
    ASSUME IngestInv, NEW p \in Procs, Crash(p)
    PROVE  IngestInv'
<1>1. Shape'
  BY EmptySeq DEF Crash, IngestInv, Shape, Put
<1>2. Bounds'
  BY CapType, KeysOfEmpty DEF Crash, IngestInv, Shape, Bounds, Put
<1>3. NoSilentLoss'
  <2>1. \A q \in Procs \ {p} : InFlight(q)' = InFlight(q)
    BY DEF Crash, IngestInv, Shape, Put, InFlight
  <2>2. /\ settled' = settled \cup Keys(queue[p]) \cup Keys(batch[p]) /\ handed' = handed
        /\ InFlight(p) \subseteq InFlight(p)' \cup settled'
    BY DEF Crash, InFlight
  <2> QED
    BY <2>1, <2>2, NothingSlips DEF IngestInv
<1>4. RowsSettled'
  <2>1. \A q \in Procs : existing'[q] \subseteq existing[q] \cup Stored
    BY DEF Crash, IngestInv, Shape, Put
  <2> QED
    BY <2>1, RowsStay DEF Crash, IngestInv
<1> QED
  BY <1>1, <1>2, <1>3, <1>4 DEF Crash, IngestInv, UniqueRows

\* The invariant holds in every state that a collector's handlers, its writer, a
\* stop, a crash and the retention can reach.
THEOREM IngestInvariance == Spec => []IngestInv
<1>1. IngestInv /\ [Next]_vars => IngestInv'
  <2> SUFFICES ASSUME IngestInv, [Next]_vars PROVE IngestInv'
    OBVIOUS
  <2>1. CASE delete_alerts_before
    BY <2>1, RetentionIngest
  <2>2. ASSUME NEW p \in Procs, NEW e \in Events,
               \/ process_event_data(p, e) \/ redfish_webhook_receiver(p, e)
               \/ on_baseline_alert(p, e)
        PROVE  IngestInv'
    BY <2>2, OnAlertIngest, BaselineIngest
       DEF process_event_data, redfish_webhook_receiver, process_webhook_event
  <2>3. ASSUME NEW p \in Procs,
               \/ MinutePasses(p) \/ batch_processor_loop(p) \/ CheckExisting(p)
               \/ create_alerts_batch(p) \/ WriteFails(p)
               \/ Stop(p) \/ FinalWrite(p) \/ flush_batch(p) \/ Crash(p)
        PROVE  IngestInv'
    BY <2>3, MinuteIngest, LoopIngest, CheckIngest, WriteIngest, WriteFailsIngest, StopIngest,
       FinalWriteIngest, FlushIngest, CrashIngest
  <2>4. CASE UNCHANGED vars
    BY <2>4 DEF vars, IngestInv, Shape, Bounds, UniqueRows, RowsSettled, Stored, NoSilentLoss, InFlight
  <2> QED
    BY <2>1, <2>2, <2>3, <2>4 DEF Next
<1> QED
  BY <1>1, InitIngest, PTL DEF Spec

-----------------------------------------------------------------------------

\* Queues and batches stay within their bounds, also while every write fails:
\* a batch has at most one alert more than the cap (_batch_processor_loop).
THEOREM MemoryBounded == Spec => []TypeOK
<1>1. IngestInv => TypeOK
  <2> SUFFICES ASSUME IngestInv, NEW p \in Procs
               PROVE  Keys(queue[p]) \subseteq AllKeys /\ Keys(batch[p]) \subseteq AllKeys
    BY DEF IngestInv, Shape, Bounds, TypeOK
  <2> QED
    BY MemoryKeys DEF IngestInv, MadeKeys
<1> QED
  BY <1>1, IngestInvariance, PTL

\* No alert that the manager was handed and that can have a row disappears without
\* having been in the table, counted as dropped, or in memory at a crash or a
\* failing last write, although the rows that are refused go uncounted
\* (_enqueue, _batch_processor_loop, create_alerts_batch, stop).
THEOREM AlertsNotLost == Spec => []NoSilentLoss
<1>1. IngestInv => NoSilentLoss
  BY DEF IngestInv
<1> QED
  BY <1>1, IngestInvariance, PTL

\* An event with a time has one row, whoever received it and however often
\* (_compute_alert_dedup_key and the unique index of create_alerts_batch).
THEOREM AlertsStoredOnce == Spec => []StoredOnce
<1>1. IngestInv => StoredOnce
  <2> SUFFICES ASSUME IngestInv, NEW e \in Dated
               PROVE  Cardinality({r \in store : r.key[2] = e}) <= 1
    BY DEF StoredOnce
  <2> DEFINE R == {r \in store : r.key[2] = e}
  <2>1. \A r \in R : r.key = <<"content", e>>
    BY DEF IngestInv, Shape, MadeKeys
  <2>2. \A r, s \in R : r = s
    BY <2>1 DEF IngestInv, UniqueRows
  <2> HIDE DEF R
  <2>3. ASSUME R = {} PROVE Cardinality(R) <= 1
    BY <2>3, FS_EmptySet
  <2>4. ASSUME R # {} PROVE Cardinality(R) <= 1
    <3>1. PICK r \in R : R = {r}
      BY <2>2, <2>4
    <3>2. Cardinality({r}) = 1
      BY FS_Singleton
    <3> QED
      BY <3>1, <3>2
  <2> QED
    BY <2>3, <2>4 DEF R
<1> QED
  BY <1>1, IngestInvariance, PTL

-----------------------------------------------------------------------------
HIDE IngestAssumption
USE CperAssumption

-----------------------------------------------------------------------------
(* The batch a worker selects.                                             *)

Oldest == {a \in Pending : Cardinality({b \in Pending : b < a}) < DecodeBatch}

\* "ORDER BY occurred_at LIMIT n" selects at most n rows, of any table: the
\* number of older rows tells those selected apart.
LEMMA OldestBounded == IsFiniteSet(Oldest) /\ Cardinality(Oldest) <= DecodeBatch
<1> DEFINE Older(a) == {b \in Pending : b < a}
           f == [a \in Oldest |-> Cardinality(Older(a))]
           T == 0 .. DecodeBatch - 1
<1>1. Pending \subseteq Nat /\ Oldest \subseteq Pending /\ DecodeBatch \in Nat \ {0}
  BY DEF Pending, Oldest
<1>2. ASSUME NEW a \in Pending PROVE IsFiniteSet(Older(a)) /\ Cardinality(Older(a)) \in Nat
  <2>1. IsFiniteSet(0 .. a)
    BY <1>1, FS_Interval
  <2>2. Older(a) \in SUBSET (0 .. a)
    <3>1. \A b \in Nat : a \in Nat /\ b < a => b \in 0 .. a
      OBVIOUS
    <3>2. \A b \in Older(a) : b \in 0 .. a
      BY <1>1, <3>1
    <3> QED
      BY <3>2
  <2> HIDE DEF Older
  <2>3. IsFiniteSet(Older(a))
    BY <2>1, <2>2, FS_Subset
  <2> QED
    BY <2>3, FS_CardinalityType
<1>3. ASSUME NEW a \in Oldest, NEW c \in Oldest, a < c
      PROVE  Cardinality(Older(a)) # Cardinality(Older(c))
  <2>1. a \in Nat /\ c \in Nat /\ a \in Pending /\ c \in Pending
    BY <1>1
  <2>2. Older(a) \in SUBSET Older(c)
    <3>1. \A b \in Nat : b < a => b < c
      BY <1>3, <2>1
    <3>2. \A b \in Older(a) : b \in Older(c)
      BY <1>1, <3>1
    <3> QED
      BY <3>2
  <2>3. a \in Older(c) /\ a \notin Older(a)
    BY <1>3, <2>1
  <2>4. IsFiniteSet(Older(c))
    BY <1>2, <2>1
  <2> HIDE DEF Older
  <2> QED
    BY <2>2, <2>3, <2>4, FS_Subset
<1>4. f \in Injection(Oldest, T)
  <2>1. \A a \in Oldest : Cardinality(Older(a)) \in T
    BY <1>1, <1>2 DEF Oldest
  <2>2. \A a, c \in Oldest : f[a] = f[c] => a = c
    <3> HIDE DEF Older
    <3>1. ASSUME NEW a \in Oldest, NEW c \in Oldest, f[a] = f[c] PROVE a = c
      <4>1. a \in Nat /\ c \in Nat
        BY <1>1
      <4>2. ~(a < c) /\ ~(c < a)
        BY <1>3, <3>1
      <4> QED
        BY <4>1, <4>2
    <3> QED
      BY <3>1
  <2> HIDE DEF Older
  <2> QED
    BY <2>1, <2>2 DEF Injection, IsInjective
<1>5. IsFiniteSet(T) /\ Cardinality(T) = DecodeBatch
  BY <1>1, FS_Interval
<1> HIDE DEF f, T
<1>6. IsFiniteSet(Oldest) /\ Cardinality(Oldest) <= Cardinality(T)
  BY <1>4, <1>5, FS_Injection
<1> QED
  BY <1>5, <1>6

-----------------------------------------------------------------------------
(* The inductive invariant.                                                *)

Row == [attempts : Nat, has : BOOLEAN,
        out : {"waiting", "decoded", "unavailable", "fetch_error", "decode_error"}]

\* A worker holds rows that it has selected, and none while it sleeps.
RowsOK ==
    /\ DOMAIN rows = Workers /\ rows = [w \in Workers |-> rows[w]]
    /\ chosen \in [Workers -> SUBSET Alerts]
    /\ \A w \in Workers :
          /\ DOMAIN rows[w] \subseteq Alerts
          /\ \A a \in DOMAIN rows[w] : rows[w][a] \in Row

DecodeInv == DecodeTypeOK /\ RowsOK

LEMMA InitDecode == DecodeInit => DecodeInv
<1> SUFFICES ASSUME DecodeInit PROVE DecodeInv
  OBVIOUS
<1>1. DOMAIN << >> = {}
  OBVIOUS
<1>2. RowsOK
  BY <1>1 DEF DecodeInit, RowsOK
<1>3. DecodeTypeOK
  BY <1>1, FS_EmptySet DEF DecodeInit, DecodeTypeOK, Ages, Gone, Terminal
<1> QED
  BY <1>2, <1>3 DEF DecodeInv

LEMMA TableDecode ==
    ASSUME DecodeInv, NEW a \in Alerts, AlertStored(a) \/ AlertDeleted(a)
    PROVE  DecodeInv'
<1>1. CASE AlertStored(a)
  <2>1. status' \in [Alerts -> {Gone, "pending", "fetch_failed"} \cup Terminal]
    BY <1>1 DEF DecodeInv, DecodeTypeOK, AlertStored, With
  <2> QED
    BY <1>1, <2>1 DEF DecodeInv, DecodeTypeOK, RowsOK, AlertStored
<1>2. CASE AlertDeleted(a)
  <2>1. status' \in [Alerts -> {Gone, "pending", "fetch_failed"} \cup Terminal]
    BY <1>2 DEF DecodeInv, DecodeTypeOK, AlertDeleted, With
  <2>2. attempts' \in [Alerts -> Nat]
    BY <1>2 DEF DecodeInv, DecodeTypeOK, AlertDeleted, With
  <2>3. blob' \in [Alerts -> BOOLEAN]
    BY <1>2 DEF DecodeInv, DecodeTypeOK, AlertDeleted, With
  <2>4. age' \in [Alerts -> Ages]
    BY <1>2 DEF DecodeInv, DecodeTypeOK, AlertDeleted, With, Ages
  <2> QED
    BY <1>2, <2>1, <2>2, <2>3, <2>4 DEF DecodeInv, DecodeTypeOK, RowsOK, AlertDeleted
<1> QED
  BY <1>1, <1>2

LEMMA TimeDecode == DecodeInv /\ (TimePasses \/ CalmDown) => DecodeInv'
BY DEF DecodeInv, DecodeTypeOK, RowsOK, TimePasses, CalmDown, table, Ages

LEMMA WakeDecode ==
    ASSUME DecodeInv, NEW w \in Workers, Wake(w)
    PROVE  DecodeInv'
BY DEF DecodeInv, DecodeTypeOK, RowsOK, Wake, With, table

LEMMA RequeueDecode ==
    ASSUME DecodeInv, NEW w \in Workers, requeue_failed_cper(w)
    PROVE  DecodeInv'
<1>1. /\ status' \in [Alerts -> {Gone, "pending", "fetch_failed"} \cup Terminal]
      /\ attempts' \in [Alerts -> Nat]
  BY DEF DecodeInv, DecodeTypeOK, requeue_failed_cper
<1>2. chosen' \in [Workers -> SUBSET Alerts]
  BY DEF DecodeInv, RowsOK, requeue_failed_cper, Requeueable, With
<1>3. /\ at' \in [Workers -> {"sleep", "requeue", "finalize", "select", "batch"}]
      /\ \A v \in Workers : at'[v] = "batch" <=> at[v] = "batch"
  BY DEF DecodeInv, DecodeTypeOK, requeue_failed_cper, With
<1> QED
  BY <1>1, <1>2, <1>3 DEF DecodeInv, DecodeTypeOK, RowsOK, requeue_failed_cper

LEMMA FinalizeDecode ==
    ASSUME DecodeInv, NEW w \in Workers, finalize_exhausted_cper(w)
    PROVE  DecodeInv'
BY DEF DecodeInv, DecodeTypeOK, RowsOK, finalize_exhausted_cper, With

LEMMA SelectDecode ==
    ASSUME DecodeInv, NEW w \in Workers, get_pending_cper_alerts(w)
    PROVE  DecodeInv'
<1> DEFINE r == [a \in Oldest |-> [attempts |-> attempts[a], has |-> blob[a], out |-> "waiting"]]
<1>1. /\ at[w] = "select" /\ rows' = With(rows, w, r)
      /\ at' = With(at, w, IF Oldest = {} THEN "sleep" ELSE "batch")
      /\ UNCHANGED <<table, chosen, calm>>
  BY DEF get_pending_cper_alerts, Oldest
<1>2. Oldest \subseteq Alerts
  BY DEF Oldest, Pending
<1>3. \A a \in Oldest : r[a] \in Row
  BY <1>2 DEF DecodeInv, DecodeTypeOK, Row
<1>4. DOMAIN r = Oldest /\ (Oldest = {} <=> r = << >>)
  OBVIOUS
<1> HIDE DEF r
<1>5. RowsOK'
  BY <1>1, <1>2, <1>3, <1>4 DEF DecodeInv, RowsOK, With
<1>6. DecodeTypeOK'
  BY <1>1, <1>2, <1>4, OldestBounded DEF DecodeInv, DecodeTypeOK, RowsOK, With, table
<1> QED
  BY <1>5, <1>6 DEF DecodeInv

LEMMA EnrichDecode ==
    ASSUME DecodeInv, NEW w \in Workers, NEW a \in Alerts, enrich_one(w, a)
    PROVE  DecodeInv'
<1>1. PICK o \in Outcomes(a, rows[w][a]) :
         rows' = With(rows, w, [rows[w] EXCEPT ![a].out = o])
  BY DEF enrich_one
<1> DEFINE r == [rows[w] EXCEPT ![a].out = o]
<1>2. /\ DOMAIN r = DOMAIN rows[w] /\ a \in DOMAIN rows[w]
      /\ r # << >>
  BY DEF enrich_one
<1>3. o \in {"decoded", "unavailable", "fetch_error", "decode_error"}
  BY DEF Outcomes
<1>4. \A b \in DOMAIN r : r[b] \in Row
  BY <1>2, <1>3 DEF DecodeInv, RowsOK, Row
<1>5. rows' = With(rows, w, r)
  BY <1>1
<1> HIDE DEF r
<1>6. RowsOK'
  BY <1>2, <1>4, <1>5 DEF DecodeInv, RowsOK, With, enrich_one
<1>7. DecodeTypeOK'
  BY <1>2, <1>5 DEF DecodeInv, DecodeTypeOK, RowsOK, With, enrich_one, table
<1> QED
  BY <1>6, <1>7 DEF DecodeInv

LEMMA ResultsDecode ==
    ASSUME DecodeInv, NEW w \in Workers, NEW W \in SUBSET DOMAIN rows[w],
           set_cper_results_batch(w, W)
    PROVE  DecodeInv'
<1>1. \A a \in W : /\ NewStatus(rows[w][a]) \in {"pending", "fetch_failed"} \cup Terminal
                   /\ Increment(rows[w][a]) \in Nat
  BY DEF set_cper_results_batch, DecodeInv, RowsOK, Row, NewStatus, Failed, Increment, Terminal
<1>2. /\ status' \in [Alerts -> {Gone, "pending", "fetch_failed"} \cup Terminal]
      /\ attempts' \in [Alerts -> Nat] /\ blob' \in [Alerts -> BOOLEAN] /\ age' \in [Alerts -> Ages]
  BY <1>1 DEF set_cper_results_batch, DecodeInv, DecodeTypeOK, Ages
<1>3. DOMAIN << >> = {}
  OBVIOUS
<1>4. RowsOK'
  BY <1>3 DEF set_cper_results_batch, DecodeInv, RowsOK, With
<1>5. DecodeTypeOK'
  BY <1>2, <1>3, FS_EmptySet DEF set_cper_results_batch, DecodeInv, DecodeTypeOK, RowsOK, With
<1> QED
  BY <1>4, <1>5 DEF DecodeInv

LEMMA RestartDecode ==
    ASSUME DecodeInv, NEW w \in Workers, Restart(w)
    PROVE  DecodeInv'
<1>1. DOMAIN << >> = {}
  OBVIOUS
<1>2. RowsOK'
  BY <1>1 DEF Restart, DecodeInv, RowsOK, With
<1>3. DecodeTypeOK'
  BY <1>1, FS_EmptySet DEF Restart, DecodeInv, DecodeTypeOK, RowsOK, With, table
<1> QED
  BY <1>2, <1>3 DEF DecodeInv

\* The workers' tables, batches and places keep their types, and no batch is
\* larger than batch_size (get_pending_cper_alerts).
THEOREM DecodeTypeCorrect == DecodeSpec => []DecodeInv
<1>1. DecodeInv /\ [DecodeNext]_decodeVars => DecodeInv'
  <2> SUFFICES ASSUME DecodeInv, [DecodeNext]_decodeVars PROVE DecodeInv'
    OBVIOUS
  <2>1. CASE TimePasses \/ CalmDown
    BY <2>1, TimeDecode
  <2>2. ASSUME NEW a \in Alerts, AlertStored(a) \/ AlertDeleted(a) PROVE DecodeInv'
    BY <2>2, TableDecode
  <2>3. ASSUME NEW w \in Workers, WorkerStep(w) \/ Restart(w) PROVE DecodeInv'
    BY <2>3, WakeDecode, RequeueDecode, FinalizeDecode, SelectDecode, EnrichDecode,
       ResultsDecode, RestartDecode DEF WorkerStep, AllWritten
  <2>4. ASSUME NEW w \in Workers, NEW W \in SUBSET DOMAIN rows[w], set_cper_results_batch(w, W)
        PROVE  DecodeInv'
    BY <2>4, ResultsDecode
  <2>5. CASE UNCHANGED decodeVars
    BY <2>5 DEF decodeVars, DecodeInv, DecodeTypeOK, RowsOK
  <2> QED
    BY <2>1, <2>2, <2>3, <2>4, <2>5 DEF DecodeNext
<1> QED
  BY <1>1, InitDecode, PTL DEF DecodeSpec

-----------------------------------------------------------------------------
(* What becomes of a row that is decoded, undecodable or unavailable.       *)

TerminalStep ==
    \A a \in Alerts :
       status[a] \in Terminal =>
          /\ Holders(a)' \subseteq Holders(a)
          /\ Holders(a) = {} => status'[a] \in {status[a], Gone}

\* The rows that a step lets a worker hold, and those whose status it changes:
\* the argument for every step.
LEMMA TerminalByHolders ==
    ASSUME \A a \in Alerts : status[a] \in Terminal =>
              /\ \A w \in Workers : a \in DOMAIN rows'[w] \cup chosen'[w]
                                       => a \in DOMAIN rows[w] \cup chosen[w]
              /\ status'[a] \in {status[a], Gone} \/ \E w \in Workers : a \in DOMAIN rows[w] \cup chosen[w]
    PROVE  TerminalStep
BY DEF TerminalStep, Holders

LEMMA WorkerTerminal ==
    ASSUME DecodeInv, NEW w \in Workers, WorkerStep(w) \/ Restart(w)
    PROVE  TerminalStep
<1> SUFFICES ASSUME NEW a \in Alerts, status[a] \in Terminal
             PROVE  /\ \A v \in Workers : a \in DOMAIN rows'[v] \cup chosen'[v]
                                             => a \in DOMAIN rows[v] \cup chosen[v]
                    /\ \/ status'[a] \in {status[a], Gone}
                       \/ \E v \in Workers : a \in DOMAIN rows[v] \cup chosen[v]
  BY TerminalByHolders
<1>1. status[a] \notin {"pending", "fetch_failed"}
  BY DEF Terminal
<1>2. CASE Wake(w)
  BY <1>2 DEF Wake, table
<1>3. CASE requeue_failed_cper(w)
  <2>1. a \notin Requeueable
    BY <1>1 DEF Requeueable
  <2>2. \A v \in Workers : a \in chosen'[v] => a \in chosen[v]
    BY <1>3, <2>1 DEF requeue_failed_cper, With, DecodeInv, RowsOK
  <2>3. status'[a] = status[a] \/ a \in chosen[w]
    BY <1>3 DEF requeue_failed_cper
  <2> QED
    BY <1>3, <2>2, <2>3 DEF requeue_failed_cper
<1>4. CASE finalize_exhausted_cper(w)
  <2>1. ~Exhausted(a)
    BY <1>1 DEF Exhausted
  <2> QED
    BY <1>4, <2>1 DEF finalize_exhausted_cper
<1>5. CASE get_pending_cper_alerts(w)
  <2>1. a \notin Oldest
    BY <1>1 DEF Oldest, Pending
  <2>2. DOMAIN rows'[w] = Oldest /\ \A v \in Workers \ {w} : rows'[v] = rows[v]
    BY <1>5 DEF get_pending_cper_alerts, Oldest, With, DecodeInv, RowsOK
  <2> QED
    BY <1>5, <2>1, <2>2 DEF get_pending_cper_alerts, table
<1>6. CASE AllWritten(w)
  <2>1. status'[a] = status[a] \/ a \in DOMAIN rows[w]
    BY <1>6 DEF AllWritten, set_cper_results_batch
  <2>2. \A v \in Workers : DOMAIN rows'[v] \subseteq DOMAIN rows[v]
    BY <1>6 DEF AllWritten, set_cper_results_batch, With, DecodeInv, RowsOK
  <2> QED
    BY <1>6, <2>1, <2>2 DEF AllWritten, set_cper_results_batch
<1>7. CASE \E b \in Alerts : enrich_one(w, b)
  <2>1. \A v \in Workers : DOMAIN rows'[v] = DOMAIN rows[v]
    BY <1>7 DEF enrich_one, With, DecodeInv, RowsOK
  <2> QED
    BY <1>7, <2>1 DEF enrich_one, table
<1>8. CASE Restart(w)
  <2>1. \A v \in Workers : DOMAIN rows'[v] \subseteq DOMAIN rows[v] /\ chosen'[v] \subseteq chosen[v]
    BY <1>8 DEF Restart, With, DecodeInv, RowsOK
  <2> QED
    BY <1>8, <2>1 DEF Restart, table
<1> QED
  BY <1>2, <1>3, <1>4, <1>5, <1>6, <1>7, <1>8 DEF WorkerStep

LEMMA ResultsTerminal ==
    ASSUME DecodeInv, NEW w \in Workers, NEW W \in SUBSET DOMAIN rows[w],
           set_cper_results_batch(w, W)
    PROVE  TerminalStep
<1> SUFFICES ASSUME NEW a \in Alerts, status[a] \in Terminal
             PROVE  /\ \A v \in Workers : a \in DOMAIN rows'[v] \cup chosen'[v]
                                             => a \in DOMAIN rows[v] \cup chosen[v]
                    /\ \/ status'[a] \in {status[a], Gone}
                       \/ \E v \in Workers : a \in DOMAIN rows[v] \cup chosen[v]
  BY TerminalByHolders
<1>1. status'[a] = status[a] \/ a \in DOMAIN rows[w]
  BY DEF set_cper_results_batch
<1>2. \A v \in Workers : DOMAIN rows'[v] \subseteq DOMAIN rows[v]
  BY DEF set_cper_results_batch, With, DecodeInv, RowsOK
<1> QED
  BY <1>1, <1>2 DEF set_cper_results_batch

LEMMA TableTerminal ==
    ASSUME DecodeInv,
           TimePasses \/ CalmDown \/ \E b \in Alerts : AlertStored(b) \/ AlertDeleted(b)
    PROVE  TerminalStep
<1> SUFFICES ASSUME NEW a \in Alerts, status[a] \in Terminal
             PROVE  /\ UNCHANGED <<rows, chosen>>
                    /\ status'[a] \in {status[a], Gone}
  BY TerminalByHolders
<1> QED
  BY DEF TimePasses, CalmDown, AlertStored, AlertDeleted, With, table, Gone, Terminal,
     DecodeInv, DecodeTypeOK

\* A row that is decoded, undecodable or unavailable is taken up by no worker,
\* and one that no worker had taken up keeps its status until it is deleted,
\* for any number of workers and any order of their selects and writes
\* (requeue_failed_cper, get_pending_cper_alerts, set_cper_results_batch).
THEOREM TerminalRowsFinal == DecodeSpec => TerminalFinal
<1>1. DecodeInv /\ [DecodeNext]_decodeVars =>
         [\A a \in Alerts :
             status[a] \in Terminal =>
                /\ Holders(a)' \subseteq Holders(a)
                /\ Holders(a) = {} => status'[a] \in {status[a], Gone}]_decodeVars
  <2> SUFFICES ASSUME DecodeInv, DecodeNext PROVE TerminalStep
    BY DEF TerminalStep
  <2>1. CASE TimePasses \/ CalmDown \/ \E b \in Alerts : AlertStored(b) \/ AlertDeleted(b)
    BY <2>1, TableTerminal
  <2>2. ASSUME NEW w \in Workers, WorkerStep(w) \/ Restart(w) PROVE TerminalStep
    BY <2>2, WorkerTerminal
  <2>3. ASSUME NEW w \in Workers, NEW W \in SUBSET DOMAIN rows[w], set_cper_results_batch(w, W)
        PROVE  TerminalStep
    BY <2>3, ResultsTerminal
  <2> QED
    BY <2>1, <2>2, <2>3 DEF DecodeNext
<1> QED
  BY <1>1, DecodeTypeCorrect, PTL DEF DecodeSpec, TerminalFinal

-----------------------------------------------------------------------------
(* The placement of a system.                                              *)

Placed == {"manual", "pinned"}
Automatic == {"bmc", "resolve"}
Derived == {"hostname", "redfish"}

-----------------------------------------------------------------------------
(* The inductive invariant.                                                *)

Racks == BmcRacks \cup OperatorRacks \cup {NameRack, Nil}
AllHeights == Heights \cup {DefaultHeight, Nil}
Candidates == [rack : Racks, height : AllHeights, source : Sources]
Updates == UNION {[D -> Racks \cup AllHeights \cup Sources] : D \in SUBSET Columns}
Jobs == [pc : {"idle", "collect", "inventory", "read", "commit"}, cand : Candidates,
         force : BOOLEAN, upd : Updates]

RowOK == /\ row["source"] \in Sources /\ row["rack"] \in Racks
         /\ \A c \in Columns : row[c] \in Racks \cup AllHeights \cup Sources

\* A writer updates columns with what its candidate says.
JobOK ==
    /\ job \in [Writers -> Jobs]
    /\ \A w \in Writers :
          job[w].pc = "commit" => \A c \in DOMAIN job[w].upd : job[w].upd[c] = job[w].cand[c]

\* An automatic writer is never forced and has a source below the operator's.
AutomaticOK ==
    \A w \in Automatic :
        /\ job[w].force = FALSE
        /\ job[w].pc \in {"inventory", "read", "commit"} => job[w].cand.source \in Derived

\* One that has decided to write against an operator's placement has read the row
\* before the operator wrote it.
DecidedBefore ==
    \A w \in Automatic :
        job[w].pc = "commit" /\ w \notin overtaken => row["source"] \notin Placed

PlacementInv == /\ JobOK /\ AutomaticOK /\ RowOK /\ DecidedBefore
                /\ pulled \in {"never", "fresh", "stale"} /\ overtaken \subseteq Writers

LEMMA EmptyType ==
    /\ Empty \in Candidates /\ NoJob \in Jobs
    /\ Empty["source"] = Nil /\ Empty["rack"] = Nil /\ Empty["height"] = Nil
<1>1. Empty \in Candidates
  BY DEF Empty, Placement, Candidates, Racks, AllHeights, Sources
<1>2. << >> \in [{} -> Racks \cup AllHeights \cup Sources]
  OBVIOUS
<1>3. << >> \in Updates
  BY <1>2 DEF Updates
<1> QED
  BY <1>1, <1>3 DEF NoJob, Jobs, Empty, Placement

LEMMA InitPlacement == PlacementInit => PlacementInv
BY EmptyType DEF PlacementInit, PlacementInv, JobOK, AutomaticOK, DecidedBefore, RowOK,
   NoJob, Automatic, Writers, Columns, Racks, AllHeights, Sources, Nil, Placed

\* A step of a writer that leaves the row alone, and what it has to keep.
LEMMA WriterMoves ==
    ASSUME PlacementInv, NEW w \in Writers, NEW j \in Jobs,
           job' = [job EXCEPT ![w] = j], row' = row, overtaken' = overtaken,
           pulled' \in {"never", "fresh", "stale"},
           j.pc # "commit",
           w \in Automatic => /\ j.force = FALSE
                              /\ j.pc \in {"inventory", "read"} => j.cand.source \in Derived
    PROVE  PlacementInv'
<1>1. job' \in [Writers -> Jobs] /\ job'[w] = j /\ \A v \in Writers \ {w} : job'[v] = job[v]
  BY DEF PlacementInv, JobOK
<1>2. JobOK'
  BY <1>1 DEF PlacementInv, JobOK
<1>3. AutomaticOK'
  BY <1>1 DEF PlacementInv, AutomaticOK, Automatic, Writers
<1>4. DecidedBefore' /\ RowOK'
  BY <1>1 DEF PlacementInv, DecidedBefore, RowOK, Automatic, Writers
<1> QED
  BY <1>2, <1>3, <1>4 DEF PlacementInv

LEMMA BmcMoves ==
    ASSUME PlacementInv,
           run_pass \/ test_target_connection \/ collect_inventory \/ set_target_inventory
    PROVE  PlacementInv'
<1>1. job["bmc"] \in Jobs /\ job["bmc"].force = FALSE /\ "bmc" \in Writers
  BY DEF PlacementInv, JobOK, AutomaticOK, Automatic, Writers
<1>2. ASSUME NEW j \in Jobs, job' = [job EXCEPT !["bmc"] = j], j.pc # "commit",
             j.force = FALSE, j.pc \in {"inventory", "read"} => j.cand.source \in Derived,
             row' = row, overtaken' = overtaken, pulled' \in {"never", "fresh", "stale"}
      PROVE  PlacementInv'
  BY <1>1, <1>2, WriterMoves
<1>3. CASE run_pass \/ test_target_connection
  <2> DEFINE j == [job["bmc"] EXCEPT !.pc = "collect"]
  <2>1. j \in Jobs /\ j.force = FALSE /\ j.pc = "collect"
    BY <1>1 DEF Jobs
  <2>2. job' = [job EXCEPT !["bmc"] = j]
    BY <1>3 DEF run_pass, test_target_connection, Goto
  <2> HIDE DEF j
  <2> QED
    BY <1>2, <1>3, <2>1, <2>2 DEF run_pass, test_target_connection, PlacementInv
<1>4. CASE collect_inventory
  <2>1. ASSUME NEW r \in Racks, NEW h \in AllHeights,
               job' = [job EXCEPT !["bmc"].pc = "inventory", !["bmc"].cand = BmcPlacement(r, h)]
        PROVE  PlacementInv'
    <3> DEFINE j == [job["bmc"] EXCEPT !.pc = "inventory", !.cand = BmcPlacement(r, h)]
    <3>1. BmcPlacement(r, h) \in Candidates /\ BmcPlacement(r, h).source \in Derived
      BY DEF BmcPlacement, Placement, Candidates, Sources, Derived
    <3>2. j \in Jobs /\ j.force = FALSE /\ j.pc = "inventory" /\ j.cand.source \in Derived
      BY <1>1, <3>1 DEF Jobs
    <3>3. job' = [job EXCEPT !["bmc"] = j]
      BY <2>1
    <3> HIDE DEF j
    <3> QED
      BY <1>2, <1>4, <3>2, <3>3 DEF collect_inventory, PlacementInv
  <2>2. CASE Ends("bmc")
    <3>1. NoJob.pc = "idle" /\ NoJob.force = FALSE
      BY DEF NoJob
    <3> QED
      BY <1>2, <1>4, <2>2, <3>1, EmptyType DEF Ends, collect_inventory, PlacementInv
  <2> QED
    BY <1>4, <2>1, <2>2 DEF collect_inventory, Racks, AllHeights
<1>5. CASE set_target_inventory
  <2>1. CASE Ends("bmc")
    <3>1. NoJob.pc = "idle" /\ NoJob.force = FALSE
      BY DEF NoJob
    <3> QED
      BY <1>2, <1>5, <2>1, <3>1, EmptyType DEF Ends, set_target_inventory, PlacementInv
  <2>2. CASE Goto("bmc", "read")
    <3> DEFINE j == [job["bmc"] EXCEPT !.pc = "read"]
    <3>1. job["bmc"].cand.source \in Derived
      BY <1>5 DEF set_target_inventory, PlacementInv, AutomaticOK, Automatic
    <3>2. j \in Jobs /\ j.force = FALSE /\ j.pc = "read" /\ j.cand.source \in Derived
      BY <1>1, <3>1 DEF Jobs
    <3>3. job' = [job EXCEPT !["bmc"] = j]
      BY <2>2 DEF Goto
    <3> HIDE DEF j
    <3> QED
      BY <1>2, <1>5, <3>2, <3>3 DEF set_target_inventory, PlacementInv
  <2> QED
    BY <1>5, <2>1, <2>2 DEF set_target_inventory
<1> QED
  BY <1>3, <1>4, <1>5

LEMMA ResolveMoves == PlacementInv /\ resolve_placements => PlacementInv'
<1> SUFFICES ASSUME PlacementInv, resolve_placements PROVE PlacementInv'
  OBVIOUS
<1> DEFINE j == [NoJob EXCEPT !.pc = "read", !.cand = NamePlacement]
<1>1. NamePlacement \in Candidates /\ NamePlacement.source \in Derived
  BY DEF NamePlacement, Placement, Candidates, Racks, AllHeights, Sources, Derived
<1>2. j \in Jobs /\ j.pc = "read" /\ j.force = FALSE /\ j.cand.source \in Derived
  BY <1>1, EmptyType DEF Jobs, NoJob
<1>3. job' = [job EXCEPT !["resolve"] = j] /\ "resolve" \in Writers
  BY DEF resolve_placements, Writers
<1> HIDE DEF j
<1> QED
  BY <1>2, <1>3, WriterMoves DEF resolve_placements, PlacementInv

LEMMA OperatorMoves ==
    ASSUME PlacementInv, set_placement \/ import_placement \/ clear_target_location
    PROVE  PlacementInv'
<1>1. ASSUME NEW j \in Jobs, j.pc = "read", job' = [job EXCEPT !["operator"] = j]
      PROVE  PlacementInv'
  <2>1. "operator" \in Writers \ Automatic
    BY DEF Writers, Automatic
  <2> QED
    BY <1>1, <2>1, WriterMoves
       DEF set_placement, import_placement, clear_target_location, PlacementInv
<1>2. /\ \A r \in OperatorRacks : /\ Placement(r, DefaultHeight, "manual") \in Candidates
                                  /\ Placement(r, Nil, "manual") \in Candidates
      /\ Placement(Nil, Nil, "pinned") \in Candidates
  BY DEF Placement, Candidates, Racks, AllHeights, Sources
<1>3. ASSUME NEW c \in Candidates
      PROVE  LET forced == [NoJob EXCEPT !.pc = "read", !.force = TRUE, !.cand = c]
                 plain  == [NoJob EXCEPT !.pc = "read", !.cand = c]
             IN  /\ forced \in Jobs /\ forced.pc = "read"
                 /\ plain \in Jobs /\ plain.pc = "read"
  BY EmptyType DEF Jobs, NoJob
<1>4. CASE set_placement
  BY <1>1, <1>2, <1>3, <1>4 DEF set_placement
<1>5. CASE import_placement
  BY <1>1, <1>2, <1>3, <1>5 DEF import_placement
<1>6. CASE clear_target_location
  BY <1>1, <1>2, <1>3, <1>6 DEF clear_target_location
<1> QED
  BY <1>4, <1>5, <1>6

-----------------------------------------------------------------------------
(* Reading and writing the row.                                            *)

\* The precedence of the sources.
LEMMA OperatorOutranks ==
    ASSUME NEW old \in Placed, NEW new \in Derived
    PROVE  ~should_overwrite(old, new)
BY DEF should_overwrite, source_rank, Placed, Derived, Nil

LEMMA ChangesType ==
    ASSUME PlacementInv, NEW w \in Writers
    PROVE  /\ Changes(w) \in Updates
           /\ \A c \in DOMAIN Changes(w) : Changes(w)[c] = job[w].cand[c]
<1> DEFINE all  == job[w].cand
           cols == IF all.rack = Nil /\ all.source = "redfish" THEN {"height"} ELSE Columns
           D == {k \in cols : all[k] # row[k]}
<1>1. Changes(w) = [c \in D |-> all[c]]
  BY DEF Changes
<1>2. all \in Candidates
  BY DEF PlacementInv, JobOK, Jobs
<1>3. \A c \in Columns : all[c] \in Racks \cup AllHeights \cup Sources
  BY <1>2 DEF Candidates, Columns
<1>4. D \subseteq Columns
  BY DEF Columns
<1> HIDE DEF all, D
<1>5. Changes(w) \in [D -> Racks \cup AllHeights \cup Sources]
  BY <1>1, <1>3, <1>4
<1>6. Changes(w) \in Updates
  BY <1>4, <1>5 DEF Updates
<1> QED
  BY <1>1, <1>6 DEF all

LEMMA ReadMoves ==
    ASSUME PlacementInv, NEW w \in Writers, set_target_location(w)
    PROVE  PlacementInv'
<1>1. job \in [Writers -> Jobs] /\ job[w] \in Jobs
  BY DEF PlacementInv, JobOK
<1>2. CASE job' = [job EXCEPT ![w].pc = "commit", ![w].upd = Changes(w)] /\
           (job[w].force \/ should_overwrite(row.source, job[w].cand.source))
  <2> DEFINE j == [job[w] EXCEPT !.pc = "commit", !.upd = Changes(w)]
  <2>1. /\ j \in Jobs /\ j.upd = Changes(w) /\ j.cand = job[w].cand /\ j.force = job[w].force
        /\ j.pc = "commit"
    BY <1>1, ChangesType DEF Jobs
  <2>2. job' = [job EXCEPT ![w] = j]
    BY <1>2
  <2> HIDE DEF j
  <2>3. job' \in [Writers -> Jobs] /\ job'[w] = j /\ \A v \in Writers \ {w} : job'[v] = job[v]
    BY <1>1, <2>1, <2>2
  <2>4. JobOK'
    BY <2>1, <2>3, ChangesType DEF PlacementInv, JobOK
  <2>5. AutomaticOK'
    BY <2>1, <2>3 DEF set_target_location, PlacementInv, AutomaticOK, Automatic, Writers
  <2>6. w \in Automatic => row["source"] \notin Placed
    BY <1>2, OperatorOutranks DEF set_target_location, PlacementInv, AutomaticOK
  <2>7. DecidedBefore' /\ RowOK' /\ overtaken' \subseteq Writers
    BY <2>3, <2>6 DEF set_target_location, PlacementInv, DecidedBefore, RowOK, Automatic, Writers
  <2> QED
    BY <2>4, <2>5, <2>7 DEF set_target_location, PlacementInv
<1>3. CASE Ends(w)
  <2>1. NoJob.pc = "idle" /\ NoJob.force = FALSE
    BY DEF NoJob
  <2>2. /\ job' \in [Writers -> Jobs] /\ job'[w] = NoJob
        /\ \A v \in Writers \ {w} : job'[v] = job[v]
    BY <1>1, <1>3, EmptyType DEF Ends
  <2>3. JobOK'
    BY <2>1, <2>2 DEF PlacementInv, JobOK
  <2>4. AutomaticOK'
    BY <2>1, <2>2 DEF PlacementInv, AutomaticOK, Automatic, Writers
  <2>5. DecidedBefore' /\ RowOK' /\ overtaken' \subseteq Writers
    BY <2>1, <2>2 DEF set_target_location, PlacementInv, DecidedBefore, RowOK, Automatic, Writers
  <2> QED
    BY <2>3, <2>4, <2>5 DEF set_target_location, PlacementInv
<1> QED
  BY <1>2, <1>3 DEF set_target_location

LEMMA CommitMoves ==
    ASSUME PlacementInv, NEW w \in Writers, Commit(w)
    PROVE  PlacementInv'
<1>1. job \in [Writers -> Jobs] /\ job[w] \in Jobs /\ job[w].pc = "commit"
  BY DEF PlacementInv, JobOK, Commit
<1>2. NoJob.pc = "idle" /\ NoJob.force = FALSE
  BY DEF NoJob
<1>3. CASE Goto(w, "read") /\ UNCHANGED <<row, overtaken>>
  <2> DEFINE j == [job[w] EXCEPT !.pc = "read"]
  <2>1. j \in Jobs /\ j.cand = job[w].cand /\ j.force = job[w].force /\ j.pc = "read"
    BY <1>1 DEF Jobs
  <2>2. job' = [job EXCEPT ![w] = j]
    BY <1>3 DEF Goto
  <2>3. w \in Automatic => job[w].force = FALSE /\ job[w].cand.source \in Derived
    BY <1>1 DEF PlacementInv, AutomaticOK
  <2> HIDE DEF j
  <2> QED
    BY <1>3, <2>1, <2>2, <2>3, WriterMoves DEF Commit, PlacementInv
<1>4. ASSUME Ends(w), overtaken' \subseteq Writers, RowOK',
             \A v \in Automatic : v # w /\ job[v].pc = "commit" /\ v \notin overtaken'
                                     => row'["source"] \notin Placed
      PROVE  PlacementInv'
  <2>1. /\ job' \in [Writers -> Jobs] /\ job'[w] = NoJob
        /\ \A v \in Writers \ {w} : job'[v] = job[v]
    BY <1>1, <1>4, EmptyType DEF Ends
  <2>2. JobOK'
    BY <1>2, <2>1 DEF PlacementInv, JobOK
  <2>3. AutomaticOK'
    BY <1>2, <2>1 DEF PlacementInv, AutomaticOK, Automatic, Writers
  <2>4. DecidedBefore'
    BY <1>2, <1>4, <2>1 DEF DecidedBefore, Automatic, Writers
  <2> QED
    BY <1>4, <2>2, <2>3, <2>4 DEF Commit, PlacementInv
<1>5. CASE Ends(w) /\ overtaken' = overtaken \ {w} /\ UNCHANGED row
  BY <1>4, <1>5 DEF PlacementInv, RowOK, DecidedBefore
<1>6. CASE /\ row' = [c \in Columns |-> IF c \in DOMAIN job[w].upd THEN job[w].upd[c] ELSE row[c]]
           /\ Ends(w)
           /\ overtaken' = IF w = "operator"
                           THEN {v \in Writers \ {w} : job[v].pc = "commit"} \cup overtaken
                           ELSE overtaken \ {w}
  <2>1. job[w].cand \in Candidates
    BY <1>1 DEF Jobs
  <2>2. \A c \in Columns : row'[c] \in {row[c], job[w].cand[c]}
    BY <1>1, <1>6 DEF PlacementInv, JobOK
  <2>3. RowOK'
    BY <2>1, <2>2 DEF PlacementInv, RowOK, Candidates, Columns
  <2>4. CASE w = "operator"
    BY <1>4, <1>6, <2>3, <2>4 DEF PlacementInv, Automatic, Writers
  <2>5. CASE w \in Automatic
    <3>1. row'["source"] \in {row["source"]} \cup Derived
      BY <1>1, <2>2, <2>5 DEF PlacementInv, AutomaticOK, Columns
    <3>2. overtaken' = overtaken \ {w}
      BY <1>6, <2>5 DEF Automatic
    <3>3. \A v \in Automatic : v # w /\ job[v].pc = "commit" /\ v \notin overtaken'
                                  => row'["source"] \notin Placed
      BY <3>1, <3>2 DEF PlacementInv, DecidedBefore, Placed, Derived
    <3> QED
      BY <1>4, <1>6, <2>3, <3>2, <3>3 DEF PlacementInv
  <2> QED
    BY <2>4, <2>5 DEF Writers, Automatic
<1> QED
  BY <1>3, <1>5, <1>6 DEF Commit

\* The invariant holds in every interleaving of the enricher, the connection test,
\* the hostname resolution and the operator.
THEOREM PlacementInvariance == PlacementSpec => []PlacementInv
<1>1. PlacementInv /\ [PlacementNext]_placementVars => PlacementInv'
  <2> SUFFICES ASSUME PlacementInv, [PlacementNext]_placementVars PROVE PlacementInv'
    OBVIOUS
  <2>1. CASE run_pass \/ test_target_connection \/ collect_inventory \/ set_target_inventory
    BY <2>1, BmcMoves
  <2>2. CASE resolve_placements
    BY <2>2, ResolveMoves
  <2>3. CASE set_placement \/ import_placement \/ clear_target_location
    BY <2>3, OperatorMoves
  <2>4. CASE InventoryAges \/ PlacementCalms
    BY <2>4 DEF InventoryAges, PlacementCalms, PlacementInv, JobOK, AutomaticOK, RowOK, DecidedBefore
  <2>5. ASSUME NEW w \in Writers, set_target_location(w) \/ Commit(w) PROVE PlacementInv'
    BY <2>5, ReadMoves, CommitMoves
  <2>6. CASE UNCHANGED placementVars
    BY <2>6 DEF placementVars, PlacementInv, JobOK, AutomaticOK, RowOK, DecidedBefore
  <2> QED
    BY <2>1, <2>2, <2>3, <2>4, <2>5, <2>6 DEF PlacementNext, WriterStep
<1> QED
  BY <1>1, InitPlacement, PTL DEF PlacementSpec

\* The row is written by an operator, or by an automatic writer that had read it
\* before an operator wrote it, or it held no operator's placement.
LEMMA KeptByCommit ==
    ASSUME PlacementInv, NEW w \in Writers, Commit(w), row.source \in Placed, row' # row
    PROVE  w \in overtaken \cup {"operator"} /\ job[w].pc = "commit" /\ job'[w].pc = "idle"
<1>1. Ends(w) /\ job[w].pc = "commit"
  BY DEF Commit
<1>2. job'[w].pc = "idle"
  BY <1>1 DEF Ends, NoJob, PlacementInv, JobOK
<1>3. w \in Automatic => w \in overtaken
  BY <1>1 DEF PlacementInv, DecidedBefore
<1> QED
  BY <1>1, <1>2, <1>3 DEF Writers, Automatic

\* No automatic source overwrites what an operator has set or cleared, unless its
\* write had read the row before the operator's (set_target_location,
\* should_overwrite, clear_target_location).
THEOREM OperatorWins == PlacementSpec => OperatorPlacementKept
<1>1. PlacementInv /\ [PlacementNext]_placementVars =>
         [row.source \in {"manual", "pinned"} /\ row' # row =>
             \E w \in overtaken \cup {"operator"} :
                job[w].pc = "commit" /\ job'[w].pc = "idle"]_placementVars
  <2> SUFFICES ASSUME PlacementInv, PlacementNext, row.source \in Placed, row' # row
               PROVE  \E w \in overtaken \cup {"operator"} :
                         job[w].pc = "commit" /\ job'[w].pc = "idle"
    BY DEF Placed
  <2>1. PICK w \in Writers : Commit(w)
    BY DEF PlacementNext, WriterStep, run_pass, test_target_connection, resolve_placements,
       set_placement, import_placement, clear_target_location, InventoryAges, PlacementCalms,
       set_target_location, collect_inventory, set_target_inventory
  <2> QED
    BY <2>1, KeptByCommit
<1> QED
  BY <1>1, PlacementInvariance, PTL DEF PlacementSpec, OperatorPlacementKept
=============================================================================
