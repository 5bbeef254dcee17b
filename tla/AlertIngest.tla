---------------------------- MODULE AlertIngest ----------------------------
(***************************************************************************)
(* The way of an alert into the store: the queue that live events and      *)
(* baseline pulls fill, the batch writer with its retries, the insert that *)
(* skips duplicates, retention, and what stop, crash and restart of a      *)
(* collector do.  The collectors share the table, and two of them receive  *)
(* the alerts of a target that moves.  An action is what runs between two  *)
(* awaits.  Events that the allow-lists of types and severities reject are *)
(* not handed to the manager, and left out.                                *)
(***************************************************************************)
EXTENDS Naturals, Sequences, SequencesExt, FiniteSets

CONSTANTS
    Procs,         \* the collectors
    Events,
    Receives,      \* Receives[p]: events of targets that p watches or has watched
    Stopping,      \* the collectors that may be stopped or crash
    Dated,         \* those with a time that can be read
    Streamed,      \* those that come by SSE, not by a webhook
    Unstorable,    \* those without a row: it cannot be prepared, or it breaks a
                   \* constraint of the table (a Message that is null)
    RateLimit,     \* max_alerts_per_minute
    QueueSize,     \* max_queue_size
    BatchSize,     \* batch_size
    KeepBatches    \* batches kept while the store fails (5 in the code)

ASSUME IngestAssumption ==
    /\ Receives \in [Procs -> SUBSET Events] /\ Dated \cup Streamed \cup Unstorable \subseteq Events
    /\ Stopping \subseteq Procs
    /\ {RateLimit, QueueSize, BatchSize, KeepBatches} \subseteq Nat \ {0}

VARIABLES
    up,        \* "up", or the stage of stop(): "final" or "flush"
    window,    \* the alerts of the last minute (RateLimiter)
    queue,     \* _alert_queue
    batch,     \* the batch of _batch_processor_loop
    phase,     \* the place of that loop: "get", "check" or "insert"
    existing,  \* the keys a write has found in the table
    store,     \* the alerts table: the key of each row and who wrote it
    handed,    \* history: keys of the alerts handed to the manager
    settled    \* history: keys that were stored, counted by _alerts_dropped, or
               \* in memory at a crash or at a last write of stop() that failed

vars == <<up, window, queue, batch, phase, existing, store, handed, settled>>

Put(f, p, v) == [f EXCEPT ![p] = v]

\* An event as the subscriber (src FALSE) or the log (src TRUE) gave it.
Alert == [ev : Events, dated : BOOLEAN, src : BOOLEAN, by : Procs]

\* The content with its time, the identity of a log entry, or the time of receipt.
dedup_key(a) ==
    IF a.dated THEN <<"content", a.ev>>
    ELSE IF a.src THEN <<"src", a.ev>> ELSE <<"received", a.ev, a.by>>

\* What happens to an alert depends on its key only: queues and batches hold keys.
Keys(s) == Range(s)
AllKeys == {dedup_key(a) : a \in Alert}
Stored == {r.key : r \in store}
Storable(K) == {k \in K : k[2] \notin Unstorable}

Init ==
    /\ up = [p \in Procs |-> "up"] /\ window = [p \in Procs |-> 0]
    /\ queue = [p \in Procs |-> <<>>] /\ batch = [p \in Procs |-> <<>>]
    /\ phase = [p \in Procs |-> "get"] /\ existing = [p \in Procs |-> {}]
    /\ store = {} /\ handed = {} /\ settled = {}

(***************************************************************************)
(* Into the queue                                                          *)
(***************************************************************************)
Room(p) == Len(queue[p]) < QueueSize

enqueue(p, a) ==
    /\ handed' = handed \cup {dedup_key(a)}
    /\ IF Room(p)
       THEN queue' = Put(queue, p, Append(queue[p], dedup_key(a))) /\ UNCHANGED settled
       ELSE settled' = settled \cup {dedup_key(a)} /\ UNCHANGED queue

allow(p) == window[p] < RateLimit

\* The alert made of an event: without a time when the time cannot be read.
Live(p, e) == [ev |-> e, dated |-> e \in Dated, src |-> FALSE, by |-> p]

\* Such an event counts against the rate limit.
on_alert(p, e) ==
    /\ \/ allow(p) /\ enqueue(p, Live(p, e)) /\ window' = Put(window, p, window[p] + 1)
       \/ /\ ~allow(p)
          /\ handed' = handed \cup {dedup_key(Live(p, e))}
          /\ settled' = settled \cup {dedup_key(Live(p, e))}
          /\ UNCHANGED <<queue, window>>
    /\ UNCHANGED <<up, batch, phase, existing, store>>

\* An event of an SSE stream.
process_event_data(p, e) ==
    /\ up[p] = "up" /\ e \in Receives[p] \cap Streamed
    /\ on_alert(p, e)

\* A POST of a target without a subscriber here is acknowledged and ignored.
process_webhook_event(p, e) == e \in Receives[p] /\ on_alert(p, e)

\* One of a collector without an alert manager, too: it is down or stopping.
redfish_webhook_receiver(p, e) ==
    /\ up[p] = "up" /\ e \notin Streamed
    /\ process_webhook_event(p, e)

MinutePasses(p) ==
    /\ window[p] > 0
    /\ window' = Put(window, p, window[p] - 1)
    /\ UNCHANGED <<up, queue, batch, phase, existing, store, handed, settled>>

\* An entry a baseline pull has read.
on_baseline_alert(p, e) ==
    /\ up[p] = "up" /\ e \in Receives[p]
    /\ enqueue(p, [ev |-> e, dated |-> e \in Dated, src |-> TRUE, by |-> p])
    /\ UNCHANGED <<up, window, batch, phase, existing, store>>

(***************************************************************************)
(* The batch writer                                                        *)
(***************************************************************************)
\* Mutant: the loop waits for an alert without a timeout.
Wakes_alert(p) == queue[p] # <<>>

\* The loop waits a second at most; with nothing to do the round changes nothing.
Wakes(p) == queue[p] # <<>> \/ batch[p] # <<>>

Due(b) == IF Len(b) >= BatchSize THEN {"check"}
          ELSE IF b # <<>> THEN {"get", "check"} ELSE {"get"}

\* One round: an alert, or a second without one, and then the decision.
batch_processor_loop(p) ==
    /\ up[p] = "up" /\ phase[p] = "get" /\ Wakes(p)
    /\ LET b == IF queue[p] = <<>> THEN batch[p] ELSE Append(batch[p], Head(queue[p]))
       IN  /\ batch' = Put(batch, p, b)
           /\ \E d \in Due(b) : phase' = Put(phase, p, d)
    /\ queue' = Put(queue, p, IF queue[p] = <<>> THEN <<>> ELSE Tail(queue[p]))
    /\ UNCHANGED <<up, window, existing, store, handed, settled>>

\* The keys of the batch that are already there.
CheckExisting(p) ==
    /\ up[p] = "up" /\ phase[p] = "check"
    /\ existing' = Put(existing, p, Keys(batch[p]) \cap Stored)
    /\ phase' = Put(phase, p, "insert")
    /\ UNCHANGED <<up, window, queue, batch, store, handed, settled>>

Rows(p, K) == {[key |-> k, by |-> p] : k \in K}

\* Mutant: no unique index, so nothing but the check keeps duplicates out.
Insertable_unchecked(p, K) == Storable(K) \ existing[p]

\* Mutant: no row-by-row retry, so a row that is refused takes the others of its
\* batch along.
Insertable_all_or_none(p, K) == IF Storable(K) = K THEN K \ (existing[p] \cup Stored) ELSE {}

\* A row that cannot be prepared is left out.  When the commit of the others
\* breaks a constraint they are inserted one by one, and those that break it
\* again are skipped: what another collector has inserted since the check (the
\* unique index) and what lacks a value.  Neither is counted as dropped.
Insertable(p, K) == Storable(K) \ (existing[p] \cup Stored)

create_alerts_batch(p) ==
    /\ up[p] = "up" /\ phase[p] = "insert"
    /\ store' = store \cup Rows(p, Insertable(p, Keys(batch[p])))
    /\ settled' = settled \cup Stored'
    /\ batch' = Put(batch, p, <<>>)
    /\ phase' = Put(phase, p, "get") /\ existing' = Put(existing, p, {})
    /\ UNCHANGED <<up, window, queue, handed>>

Cap == IF KeepBatches * BatchSize > BatchSize THEN KeepBatches * BatchSize ELSE BatchSize

\* Mutant: a batch that could not be written is cleared.
Kept_nothing(b) == <<>>

\* The newest alerts up to the cap.
Kept(b) == IF Len(b) > Cap THEN SubSeq(b, Len(b) - Cap + 1, Len(b)) ELSE b

Overflow(b) == IF Len(b) > Cap THEN SubSeq(b, 1, Len(b) - Cap) ELSE <<>>

\* The write fails before or after the check; the row-by-row retry may have
\* inserted some rows.
WriteFails(p) ==
    /\ up[p] = "up" /\ phase[p] \in {"check", "insert"}
    /\ \E K \in {{}} \cup (IF phase[p] = "insert" THEN SUBSET Keys(batch[p]) ELSE {}) :
          /\ store' = store \cup Rows(p, Insertable(p, K))
          /\ settled' = settled \cup Stored' \cup Keys(Overflow(batch[p]))
    /\ batch' = Put(batch, p, Kept(batch[p]))
    /\ phase' = Put(phase, p, "get") /\ existing' = Put(existing, p, {})
    /\ UNCHANGED <<up, window, queue, handed>>

\* Retention: rows received before the cutoff go.
delete_alerts_before ==
    /\ \E r \in store : store' = store \ {r}
    /\ UNCHANGED <<up, window, queue, batch, phase, existing, handed, settled>>

(***************************************************************************)
(* stop(), crash and restart.  A collector that is down takes no steps, so  *)
(* its end and its restart with empty memory are one step.                 *)
(***************************************************************************)
\* The loop is cancelled, in a write too, of which all rows may be there, none,
\* or those the row-by-row retry came to; it goes to its last write.
Stop(p) ==
    /\ up[p] = "up" /\ p \in Stopping
    /\ up' = Put(up, p, "final")
    /\ \E K \in {{}} \cup (IF phase[p] = "insert" THEN SUBSET Keys(batch[p]) ELSE {}) :
          /\ store' = store \cup Rows(p, Insertable(p, K))
          /\ settled' = settled \cup Stored'
    /\ phase' = Put(phase, p, "get") /\ existing' = Put(existing, p, {})
    /\ UNCHANGED <<window, queue, batch, handed>>

\* One attempt; what is not written is gone.
LastWrite(p, b) ==
    /\ settled' = settled \cup Keys(b)
    /\ \E K \in SUBSET Keys(b) : store' = store \cup Rows(p, Insertable(p, K))

FinalWrite(p) ==
    /\ up[p] = "final"
    /\ LastWrite(p, batch[p])
    /\ up' = Put(up, p, "flush")
    /\ batch' = Put(batch, p, <<>>)
    /\ UNCHANGED <<window, queue, phase, existing, handed>>

flush_batch(p) ==
    /\ up[p] = "flush"
    /\ LastWrite(p, queue[p])
    /\ up' = Put(up, p, "up")
    /\ queue' = Put(queue, p, <<>>) /\ window' = Put(window, p, 0)
    /\ UNCHANGED <<batch, phase, existing, handed>>

Crash(p) ==
    /\ p \in Stopping
    /\ up' = Put(up, p, "up")
    /\ settled' = settled \cup Keys(queue[p]) \cup Keys(batch[p])
    /\ queue' = Put(queue, p, <<>>) /\ batch' = Put(batch, p, <<>>)
    /\ phase' = Put(phase, p, "get") /\ existing' = Put(existing, p, {})
    /\ window' = Put(window, p, 0)
    /\ UNCHANGED <<store, handed>>

Next ==
    \/ delete_alerts_before
    \/ \E p \in Procs :
          \/ \E e \in Events : \/ process_event_data(p, e) \/ redfish_webhook_receiver(p, e)
                             \/ on_baseline_alert(p, e)
          \/ MinutePasses(p) \/ batch_processor_loop(p) \/ CheckExisting(p)
          \/ create_alerts_batch(p) \/ WriteFails(p)
          \/ Stop(p) \/ FinalWrite(p) \/ flush_batch(p) \/ Crash(p)

Spec == Init /\ [][Next]_vars

\* The batch interval passes, and a store that fails again and again answers in
\* between: no retry can do without that.
IngestFair ==
    /\ \A p \in Procs :
          /\ WF_vars(batch_processor_loop(p) /\ phase'[p] = "check")
          /\ SF_vars(CheckExisting(p)) /\ SF_vars(create_alerts_batch(p))
    /\ \A p \in Stopping : WF_vars(FinalWrite(p) \/ flush_batch(p))

FairSpec == Spec /\ IngestFair

(***************************************************************************)
(* Properties                                                              *)
(***************************************************************************)
TypeOK ==
    /\ up \in [Procs -> {"up", "final", "flush"}]
    /\ window \in [Procs -> 0..RateLimit]
    /\ \A p \in Procs : /\ Keys(queue[p]) \subseteq AllKeys /\ Len(queue[p]) <= QueueSize
                        /\ Keys(batch[p]) \subseteq AllKeys /\ Len(batch[p]) <= Cap + 1
                        /\ existing[p] \subseteq Keys(batch[p])
    /\ phase \in [Procs -> {"get", "check", "insert"}]

InFlight(p) == Keys(queue[p]) \cup Keys(batch[p])

\* An alert handed to the manager has been stored, is on its way there, was
\* counted as dropped, or fell to a crash or to a last write that failed: a
\* failing store costs only the oldest alerts beyond the cap, and those are
\* counted, and an alert without a row costs no other alert of its batch.  Such
\* an alert is itself lost without being counted, and nothing is claimed of it
\* (_batch_processor_loop, create_alerts_batch, _enqueue, stop).
NoSilentLoss == Storable(handed) \subseteq settled \cup UNION {InFlight(p) : p \in Procs}

\* An event with a time has one row, however often and by whichever collector
\* it was received live and read from the log (_compute_alert_dedup_key,
\* create_alerts_batch and its unique index).
StoredOnce == \A e \in Dated : Cardinality({r \in store : r.key[2] = e}) <= 1

\* A batch is written, or emptied at the end of its collector: it waits for
\* ever neither to be filled nor for a retry (_batch_processor_loop).
AlertsLeaveMemory ==
    \A p \in Procs : batch[p] # <<>> ~> batch[p] = <<>>
=============================================================================
