--------------------------- MODULE InfluxExporter ---------------------------
(***************************************************************************)
(* The InfluxDB exporter (collector/src/exporters/influxdb.py): producers  *)
(* append points to a bounded buffer, one flush loop takes the buffer,     *)
(* writes it in concurrent batches, bisects a batch that InfluxDB rejects, *)
(* puts back what failed and rebuilds the connection after Threshold       *)
(* flushes in a row of which nothing was written.  close() cancels the     *)
(* loop and flushes once more.                                             *)
(*                                                                         *)
(* Points are numbered in the order they are produced.  The code runs on   *)
(* one event loop: what it does between two awaits that can suspend is one *)
(* action.  The flush event and the intervals are left out: they only say  *)
(* when a step happens that may happen anyway.                             *)
(***************************************************************************)
EXTENDS Naturals, Sequences, SequencesExt

CONSTANTS
    MaxPoints,      \* bound on the points produced
    MaxWrite,       \* most points in one call of write
    BatchSize,      \* batch_size
    MaxBuffer,      \* _max_buffer_size
    Threshold,      \* _CONSECUTIVE_FAILURE_RECONNECT_THRESHOLD
    Bad,            \* the points InfluxDB answers with a 4xx
    ServerStates    \* the states the server goes through: "up", "flaky", "down"

Points == 1 .. MaxPoints

ASSUME ExporterAssumption ==
    /\ MaxPoints \in Nat /\ MaxWrite \in Nat \ {0}
    /\ BatchSize \in Nat \ {0} /\ MaxBuffer \in Nat \ {0} /\ Threshold \in Nat \ {0}
    /\ Bad \subseteq Points
    /\ ServerStates \subseteq {"up", "flaky", "down"}

VARIABLES
    produced,       \* the points handed to write so far are 1 .. produced
    buffer,         \* _buffer
    work,           \* the pieces of the running flush, in buffer order
    ok,             \* points the running flush has written
    pc,             \* where the flush loop, then close(), stands
    closing,        \* close() has been called
    api,            \* _write_api: "none", "good", or "broken" (every write fails)
    failures,       \* _consecutive_batch_failures
    written,        \* _total_points_written
    rejected,       \* the points counted in _rejected_points, in order
    dropped,        \* the points counted in _dropped_points, in order
    server,         \* whether InfluxDB answers (external)
    stored          \* the points InfluxDB has stored (external)

vars == <<produced, buffer, work, ok, pc, closing, api, failures, written,
          rejected, dropped, server, stored>>
counters == <<written, rejected, dropped>>
external == <<server, stored>>

Interval(a, b) == [i \in 1 .. (IF b < a THEN 0 ELSE b - a + 1) |-> a + i - 1]

Pcs == {"connect", "wait", "backoff", "write", "reset", "final", "done"}

Init ==
    /\ produced = 0 /\ buffer = << >> /\ work = << >> /\ ok = 0
    /\ pc = "connect" /\ closing = FALSE
    /\ api = "none" /\ failures = 0
    /\ written = 0 /\ rejected = << >> /\ dropped = << >>
    /\ server \in ServerStates /\ stored = {}

\* The head of _flush_loop; close() ends after its flush.
LoopHead(a) == IF closing THEN "done" ELSE IF a = "none" THEN "backoff" ELSE "wait"

-----------------------------------------------------------------------------
\* connect: it gets a connection, or gives up after max_retries; the flush
\* loop is started either way.
connect ==
    /\ pc = "connect"
    /\ \/ server # "down" /\ api' = "good" /\ pc' = "wait"
       \/ server # "up" /\ api' = "none" /\ pc' = "backoff"
    /\ UNCHANGED <<produced, buffer, work, ok, closing, failures, counters, external>>

\* Keeps the newest MaxBuffer points of s (write and _re_add_points).
Newest(s) == IF Len(s) > MaxBuffer THEN SubSeq(s, Len(s) - MaxBuffer + 1, Len(s)) ELSE s
Overflow(s) == IF Len(s) > MaxBuffer THEN SubSeq(s, 1, Len(s) - MaxBuffer) ELSE << >>

\* Makes s the buffer, with what does not fit dropped from the front.
SetBuffer(s) ==
    /\ buffer' = Newest(s)
    /\ dropped' = dropped \o Overflow(s)

\* A producer buffers n points.  Producers are stopped before close().
write(n) ==
    /\ pc # "connect" /\ ~ closing
    /\ produced + n <= MaxPoints
    /\ produced' = produced + n
    /\ SetBuffer(buffer \o Interval(produced + 1, produced + n))
    /\ UNCHANGED <<work, ok, pc, closing, api, failures, written, rejected, external>>

-----------------------------------------------------------------------------
\* s cut into batches of BatchSize; a piece is a part of a batch that is
\* still to be attempted, or is to be retried at the next flush.
Batches(s) ==
    [b \in 1 .. (Len(s) + BatchSize - 1) \div BatchSize |->
        [batch |-> b, retry |-> FALSE,
         pts |-> SubSeq(s, (b - 1) * BatchSize + 1,
                           IF b * BatchSize <= Len(s) THEN b * BatchSize ELSE Len(s))]]

\* The opening of _flush_buffer, over connection a: the buffer is taken
\* unless it is empty or there is no connection (it is put back unchanged).
StartFlush(a) ==
    /\ ok' = 0
    /\ IF buffer = << >> \/ a = "none"
       THEN /\ pc' = LoopHead(a)
            /\ UNCHANGED <<buffer, work>>
       ELSE /\ buffer' = << >>
            /\ work' = Batches(buffer)
            /\ pc' = "write"

\* The flush event or the flush interval.
Wake ==
    /\ pc = "wait"
    /\ StartFlush(api)
    /\ UNCHANGED <<produced, closing, api, failures, counters, external>>

\* _reconnect succeeds and the backlog is drained; when it fails the loop
\* sleeps again.
Reconnect ==
    /\ pc = "backoff"
    /\ server # "down"
    /\ api' = "good"
    /\ StartFlush("good")
    /\ UNCHANGED <<produced, closing, failures, counters, external>>

\* The batches are written concurrently, the pieces of one batch in order.
Attemptable(i) ==
    /\ ~ work[i].retry
    /\ \A j \in 1 .. i - 1 : work[j].retry \/ work[j].batch # work[i].batch

\* Mutant: the points of an accepted piece are queued again.
Accepted_requeues(i) ==
    /\ server # "down" /\ api = "good"
    /\ ToSet(work[i].pts) \cap Bad = {}
    /\ stored' = stored \cup ToSet(work[i].pts)
    /\ ok' = ok + Len(work[i].pts)
    /\ work' = [work EXCEPT ![i].retry = TRUE]
    /\ UNCHANGED rejected

\* The write is answered with success.
Accepted(i) ==
    /\ server # "down" /\ api = "good"
    /\ ToSet(work[i].pts) \cap Bad = {}
    /\ stored' = stored \cup ToSet(work[i].pts)
    /\ ok' = ok + Len(work[i].pts)
    /\ work' = RemoveAt(work, i)
    /\ UNCHANGED rejected

\* Mutants: a piece of two points is dropped whole; the middle point of an
\* odd piece falls between the halves.
isolate_drops_pair(i) ==
    LET p == work[i]
        mid == Len(p.pts) \div 2
        Half(s) == [p EXCEPT !.pts = s]
    IN  IF Len(p.pts) <= 2
        THEN rejected' = rejected \o p.pts /\ work' = RemoveAt(work, i)
        ELSE /\ work' = SubSeq(work, 1, i - 1)
                        \o <<Half(SubSeq(p.pts, 1, mid)), Half(SubSeq(p.pts, mid + 1, Len(p.pts)))>>
                        \o SubSeq(work, i + 1, Len(work))
             /\ UNCHANGED rejected
isolate_skips_middle(i) ==
    LET p == work[i]
        mid == Len(p.pts) \div 2
        Half(s) == [p EXCEPT !.pts = s]
    IN  IF Len(p.pts) = 1
        THEN rejected' = rejected \o p.pts /\ work' = RemoveAt(work, i)
        ELSE /\ work' = SubSeq(work, 1, i - 1)
                        \o <<Half(SubSeq(p.pts, 1, mid)), Half(SubSeq(p.pts, Len(p.pts) - mid + 1, Len(p.pts)))>>
                        \o SubSeq(work, i + 1, Len(work))
             /\ UNCHANGED rejected

\* A rejected piece is split in two, down to the single offending point.
isolate_unprocessable(i) ==
    LET p == work[i]
        mid == Len(p.pts) \div 2
        Half(s) == [p EXCEPT !.pts = s]
    IN  IF Len(p.pts) = 1
        THEN rejected' = rejected \o p.pts /\ work' = RemoveAt(work, i)
        ELSE /\ work' = SubSeq(work, 1, i - 1)
                        \o <<Half(SubSeq(p.pts, 1, mid)), Half(SubSeq(p.pts, mid + 1, Len(p.pts)))>>
                        \o SubSeq(work, i + 1, Len(work))
             /\ UNCHANGED rejected

\* The write is answered with a 4xx; a "partial write" has stored the
\* acceptable points.
Rejected(i) ==
    /\ server # "down" /\ api = "good"
    /\ ToSet(work[i].pts) \cap Bad # {}
    /\ \/ UNCHANGED stored
       \/ stored' = stored \cup (ToSet(work[i].pts) \ Bad)
    /\ isolate_unprocessable(i)
    /\ UNCHANGED ok

\* A timeout or any other error: the piece is retried whole.  The server
\* may have stored it all the same.
Failed(i) ==
    /\ server # "up" \/ api = "broken"
    /\ \/ UNCHANGED stored
       \/ /\ server = "flaky" /\ api = "good"
          /\ stored' = stored \cup (ToSet(work[i].pts) \ Bad)
    /\ work' = [work EXCEPT ![i].retry = TRUE]
    /\ UNCHANGED <<ok, rejected>>

write_or_bisect(i) == Accepted(i) \/ Rejected(i) \/ Failed(i)

Attempt ==
    /\ pc = "write"
    /\ \E i \in 1 .. Len(work) : Attemptable(i) /\ write_or_bisect(i)
    /\ UNCHANGED <<produced, buffer, pc, closing, api, failures, written, dropped, server>>

\* What the flush puts back, in buffer order.
RetryPoints == FlattenSeq([i \in 1 .. Len(work) |-> work[i].pts])

\* Mutant: the points go behind the newer ones.
re_add_behind(pts) == SetBuffer(buffer \o pts)

re_add_points(pts) == SetBuffer(pts \o buffer)

\* Mutant: only a flush without any failure clears the count, and a failing
\* one does not raise it.
FailureCount_stuck == IF RetryPoints = << >> THEN 0 ELSE failures

\* _consecutive_batch_failures after the flush: cleared by any success,
\* raised when something failed and nothing was written.
FailureCount == IF ok > 0 THEN 0
                ELSE IF RetryPoints = << >> THEN failures ELSE failures + 1

\* All batches are answered: the second half of _flush_buffer.
FinishFlush ==
    /\ pc = "write"
    /\ \A i \in 1 .. Len(work) : work[i].retry
    /\ written' = written + ok
    /\ failures' = FailureCount
    /\ re_add_points(RetryPoints)
    /\ pc' = IF FailureCount >= Threshold THEN "reset" ELSE LoopHead(api)
    /\ work' = << >> /\ ok' = 0
    /\ UNCHANGED <<produced, closing, api, rejected, external>>

force_reset_connection ==
    /\ pc = "reset"
    /\ api' = "none"
    /\ failures' = 0
    /\ pc' = LoopHead("none")
    /\ UNCHANGED <<produced, buffer, work, ok, closing, counters, external>>

-----------------------------------------------------------------------------
\* close cancels the flush loop wherever it stands; CancelledError passes
\* the "except Exception" of _flush_buffer, and the points it held are gone.
close ==
    /\ pc \in {"wait", "backoff", "write", "reset"} /\ ~ closing
    /\ closing' = TRUE
    /\ pc' = "final"
    /\ work' = << >> /\ ok' = 0
    /\ UNCHANGED <<produced, buffer, api, failures, counters, external>>

\* The flush of close, after which the client is closed.
FinalFlush ==
    /\ pc = "final"
    /\ StartFlush(api)
    /\ UNCHANGED <<produced, closing, api, failures, counters, external>>

\* InfluxDB comes and goes; an outage may leave the client with a
\* connection that never works again.
ServerChanges(s) ==
    /\ s # server
    /\ server' = s
    /\ api' \in IF s = "down" /\ api = "good" THEN {"good", "broken"} ELSE {api}
    /\ UNCHANGED <<produced, buffer, work, ok, pc, closing, failures, counters, stored>>

\* The collector has been shut down.
Closed == pc = "done" /\ UNCHANGED vars

Next ==
    \/ connect \/ (\E n \in 1 .. MaxWrite : write(n))
    \/ Wake \/ Reconnect \/ Attempt \/ FinishFlush \/ force_reset_connection
    \/ close \/ FinalFlush \/ Closed
    \/ \E s \in ServerStates : ServerChanges(s)

Spec == Init /\ [][Next]_vars

\* The event loop resumes the flush loop, and every write is answered or
\* timed out (write_timeout_ms).
ExporterFair ==
    /\ WF_vars(connect) /\ WF_vars(Wake) /\ WF_vars(Reconnect)
    /\ WF_vars(Attempt) /\ WF_vars(FinishFlush) /\ WF_vars(force_reset_connection)

FairSpec == Spec /\ ExporterFair

-----------------------------------------------------------------------------
Pieces == [batch : Nat, retry : BOOLEAN, pts : Seq(Points)]

TypeOK ==
    /\ produced \in 0 .. MaxPoints
    /\ buffer \in Seq(Points) /\ Len(buffer) <= MaxBuffer
    /\ work \in Seq(Pieces)
    /\ ok \in Nat /\ written \in Nat
    /\ pc \in Pcs /\ closing \in BOOLEAN
    /\ api \in {"none", "good", "broken"}
    /\ failures \in Nat
    /\ rejected \in Seq(Points) /\ dropped \in Seq(Points)
    /\ server \in ServerStates /\ stored \subseteq Points

\* The points the running flush holds.
InFlight == UNION {ToSet(work[i].pts) : i \in 1 .. Len(work)}

\* The pipeline's own books balance: every point handed to write is counted
\* exactly once, as buffered, in the running flush, written, rejected or
\* dropped, through bisection, timeouts that were stored after all, requeues
\* and overflows.
Accounting ==
    ~ closing => produced = Len(buffer) + Len(RetryPoints) + ok
                            + written + Len(rejected) + Len(dropped)

\* No point disappears silently: one that is neither waiting nor in the
\* running flush has been stored by InfluxDB, or is counted in
\* total_points_rejected or total_points_dropped.
NoSilentLoss ==
    ~ closing => 1 .. produced \subseteq ToSet(buffer) \cup InFlight \cup stored
                                         \cup ToSet(rejected) \cup ToSet(dropped)

\* Bisection throws out the offending points only (_isolate_unprocessable),
\* whatever the size of the batch and the place of the bad points in it.
OnlyBadRejected == ToSet(rejected) \subseteq Bad

\* What is still to be written, pieces of the running flush first, is in
\* the order of production, so that an overflow drops the oldest points.
InOrder ==
    LET q == RetryPoints \o buffer
    IN  \A i, j \in 1 .. Len(q) : i < j => q[i] < q[j]

\* Writes never stop for good: once InfluxDB stays up, every point is
\* eventually stored, rejected or dropped, although the connection may have
\* to be found broken and rebuilt first.
WritesResume ==
    <>[](server = "up" /\ ~ closing) =>
        \A n \in Points :
            [](n <= produced => <>(n \in stored \cup ToSet(rejected) \cup ToSet(dropped)))

\* The claim of _shutdown_collector that close() flushes what is buffered
\* ("Flush+close the exporter (writes the drained buffer)"): nothing that
\* was produced is missing once it is done.
FinalFlushComplete ==
    pc = "done" => 1 .. produced \subseteq stored \cup ToSet(rejected) \cup ToSet(dropped)

=============================================================================
