--------------------------- MODULE ResultPipeline ---------------------------
(***************************************************************************)
(* From a poll result to the exporter's buffer, and the ordered shutdown   *)
(* of the collector (collector/src/collector_main.py, with the queue of    *)
(* redfish/poller.py): polls and SSE streams put results into one bounded  *)
(* queue, get_results collects them until the queue has been silent for a  *)
(* second, result_processor_task then processes what was collected with a  *)
(* few workers, and _shutdown_collector stops the producers, lets the      *)
(* processor drain the queue within a time budget and closes the exporter. *)
(*                                                                         *)
(* Results are numbered in the order they are produced.                    *)
(***************************************************************************)
EXTENDS SseStreams, Sequences, SequencesExt

CONSTANTS
    MaxResults,     \* bound on the results produced
    QueueMax,       \* maxsize of _result_queue
    MaxWorkers,     \* max_workers of the processor
    Fruitless,      \* the results from which no metrics are extracted
    InflightPolls   \* polls that poller.stop() finds in flight, at most

ASSUME PipelineAssumption ==
    /\ MaxResults \in Nat /\ QueueMax \in Nat \ {0} /\ MaxWorkers \in Nat \ {0}
    /\ Fruitless \subseteq 1 .. MaxResults
    /\ InflightPolls \in Nat

VARIABLES
    emitted,    \* the results produced so far are 1 .. emitted
    queue,      \* _result_queue
    overflowed, \* results dropped because the queue was full
    doing,      \* the processor: "get", "gather" or "done"
    batch,      \* the results get_results has collected, then those gathered
    waiting,    \* results gathered that wait for a worker
    working,    \* results a worker is extracting
    processed,  \* results process_poll_result is through with
    buffered,   \* results whose metrics exporter.write has buffered
    inflight,   \* polls still in flight after poller.stop() was called
    stopEvent,  \* processor_stop_event
    overran,    \* history: the drain exceeded _PROCESSOR_DRAIN_TIMEOUT_S
    phase       \* "run", then the steps of _shutdown_collector

processor == <<doing, batch, waiting, working, processed, buffered>>
pipelineVars == <<emitted, queue, overflowed, processor, inflight, stopEvent, overran, phase, sseVars>>

Results == 1 .. MaxResults
Phases == {"run", "poller", "sse", "drain", "close", "closed"}

PipelineInit ==
    /\ emitted = 0 /\ queue = << >> /\ overflowed = {}
    /\ doing = "get" /\ batch = << >> /\ waiting = {} /\ working = {}
    /\ processed = {} /\ buffered = {}
    /\ inflight \in 0 .. InflightPolls
    /\ SseInit /\ stopEvent = FALSE /\ overran = FALSE /\ phase = "run"

-----------------------------------------------------------------------------
(* Producers.                                                              *)

\* put_nowait: the next result is queued, or dropped when the queue is full.
put_nowait ==
    /\ emitted < MaxResults
    /\ emitted' = emitted + 1
    /\ IF Len(queue) < QueueMax
       THEN queue' = Append(queue, emitted + 1) /\ UNCHANGED overflowed
       ELSE overflowed' = overflowed \cup {emitted + 1} /\ UNCHANGED queue

\* The end of a scheduled poll in _run_poll; after stop() only of those that
\* were in flight.
PollCompletes ==
    /\ \/ phase = "run" /\ UNCHANGED inflight
       \/ phase = "poller" /\ inflight > 0 /\ inflight' = inflight - 1
    /\ put_nowait
    /\ UNCHANGED <<processor, sseVars, stopEvent, overran, phase>>

\* A MetricReport event of an SSE stream.
SseEvent ==
    /\ conns # {}
    /\ put_nowait
    /\ UNCHANGED <<processor, inflight, sseVars, stopEvent, overran, phase>>

\* A step of the SSE manager or of one of its connections.
SseManager ==
    /\ SseNext
    /\ UNCHANGED <<emitted, queue, overflowed, processor, inflight, stopEvent, overran, phase>>

-----------------------------------------------------------------------------
(* result_processor_task.                                                  *)

\* get_results takes another result.
Collect ==
    /\ doing = "get" /\ queue # << >>
    /\ batch' = Append(batch, Head(queue))
    /\ queue' = Tail(queue)
    /\ UNCHANGED <<emitted, overflowed, doing, waiting, working, processed, buffered,
                   inflight, sseVars, stopEvent, overran, phase>>

\* Mutant: the stop event is obeyed although results were collected.
AfterSilence_hasty == IF stopEvent THEN "done" ELSE IF batch # << >> THEN "gather" ELSE "get"

\* What the processor does with what get_results returns.
AfterSilence == IF batch # << >> THEN "gather" ELSE IF stopEvent THEN "done" ELSE "get"

\* No result for a second: get_results returns.
GetTimesOut ==
    /\ doing = "get" /\ queue = << >>
    /\ doing' = AfterSilence
    /\ waiting' = IF doing' = "gather" THEN ToSet(batch) ELSE {}
    /\ UNCHANGED <<emitted, queue, overflowed, batch, working, processed, buffered,
                   inflight, sseVars, stopEvent, overran, phase>>

\* A worker enters the semaphore with result r.
TakeUp(r) ==
    /\ r \in waiting /\ Cardinality(working) < MaxWorkers
    /\ waiting' = waiting \ {r} /\ working' = working \cup {r}
    /\ UNCHANGED <<emitted, queue, overflowed, doing, batch, processed, buffered,
                   inflight, sseVars, stopEvent, overran, phase>>

\* process_poll_result ends: metrics are buffered, or there were none (the
\* poll had failed, or the extraction did).
process_poll_result(r) ==
    /\ r \in working
    /\ working' = working \ {r}
    /\ processed' = processed \cup {r}
    /\ buffered' = IF r \in Fruitless THEN buffered ELSE buffered \cup {r}
    /\ UNCHANGED <<emitted, queue, overflowed, doing, batch, waiting,
                   inflight, sseVars, stopEvent, overran, phase>>

\* Every gathered result is through: the next call of get_results.
GatherDone ==
    /\ doing = "gather" /\ waiting = {} /\ working = {}
    /\ doing' = "get" /\ batch' = << >>
    /\ UNCHANGED <<emitted, queue, overflowed, waiting, working, processed, buffered,
                   inflight, sseVars, stopEvent, overran, phase>>

-----------------------------------------------------------------------------
(* _shutdown_collector.                                                    *)

StopPoller ==
    /\ phase = "run"
    /\ phase' = "poller"
    /\ UNCHANGED <<emitted, queue, overflowed, processor, inflight, sseVars, stopEvent, overran>>

\* A poll in flight ends with an exception or without a result.
PollEndsEmpty ==
    /\ phase = "poller" /\ inflight > 0
    /\ inflight' = inflight - 1
    /\ UNCHANGED <<emitted, queue, overflowed, processor, sseVars, stopEvent, overran, phase>>

\* poller.stop() has awaited the polls in flight; sse_manager.stop() is called.
StopSse ==
    /\ phase = "poller" /\ inflight = 0
    /\ phase' = "sse"
    /\ ManagerStop
    /\ UNCHANGED <<emitted, queue, overflowed, processor, inflight, stopEvent, overran>>

\* sse_manager.stop() has returned; the processor is asked to stop.
SetStopEvent ==
    /\ phase = "sse" /\ mgr = "stopped"
    /\ stopEvent' = TRUE
    /\ phase' = "drain"
    /\ UNCHANGED <<emitted, queue, overflowed, processor, inflight, sseVars, overran>>

\* The processor has returned within the budget.
Drained ==
    /\ phase = "drain" /\ doing = "done"
    /\ phase' = "close"
    /\ UNCHANGED <<emitted, queue, overflowed, processor, inflight, sseVars, stopEvent, overran>>

\* Mutant: only an idle processor is cancelled.
CancelProcessor_idle ==
    /\ phase = "drain" /\ doing = "get"
    /\ doing' = "done" /\ batch' = << >>
    /\ phase' = "close" /\ overran' = TRUE
    /\ UNCHANGED <<emitted, queue, overflowed, waiting, working, processed, buffered,
                   inflight, sseVars, stopEvent>>

\* The budget is exceeded: the processor is cancelled with all its workers.
CancelProcessor ==
    /\ phase = "drain" /\ doing # "done"
    /\ doing' = "done" /\ batch' = << >> /\ waiting' = {} /\ working' = {}
    /\ phase' = "close" /\ overran' = TRUE
    /\ UNCHANGED <<emitted, queue, overflowed, processed, buffered, inflight, sseVars, stopEvent>>

\* The other tasks are stopped and the exporter is closed.
CloseExporter ==
    /\ phase = "close"
    /\ phase' = "closed"
    /\ UNCHANGED <<emitted, queue, overflowed, processor, inflight, sseVars, stopEvent, overran>>

HasClosed == phase = "closed" /\ UNCHANGED pipelineVars

-----------------------------------------------------------------------------
PipelineNext ==
    \/ PollCompletes \/ SseEvent \/ SseManager
    \/ Collect \/ GetTimesOut \/ GatherDone
    \/ \E r \in Results : TakeUp(r) \/ process_poll_result(r)
    \/ StopPoller \/ PollEndsEmpty \/ StopSse \/ SetStopEvent
    \/ Drained \/ CancelProcessor \/ CloseExporter \/ HasClosed

PipelineSpec == PipelineInit /\ [][PipelineNext]_pipelineVars

\* Once it is asked to, _shutdown_collector goes on: polls in flight end
\* (every request has a timeout), and so does the wait for the processor.
\* The SSE manager goes through its rounds, and its connections stop when they
\* are cancelled.
\* Nothing is assumed of the extraction, which runs in a thread and may hang.
PipelineFair ==
    /\ WF_pipelineVars(PollCompletes \/ PollEndsEmpty)
    /\ WF_pipelineVars(StopSse) /\ WF_pipelineVars(SetStopEvent)
    /\ WF_pipelineVars(SseManager /\ SseStep)
    /\ WF_pipelineVars(Drained) /\ WF_pipelineVars(CancelProcessor)
    /\ WF_pipelineVars(CloseExporter)

PipelineFairSpec == PipelineSpec /\ PipelineFair

-----------------------------------------------------------------------------
PipelineTypeOK ==
    /\ emitted \in 0 .. MaxResults
    /\ queue \in Seq(Results) /\ Len(queue) <= QueueMax /\ batch \in Seq(Results)
    /\ overflowed \subseteq Results
    /\ doing \in {"get", "gather", "done"}
    /\ waiting \subseteq Results /\ working \subseteq Results
    /\ Cardinality(working) <= MaxWorkers
    /\ processed \subseteq Results /\ buffered \subseteq Results
    /\ inflight \in 0 .. InflightPolls
    /\ wanted \subseteq Streams /\ conns \subseteq Streams
    /\ sync \in {"sleep", "apply", "done"} /\ mgr \in {"run", "stopping", "stopped"}
    /\ stopEvent \in BOOLEAN /\ overran \in BOOLEAN /\ phase \in Phases

\* The drain of _shutdown_collector: when the exporter is closed, every
\* result that entered the queue has been processed, and its metrics are in
\* the exporter's buffer, whatever the processor was doing when the stop
\* event was set, unless the drain exceeded its budget.
FinalCycleBuffered ==
    phase \in {"close", "closed"} /\ ~ overran =>
        /\ (1 .. emitted) \ overflowed \subseteq processed
        /\ processed \ Fruitless \subseteq buffered

\* A shutdown that has begun reaches the end of exporter.close(), the final
\* flush, even if an extraction hangs: the drain has a backstop.
ShutdownCompletes == phase = "poller" ~> phase = "closed"

\* A target in SSE mode is given its connection, whatever was started or
\* stopped before, unless one before it in the order of the query cannot be
\* started: that one ends every round (_sync_connections).
EventuallyStreaming ==
    \A t \in Streams \ Undecryptable :
        (phase = "run" /\ t \in wanted) ~>
            \/ t \in conns \/ t \notin wanted \/ phase # "run"
            \/ \E u \in Undecryptable \cap wanted : u < t

\* The limit of the result queue bounds what waits to be processed.  It does
\* not: results that keep arriving keep get_results collecting (poller.py 129
\* and 917).
UnprocessedBounded == doing = "get" => Len(batch) <= QueueMax
=============================================================================
