------------------------ MODULE ResultPipelineProofs ------------------------
(***************************************************************************)
(* Proofs about ResultPipeline and the SSE manager it is composed with, for *)
(* any queue size, number of workers, results and streams.                 *)
(***************************************************************************)
EXTENDS ResultPipeline, SequenceTheorems, FiniteSetTheorems, TLAPS

USE PipelineAssumption, StreamAssumption

-----------------------------------------------------------------------------
(* The results a sequence holds.                                           *)

LEMMA ResultsOfEmpty == ToSet(<< >>) = {}
BY DEF ToSet

LEMMA ResultsOfAppend ==
    ASSUME NEW s \in Seq(Results), NEW r \in Results
    PROVE  ToSet(Append(s, r)) = ToSet(s) \cup {r}
<1>1. /\ Append(s, r) \in Seq(Results)
      /\ Len(Append(s, r)) = Len(s) + 1
      /\ \A i \in 1 .. Len(s) : Append(s, r)[i] = s[i]
      /\ Append(s, r)[Len(s) + 1] = r
  BY AppendProperties
<1>2. /\ DOMAIN Append(s, r) = 1 .. Len(s) + 1
      /\ DOMAIN s = 1 .. Len(s)
      /\ Len(s) \in Nat
  BY <1>1, LenProperties
<1> QED
  BY <1>1, <1>2 DEF ToSet

LEMMA ResultsOfTail ==
    ASSUME NEW s \in Seq(Results), s # << >>
    PROVE  ToSet(s) \subseteq {Head(s)} \cup ToSet(Tail(s))
<1>1. /\ Tail(s) \in Seq(Results)
      /\ Len(Tail(s)) = Len(s) - 1
      /\ \A i \in 1 .. Len(Tail(s)) : Tail(s)[i] = s[i + 1]
  BY HeadTailProperties
<1>2. /\ DOMAIN Tail(s) = 1 .. Len(s) - 1
      /\ DOMAIN s = 1 .. Len(s)
      /\ Len(s) \in Nat \ {0}
      /\ Head(s) = s[1]
  BY <1>1, LenProperties, EmptySeq
<1> SUFFICES ASSUME NEW i \in 1 .. Len(s), i # 1 PROVE s[i] \in ToSet(Tail(s))
  BY <1>2 DEF ToSet
<1>3. i - 1 \in 1 .. Len(Tail(s)) /\ Tail(s)[i - 1] = s[i]
  BY <1>1, <1>2
<1> QED
  BY <1>1, <1>2, <1>3 DEF ToSet

LEMMA ResultsType == ASSUME NEW s \in Seq(Results) PROVE ToSet(s) \subseteq Results
BY RangeOfSeq DEF ToSet, Range

-----------------------------------------------------------------------------
(* The inductive invariant.                                                *)

\* Every result that was not dropped is queued, collected or processed, until
\* the processor is cancelled.
Flow ==
    ~overran => (1 .. emitted) \ overflowed \subseteq ToSet(queue) \cup ToSet(batch) \cup processed

\* What a processor that gathers still has to do, and that none does otherwise.
Gathering ==
    /\ doing = "gather" => ToSet(batch) \subseteq waiting \cup working \cup processed
    /\ doing # "gather" => waiting = {} /\ working = {}

Buffering == processed \ Fruitless \subseteq buffered

\* The order of the shutdown: the processor is asked to stop when nothing
\* produces results any more, returns with nothing collected and an empty queue
\* unless it is cancelled, and the exporter is closed after it.
StopOrder ==
    /\ stopEvent <=> phase \in {"drain", "close", "closed"}
    /\ stopEvent => mgr = "stopped"
    /\ mgr = "stopped" => sync = "done" /\ conns = {}
    /\ doing = "done" => stopEvent /\ batch = << >> /\ (overran \/ queue = << >>)
    /\ phase \in {"close", "closed"} => doing = "done"

PipelineInv == PipelineTypeOK /\ seen \subseteq Streams /\ Flow /\ Gathering /\ Buffering /\ StopOrder

LEMMA InitPipeline == PipelineInit => PipelineInv
<1> SUFFICES ASSUME PipelineInit PROVE PipelineInv
  OBVIOUS
<1>1. PipelineTypeOK
  <2>1. << >> \in Seq(Results) /\ Len(<< >>) = 0
    BY EmptySeq
  <2>2. Cardinality({}) = 0
    BY FS_EmptySet
  <2>3. emitted \in 0 .. MaxResults /\ Len(queue) <= QueueMax /\ Cardinality(working) <= MaxWorkers
    BY <2>1, <2>2 DEF PipelineInit
  <2> QED
    BY <2>1, <2>3 DEF PipelineInit, SseInit, PipelineTypeOK, Phases
<1>2. Flow
  BY DEF PipelineInit, Flow
<1> QED
  BY <1>1, <1>2 DEF PipelineInit, SseInit, Gathering, Buffering, StopOrder, PipelineInv

\* A result is put while the processor has not been asked to stop.
LEMMA PutKeeps ==
    ASSUME PipelineInv, put_nowait, ~stopEvent, inflight' \in 0 .. InflightPolls,
           UNCHANGED <<processor, sseVars, stopEvent, overran, phase>>
    PROVE  PipelineInv'
<1>1. emitted + 1 \in Results /\ emitted' = emitted + 1 /\ emitted \in Nat
  BY DEF put_nowait, PipelineInv, PipelineTypeOK, Results
<1>2. queue \in Seq(Results) /\ Len(queue) \in Nat
  BY LenProperties DEF PipelineInv, PipelineTypeOK
<1>3. /\ queue' \in Seq(Results) /\ Len(queue') <= QueueMax /\ overflowed' \subseteq Results
      /\ ToSet(queue) \subseteq ToSet(queue') /\ overflowed \subseteq overflowed'
      /\ emitted + 1 \in ToSet(queue') \cup overflowed'
  <2>1. CASE Len(queue) < QueueMax
    <3>1. queue' = Append(queue, emitted + 1) /\ overflowed' = overflowed
      BY <2>1 DEF put_nowait
    <3>2. /\ Append(queue, emitted + 1) \in Seq(Results)
          /\ Len(Append(queue, emitted + 1)) = Len(queue) + 1
          /\ ToSet(Append(queue, emitted + 1)) = ToSet(queue) \cup {emitted + 1}
      BY <1>1, <1>2, AppendProperties, ResultsOfAppend
    <3> QED
      BY <1>2, <2>1, <3>1, <3>2 DEF PipelineInv, PipelineTypeOK
  <2>2. CASE ~(Len(queue) < QueueMax)
    BY <1>1, <1>2, <2>2 DEF put_nowait, PipelineInv, PipelineTypeOK
  <2> QED
    BY <2>1, <2>2
<1>4. Flow'
  <2>1. 1 .. emitted' = (1 .. emitted) \cup {emitted + 1}
    BY <1>1
  <2> QED
    BY <1>3, <2>1 DEF PipelineInv, Flow, processor
<1>5. PipelineTypeOK'
  BY <1>1, <1>3 DEF PipelineInv, PipelineTypeOK, processor, sseVars, Results
<1>6. doing # "done"
  BY DEF PipelineInv, StopOrder
<1> QED
  BY <1>4, <1>5, <1>6 DEF PipelineInv, Gathering, Buffering, StopOrder, processor, sseVars

LEMMA PollKeeps == PipelineInv /\ PollCompletes => PipelineInv'
<1> SUFFICES ASSUME PipelineInv, PollCompletes PROVE PipelineInv'
  OBVIOUS
<1>1. ~stopEvent
  BY DEF PollCompletes, PipelineInv, StopOrder
<1>2. inflight' \in 0 .. InflightPolls
  BY DEF PollCompletes, PipelineInv, PipelineTypeOK
<1> QED
  BY <1>1, <1>2, PutKeeps DEF PollCompletes

LEMMA EventKeeps == PipelineInv /\ SseEvent => PipelineInv'
<1> SUFFICES ASSUME PipelineInv, SseEvent PROVE PipelineInv'
  OBVIOUS
<1>1. ~stopEvent
  BY DEF SseEvent, PipelineInv, StopOrder
<1>2. inflight' \in 0 .. InflightPolls
  BY DEF SseEvent, PipelineInv, PipelineTypeOK
<1> QED
  BY <1>1, <1>2, PutKeeps DEF SseEvent

\* The SSE manager keeps its types, and starts nothing once it has stopped.
LEMMA SseKeeps ==
    ASSUME PipelineInv, SseNext
    PROVE  /\ wanted' \subseteq Streams /\ conns' \subseteq Streams /\ seen' \subseteq Streams
           /\ sync' \in {"sleep", "apply", "done"} /\ mgr' \in {"run", "stopping", "stopped"}
           /\ mgr' = "stopped" => sync' = "done" /\ conns' = {}
           /\ mgr = "stopped" => mgr' = "stopped"
<1> USE DEF PipelineInv, PipelineTypeOK, StopOrder
<1>1. \A S : Started(S) \subseteq S
  BY DEF Started
<1>2. ASSUME NEW t \in Streams, SwitchMode(t)
      PROVE  wanted' \subseteq Streams /\ UNCHANGED <<conns, sync, seen, mgr>>
  BY <1>2 DEF SwitchMode
<1>3. CASE SyncRead
  BY <1>1, <1>3 DEF SyncRead
<1>4. CASE SyncEnds \/ AllStopped \/ \E t \in Streams : StopConnection(t)
  BY <1>4 DEF SyncEnds, AllStopped, StopConnection
<1>5. CASE \E t \in Streams : SyncStop(t)
  <2>1. /\ sync = "apply" /\ UNCHANGED <<wanted, mgr>> /\ seen' \in {seen, {}}
        /\ sync' \in {"sleep", "apply"}
    BY <1>5 DEF SyncStop
  <2>2. conns' \subseteq conns \cup seen
    BY <1>1, <1>5 DEF SyncStop
  <2> QED
    BY <2>1, <2>2
<1> QED
  BY <1>2, <1>3, <1>4, <1>5 DEF SseNext, SseStep

LEMMA ManagerKeeps == PipelineInv /\ SseManager => PipelineInv'
<1> SUFFICES ASSUME PipelineInv, SseManager PROVE PipelineInv'
  OBVIOUS
<1>1. SseNext /\ UNCHANGED <<emitted, queue, overflowed, doing, batch, waiting, working, processed,
                             buffered, inflight, stopEvent, overran, phase>>
  BY DEF SseManager, processor
<1> QED
  BY <1>1, SseKeeps DEF PipelineInv, PipelineTypeOK, Flow, Gathering, Buffering, StopOrder

-----------------------------------------------------------------------------
(* The processor.                                                          *)

LEMMA CollectKeeps == PipelineInv /\ Collect => PipelineInv'
<1> SUFFICES ASSUME PipelineInv, Collect PROVE PipelineInv'
  OBVIOUS
<1>1. queue \in Seq(Results) /\ batch \in Seq(Results) /\ queue # << >> /\ Len(queue) \in Nat
  BY LenProperties DEF Collect, PipelineInv, PipelineTypeOK
<1>2. /\ Head(queue) \in Results /\ Tail(queue) \in Seq(Results)
      /\ Len(Tail(queue)) = Len(queue) - 1
      /\ ToSet(queue) \subseteq {Head(queue)} \cup ToSet(Tail(queue))
  BY <1>1, HeadTailProperties, ResultsOfTail
<1>3. /\ Append(batch, Head(queue)) \in Seq(Results)
      /\ ToSet(Append(batch, Head(queue))) = ToSet(batch) \cup {Head(queue)}
  BY <1>1, <1>2, AppendProperties, ResultsOfAppend
<1>4. batch' = Append(batch, Head(queue)) /\ queue' = Tail(queue)
  BY DEF Collect
<1>5. PipelineTypeOK'
  <2>1. Len(queue') <= QueueMax
    BY <1>1, <1>2, <1>4 DEF PipelineInv, PipelineTypeOK
  <2> QED
    BY <1>2, <1>3, <1>4, <2>1 DEF Collect, PipelineInv, PipelineTypeOK, sseVars
<1>6. Flow'
  BY <1>2, <1>3, <1>4 DEF Collect, PipelineInv, Flow
<1> QED
  BY <1>5, <1>6 DEF Collect, PipelineInv, Gathering, Buffering, StopOrder, sseVars

LEMMA SilenceKeeps == PipelineInv /\ GetTimesOut => PipelineInv'
<1> SUFFICES ASSUME PipelineInv, GetTimesOut PROVE PipelineInv'
  OBVIOUS
<1>1. doing = "get" /\ queue = << >> /\ waiting = {} /\ working = {}
  BY DEF GetTimesOut, PipelineInv, Gathering
<1>2. /\ doing' \in {"get", "gather", "done"}
      /\ doing' = "done" => stopEvent /\ batch = << >>
      /\ waiting' = IF doing' = "gather" THEN ToSet(batch) ELSE {}
  BY DEF GetTimesOut, AfterSilence
<1>3. waiting' \subseteq Results
  BY <1>2, ResultsType DEF PipelineInv, PipelineTypeOK
<1>4. UNCHANGED <<emitted, queue, overflowed, batch, working, processed, buffered,
                  inflight, wanted, conns, sync, seen, mgr, stopEvent, overran, phase>>
  BY DEF GetTimesOut, sseVars
<1>5. PipelineTypeOK'
  BY <1>2, <1>3, <1>4 DEF PipelineInv, PipelineTypeOK
<1>6. Gathering'
  BY <1>1, <1>2, <1>4 DEF Gathering
<1> QED
  BY <1>1, <1>2, <1>4, <1>5, <1>6 DEF PipelineInv, Flow, Buffering, StopOrder

LEMMA WorkerKeeps ==
    ASSUME PipelineInv, NEW r \in Results, TakeUp(r) \/ process_poll_result(r)
    PROVE  PipelineInv'
<1>1. IsFiniteSet(working)
  <2>1. IsFiniteSet(Results)
    BY FS_Interval DEF Results
  <2> QED
    BY <2>1, FS_Subset DEF PipelineInv, PipelineTypeOK
<1>2. Cardinality(working) \in Nat
  BY <1>1, FS_CardinalityType
<1>3. CASE TakeUp(r)
  <2>1. Cardinality(working') <= MaxWorkers
    <3>1. /\ Cardinality(working \cup {r}) =
                IF r \in working THEN Cardinality(working) ELSE Cardinality(working) + 1
          /\ working' = working \cup {r} /\ Cardinality(working) < MaxWorkers
      BY <1>1, <1>3, FS_AddElement DEF TakeUp
    <3> QED
      BY <1>2, <3>1
  <2>2. /\ waiting' = waiting \ {r} /\ working' = working \cup {r} /\ r \in waiting
        /\ UNCHANGED <<emitted, queue, overflowed, doing, batch, processed, buffered,
                       inflight, wanted, conns, sync, seen, mgr, stopEvent, overran, phase>>
    BY <1>3 DEF TakeUp, sseVars
  <2>3. PipelineTypeOK'
    BY <2>1, <2>2 DEF PipelineInv, PipelineTypeOK
  <2> QED
    BY <2>2, <2>3 DEF PipelineInv, Flow, Gathering, Buffering, StopOrder
<1>4. CASE process_poll_result(r)
  <2>1. Cardinality(working') <= MaxWorkers
    <3>1. /\ Cardinality(working \ {r}) =
                IF r \in working THEN Cardinality(working) - 1 ELSE Cardinality(working)
          /\ working' = working \ {r} /\ Cardinality(working) <= MaxWorkers
      BY <1>1, <1>4, FS_RemoveElement DEF process_poll_result, PipelineInv, PipelineTypeOK
    <3> QED
      BY <1>2, <3>1
  <2>2. /\ working' = working \ {r} /\ processed' = processed \cup {r} /\ r \in working
        /\ buffered' = IF r \in Fruitless THEN buffered ELSE buffered \cup {r}
        /\ UNCHANGED <<emitted, queue, overflowed, doing, batch, waiting,
                       inflight, wanted, conns, sync, seen, mgr, stopEvent, overran, phase>>
    BY <1>4 DEF process_poll_result, sseVars
  <2>3. PipelineTypeOK'
    BY <2>1, <2>2 DEF PipelineInv, PipelineTypeOK
  <2> QED
    BY <2>2, <2>3 DEF PipelineInv, Flow, Gathering, Buffering, StopOrder
<1> QED
  BY <1>3, <1>4

LEMMA GatherKeeps == PipelineInv /\ GatherDone => PipelineInv'
<1> SUFFICES ASSUME PipelineInv, GatherDone PROVE PipelineInv'
  OBVIOUS
<1>1. /\ doing = "gather" /\ waiting = {} /\ working = {} /\ doing' = "get" /\ batch' = << >>
      /\ UNCHANGED <<emitted, queue, overflowed, waiting, working, processed, buffered,
                     inflight, wanted, conns, sync, seen, mgr, stopEvent, overran, phase>>
  BY DEF GatherDone, sseVars
<1>2. batch' \in Seq(Results)
  BY <1>1, EmptySeq
<1>3. PipelineTypeOK'
  BY <1>1, <1>2 DEF PipelineInv, PipelineTypeOK
<1>4. Flow'
  BY <1>1 DEF PipelineInv, Flow, Gathering
<1> QED
  BY <1>1, <1>3, <1>4 DEF PipelineInv, Gathering, Buffering, StopOrder

-----------------------------------------------------------------------------
(* The shutdown.                                                           *)

LEMMA ShutdownKeeps ==
    ASSUME PipelineInv,
           \/ StopPoller \/ PollEndsEmpty \/ StopSse \/ SetStopEvent \/ Drained
           \/ CloseExporter \/ HasClosed
    PROVE  PipelineInv'
<1> USE DEF PipelineInv
<1>1. UNCHANGED <<emitted, queue, overflowed, doing, batch, waiting, working, processed, buffered,
                  wanted, conns, seen, overran>>
  BY DEF StopPoller, PollEndsEmpty, StopSse, SetStopEvent, Drained, CloseExporter, HasClosed,
     ManagerStop, processor, sseVars, pipelineVars
<1>2. Flow' /\ Gathering' /\ Buffering'
  BY <1>1 DEF Flow, Gathering, Buffering
<1>3. inflight' \in 0 .. InflightPolls /\ stopEvent' \in BOOLEAN /\ phase' \in Phases
  <2>1. inflight' \in 0 .. InflightPolls
    <3>1. inflight' = inflight \/ (inflight > 0 /\ inflight' = inflight - 1)
      BY DEF StopPoller, PollEndsEmpty, StopSse, SetStopEvent, Drained, CloseExporter, HasClosed, pipelineVars
    <3> QED
      BY <3>1 DEF PipelineTypeOK
  <2>2. stopEvent' = stopEvent \/ stopEvent' = TRUE
    BY DEF StopPoller, PollEndsEmpty, StopSse, SetStopEvent, Drained, CloseExporter, HasClosed, pipelineVars
  <2>3. phase' = phase \/ phase' \in Phases
    BY DEF StopPoller, PollEndsEmpty, StopSse, SetStopEvent, Drained, CloseExporter, HasClosed, pipelineVars,
       Phases
  <2> QED
    BY <2>1, <2>2, <2>3 DEF PipelineTypeOK
<1>4. sync' \in {"sleep", "apply", "done"} /\ mgr' \in {"run", "stopping", "stopped"}
  BY DEF StopPoller, PollEndsEmpty, StopSse, SetStopEvent, Drained, CloseExporter, HasClosed,
     ManagerStop, sseVars, pipelineVars, PipelineTypeOK
<1>5. PipelineTypeOK'
  BY <1>1, <1>3, <1>4 DEF PipelineTypeOK
<1>6. StopOrder'
  BY <1>1 DEF StopPoller, PollEndsEmpty, StopSse, SetStopEvent, Drained, CloseExporter, HasClosed,
     ManagerStop, sseVars, pipelineVars, StopOrder, PipelineTypeOK
<1> QED
  BY <1>1, <1>2, <1>5, <1>6

LEMMA CancelKeeps == PipelineInv /\ CancelProcessor => PipelineInv'
<1> SUFFICES ASSUME PipelineInv, CancelProcessor PROVE PipelineInv'
  OBVIOUS
<1>1. PipelineTypeOK'
  <2>1. << >> \in Seq(Results)
    BY EmptySeq
  <2>2. Cardinality({}) = 0
    BY FS_EmptySet
  <2> QED
    BY <2>1, <2>2 DEF CancelProcessor, PipelineInv, PipelineTypeOK, sseVars, Phases
<1>2. Flow' /\ Gathering' /\ Buffering'
  BY DEF CancelProcessor, PipelineInv, Flow, Gathering, Buffering
<1>3. StopOrder'
  BY DEF CancelProcessor, PipelineInv, StopOrder, sseVars
<1> QED
  BY <1>1, <1>2, <1>3 DEF CancelProcessor, PipelineInv, sseVars

\* The invariant holds whatever the producers, the workers and the SSE manager
\* do while the collector runs and while it is shut down.
THEOREM PipelineInvariance == PipelineSpec => []PipelineInv
<1>1. PipelineInv /\ [PipelineNext]_pipelineVars => PipelineInv'
  <2> SUFFICES ASSUME PipelineInv, [PipelineNext]_pipelineVars PROVE PipelineInv'
    OBVIOUS
  <2>1. CASE PollCompletes \/ SseEvent \/ SseManager
    BY <2>1, PollKeeps, EventKeeps, ManagerKeeps
  <2>2. CASE Collect \/ GetTimesOut \/ GatherDone
    BY <2>2, CollectKeeps, SilenceKeeps, GatherKeeps
  <2>3. ASSUME NEW r \in Results, TakeUp(r) \/ process_poll_result(r) PROVE PipelineInv'
    BY <2>3, WorkerKeeps
  <2>4. CASE \/ StopPoller \/ PollEndsEmpty \/ StopSse \/ SetStopEvent \/ Drained
             \/ CloseExporter \/ HasClosed
    BY <2>4, ShutdownKeeps
  <2>5. CASE CancelProcessor
    BY <2>5, CancelKeeps
  <2>6. CASE UNCHANGED pipelineVars
    BY <2>6 DEF pipelineVars, processor, sseVars, PipelineInv, PipelineTypeOK, Flow, Gathering, Buffering, StopOrder
  <2> QED
    BY <2>1, <2>2, <2>3, <2>4, <2>5, <2>6 DEF PipelineNext
<1> QED
  BY <1>1, InitPipeline, PTL DEF PipelineSpec

\* The result queue keeps to its limit, and no more than max_workers results are
\* worked on (put_nowait, process_with_limit).
THEOREM PipelineTypeCorrect == PipelineSpec => []PipelineTypeOK
<1>1. PipelineInv => PipelineTypeOK
  BY DEF PipelineInv
<1> QED
  BY <1>1, PipelineInvariance, PTL

\* When the exporter is closed, every result that entered the queue has been
\* processed and its metrics are buffered, unless the drain overran its budget
\* (_shutdown_collector, result_processor_task, get_results).
THEOREM FinalCycleExported == PipelineSpec => []FinalCycleBuffered
<1>1. PipelineInv => FinalCycleBuffered
  BY ResultsOfEmpty DEF PipelineInv, Flow, Buffering, StopOrder, FinalCycleBuffered
<1> QED
  BY <1>1, PipelineInvariance, PTL
=============================================================================
