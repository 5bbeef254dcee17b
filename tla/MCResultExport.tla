--------------------------- MODULE MCResultExport ---------------------------
(***************************************************************************)
(* The way of a result to InfluxDB in its two halves, checked side by      *)
(* side: from the poll to the exporter's buffer, and from there to the     *)
(* server.  What passes between them is counted by either on its own:      *)
(* ResultPipeline ends where a result's metrics are in the buffer, and the *)
(* points of InfluxExporter come from anywhere.  A behaviour belongs to    *)
(* one half; the other has been shut down and does nothing.                *)
(***************************************************************************)
EXTENDS ResultPipeline, InfluxExporter

VARIABLE half    \* "pipeline" or "exporter"

resultVars == <<half, pipelineVars, vars>>

PipelineClosed ==
    /\ emitted = 0 /\ queue = << >> /\ overflowed = {}
    /\ doing = "done" /\ batch = << >> /\ waiting = {} /\ working = {}
    /\ processed = {} /\ buffered = {} /\ inflight = 0
    /\ stopEvent = TRUE /\ overran = FALSE /\ phase = "closed"
    /\ wanted = {} /\ conns = {} /\ sync = "done" /\ seen = {} /\ mgr = "stopped"

ExporterClosed ==
    /\ produced = 0 /\ buffer = << >> /\ work = << >> /\ ok = 0
    /\ pc = "done" /\ closing = TRUE /\ api = "none" /\ failures = 0
    /\ written = 0 /\ rejected = << >> /\ dropped = << >>
    /\ server = "up" /\ stored = {}

ResultInit ==
    \/ half = "pipeline" /\ PipelineInit /\ ExporterClosed
    \/ half = "exporter" /\ Init /\ PipelineClosed

ResultNext ==
    \/ half = "pipeline" /\ PipelineNext /\ UNCHANGED <<half, vars>>
    \/ half = "exporter" /\ Next /\ UNCHANGED <<half, pipelineVars>>

\* The fairness of both: no fair action of a half that is shut down is enabled.
ResultSpec ==
    /\ ResultInit /\ [][ResultNext]_resultVars
    /\ PipelineFair /\ ExporterFair
=============================================================================
