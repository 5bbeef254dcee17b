--------------------------- MODULE MCOperatorTools ---------------------------
(***************************************************************************)
(* Three machines that share no state with each other, checked side by     *)
(* side: the allocation of targets to collectors, the placement of a       *)
(* system and the export of a bucket.  A behaviour belongs to one of them; *)
(* the other two keep a state in which nothing of theirs can happen.       *)
(***************************************************************************)
EXTENDS MCShardAlloc, SystemPlacement, BulkExport

VARIABLE subject    \* the machine that runs

toolVars == <<subject, allocVars, placementVars, exportVars>>

NoAllocation == score = << >> /\ targets = {} /\ live = {} /\ maxPerShard = 1

NoPlacement ==
    /\ row = Empty /\ pulled = "fresh" /\ overtaken = {} /\ answering = FALSE
    /\ job = [w \in Writers |-> [NoJob EXCEPT !.pc = "off"]]

NoExport ==
    /\ bucket = {} /\ atStart = {} /\ chunk = 0 /\ step = "ended" /\ attempt = 0
    /\ chunks = << >> /\ part = Absent /\ output = Previous

ToolInit ==
    \/ subject = "allocation" /\ AllocInit /\ Representative /\ NoPlacement /\ NoExport
    \/ subject = "placement" /\ PlacementInit /\ NoAllocation /\ NoExport
    \/ subject = "export" /\ ExportInit /\ NoAllocation /\ NoPlacement

ToolNext ==
    \/ subject = "allocation" /\ AllocNext /\ UNCHANGED <<subject, placementVars, exportVars>>
    \/ subject = "placement" /\ PlacementNext /\ UNCHANGED <<subject, allocVars, exportVars>>
    \/ subject = "export" /\ ExportNext /\ UNCHANGED <<subject, allocVars, placementVars>>

\* Only the placement has fairness: in the state it keeps while another machine
\* runs, no fair action of its is enabled.
ToolSpec ==
    /\ ToolInit /\ [][ToolNext]_toolVars
    /\ WF_placementVars(subject = "placement" /\ InventoryAges)
    /\ WF_placementVars(run_pass) /\ \A w \in Writers : WF_placementVars(WriterStep(w))
=============================================================================
