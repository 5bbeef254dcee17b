-------------------------- MODULE TargetOwnership --------------------------
(***************************************************************************)
(* What sharding promises to the rest of the collector: at any time at     *)
(* most one process collects from a target, and a target passes from one   *)
(* process to another only through a moment in which nobody collects from  *)
(* it.  (docs/SCALABILITY.md: "no target is ever double-owned".)           *)
(***************************************************************************)
CONSTANTS Procs, Targets, NoProc

VARIABLE holder     \* the process that collects from each target, or NoProc

Init == holder = [t \in Targets |-> NoProc]

\* Any number of targets are taken or given up at once; none is handed over
\* directly.
Next ==
    /\ holder' \in [Targets -> Procs \cup {NoProc}]
    /\ \A t \in Targets : \/ holder'[t] = holder[t]
                          \/ holder[t] = NoProc
                          \/ holder'[t] = NoProc

Spec == Init /\ [][Next]_holder
=============================================================================
