----------------------------- MODULE SseStreams -----------------------------
(***************************************************************************)
(* The SSE manager: it keeps one streaming connection per target in SSE    *)
(* mode, reconciles them with the target table, and stops them.  A         *)
(* connection that has broken connects again after a while: until then it  *)
(* brings no events, and that is all that tells it from one that streams.  *)
(***************************************************************************)
EXTENDS Naturals, FiniteSets

CONSTANTS
    Streams,       \* targets that may be in SSE mode, in the order of the query
    Undecryptable  \* those whose credentials or tags cannot be read

ASSUME StreamAssumption == Streams \subseteq Nat /\ Undecryptable \subseteq Streams

VARIABLES
    wanted,  \* the active targets in SSE mode
    conns,   \* _connections
    sync,    \* _sync_loop: "sleep", "apply" while it stops connections, "done"
    seen,    \* the targets that round has read
    mgr      \* the manager: "run", "stopping" or "stopped"

sseVars == <<wanted, conns, sync, seen, mgr>>

SseInit ==
    /\ wanted \in SUBSET Streams
    /\ conns = {}
    /\ sync = "sleep" /\ seen = {} /\ mgr = "run"

\* A target is added to or taken from the SSE targets.
SwitchMode(t) ==
    /\ wanted' = IF t \in wanted THEN wanted \ {t} ELSE wanted \cup {t}
    /\ UNCHANGED <<conns, sync, seen, mgr>>

(***************************************************************************)
(* The reconciliation                                                      *)
(***************************************************************************)
\* Mutant: a target that cannot be started keeps all others from being started.
Started_none(S) == IF S \cap Undecryptable = {} THEN S ELSE {}

\* The new targets S for which a connection is started: the first one that
\* cannot be ends the round with an exception.
Started(S) == {t \in S : \A u \in S \cap Undecryptable : t < u}

\* The targets are read; with none to stop the new ones are started at once.
SyncRead ==
    /\ mgr = "run" /\ sync = "sleep"
    /\ IF conns \subseteq wanted
       THEN conns' = conns \cup Started(wanted \ conns) /\ UNCHANGED <<sync, seen>>
       ELSE sync' = "apply" /\ seen' = wanted /\ UNCHANGED conns
    /\ UNCHANGED <<wanted, mgr>>

\* A connection is stopped, and after the last the new ones are started.
SyncStop(t) ==
    /\ sync = "apply" /\ t \in conns \ seen
    /\ LET c == conns \ {t}
       IN  IF c \subseteq seen
           THEN conns' = c \cup Started(seen \ c) /\ sync' = "sleep" /\ seen' = {}
           ELSE conns' = c /\ UNCHANGED <<sync, seen>>
    /\ UNCHANGED <<wanted, mgr>>

(***************************************************************************)
(* stop()                                                                  *)
(***************************************************************************)
\* The loop is cancelled.  While it stops a connection it does not notice: the
\* connection's own stop() suppresses the cancellation.
ManagerStop ==
    /\ mgr = "run" /\ mgr' = "stopping"
    /\ sync' = IF sync = "apply" THEN "apply" ELSE "done"
    /\ UNCHANGED <<wanted, conns, seen>>

\* Such a loop ends after its sleep.
SyncEnds ==
    /\ mgr = "stopping" /\ sync = "sleep" /\ sync' = "done"
    /\ UNCHANGED <<wanted, conns, seen, mgr>>

\* Only then the connections, one after the other.
StopConnection(t) ==
    /\ mgr = "stopping" /\ sync = "done" /\ t \in conns
    /\ conns' = conns \ {t}
    /\ UNCHANGED <<wanted, sync, seen, mgr>>

AllStopped ==
    /\ mgr = "stopping" /\ sync = "done" /\ conns = {}
    /\ mgr' = "stopped"
    /\ UNCHANGED <<wanted, conns, sync, seen>>

SseStep ==
    \/ SyncRead \/ SyncEnds \/ AllStopped
    \/ \E t \in Streams : SyncStop(t) \/ StopConnection(t)

SseNext == SseStep \/ \E t \in Streams : SwitchMode(t)
=============================================================================
