--------------------------- MODULE RedfishPoller ---------------------------
(***************************************************************************)
(* The poller of one collector (collector/src/redfish/poller.py): the      *)
(* scheduling loop that starts polls of due targets, the polls themselves, *)
(* manual polls through the health port beside them, the cache of Redfish  *)
(* clients, the status writer that batches poll outcomes into the          *)
(* database, the circuit breaker and stop().                               *)
(*                                                                         *)
(* Everything runs on one event loop; an action is what happens between    *)
(* two awaits that can suspend.  A next_poll_time is abstracted to "later" *)
(* (one interval away), "backoff" (the circuit breaker's long interval) or *)
(* "due"; it becomes due whenever time passes.  The per-target locks are   *)
(* objects: a poll keeps the one it took from _client_locks after the      *)
(* scheduler has discarded it there.  asyncio serves the waiters of a Lock *)
(* in order; the model serves them in any order.                           *)
(***************************************************************************)
EXTENDS Naturals, FiniteSets

CONSTANTS
    Targets,            \* the targets that are polled (connection_mode # "sse")
    Switchable,         \* targets that join and leave get_active_targets
    Malformed,          \* targets whose tags column is not valid JSON
    Manual,             \* targets an operator polls on demand
    MaxConcurrent,      \* size of the poll semaphore
    BreakerThreshold,   \* circuit_breaker_threshold
    SseToo,             \* TRUE: the collector also has targets with a stream
    DbErrors,           \* TRUE: database calls of the poller may fail
    Requests,           \* the manual polls of a target that can run at once
    Clients,            \* names of the Redfish clients that can be open at once
    Locks,              \* names of the asyncio.Lock objects in use at once
    None

Kinds == {"sched"} \cup Requests

ASSUME PollerAssumption ==
    /\ IsFiniteSet(Targets) /\ IsFiniteSet(Clients) /\ IsFiniteSet(Requests)
    /\ Switchable \subseteq Targets /\ Malformed \subseteq Targets /\ Manual \subseteq Targets
    /\ MaxConcurrent \in Nat \ {0} /\ BreakerThreshold \in Nat \ {0}
    /\ SseToo \in BOOLEAN /\ DbErrors \in BOOLEAN
    /\ "sched" \notin Requests
    /\ None \notin Clients \cup Locks

VARIABLES
    active,     \* what get_active_targets returns
    loop,       \* the scheduling loop: "sleep", or "dispatch" after its read
    view,       \* the targets the scheduling pass has read
    sched,      \* _next_poll_time: "none", "later", "backoff" or "due"
    poll,       \* phase of the scheduled poll and the manual polls of each target
    locks,      \* _client_locks: the Lock of each target, or None
    lockOf,     \* the Lock a poll waits for or holds, or None
    conn,       \* the client that poll is connecting, or None
    cache,      \* _clients
    evicting,   \* _eviction_tasks: targets whose client is to be evicted
    open,       \* clients whose session is open on the BMC (external)
    closing,    \* clients that are being closed
    split,      \* history: targets whose Lock was discarded under its polls,
                \*          until the last poll with a Lock is through
    lost,       \* history: clients overwritten in the cache of such a target
    pending,    \* _pending_status: "none", "success" or "error"
    writer,     \* the status writer: "sleep", "commit" or "done"
    drained,    \* the updates the writer is committing
    row,        \* targets.last_poll_status
    rowFails,   \* targets.consecutive_failures
    fails,      \* history: consecutive failed polls of the target
    latest,     \* history: outcome of the target's latest scheduled poll
    saved,      \* history: what the status writer last committed for the target
    phase       \* "run", then the steps of stop()

Outcomes == {"success", "error"}
Phases == {"run", "drain", "flush", "close", "stopped"}

status == <<pending, writer, drained, row, rowFails, saved>>
history == <<fails, latest>>
rows == <<row, rowFails, saved>>
clients == <<locks, lockOf, conn, cache, evicting, open, closing, split, lost>>
vars == <<active, loop, view, sched, poll, clients, status, history, phase>>

Polls == Targets \X Kinds
inflight == {t \in Targets : poll[t, "sched"] # "idle"}
InSemaphore == {t \in Targets : poll[t, "sched"] \in {"client", "wait", "connect", "fetch", "evict"}}

Init ==
    /\ active = Targets /\ loop = "sleep" /\ view = {}
    /\ sched \in [Targets -> {"later", "due"}]
    /\ poll = [p \in Polls |-> "idle"]
    /\ locks = [t \in Targets |-> None] /\ lockOf = [p \in Polls |-> None]
    /\ conn = [p \in Polls |-> None] /\ cache = [t \in Targets |-> None]
    /\ evicting = {} /\ open = {} /\ closing = {} /\ split = {} /\ lost = {}
    /\ pending = [t \in Targets |-> "none"] /\ drained = [t \in Targets |-> "none"]
    /\ writer = "sleep"
    /\ row = [t \in Targets |-> "never"] /\ rowFails = [t \in Targets |-> 0]
    /\ fails = [t \in Targets |-> 0] /\ latest = [t \in Targets |-> "never"]
    /\ saved = [t \in Targets |-> "never"]
    /\ phase = "run"

Goto(t, k, l) == poll' = [poll EXCEPT ![<<t, k>>] = l]

-----------------------------------------------------------------------------
(* The scheduling loop.                                                    *)

ReadTargets ==
    /\ phase = "run" /\ loop = "sleep"
    /\ view' = active /\ loop' = "dispatch"
    /\ UNCHANGED <<active, sched, poll, clients, status, history, phase>>

\* The read returned no target, of any connection mode: the pass ends there.
NothingRead == view = {} /\ ~SseToo

\* The rest of _schedule_due_polls: new targets are staggered, due ones get
\* their next time before their poll is started, entries of targets that are
\* gone are dropped, their clients are evicted in the background and their
\* Locks discarded; a poll that holds or waits for a discarded Lock keeps it.
schedule_due_polls ==
    /\ phase = "run" /\ loop = "dispatch"
    /\ LET idle == view \ inflight
           due  == {t \in idle : sched[t] = "due"}
           gone == IF NothingRead THEN {} ELSE {t \in Targets \ view : cache[t] # None}
       IN  /\ sched' = [t \in Targets |->
                            IF NothingRead THEN sched[t]
                            ELSE IF t \notin view THEN "none"
                            ELSE IF t \in due \/ (t \in idle /\ sched[t] = "none") THEN "later"
                            ELSE sched[t]]
           /\ poll' = [p \in Polls |-> IF p[2] = "sched" /\ p[1] \in due THEN "start" ELSE poll[p]]
           /\ evicting' = evicting \cup gone
           /\ locks' = [t \in Targets |-> IF t \in gone THEN None ELSE locks[t]]
           /\ split' = split \cup {t \in gone : \E k \in Kinds : lockOf[t, k] # None}
    /\ view' = {} /\ loop' = "sleep"
    /\ UNCHANGED <<active, lockOf, conn, cache, open, closing, lost, status, history, phase>>

\* Time passes.
BecomesDue(t) ==
    /\ sched[t] \in {"later", "backoff"}
    /\ sched' = [sched EXCEPT ![t] = "due"]
    /\ UNCHANGED <<active, loop, view, poll, clients, status, history, phase>>

\* A lease is won or lost, or the operator enables or disables the target.
SetActive(t) ==
    /\ active' = IF t \in active THEN active \ {t} ELSE active \cup {t}
    /\ UNCHANGED <<loop, view, sched, poll, clients, status, history, phase>>

-----------------------------------------------------------------------------
(* One poll.                                                               *)

\* _run_poll enters the semaphore.  The tags of a malformed target raise
\* inside _poll_target, whose handler then fails on the unbound target_tags:
\* the exception ends the poll in _run_poll, before anything is recorded.
EnterSemaphore(t) ==
    /\ poll[t, "sched"] = "start"
    /\ Cardinality(InSemaphore) < MaxConcurrent
    /\ IF t \in Malformed
       THEN /\ Goto(t, "sched", "idle")
            /\ fails' = [fails EXCEPT ![t] = IF @ < BreakerThreshold THEN @ + 1 ELSE @]
            /\ latest' = [latest EXCEPT ![t] = "error"]
       ELSE Goto(t, "sched", "client") /\ UNCHANGED history
    /\ UNCHANGED <<active, loop, view, sched, clients, status, phase>>

\* poll_single, through the health port: nothing keeps a request from polling
\* a target that other requests or the scheduler poll.
poll_single(t, r) ==
    /\ poll[t, r] = "idle" /\ t \notin Malformed
    /\ Goto(t, r, "client")
    /\ UNCHANGED <<active, loop, view, sched, clients, status, history, phase>>

\* The Lock of t: _client_locks.setdefault(target.id, asyncio.Lock())
LockFor(t) ==
    IF locks[t] # None THEN {locks[t]}
    ELSE Locks \ ({locks[u] : u \in Targets} \cup {lockOf[p] : p \in Polls})

\* A target is split no longer when none of its polls has a Lock.
Heal == split' = {t \in split : \E k \in Kinds : lockOf'[t, k] # None}

\* The body of _get_client, with the Lock L: the cached client, or a new one
\* that is connected while L is held.
WithLock(t, k, L) ==
    /\ IF cache[t] # None
       THEN /\ Goto(t, k, "fetch")
            /\ lockOf' = [lockOf EXCEPT ![<<t, k>>] = None]
            /\ UNCHANGED <<conn, open>>
       ELSE \E c \in Clients \ open :
              /\ Goto(t, k, "connect")
              /\ lockOf' = [lockOf EXCEPT ![<<t, k>>] = L]
              /\ conn' = [conn EXCEPT ![<<t, k>>] = c]
              /\ open' = open \cup {c}
    /\ Heal

\* Mutant: the per-target lock is not awaited.
get_client_unlocked(t, k) ==
    /\ poll[t, k] = "client"
    /\ \E L \in LockFor(t) : locks' = [locks EXCEPT ![t] = L] /\ WithLock(t, k, L)
    /\ UNCHANGED <<active, loop, view, sched, cache, evicting, closing, lost, status, history, phase>>

\* _get_client enters the Lock of its target at once, or waits when a poll
\* holds it or waits for it.
get_client(t, k) ==
    /\ poll[t, k] = "client"
    /\ \E L \in LockFor(t) :
         /\ locks' = [locks EXCEPT ![t] = L]
         /\ IF \E p \in Polls : lockOf[p] = L
            THEN /\ Goto(t, k, "wait")
                 /\ lockOf' = [lockOf EXCEPT ![<<t, k>>] = L]
                 /\ UNCHANGED <<conn, open, split>>
            ELSE WithLock(t, k, L)
    /\ UNCHANGED <<active, loop, view, sched, cache, evicting, closing, lost, status, history, phase>>

\* The Lock it waits for, which _client_locks may not hold any more, is free.
lock_acquired(t, k) ==
    /\ poll[t, k] = "wait"
    /\ \A p \in Polls : poll[p] = "connect" => lockOf[p] # lockOf[t, k]
    /\ WithLock(t, k, lockOf[t, k])
    /\ UNCHANGED <<active, loop, view, sched, locks, cache, evicting, closing, lost, status, history, phase>>

\* The Lock is released at the end of a connection.
Release(t, k) ==
    /\ conn' = [conn EXCEPT ![<<t, k>>] = None]
    /\ lockOf' = [lockOf EXCEPT ![<<t, k>>] = None]
    /\ Heal

\* The connection is made and cached.
Connected(t, k) ==
    /\ poll[t, k] = "connect"
    /\ cache' = [cache EXCEPT ![t] = conn[t, k]]
    /\ lost' = IF t \in split /\ cache[t] # None THEN lost \cup {cache[t]} ELSE lost
    /\ Release(t, k)
    /\ Goto(t, k, "fetch")
    /\ UNCHANGED <<active, loop, view, sched, locks, evicting, open, closing, status, history, phase>>

\* A poll of t ends with outcome o.  A scheduled poll leaves its status to
\* the writer, a failed one then re-reads the target; a manual poll commits
\* its status itself.
Finish(t, k, o) ==
    /\ IF k = "sched"
       THEN /\ pending' = [pending EXCEPT ![t] = o]
            /\ Goto(t, k, IF o = "success" THEN "idle" ELSE "refresh")
       ELSE UNCHANGED pending /\ Goto(t, k, IF o = "success" THEN "commitok" ELSE "commiterr")
    /\ latest' = IF k = "sched" THEN [latest EXCEPT ![t] = o] ELSE latest
    /\ fails' = [fails EXCEPT ![t] = IF o = "success" THEN 0
                                     ELSE IF @ < BreakerThreshold THEN @ + 1 ELSE @]

\* The connection fails; the client is closed and the poll fails.
ConnectFails(t, k) ==
    /\ poll[t, k] = "connect"
    /\ open' = open \ {conn[t, k]}
    /\ Release(t, k)
    /\ Finish(t, k, "error")
    /\ UNCHANGED <<active, loop, view, sched, locks, cache, evicting, closing, lost,
                   writer, drained, rows, phase>>

FetchOk(t, k) ==
    /\ poll[t, k] = "fetch"
    /\ Finish(t, k, "success")
    /\ UNCHANGED <<active, loop, view, sched, clients, writer, drained, rows, phase>>

\* Mutant: the client is forgotten, not closed.
evict_without_close(t) ==
    /\ cache' = [cache EXCEPT ![t] = None]
    /\ UNCHANGED closing

\* _close_client takes whatever client of t is cached and closes it.
close_client(t) ==
    /\ cache' = [cache EXCEPT ![t] = None]
    /\ closing' = IF cache[t] = None THEN closing ELSE closing \cup {cache[t]}

\* A failed poll evicts the client of its target first.
FetchFails(t, k) ==
    /\ poll[t, k] = "fetch"
    /\ close_client(t)
    /\ Goto(t, k, "evict")
    /\ UNCHANGED <<active, loop, view, sched, locks, lockOf, conn, evicting, open, split, lost, status, history, phase>>

PollFailed(t, k) ==
    /\ poll[t, k] = "evict"
    /\ Finish(t, k, "error")
    /\ UNCHANGED <<active, loop, view, sched, clients, writer, drained, rows, phase>>

\* get_target_interval(fresh, poll_succeeded=False)
TripsBreaker(t) == rowFails[t] + 1 >= BreakerThreshold

\* Mutant: an error of the read ends the poll before it leaves the in-flight
\* set.
RefreshSchedule_raises(t) ==
    /\ poll[t, "sched"] = "refresh"
    /\ \/ /\ Goto(t, "sched", "idle")
          /\ sched' = [sched EXCEPT ![t] = IF TripsBreaker(t) THEN "backoff" ELSE "later"]
       \/ DbErrors /\ Goto(t, "sched", "stuck") /\ UNCHANGED sched
    /\ UNCHANGED <<active, loop, view, clients, status, history, phase>>

\* The failed poll re-reads the target and sets its next time; an error of
\* the read is ignored.
RefreshSchedule(t) ==
    /\ poll[t, "sched"] = "refresh"
    /\ Goto(t, "sched", "idle")
    /\ \/ sched' = [sched EXCEPT ![t] = IF TripsBreaker(t) THEN "backoff" ELSE "later"]
       \/ DbErrors /\ UNCHANGED sched
    /\ UNCHANGED <<active, loop, view, clients, status, history, phase>>

\* A background eviction pops the client; a close that was begun ends.
Evict(t) ==
    /\ t \in evicting
    /\ evicting' = evicting \ {t}
    /\ close_client(t)
    /\ UNCHANGED <<active, loop, view, sched, poll, locks, lockOf, conn, open, split, lost,
                   status, history, phase>>

ClientClosed(c) ==
    /\ c \in closing
    /\ closing' = closing \ {c} /\ open' = open \ {c}
    /\ UNCHANGED <<active, loop, view, sched, poll, locks, lockOf, conn, cache, evicting, split, lost,
                   status, history, phase>>

-----------------------------------------------------------------------------
(* Poll status.                                                            *)

\* The rows after a commit of the updates u.
CommitStatus(u) ==
    /\ row' = [t \in Targets |-> IF u[t] = "none" THEN row[t] ELSE u[t]]
    /\ rowFails' = [t \in Targets |->
                      IF u[t] = "none" THEN rowFails[t]
                      ELSE IF u[t] = "success" THEN 0
                      ELSE IF rowFails[t] < BreakerThreshold THEN rowFails[t] + 1 ELSE rowFails[t]]

\* The status writer's commit.
WriterCommits(u) ==
    /\ CommitStatus(u)
    /\ saved' = [t \in Targets |-> IF u[t] = "none" THEN saved[t] ELSE u[t]]

\* A manual poll's own commit; an error is suppressed.
CommitManual(t, r) ==
    /\ poll[t, r] \in {"commitok", "commiterr"}
    /\ \/ CommitStatus([u \in Targets |->
                          IF u # t THEN "none"
                          ELSE IF poll[t, r] = "commitok" THEN "success" ELSE "error"])
       \/ DbErrors /\ UNCHANGED <<row, rowFails>>
    /\ Goto(t, r, "idle")
    /\ UNCHANGED <<active, loop, view, sched, clients, pending, writer, drained, saved, history, phase>>

NoUpdates == [t \in Targets |-> "none"]

\* The writer wakes and takes the pending updates, once more after stop()
\* has begun.
DrainStatus ==
    /\ writer = "sleep" /\ phase \in {"run", "drain", "flush"}
    /\ pending # NoUpdates
    /\ drained' = pending /\ pending' = NoUpdates
    /\ writer' = "commit"
    /\ UNCHANGED <<active, loop, view, sched, poll, clients, rows, history, phase>>

\* Mutant: what failed to commit overwrites what came in since.
Remerge_older_wins == [t \in Targets |-> IF drained[t] # "none" THEN drained[t] ELSE pending[t]]

\* The updates to retry after a failed commit; newer ones win.
Remerge == [t \in Targets |-> IF pending[t] # "none" THEN pending[t] ELSE drained[t]]

flush_pending_status ==
    /\ writer = "commit"
    /\ \/ WriterCommits(drained) /\ UNCHANGED pending
       \/ DbErrors /\ pending' = Remerge /\ UNCHANGED rows
    /\ writer' = IF phase = "run" THEN "sleep" ELSE "done"
    /\ drained' = NoUpdates
    /\ UNCHANGED <<active, loop, view, sched, poll, clients, history, phase>>

-----------------------------------------------------------------------------
(* stop().                                                                 *)

\* The scheduling loop is cancelled.
Stop ==
    /\ phase = "run"
    /\ phase' = "drain" /\ view' = {} /\ loop' = "sleep"
    /\ UNCHANGED <<active, sched, poll, clients, status, history>>

\* The in-flight polls are done; stop flushes what is pending.
InflightDrained ==
    /\ phase = "drain" /\ inflight = {}
    /\ phase' = "flush"
    /\ \/ WriterCommits(pending) /\ pending' = NoUpdates
       \/ DbErrors /\ UNCHANGED <<pending, rows>>
    /\ UNCHANGED <<active, loop, view, sched, poll, clients, writer, drained, history>>

\* The writer is cancelled; a commit it was in the middle of may be undone.
CancelWriter ==
    /\ phase = "flush"
    /\ phase' = "close"
    /\ \/ WriterCommits(drained)
       \/ UNCHANGED rows
    /\ writer' = "done" /\ drained' = NoUpdates
    /\ UNCHANGED <<active, loop, view, sched, poll, clients, pending, history>>

\* The evictions are awaited and every cached client is closed.
CloseClients ==
    /\ phase = "close" /\ evicting = {}
    /\ phase' = "stopped"
    /\ open' = open \ {cache[t] : t \in Targets}
    /\ cache' = [t \in Targets |-> None]
    /\ UNCHANGED <<active, loop, view, sched, poll, locks, lockOf, conn, evicting, closing, split, lost,
                   status, history>>

Stopped == phase = "stopped" /\ UNCHANGED vars

-----------------------------------------------------------------------------
PollStep(t, k) ==
    \/ get_client(t, k) \/ lock_acquired(t, k) \/ Connected(t, k) \/ ConnectFails(t, k)
    \/ FetchOk(t, k) \/ FetchFails(t, k) \/ PollFailed(t, k)

Next ==
    \/ ReadTargets \/ schedule_due_polls
    \/ \E t \in Targets : BecomesDue(t) \/ EnterSemaphore(t) \/ RefreshSchedule(t) \/ Evict(t)
    \/ \E t \in Switchable : SetActive(t)
    \/ \E t \in Manual, r \in Requests : poll_single(t, r) \/ CommitManual(t, r)
    \/ \E t \in Targets, k \in Kinds : PollStep(t, k)
    \/ \E c \in Clients : ClientClosed(c)
    \/ DrainStatus \/ flush_pending_status
    \/ Stop \/ InflightDrained \/ CancelWriter \/ CloseClients \/ Stopped

Spec == Init /\ [][Next]_vars

\* The event loop runs every task that is ready, every BMC request ends (it
\* has a timeout), and time passes.  Nothing is owed by the operator.
FairSpec ==
    /\ Spec
    /\ WF_vars(ReadTargets) /\ WF_vars(schedule_due_polls)
    /\ WF_vars(DrainStatus) /\ WF_vars(flush_pending_status)
    /\ \A t \in Targets : /\ WF_vars(BecomesDue(t)) /\ SF_vars(EnterSemaphore(t))
                          /\ WF_vars(RefreshSchedule(t)) /\ WF_vars(Evict(t))
                          /\ \A k \in Kinds : WF_vars(PollStep(t, k))
    /\ \A c \in Clients : WF_vars(ClientClosed(c))

-----------------------------------------------------------------------------
PollPcs == {"idle", "start", "client", "wait", "connect", "fetch", "evict", "refresh",
            "commitok", "commiterr"}
Updates == [Targets -> Outcomes \cup {"none"}]

TypeOK ==
    /\ active \subseteq Targets /\ view \subseteq Targets /\ loop \in {"sleep", "dispatch"}
    /\ sched \in [Targets -> {"none", "later", "backoff", "due"}]
    /\ poll \in [Polls -> PollPcs]
    /\ locks \in [Targets -> Locks \cup {None}]
    /\ lockOf \in [Polls -> Locks \cup {None}]
    /\ conn \in [Polls -> Clients \cup {None}]
    /\ cache \in [Targets -> Clients \cup {None}]
    /\ evicting \subseteq Targets /\ open \subseteq Clients /\ closing \subseteq Clients
    /\ split \subseteq Targets /\ lost \subseteq Clients
    /\ pending \in Updates /\ drained \in Updates
    /\ writer \in {"sleep", "commit", "done"}
    /\ row \in [Targets -> Outcomes \cup {"never"}]
    /\ rowFails \in [Targets -> 0 .. BreakerThreshold]
    /\ fails \in [Targets -> 0 .. BreakerThreshold]
    /\ latest \in [Targets -> Outcomes \cup {"never"}]
    /\ saved \in [Targets -> Outcomes \cup {"never"}]
    /\ phase \in Phases

\* No Redfish session leaks: an open client is in the cache, being closed, or
\* being connected, through evictions by failed polls, by the scheduler and by
\* stop(), with any number of manual polls beside the scheduled ones.  The one
\* way to lose a client is the scheduler's: a target leaves while polls of it
\* hold or wait for its Lock, a later poll makes another Lock, and the client
\* one of them has cached is overwritten by the other's.
NoClientLeak ==
    \A c \in open : \/ c \in closing \/ c \in lost
                    \/ \E t \in Targets : cache[t] = c
                    \/ \E p \in Polls : conn[p] = c

\* A target's client is never replaced while it is open: at most one client
\* of a target is cached or being connected, whatever the number of polls, as
\* long as they share one Lock: from the moment the scheduler discards the
\* Lock under them until they are through, nothing is claimed.
OneClientPerTarget ==
    \A t \in Targets \ split :
        Cardinality({k \in Kinds : conn[t, k] # None})
            + (IF cache[t] = None THEN 0 ELSE 1) <= 1

\* The claim of _get_client that concurrent polls "don't both build a client
\* at the same time".
OneClientAlways ==
    \A t \in Targets : Cardinality({k \in Kinds : conn[t, k] # None}) <= 1

\* What the writer has committed, once nothing is on its way, is the outcome
\* of the latest scheduled poll, although a failed commit puts its updates
\* back behind those that came in meanwhile.  (A malformed target leaves no
\* outcome to commit: see EveryPollRecorded.)
LatestStatusWins ==
    phase \in {"run", "drain"} =>
        \A t \in Targets \ Malformed :
            pending[t] = "none" /\ drained[t] = "none" => saved[t] = latest[t]

\* A target that stays with this collector is polled again and again, and
\* every poll of it ends, whatever fails on the way.
EveryTargetPolled ==
    \A t \in Targets :
        <>[](t \in active /\ phase = "run") =>
            []<>(t \in inflight) /\ []<>(t \notin inflight)

\* The claim of _poll_target that a malformed value "surfaces as a failed
\* poll (status update + circuit-breaker backoff)" and does not strand the
\* target: a finished poll has left a status.
EveryPollRecorded ==
    \A t \in Targets :
        latest[t] # "never" =>
            pending[t] # "none" \/ drained[t] # "none" \/ row[t] # "never"

\* The claim of the constructor that targets are skipped after
\* circuit_breaker_threshold consecutive failures, and not before.
BreakerNotEarly ==
    \A t \in Targets : sched[t] = "backoff" => fails[t] >= BreakerThreshold

\* The claim of stop() that it flushes remaining status updates before it
\* stops the writer.
StatusFlushedAtStop ==
    phase = "stopped" => \A t \in Targets : saved[t] = latest[t]

\* The claim of _schedule_due_polls that the cached clients of targets that
\* are gone are closed, "so we don't leak sessions".
GoneClientsClosed ==
    \A t \in Targets :
        <>[](t \notin active /\ phase = "run") => []<>(cache[t] = None)

=============================================================================
