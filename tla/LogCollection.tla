--------------------------- MODULE LogCollection ---------------------------
(***************************************************************************)
(* The collection of diagnostic bundles: the API collects on demand and in *)
(* bulk, the collectors on an alert that fires the policy, all into one    *)
(* directory and one table, each process with its own locks.  A collection *)
(* runs the task workflow of the Redfish client.  An action is what runs   *)
(* between two awaits.                                                     *)
(***************************************************************************)
EXTENDS Naturals, FiniteSets, TLC

CONSTANTS
    Api,         \* the API processes
    Collectors,  \* the collectors, which run the policy
    Targets,
    MaxLogs,     \* bound: rows of collected_logs
    MaxErrors    \* max_consecutive_errors of the task polls (3 in the code)

ASSUME LogAssumption == MaxLogs \in Nat \ {0} /\ MaxErrors \in Nat \ {0}

Procs == Api \cup Collectors
Ids == 1..MaxLogs
Off == {"off"}

VARIABLES
    status,    \* of each row: "unused", "collecting", "completed", "failed" or "deleted"
    of,        \* the target of a row and whether the policy triggered it
    recent,    \* the rows there are that were created within the re-arm time
    files,     \* the rows whose file is on disk
    job,       \* the collection of a target that a process runs, under its lock
    bulk,      \* targets that a bulk collection has still to look at, or Off
    passed,    \* policy evaluations past the re-arm check
    doomed,    \* deleted rows whose files a process is about to delete, one set
               \* for each deletion
    endpoint,  \* whether telemetry_endpoint is the BMC's action: "right" or "wrong"
    remote,    \* the sessions and tasks on the BMCs, but for those whose address
               \* never arrived, whose DELETE failed or whose process crashed
    stray,     \* history: rows deleted under a running collection, or whose
               \* file was not deleted after them
    owed       \* history: targets with a bundle that only a newer one may replace

db == <<status, of, recent, files>>
vars == <<db, job, bulk, passed, doomed, endpoint, remote, stray, owed>>

Put(f, p, v) == [f EXCEPT ![p] = v]

Idle == [pc |-> "idle", id |-> 0, trigger |-> "none", ep |-> "right", errs |-> 0, ok |-> FALSE]

Init ==
    /\ status = [i \in Ids |-> "unused"] /\ of = [i \in Ids |-> <<"none", FALSE>>]
    /\ recent = {} /\ files = {}
    /\ job = [c \in Procs \X Targets |-> Idle]
    /\ bulk = [p \in Api |-> Off]
    /\ passed = {} /\ doomed = [p \in Procs |-> {}]
    /\ endpoint \in [Targets -> {"right", "wrong"}]
    /\ remote = {} /\ stray = {} /\ owed = {}

Exists(i) == status[i] \notin {"unused", "deleted"}
Completed(t) == {i \in Ids : status[i] = "completed" /\ of[i][1] = t}

(***************************************************************************)
(* Starting a collection                                                   *)
(***************************************************************************)
Free(p, t) == job[p, t].pc = "idle"

Locked(p, t, trigger) ==
    Put(job, <<p, t>>, [Idle EXCEPT !.pc = "locked", !.trigger = trigger, !.ep = endpoint[t]])

\* On demand; with the lock taken the request is refused.
collect_single(p, t) ==
    /\ p \in Api /\ Free(p, t)
    /\ job' = Locked(p, t, "manual")
    /\ UNCHANGED <<db, bulk, passed, doomed, endpoint, remote, stray, owed>>

rearm_active(t) ==
    \E i \in recent : of[i] = <<t, TRUE>> /\ status[i] # "failed"

\* An alert fires the policy: the re-arm check, and later the collection.
on_alert(p, t) ==
    /\ p \in Collectors /\ ~rearm_active(t)
    /\ passed' = passed \cup {<<p, t>>}
    /\ UNCHANGED <<db, job, bulk, doomed, endpoint, remote, stray, owed>>

policy_collect(p, t) ==
    /\ <<p, t>> \in passed
    /\ passed' = passed \ {<<p, t>>}
    /\ job' = IF Free(p, t) THEN Locked(p, t, "policy") ELSE job
    /\ UNCHANGED <<db, bulk, doomed, endpoint, remote, stray, owed>>

collect_all(p) ==
    /\ bulk[p] = Off
    /\ bulk' = Put(bulk, p, Targets)
    /\ UNCHANGED <<db, job, passed, doomed, endpoint, remote, stray, owed>>

\* A target's turn, when the semaphore allows it; one being collected is skipped.
bulk_collect(p, t) ==
    /\ t \in bulk[p]
    /\ bulk' = Put(bulk, p, bulk[p] \ {t})
    /\ job' = IF Free(p, t) THEN Locked(p, t, "bulk") ELSE job
    /\ UNCHANGED <<db, passed, doomed, endpoint, remote, stray, owed>>

bulk_done(p) ==
    /\ bulk[p] = {} /\ \A t \in Targets : job[p, t].trigger # "bulk"
    /\ bulk' = Put(bulk, p, Off)
    /\ UNCHANGED <<db, job, passed, doomed, endpoint, remote, stray, owed>>

(***************************************************************************)
(* A collection                                                            *)
(***************************************************************************)
\* The step of a collection from pc to the job j.
Step(p, t, pc, j) == job[p, t].pc = pc /\ job' = Put(job, <<p, t>>, j)

Go(p, t, pc) == [job[p, t] EXCEPT !.pc = pc]
GoFailed(p, t, pc) == [job[p, t] EXCEPT !.pc = pc, !.ok = FALSE]

Unused == {i \in Ids : status[i] = "unused"}

create_collected_log(p, t) ==
    /\ \/ \E i \in Unused :
             /\ \A k \in Unused : i <= k
             /\ Step(p, t, "locked", [Go(p, t, "connect") EXCEPT !.id = i])
             /\ status' = Put(status, i, "collecting")
             /\ of' = Put(of, i, <<t, job[p, t].trigger = "policy">>)
             /\ recent' = recent \cup {i}
       \/ Step(p, t, "locked", Idle) /\ UNCHANGED <<status, of, recent>>
    /\ UNCHANGED <<files, bulk, passed, doomed, endpoint, remote, stray, owed>>

Session(i) == <<"session", i>>
Task(i) == <<"task", i>>

\* The answer to a request that creates r: it is there and its address known, or
\* it is not there or its address was lost with the answer.
Created(r, known, unknown) ==
    \/ known /\ remote' = remote \cup {r}
    \/ unknown /\ UNCHANGED remote

\* A session, or basic authentication if there is none.
connect(p, t) ==
    /\ LET go == Step(p, t, "connect", Go(p, t, "initiate"))
       IN  Created(Session(job[p, t].id), go, go)
    /\ UNCHANGED <<db, bulk, passed, doomed, endpoint, stray, owed>>

initiate_collection(p, t) ==
    /\ \/ /\ job[p, t].ep = "right"
          /\ Created(Task(job[p, t].id),
                     Step(p, t, "initiate", Go(p, t, "poll")),
                     Step(p, t, "initiate", GoFailed(p, t, "close")))
       \/ /\ job[p, t].ep = "wrong"
          /\ Step(p, t, "initiate", Go(p, t, "discover"))
          /\ UNCHANGED <<remote>>
    /\ UNCHANGED <<db, bulk, passed, doomed, endpoint, stray, owed>>

\* After a 404: the action is found, stored and tried once, or not found.
discover_collect_endpoint(p, t) ==
    /\ \/ /\ Step(p, t, "discover", [Go(p, t, "initiate") EXCEPT !.ep = "right"])
          /\ endpoint' = Put(endpoint, t, "right")
       \/ Step(p, t, "discover", GoFailed(p, t, "close")) /\ UNCHANGED endpoint
    /\ UNCHANGED <<db, bulk, passed, doomed, remote, stray, owed>>

\* Mutant: the task is deleted after a download only.
Ended_unclean(p, t, ok) == IF ok THEN Go(p, t, "download") ELSE GoFailed(p, t, "close")

\* The end of the polls: the attachment, or straight to the cleanup.
Ended(p, t, ok) == IF ok THEN Go(p, t, "download") ELSE GoFailed(p, t, "cleanup")

\* One poll: the task runs on, has ended well or badly, or cannot be read; a
\* few errors of the network in a row are put up with.
wait_for_task(p, t) ==
    /\ \/ Step(p, t, "poll", [job[p, t] EXCEPT !.errs = 0]) /\ job[p, t].errs > 0
       \/ \E ok \in BOOLEAN : Step(p, t, "poll", Ended(p, t, ok))
       \/ Step(p, t, "poll", IF job[p, t].errs + 1 < MaxErrors
                             THEN [job[p, t] EXCEPT !.errs = @ + 1] ELSE Ended(p, t, FALSE))
    /\ UNCHANGED <<db, bulk, passed, doomed, endpoint, remote, stray, owed>>

task_timeout(p, t) ==
    /\ Step(p, t, "poll", Ended(p, t, FALSE))
    /\ UNCHANGED <<db, bulk, passed, doomed, endpoint, remote, stray, owed>>

download_attachment(p, t) ==
    /\ \E ok \in BOOLEAN : Step(p, t, "download", [Go(p, t, "cleanup") EXCEPT !.ok = ok])
    /\ UNCHANGED <<db, bulk, passed, doomed, endpoint, remote, stray, owed>>

delete_task(p, t) ==
    /\ Step(p, t, "cleanup", Go(p, t, "close"))
    /\ remote' = remote \ {Task(job[p, t].id)}
    /\ UNCHANGED <<db, bulk, passed, doomed, endpoint, stray, owed>>

\* The client is closed, and what it brought written without another await,
\* perhaps in part.
close(p, t) ==
    /\ remote' = remote \ {Session(job[p, t].id)}
    /\ \/ /\ job[p, t].ok /\ files' = files \cup {job[p, t].id}
          /\ \E pc \in {"update", "fail"} : Step(p, t, "close", Go(p, t, pc))
       \/ Step(p, t, "close", Go(p, t, "fail")) /\ UNCHANGED files
    /\ UNCHANGED <<status, of, recent, bulk, passed, doomed, endpoint, stray, owed>>

\* Mutant: the row is written whether it is still there or not.
Updated_blind(i, s) == status' = Put(status, i, s)

\* update_collected_log, which finds the row or not, or fails.
Updated(i, s) == status' = IF Exists(i) THEN Put(status, i, s) ELSE status

update_collected_log(p, t) ==
    /\ LET i == job[p, t].id
       IN  \/ /\ Step(p, t, "update", Go(p, t, "prune")) /\ Updated(i, "completed")
              /\ owed' = IF Exists(i) THEN owed \cup {t} ELSE owed
           \/ Step(p, t, "update", Go(p, t, "fail")) /\ UNCHANGED <<status, owed>>
           \/ Step(p, t, "fail", Idle) /\ Updated(i, "failed") /\ UNCHANGED owed
           \/ Step(p, t, "fail", Idle) /\ UNCHANGED <<status, owed>>
    /\ UNCHANGED <<of, recent, files, bulk, passed, doomed, endpoint, remote, stray>>

\* Mutant: the new bundle is not spared.
Superseded_all(p, t) == Completed(t)

Superseded(p, t) == Completed(t) \ {job[p, t].id}

Deleted(S) == [i \in Ids |-> IF i \in S THEN "deleted" ELSE status[i]]

\* The deleted rows S are the next whose files p deletes.
Doomed(p, S) == Put(doomed, p, doomed[p] \cup ({S} \ {{}}))

\* A collection whose own row was deleted meanwhile, by a user or by another
\* process that prunes the target too, may leave the target without a bundle.
Unsafe(p, t) == ~Exists(job[p, t].id)

delete_prior_target_logs(p, t) ==
    /\ Step(p, t, "prune", Idle)
    /\ \/ /\ status' = Deleted(Superseded(p, t))
          /\ recent' = recent \ Superseded(p, t)
          /\ doomed' = Doomed(p, Superseded(p, t))
          /\ owed' = IF Unsafe(p, t) THEN owed \ {t} ELSE owed
       \/ UNCHANGED <<status, recent, doomed, owed>>
    /\ UNCHANGED <<of, files, bulk, passed, endpoint, remote, stray>>

JobStep(p, t) ==
    \/ create_collected_log(p, t) \/ connect(p, t) \/ initiate_collection(p, t)
    \/ discover_collect_endpoint(p, t) \/ wait_for_task(p, t) \/ task_timeout(p, t)
    \/ download_attachment(p, t) \/ delete_task(p, t) \/ close(p, t)
    \/ update_collected_log(p, t) \/ delete_prior_target_logs(p, t)

(***************************************************************************)
(* Deletion, retention and crashes                                         *)
(***************************************************************************)
\* The files of deleted rows, without an await: one whose path is refused stays,
\* and so do all from the first that cannot be deleted.
delete_file(p, S) ==
    /\ S \in doomed[p] /\ doomed' = Put(doomed, p, doomed[p] \ {S})
    /\ \E left \in SUBSET S : files' = files \ (S \ left) /\ stray' = stray \cup left
    /\ UNCHANGED <<status, of, recent, job, bulk, passed, endpoint, remote, owed>>

InWork(i) == \E c \in Procs \X Targets : job[c].id = i

Delete(p, S) ==
    /\ p \in Api /\ S # {} /\ \A i \in S : Exists(i)
    /\ status' = Deleted(S) /\ recent' = recent \ S
    /\ owed' = owed \ {of[i][1] : i \in {k \in S : status[k] = "completed"}}
    /\ UNCHANGED <<of, files, job, bulk, passed, endpoint, remote>>

\* A user deletes a row, of any status.
delete_collected_log(p, i) ==
    /\ Delete(p, {i}) /\ doomed' = Doomed(p, {i})
    /\ stray' = IF InWork(i) THEN stray \cup {i} ELSE stray

\* The age of retention, which no running collection reaches.
Expired(i) == i \notin recent /\ ~InWork(i)

\* A chunk of expired rows; with an error in a later one their list is lost.
delete_expired_logs(p, S) ==
    /\ Delete(p, S) /\ \A i \in S : Expired(i)
    /\ \/ doomed' = Doomed(p, S) /\ UNCHANGED stray
       \/ stray' = stray \cup S /\ UNCHANGED doomed

\* The rows grow older, the oldest first.
RearmPasses ==
    /\ \E i \in recent : (\A k \in recent : i <= k) /\ recent' = recent \ {i}
    /\ UNCHANGED <<status, of, files, job, bulk, passed, doomed, endpoint, remote, stray, owed>>

Crash(p) ==
    /\ LET mine == {job[p, t].id : t \in Targets}
       IN  remote' = {r \in remote : r[2] \notin mine}
    /\ job' = [c \in DOMAIN job |-> IF c[1] = p THEN Idle ELSE job[c]]
    /\ bulk' = [q \in Api |-> IF q = p THEN Off ELSE bulk[q]]
    /\ passed' = {c \in passed : c[1] # p}
    /\ stray' = stray \cup UNION doomed[p] /\ doomed' = Put(doomed, p, {})
    /\ UNCHANGED <<db, endpoint, owed>>

Next ==
    \/ RearmPasses
    \/ \E p \in Procs :
          \/ Crash(p)
          \/ \E t \in Targets : \/ collect_single(p, t) \/ on_alert(p, t)
                                \/ policy_collect(p, t) \/ JobStep(p, t)
          \/ \E i \in Ids : delete_collected_log(p, i)
          \/ \E S \in SUBSET Ids : delete_file(p, S) \/ delete_expired_logs(p, S)
    \/ \E p \in Api : collect_all(p) \/ bulk_done(p) \/ \E t \in Targets : bulk_collect(p, t)

Spec == Init /\ [][Next]_vars

(***************************************************************************)
(* Properties                                                              *)
(***************************************************************************)
TypeOK ==
    /\ status \in [Ids -> {"unused", "collecting", "completed", "failed", "deleted"}]
    /\ recent \subseteq Ids /\ files \subseteq Ids
    /\ \A c \in Procs \X Targets :
          /\ job[c].errs \in 0..(MaxErrors - 1)
          /\ job[c].id = 0 <=> job[c].pc \in {"idle", "locked"}

\* A completed row has its file, and a file has a row by which retention finds
\* it, unless it is about to be deleted, its row was deleted while it was being
\* collected, its own deletion was refused or failed, it came after such a
\* failure, or a crash or a failed chunk came between the two deletions
\* (_collect_from_target, delete_prior_target_logs, delete_log_api, delete_file).
FilesMatchRows ==
    /\ \A i \in Ids : status[i] = "completed" => i \in files
    /\ \A i \in files : Exists(i) \/ i \in stray \/ \E p \in Procs : i \in UNION doomed[p]

\* A target keeps its latest bundle: pruning leaves the one it has just
\* collected, a failed collection costs nothing (delete_prior_target_logs).
BundleKept == \A t \in owed : Completed(t) # {}

\* Whatever the outcome of a collection, its task and its session do not stay
\* on the BMC unless their address never arrived, a DELETE failed or the
\* process crashed (collect_diagnostic_data, close).
NothingLeftBehind == \A r \in remote : InWork(r[2])
=============================================================================
