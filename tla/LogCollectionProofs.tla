------------------------ MODULE LogCollectionProofs ------------------------
(***************************************************************************)
(* Proofs about LogCollection, for any number of API processes, collectors, *)
(* targets and rows, and any number of errors that are put up with.        *)
(***************************************************************************)
EXTENDS LogCollection, TLAPS

USE LogAssumption

-----------------------------------------------------------------------------
(* The inductive invariant.                                                *)

Cells == Procs \X Targets

\* The stages in which the row of a collection says "collecting".
Collecting == {"connect", "initiate", "discover", "poll", "download", "cleanup", "close",
               "update", "fail"}

Jobs == [pc : {"idle", "locked", "prune"} \cup Collecting, id : Ids \cup {0},
         trigger : {"none", "manual", "policy", "bulk"}, ep : {"right", "wrong"},
         errs : 0 .. (MaxErrors - 1), ok : BOOLEAN]

Typed ==
    /\ status \in [Ids -> {"unused", "collecting", "completed", "failed", "deleted"}]
    /\ of \in [Ids -> (Targets \cup {"none"}) \X BOOLEAN]
    /\ files \subseteq Ids
    /\ job \in [Cells -> Jobs] /\ doomed \in [Procs -> SUBSET SUBSET Ids]
    /\ endpoint \in [Targets -> {"right", "wrong"}]

\* What the job j of the cell c says about its row.
RowOf(c, j) ==
    /\ j.id = 0 <=> j.pc \in {"idle", "locked"}
    /\ j.id # 0 => of[j.id][1] = c[2]
    /\ j.pc \in Collecting => \/ status[j.id] = "collecting"
                              \/ status[j.id] = "deleted" /\ j.id \in stray
    /\ j.pc = "update" => j.id \in files \/ status[j.id] = "deleted"
    /\ j.pc = "prune" => status[j.id] \in {"completed", "deleted"}

RowsOfJobs == \A c \in Cells : RowOf(c, job[c])

\* No two collections, in whatever processes, write the same row.
OwnRows == \A c, d \in Cells : job[c].id = job[d].id /\ job[c].id # 0 => c = d

\* What a collection in this stage has on the BMC, at most.
Held(j) ==
    (IF j.pc \in {"initiate", "discover", "poll", "download", "cleanup", "close"}
     THEN {Session(j.id)} ELSE {})
    \cup (IF j.pc \in {"poll", "download", "cleanup"} THEN {Task(j.id)} ELSE {})

RemoteHeld == \A r \in remote : \E c \in Cells : r \in Held(job[c])

\* Files are deleted after their rows.
DoomedDeleted == \A p \in Procs : \A i \in UNION doomed[p] : status[i] = "deleted"

LogInv == /\ Typed /\ RowsOfJobs /\ OwnRows /\ RemoteHeld /\ DoomedDeleted
          /\ FilesMatchRows /\ BundleKept

-----------------------------------------------------------------------------
(* Facts about the operators the steps are built from.                     *)

LEMMA IdleType == Idle \in Jobs /\ Idle.pc = "idle" /\ Idle.id = 0
BY DEF Idle, Jobs

LEMMA CellType == ASSUME Typed, NEW p \in Procs, NEW t \in Targets
                  PROVE  <<p, t>> \in Cells /\ job[p, t] \in Jobs /\ job[<<p, t>>] = job[p, t]
BY DEF Typed, Cells

LEMMA PutJob ==
    ASSUME Typed, NEW c \in Cells, NEW j \in Jobs, job' = Put(job, c, j)
    PROVE  job' \in [Cells -> Jobs] /\ job'[c] = j /\ \A d \in Cells \ {c} : job'[d] = job[d]
BY DEF Typed, Put

\* A job keeps its row or lets go of it.
LEMMA OwnRowsKept ==
    ASSUME LogInv, NEW c \in Cells, NEW j \in Jobs, job' = Put(job, c, j),
           j.id \in {0, job[c].id}
    PROVE  OwnRows'
<1>1. job'[c] = j /\ \A d \in Cells \ {c} : job'[d] = job[d]
  BY PutJob DEF LogInv
<1> QED
  BY <1>1 DEF LogInv, OwnRows

LEMMA RemoteKept ==
    ASSUME LogInv, NEW c \in Cells, NEW j \in Jobs, job' = Put(job, c, j),
           \A r \in remote' : r \in Held(j) \/ (r \in remote /\ r \notin Held(job[c]))
    PROVE  RemoteHeld'
<1>1. job'[c] = j /\ \A d \in Cells \ {c} : job'[d] = job[d]
  BY PutJob DEF LogInv
<1> SUFFICES ASSUME NEW r \in remote' PROVE \E d \in Cells : r \in Held(job'[d])
  BY DEF RemoteHeld, Held, Session, Task
<1>2. CASE r \in Held(j)
  BY <1>1, <1>2
<1>3. CASE r \in remote /\ r \notin Held(job[c])
  <2>1. PICK d \in Cells : r \in Held(job[d])
    BY <1>3 DEF LogInv, RemoteHeld
  <2> QED
    BY <1>1, <1>3, <2>1
<1> QED
  BY <1>2, <1>3

\* A step of one collection that writes neither the table nor a file.
LEMMA JobMoves ==
    ASSUME LogInv, NEW c \in Cells, NEW j \in Jobs, job' = Put(job, c, j),
           UNCHANGED <<status, of, files, doomed, stray, owed>>,
           endpoint' \in [Targets -> {"right", "wrong"}],
           \A r \in remote' : r \in Held(j) \/ (r \in remote /\ r \notin Held(job[c])),
           \/ /\ j.pc \in Collecting \ {"update"} /\ job[c].pc \in Collecting
              /\ j.id = job[c].id
           \/ j.id = 0 /\ j.pc \in {"idle", "locked"}
    PROVE  LogInv'
<1>1. job' \in [Cells -> Jobs] /\ job'[c] = j /\ \A d \in Cells \ {c} : job'[d] = job[d]
  BY PutJob DEF LogInv
<1>2. Typed'
  BY <1>1 DEF LogInv, Typed
<1>3. RowsOfJobs'
  <2>1. RowOf(c, job[c])
    BY DEF LogInv, RowsOfJobs
  <2>2. RowOf(c, j)'
    BY <2>1 DEF RowOf, Collecting, Jobs
  <2>3. \A d \in Cells \ {c} : RowOf(d, job[d])'
    BY <1>1 DEF LogInv, RowsOfJobs, RowOf
  <2> QED
    BY <1>1, <2>2, <2>3 DEF RowsOfJobs, RowOf
<1>4. OwnRows'
  BY OwnRowsKept
<1>5. RemoteHeld'
  BY RemoteKept
<1>6. DoomedDeleted' /\ FilesMatchRows' /\ BundleKept'
  BY DEF LogInv, DoomedDeleted, FilesMatchRows, BundleKept, Exists, Completed
<1> QED
  BY <1>2, <1>3, <1>4, <1>5, <1>6 DEF LogInv

LEMMA InitLog == Init => LogInv
<1> SUFFICES ASSUME Init PROVE LogInv
  OBVIOUS
<1>1. Typed
  BY IdleType DEF Init, Typed, Cells, Procs
<1>2. RowsOfJobs
  BY DEF Init, RowsOfJobs, RowOf, Cells, Idle, Collecting
<1>3. OwnRows
  BY DEF Init, OwnRows, Cells, Idle
<1> QED
  BY <1>1, <1>2, <1>3
     DEF Init, LogInv, RemoteHeld, DoomedDeleted, FilesMatchRows, BundleKept, Exists, Completed

-----------------------------------------------------------------------------
(* Starting a collection.                                                  *)

LEMMA LockMoves ==
    ASSUME LogInv, NEW p \in Procs, NEW t \in Targets, Free(p, t),
           NEW trigger \in {"manual", "policy", "bulk"}, job' = Locked(p, t, trigger),
           UNCHANGED <<status, of, files, doomed, stray, owed, endpoint, remote>>
    PROVE  LogInv'
<1> DEFINE j == [Idle EXCEPT !.pc = "locked", !.trigger = trigger, !.ep = endpoint[t]]
           c == <<p, t>>
<1>1. c \in Cells /\ job[c] \in Jobs /\ job[c].pc = "idle"
  BY CellType DEF LogInv, Free
<1>2. j \in Jobs /\ j.id = 0 /\ j.pc = "locked"
  BY IdleType DEF Jobs, Idle, LogInv, Typed
<1>3. Held(job[c]) = {}
  BY <1>1 DEF Held
<1>4. job' = Put(job, c, j)
  BY DEF Locked
<1> HIDE DEF j, c
<1> QED
  BY <1>1, <1>2, <1>3, <1>4, JobMoves DEF LogInv, Typed

\* A step that leaves the collections, their rows and their files alone.
LEMMA OthersKeep ==
    ASSUME LogInv, UNCHANGED <<status, of, files, job, doomed, endpoint, remote, stray, owed>>
    PROVE  LogInv'
<1>1. Typed' /\ OwnRows' /\ DoomedDeleted'
  BY DEF LogInv, Typed, OwnRows, DoomedDeleted
<1>2. RowsOfJobs'
  BY DEF LogInv, RowsOfJobs, RowOf
<1>3. RemoteHeld'
  BY DEF LogInv, RemoteHeld, Held, Session, Task
<1>4. FilesMatchRows' /\ BundleKept'
  BY DEF LogInv, FilesMatchRows, BundleKept, Exists, Completed
<1> QED
  BY <1>1, <1>2, <1>3, <1>4 DEF LogInv

LEMMA StartKeeps ==
    ASSUME LogInv, NEW p \in Procs, NEW t \in Targets,
           \/ collect_single(p, t) \/ on_alert(p, t) \/ policy_collect(p, t)
           \/ bulk_collect(p, t) \/ collect_all(p) \/ bulk_done(p) \/ RearmPasses
    PROVE  LogInv'
<1>1. CASE collect_single(p, t)
  BY <1>1, LockMoves DEF collect_single, db
<1>2. CASE policy_collect(p, t)
  <2>1. CASE Free(p, t)
    BY <1>2, <2>1, LockMoves DEF policy_collect, db
  <2>2. CASE ~Free(p, t)
    BY <1>2, <2>2, OthersKeep DEF policy_collect, db
  <2> QED
    BY <2>1, <2>2
<1>3. CASE bulk_collect(p, t)
  <2>1. CASE Free(p, t)
    BY <1>3, <2>1, LockMoves DEF bulk_collect, db
  <2>2. CASE ~Free(p, t)
    BY <1>3, <2>2, OthersKeep DEF bulk_collect, db
  <2> QED
    BY <2>1, <2>2
<1>4. CASE on_alert(p, t) \/ collect_all(p) \/ bulk_done(p) \/ RearmPasses
  BY <1>4, OthersKeep DEF on_alert, collect_all, bulk_done, RearmPasses, db
<1> QED
  BY <1>1, <1>2, <1>3, <1>4

-----------------------------------------------------------------------------
(* The workflow of a collection.                                           *)

LEMMA CreateKeeps ==
    ASSUME LogInv, NEW p \in Procs, NEW t \in Targets, create_collected_log(p, t)
    PROVE  LogInv'
<1> DEFINE c == <<p, t>>
<1>1. c \in Cells /\ c[2] = t /\ job[c] = job[p, t] /\ job[c] \in Jobs /\ job[c].pc = "locked"
  BY CellType DEF LogInv, create_collected_log, Step
<1>2. Held(job[c]) = {}
  BY <1>1 DEF Held
<1>3. CASE job' = Put(job, c, Idle) /\ UNCHANGED <<status, of, recent>>
  <2> HIDE DEF c
  <2> QED
    BY <1>1, <1>2, <1>3, IdleType, JobMoves DEF create_collected_log, LogInv, Typed
<1>4. ASSUME NEW i \in Unused,
             job' = Put(job, c, [Go(p, t, "connect") EXCEPT !.id = i]),
             status' = Put(status, i, "collecting"),
             of' = Put(of, i, <<t, job[p, t].trigger = "policy">>)
      PROVE  LogInv'
  <2> DEFINE j == [Go(p, t, "connect") EXCEPT !.id = i]
  <2>1. i \in Ids /\ i # 0 /\ status[i] = "unused"
    BY DEF Unused, Ids
  <2>2. j \in Jobs /\ j.id = i /\ j.pc = "connect"
    BY <1>1, <2>1 DEF Go, Jobs, Collecting
  <2>3. job' = Put(job, c, j)
    BY <1>4
  <2>4. UNCHANGED <<files, doomed, endpoint, remote, stray, owed>>
    BY DEF create_collected_log
  <2>5. /\ status' \in [Ids -> {"unused", "collecting", "completed", "failed", "deleted"}]
        /\ status'[i] = "collecting" /\ \A k \in Ids \ {i} : status'[k] = status[k]
    BY <1>4, <2>1 DEF LogInv, Typed, Put
  <2>6. /\ of' \in [Ids -> (Targets \cup {"none"}) \X BOOLEAN]
        /\ of'[i][1] = t /\ \A k \in Ids \ {i} : of'[k] = of[k]
    <3>1. <<t, job[p, t].trigger = "policy">> \in (Targets \cup {"none"}) \X BOOLEAN
      OBVIOUS
    <3> QED
      BY <1>4, <2>1, <3>1 DEF LogInv, Typed, Put
  <2> HIDE DEF c, j
  <2>7. job' \in [Cells -> Jobs] /\ job'[c] = j /\ \A d \in Cells \ {c} : job'[d] = job[d]
    BY <1>1, <2>2, <2>3, PutJob DEF LogInv
  <2>8. \A d \in Cells : job[d].id # i /\ job[d].id \in Ids \cup {0}
    <3> SUFFICES ASSUME NEW d \in Cells PROVE job[d].id # i /\ job[d].id \in Ids \cup {0}
      OBVIOUS
    <3>1. RowOf(d, job[d]) /\ job[d] \in Jobs
      BY DEF LogInv, RowsOfJobs, Typed
    <3> QED
      BY <2>1, <3>1 DEF RowOf, Jobs
  <2>9. Typed'
    BY <2>4, <2>5, <2>6, <2>7 DEF LogInv, Typed
  <2>10. RowsOfJobs'
    <3>1. RowOf(c, job[c])'
      BY <1>1, <2>1, <2>2, <2>5, <2>6, <2>7 DEF RowOf, Collecting
    <3>2. \A d \in Cells \ {c} : RowOf(d, job[d])'
      <4> SUFFICES ASSUME NEW d \in Cells \ {c} PROVE RowOf(d, job[d])'
        OBVIOUS
      <4>1. RowOf(d, job[d]) /\ job'[d] = job[d]
        BY <2>7 DEF LogInv, RowsOfJobs
      <4> QED
        BY <4>1, <2>4, <2>5, <2>6, <2>8 DEF RowOf, Collecting
    <3> QED
      BY <3>1, <3>2 DEF RowsOfJobs
  <2>11. OwnRows'
    BY <2>2, <2>7, <2>8 DEF LogInv, OwnRows
  <2>12. RemoteHeld'
    BY <1>1, <1>2, <2>2, <2>3, <2>4, RemoteKept
  <2>13. DoomedDeleted' /\ FilesMatchRows'
    BY <2>1, <2>4, <2>5 DEF LogInv, Typed, DoomedDeleted, FilesMatchRows, Exists
  <2>14. BundleKept'
    BY <2>1, <2>4, <2>5, <2>6 DEF LogInv, BundleKept, Completed
  <2> QED
    BY <2>9, <2>10, <2>11, <2>12, <2>13, <2>14 DEF LogInv
<1> QED
  BY <1>3, <1>4 DEF create_collected_log, Step

\* The steps between the creation of the row and the end of the collection.
LEMMA WorkflowMoves ==
    ASSUME LogInv, NEW p \in Procs, NEW t \in Targets, NEW j \in Jobs,
           job[p, t].pc \in Collecting, job' = Put(job, <<p, t>>, j),
           j.pc \in Collecting \ {"update"}, j.id = job[p, t].id,
           UNCHANGED <<status, of, files, doomed, stray, owed>>,
           endpoint' \in [Targets -> {"right", "wrong"}],
           \A r \in remote' : r \in Held(j) \/ (r \in remote /\ r \notin Held(job[p, t]))
    PROVE  LogInv'
<1> DEFINE c == <<p, t>>
<1>1. c \in Cells /\ job[c] = job[p, t]
  BY CellType DEF LogInv
<1>2. job' = Put(job, c, j)
  OBVIOUS
<1> HIDE DEF c
<1> QED
  BY <1>1, <1>2, JobMoves

\* The job j goes on as k, in the stage pc, with its row.
Moved(j, k, pc) == k \in Jobs /\ k.pc = pc /\ k.id = j.id

LEMMA PollAgain ==
    ASSUME NEW j \in Jobs, j.pc = "poll"
    PROVE  /\ Moved(j, [j EXCEPT !.errs = 0], "poll")
           /\ j.errs + 1 < MaxErrors => Moved(j, [j EXCEPT !.errs = j.errs + 1], "poll")
<1>1. \A e \in 0 .. (MaxErrors - 1) : Moved(j, [j EXCEPT !.errs = e], "poll")
  BY DEF Moved, Jobs
<1>2. 0 \in 0 .. (MaxErrors - 1) /\ j.errs \in 0 .. (MaxErrors - 1)
  BY DEF Jobs
<1>3. j.errs + 1 < MaxErrors => j.errs + 1 \in 0 .. (MaxErrors - 1)
  BY <1>2
<1> QED
  BY <1>1, <1>2, <1>3

LEMMA ConnectKeeps ==
    ASSUME LogInv, NEW p \in Procs, NEW t \in Targets,
           connect(p, t) \/ initiate_collection(p, t) \/ discover_collect_endpoint(p, t)
    PROVE  LogInv'
<1> DEFINE j == job[p, t]
<1>1. j \in Jobs
  BY CellType DEF LogInv
<1>2. endpoint' \in [Targets -> {"right", "wrong"}]
  BY DEF LogInv, Typed, connect, initiate_collection, discover_collect_endpoint, Put
<1>3. CASE connect(p, t)
  <2> DEFINE k == Go(p, t, "initiate")
  <2>1. /\ j.pc = "connect" /\ job' = Put(job, <<p, t>>, k)
        /\ remote' \subseteq remote \cup {Session(j.id)}
    BY <1>3 DEF connect, Created, Step
  <2>2. Moved(j, k, "initiate")
    BY <1>1 DEF Moved, Collecting, Go, Jobs
  <2>3. Held(j) = {} /\ Held(k) = {Session(j.id)}
    BY <1>1, <2>1 DEF Held, Go, Jobs
  <2> HIDE DEF k
  <2> QED
    BY <1>1, <1>2, <1>3, <2>1, <2>2, <2>3, WorkflowMoves DEF connect, db, Moved, Collecting
<1>4. CASE initiate_collection(p, t) /\ job' = Put(job, <<p, t>>, Go(p, t, "poll"))
  <2> DEFINE k == Go(p, t, "poll")
  <2>1. /\ j.pc = "initiate" /\ job' = Put(job, <<p, t>>, k)
        /\ remote' \subseteq remote \cup {Task(j.id)}
    BY <1>4 DEF initiate_collection, Created, Step
  <2>2. Moved(j, k, "poll")
    BY <1>1 DEF Moved, Collecting, Go, Jobs
  <2>3. Held(j) = {Session(j.id)} /\ Held(k) = {Session(j.id), Task(j.id)}
    BY <1>1, <2>1 DEF Held, Go, Jobs
  <2> HIDE DEF k
  <2> QED
    BY <1>1, <1>2, <1>4, <2>1, <2>2, <2>3, WorkflowMoves
       DEF initiate_collection, db, Moved, Collecting
<1>5. ASSUME NEW k, NEW pc \in {"close", "discover", "initiate"}, Moved(j, k, pc),
             j.pc \in {"initiate", "discover"}, job' = Put(job, <<p, t>>, k),
             UNCHANGED <<db, doomed, stray, owed, remote>>
      PROVE  LogInv'
  <2>1. Held(j) = {Session(j.id)} /\ Held(k) = {Session(j.id)}
    BY <1>5 DEF Held, Moved
  <2> QED
    BY <1>2, <1>5, <2>1, WorkflowMoves DEF db, Collecting, Moved
<1>6. CASE initiate_collection(p, t) /\ job' = Put(job, <<p, t>>, GoFailed(p, t, "close"))
           /\ UNCHANGED remote
  <2>1. Moved(j, GoFailed(p, t, "close"), "close")
    BY <1>1 DEF Moved, Collecting, GoFailed, Jobs
  <2>2. j.pc = "initiate" /\ j.ep \in {"right", "wrong"}
    BY <1>1, <1>6 DEF initiate_collection, Created, Step, Jobs
  <2> QED
    BY <1>5, <1>6, <2>1, <2>2 DEF initiate_collection
<1>7. CASE initiate_collection(p, t) /\ job' = Put(job, <<p, t>>, Go(p, t, "discover"))
           /\ UNCHANGED remote
  <2>1. Moved(j, Go(p, t, "discover"), "discover")
    BY <1>1 DEF Moved, Collecting, Go, Jobs
  <2>2. j.pc = "initiate" /\ j.ep \in {"right", "wrong"} /\ j.ok \in BOOLEAN
    BY <1>1, <1>7 DEF initiate_collection, Created, Step, Jobs
  <2> QED
    BY <1>5, <1>7, <2>1, <2>2 DEF initiate_collection
<1>8. CASE discover_collect_endpoint(p, t)
  <2>1. Moved(j, [Go(p, t, "initiate") EXCEPT !.ep = "right"], "initiate")
    BY <1>1 DEF Moved, Collecting, Go, Jobs
  <2>2. Moved(j, GoFailed(p, t, "close"), "close")
    BY <1>1 DEF Moved, Collecting, GoFailed, Jobs
  <2>3. j.pc = "discover" /\ j.ep \in {"right", "wrong"} /\ j.ok \in BOOLEAN
    BY <1>1, <1>8 DEF discover_collect_endpoint, Step, Jobs
  <2>4. CASE job' = Put(job, <<p, t>>, [Go(p, t, "initiate") EXCEPT !.ep = "right"])
    BY <1>5, <1>8, <2>1, <2>3, <2>4 DEF discover_collect_endpoint
  <2>5. CASE job' = Put(job, <<p, t>>, GoFailed(p, t, "close"))
    BY <1>5, <1>8, <2>2, <2>3, <2>5 DEF discover_collect_endpoint
  <2> QED
    BY <1>8, <2>4, <2>5 DEF discover_collect_endpoint, Step
<1> QED
  BY <1>3, <1>4, <1>6, <1>7, <1>8 DEF initiate_collection, Created, Step

LEMMA TaskKeeps ==
    ASSUME LogInv, NEW p \in Procs, NEW t \in Targets,
           \/ wait_for_task(p, t) \/ task_timeout(p, t) \/ download_attachment(p, t)
           \/ delete_task(p, t)
    PROVE  LogInv'
<1> DEFINE j == job[p, t]
<1>1. j \in Jobs /\ j.errs \in 0 .. (MaxErrors - 1) /\ j.ok \in BOOLEAN /\ j.ep \in {"right", "wrong"}
  BY CellType DEF LogInv, Jobs
<1>2. UNCHANGED <<db, doomed, endpoint, stray, owed>>
  BY DEF wait_for_task, task_timeout, download_attachment, delete_task
<1>3. ASSUME NEW k, NEW pc \in {"poll", "download", "cleanup"}, Moved(j, k, pc),
             j.pc \in {"poll", "download"}, job' = Put(job, <<p, t>>, k), UNCHANGED remote
      PROVE  LogInv'
  <2>1. Held(j) = {Session(j.id), Task(j.id)} /\ Held(k) = {Session(j.id), Task(j.id)}
    BY <1>3 DEF Held, Moved
  <2> QED
    BY <1>1, <1>2, <1>3, <2>1, WorkflowMoves DEF db, Collecting, Moved, LogInv, Typed
<1>4. ASSUME NEW ok \in BOOLEAN, j.pc = "poll", job' = Put(job, <<p, t>>, Ended(p, t, ok)),
             UNCHANGED remote
      PROVE  LogInv'
  <2>1. CASE ok
    <3>1. Moved(j, Ended(p, t, ok), "download")
      BY <1>1, <2>1 DEF Moved, Collecting, Ended, Go, Jobs
    <3> QED
      BY <1>1, <1>3, <1>4, <3>1
  <2>2. CASE ~ok
    <3>1. Moved(j, Ended(p, t, ok), "cleanup")
      BY <1>1, <2>2 DEF Moved, Collecting, Ended, GoFailed, Jobs
    <3> QED
      BY <1>1, <1>3, <1>4, <3>1
  <2> QED
    BY <2>1, <2>2
<1>5. CASE wait_for_task(p, t)
  <2>1. j.pc = "poll" /\ UNCHANGED remote
    BY <1>5 DEF wait_for_task, Step
  <2>2. CASE job' = Put(job, <<p, t>>, [j EXCEPT !.errs = 0])
    <3>1. Moved(j, [j EXCEPT !.errs = 0], "poll")
      BY <1>1, <2>1, PollAgain
    <3> QED
      BY <1>1, <1>3, <2>1, <2>2, <3>1
  <2>3. CASE j.errs + 1 < MaxErrors /\ job' = Put(job, <<p, t>>, [j EXCEPT !.errs = @ + 1])
    <3>1. Moved(j, [j EXCEPT !.errs = j.errs + 1], "poll")
      BY <1>1, <2>1, <2>3, PollAgain
    <3> QED
      BY <1>1, <1>3, <2>1, <2>3, <3>1
  <2>4. CASE \E ok \in BOOLEAN : job' = Put(job, <<p, t>>, Ended(p, t, ok))
    BY <1>4, <2>1, <2>4
  <2> QED
    BY <1>5, <2>2, <2>3, <2>4 DEF wait_for_task, Step
<1>6. CASE task_timeout(p, t)
  BY <1>4, <1>6 DEF task_timeout, Step
<1>7. CASE download_attachment(p, t)
  <2>1. PICK ok \in BOOLEAN : job' = Put(job, <<p, t>>, [Go(p, t, "cleanup") EXCEPT !.ok = ok])
    BY <1>7 DEF download_attachment, Step
  <2>2. j.pc = "download" /\ UNCHANGED remote
    BY <1>7 DEF download_attachment, Step
  <2>3. Moved(j, [Go(p, t, "cleanup") EXCEPT !.ok = ok], "cleanup")
    BY <1>1 DEF Moved, Collecting, Go, Jobs
  <2> QED
    BY <1>1, <1>3, <2>1, <2>2, <2>3
<1>8. CASE delete_task(p, t)
  <2> DEFINE k == Go(p, t, "close")
  <2>1. /\ j.pc = "cleanup" /\ job' = Put(job, <<p, t>>, k)
        /\ remote' = remote \ {Task(j.id)}
    BY <1>8 DEF delete_task, Step
  <2>2. Moved(j, k, "close")
    BY <1>1 DEF Moved, Collecting, Go, Jobs
  <2>3. Held(j) = {Session(j.id), Task(j.id)} /\ Held(k) = {Session(j.id)}
    BY <1>1, <2>1 DEF Held, Go, Jobs
  <2> HIDE DEF k
  <2> QED
    BY <1>1, <1>2, <2>1, <2>2, <2>3, WorkflowMoves DEF db, Moved, Collecting, LogInv, Typed
<1> QED
  BY <1>5, <1>6, <1>7, <1>8

-----------------------------------------------------------------------------
(* The end of a collection: the file, the row and the older bundles.       *)

LEMMA CloseKeeps ==
    ASSUME LogInv, NEW p \in Procs, NEW t \in Targets, close(p, t)
    PROVE  LogInv'
<1> DEFINE c == <<p, t>>
           j == job[p, t]
<1>1. c \in Cells /\ job[c] = j /\ j \in Jobs /\ j.pc = "close"
  BY CellType DEF LogInv, close, Step
<1>2. Held(j) = {Session(j.id)} /\ remote' = remote \ {Session(j.id)}
  BY <1>1 DEF Held, close
<1>3. CASE job' = Put(job, c, Go(p, t, "fail")) /\ UNCHANGED files
  <2>1. Moved(j, Go(p, t, "fail"), "fail")
    BY <1>1 DEF Moved, Collecting, Go, Jobs
  <2> QED
    BY <1>1, <1>2, <1>3, <2>1, WorkflowMoves DEF Moved, Collecting, close, LogInv, Typed
<1>4. ASSUME NEW pc \in {"update", "fail"}, job' = Put(job, c, Go(p, t, pc)),
             files' = files \cup {j.id}
      PROVE  LogInv'
  <2> DEFINE k == Go(p, t, pc)
  <2>1. Moved(j, k, pc)
    BY <1>1 DEF Moved, Collecting, Go, Jobs
  <2>2. Held(k) = {}
    BY <2>1 DEF Held, Moved
  <2>3. /\ job' = Put(job, c, k) /\ files' = files \cup {j.id}
        /\ UNCHANGED <<status, of, doomed, endpoint, stray, owed>>
    BY <1>4 DEF close
  <2> HIDE DEF c, k
  <2>4. job' \in [Cells -> Jobs] /\ job'[c] = k /\ \A d \in Cells \ {c} : job'[d] = job[d]
    BY <1>1, <2>1, <2>3, PutJob DEF LogInv, Moved
  <2>5. /\ j.id \in Ids /\ j.id # 0 /\ of[j.id][1] = c[2]
        /\ status[j.id] = "collecting" \/ (status[j.id] = "deleted" /\ j.id \in stray)
    <3>1. RowOf(c, j)
      BY <1>1 DEF LogInv, RowsOfJobs
    <3> QED
      BY <1>1, <3>1 DEF RowOf, Jobs, Collecting
  <2>6. Typed'
    BY <2>3, <2>4, <2>5 DEF LogInv, Typed
  <2>7. RowsOfJobs'
    <3>1. RowOf(c, job[c])'
      BY <2>1, <2>3, <2>4, <2>5 DEF RowOf, Moved, Collecting
    <3>2. \A d \in Cells \ {c} : RowOf(d, job[d])'
      <4> SUFFICES ASSUME NEW d \in Cells \ {c} PROVE RowOf(d, job[d])'
        OBVIOUS
      <4>1. RowOf(d, job[d]) /\ job'[d] = job[d]
        BY <2>4 DEF LogInv, RowsOfJobs
      <4> QED
        BY <2>3, <4>1 DEF RowOf
    <3> QED
      BY <3>1, <3>2 DEF RowsOfJobs
  <2>8. OwnRows'
    BY <1>1, <2>1, <2>3, OwnRowsKept DEF Moved
  <2>9. RemoteHeld'
    BY <1>1, <1>2, <2>1, <2>3, RemoteKept DEF Moved
  <2>10. DoomedDeleted' /\ BundleKept'
    BY <2>3 DEF LogInv, DoomedDeleted, BundleKept, Completed
  <2>11. FilesMatchRows'
    BY <2>3, <2>5 DEF LogInv, FilesMatchRows, Exists
  <2> QED
    BY <2>6, <2>7, <2>8, <2>9, <2>10, <2>11 DEF LogInv
<1> QED
  BY <1>3, <1>4 DEF close, Step

\* A collection writes the outcome to its row, which is still there.
LEMMA OutcomeWritten ==
    ASSUME LogInv, NEW c \in Cells, NEW k \in Jobs, job' = Put(job, c, k),
           Held(job[c]) = {}, NEW i, i = job[c].id, Exists(i),
           NEW s \in {"completed", "failed"}, status' = Put(status, i, s),
           UNCHANGED <<of, files, doomed, endpoint, remote, stray>>,
           \/ /\ job[c].pc = "update" /\ s = "completed" /\ owed' = owed \cup {c[2]}
              /\ k.pc = "prune" /\ k.id = i
           \/ /\ job[c].pc = "fail" /\ s = "failed" /\ owed' = owed
              /\ k.pc = "idle" /\ k.id = 0
    PROVE  LogInv'
<1>1. job' \in [Cells -> Jobs] /\ job'[c] = k /\ \A d \in Cells \ {c} : job'[d] = job[d]
  BY PutJob DEF LogInv
<1>2. /\ i \in Ids /\ i # 0 /\ of[i][1] = c[2] /\ status[i] = "collecting"
      /\ job[c].pc = "update" => i \in files
  <2>1. RowOf(c, job[c]) /\ job[c] \in Jobs
    BY DEF LogInv, RowsOfJobs, Typed
  <2> QED
    BY <2>1 DEF RowOf, Jobs, Collecting, Exists
<1>3. /\ status' \in [Ids -> {"unused", "collecting", "completed", "failed", "deleted"}]
      /\ status'[i] = s /\ \A n \in Ids \ {i} : status'[n] = status[n]
  BY <1>2 DEF LogInv, Typed, Put
<1>4. Typed'
  BY <1>1, <1>3 DEF LogInv, Typed
<1>5. RowsOfJobs'
  <2>1. RowOf(c, job[c])'
    BY <1>1, <1>2, <1>3 DEF RowOf, Collecting
  <2>2. \A d \in Cells \ {c} : RowOf(d, job[d])'
    <3> SUFFICES ASSUME NEW d \in Cells \ {c} PROVE RowOf(d, job[d])'
      OBVIOUS
    <3>1. job[d].id # i /\ job[d].id \in Ids \cup {0}
      BY <1>2 DEF LogInv, OwnRows, Typed, Jobs
    <3>2. RowOf(d, job[d]) /\ job'[d] = job[d]
      BY <1>1 DEF LogInv, RowsOfJobs
    <3> QED
      BY <1>3, <3>1, <3>2 DEF RowOf, Collecting
  <2> QED
    BY <2>1, <2>2 DEF RowsOfJobs
<1>6. OwnRows'
  BY OwnRowsKept
<1>7. RemoteHeld'
  BY RemoteKept
<1>8. DoomedDeleted' /\ FilesMatchRows'
  <2>1. DoomedDeleted'
    <3> SUFFICES ASSUME NEW q \in Procs, NEW B \in doomed[q], NEW n \in B
                 PROVE  status'[n] = "deleted"
      BY DEF DoomedDeleted
    <3>1. n \in Ids /\ status[n] = "deleted"
      BY DEF LogInv, Typed, DoomedDeleted
    <3> QED
      BY <1>2, <1>3, <3>1
  <2>2. \A n \in Ids : status'[n] = "completed" => n \in files'
    BY <1>2, <1>3 DEF LogInv, FilesMatchRows
  <2>3. \A n \in files' : Exists(n)' \/ n \in stray' \/ \E q \in Procs : n \in UNION doomed'[q]
    BY <1>2, <1>3 DEF LogInv, Typed, FilesMatchRows, Exists
  <2> QED
    BY <2>1, <2>2, <2>3 DEF FilesMatchRows
<1>9. BundleKept'
  <2>1. \A t \in owed : Completed(t)' # {}
    BY <1>2, <1>3 DEF LogInv, BundleKept, Completed
  <2>2. job[c].pc = "update" => i \in Completed(c[2])'
    BY <1>2, <1>3 DEF Completed
  <2> QED
    BY <2>1, <2>2 DEF BundleKept
<1> QED
  BY <1>4, <1>5, <1>6, <1>7, <1>8, <1>9 DEF LogInv

LEMMA UpdateKeeps ==
    ASSUME LogInv, NEW p \in Procs, NEW t \in Targets, update_collected_log(p, t)
    PROVE  LogInv'
<1> DEFINE c == <<p, t>>
           j == job[p, t]
<1>1. c \in Cells /\ c[2] = t /\ job[c] = j /\ j \in Jobs /\ j.pc \in {"update", "fail"}
  BY CellType DEF LogInv, update_collected_log, Step
<1>2. Held(j) = {} /\ UNCHANGED <<of, files, doomed, endpoint, remote, stray>>
  BY <1>1 DEF Held, update_collected_log
<1>3. CASE /\ j.pc = "update" /\ job' = Put(job, c, Go(p, t, "prune"))
           /\ Updated(j.id, "completed")
           /\ owed' = IF Exists(j.id) THEN owed \cup {t} ELSE owed
  <2> DEFINE k == Go(p, t, "prune")
  <2>1. Moved(j, k, "prune")
    BY <1>1 DEF Moved, Go, Jobs
  <2>2. job' = Put(job, c, k) /\ j.pc = "update"
    BY <1>3
  <2>3. /\ Exists(j.id) => status' = Put(status, j.id, "completed") /\ owed' = owed \cup {t}
        /\ ~Exists(j.id) => UNCHANGED <<status, owed>>
    BY <1>3 DEF Updated
  <2> HIDE DEF c, j, k
  <2>4. CASE Exists(j.id)
    BY <1>1, <1>2, <2>1, <2>2, <2>3, <2>4, OutcomeWritten DEF Moved
  <2>5. CASE ~Exists(j.id)
    <3>1. job' \in [Cells -> Jobs] /\ job'[c] = k /\ \A d \in Cells \ {c} : job'[d] = job[d]
      BY <1>1, <2>1, <2>2, PutJob DEF LogInv, Moved
    <3>2. Typed'
      BY <1>2, <2>3, <2>5, <3>1 DEF LogInv, Typed
    <3>3. RowsOfJobs'
      <4>1. RowOf(c, j)
        BY <1>1 DEF LogInv, RowsOfJobs
      <4>2. RowOf(c, job[c])'
        BY <1>2, <2>1, <2>2, <2>3, <2>5, <3>1, <4>1 DEF RowOf, Moved, Collecting, Exists
      <4>3. \A d \in Cells \ {c} : RowOf(d, job[d])'
        BY <1>2, <2>3, <2>5, <3>1 DEF LogInv, RowsOfJobs, RowOf
      <4> QED
        BY <4>2, <4>3 DEF RowsOfJobs
    <3>4. OwnRows' /\ RemoteHeld'
      BY <1>1, <1>2, <2>1, <2>2, OwnRowsKept, RemoteKept DEF Moved
    <3>5. DoomedDeleted' /\ FilesMatchRows' /\ BundleKept'
      BY <1>2, <2>3, <2>5
         DEF LogInv, DoomedDeleted, FilesMatchRows, BundleKept, Exists, Completed
    <3> QED
      BY <3>2, <3>3, <3>4, <3>5 DEF LogInv
  <2> QED
    BY <2>4, <2>5
<1>4. CASE job' = Put(job, c, Go(p, t, "fail")) /\ UNCHANGED <<status, owed>>
  <2>1. Moved(j, Go(p, t, "fail"), "fail")
    BY <1>1 DEF Moved, Collecting, Go, Jobs
  <2> QED
    BY <1>1, <1>2, <1>4, <2>1, WorkflowMoves DEF Moved, Collecting, LogInv, Typed
<1>5. CASE job' = Put(job, c, Idle) /\ UNCHANGED <<status, owed>>
  <2> HIDE DEF c, j
  <2> QED
    BY <1>1, <1>2, <1>5, IdleType, JobMoves DEF LogInv, Typed
<1>6. CASE /\ j.pc = "fail" /\ job' = Put(job, c, Idle) /\ Updated(j.id, "failed")
           /\ UNCHANGED owed /\ Exists(j.id)
  <2>1. status' = Put(status, j.id, "failed")
    BY <1>6 DEF Updated
  <2> HIDE DEF c, j
  <2> QED
    BY <1>1, <1>2, <1>6, <2>1, IdleType, OutcomeWritten
<1> QED
  BY <1>3, <1>4, <1>5, <1>6 DEF update_collected_log, Step, Updated

\* A deletion of rows, whose files a process will delete or which it loses.
LEMMA RowsDeleted ==
    ASSUME LogInv, NEW p \in Procs, NEW S \in SUBSET Ids, status' = Deleted(S),
           \A i \in S : Exists(i), UNCHANGED files, stray \subseteq stray',
           \/ doomed' = Doomed(p, S)
           \/ S \subseteq stray' /\ UNCHANGED doomed
    PROVE  /\ status' \in [Ids -> {"unused", "collecting", "completed", "failed", "deleted"}]
           /\ doomed' \in [Procs -> SUBSET SUBSET Ids]
           /\ \A i \in S : status'[i] = "deleted"
           /\ \A i \in Ids \ S : status'[i] = status[i]
           /\ DoomedDeleted' /\ FilesMatchRows'
<1>1. /\ status' \in [Ids -> {"unused", "collecting", "completed", "failed", "deleted"}]
      /\ \A i \in S : status'[i] = "deleted"
      /\ \A i \in Ids \ S : status'[i] = status[i]
  BY DEF LogInv, Typed, Deleted
<1>2. /\ doomed' \in [Procs -> SUBSET SUBSET Ids]
      /\ \A q \in Procs : doomed[q] \subseteq doomed'[q]
      /\ \A q \in Procs : \A B \in doomed'[q] : B \in doomed[q] \/ B = S
      /\ \A i \in S : i \in stray' \/ \E q \in Procs : i \in UNION doomed'[q]
  <2>1. CASE doomed' = Doomed(p, S)
    <3>1. /\ doomed' \in [Procs -> SUBSET SUBSET Ids]
          /\ doomed'[p] = doomed[p] \cup ({S} \ {{}})
          /\ \A q \in Procs \ {p} : doomed'[q] = doomed[q]
      BY <2>1 DEF LogInv, Typed, Doomed, Put
    <3>2. \A i \in S : S \in doomed'[p]
      BY <3>1
    <3> QED
      BY <3>1, <3>2
  <2>2. CASE S \subseteq stray' /\ UNCHANGED doomed
    BY <2>2 DEF LogInv, Typed
  <2> QED
    BY <2>1, <2>2
<1>3. DoomedDeleted'
  <2> SUFFICES ASSUME NEW q \in Procs, NEW B \in doomed'[q], NEW i \in B
               PROVE  status'[i] = "deleted"
    BY DEF DoomedDeleted
  <2>1. i \in S \/ (i \in Ids /\ status[i] = "deleted")
    BY <1>2 DEF LogInv, Typed, DoomedDeleted
  <2> QED
    BY <1>1, <2>1
<1>4. FilesMatchRows'
  <2>1. \A i \in Ids : status'[i] = "completed" => i \in files'
    BY <1>1 DEF LogInv, FilesMatchRows
  <2>2. ASSUME NEW i \in files
        PROVE  Exists(i)' \/ i \in stray' \/ \E q \in Procs : i \in UNION doomed'[q]
    <3>1. i \in Ids /\ (Exists(i) \/ i \in stray \/ \E q \in Procs : i \in UNION doomed[q])
      BY DEF LogInv, Typed, FilesMatchRows
    <3>2. CASE i \in S
      BY <1>2, <3>2
    <3>3. CASE i \notin S
      BY <1>1, <1>2, <3>1, <3>3 DEF Exists
    <3> QED
      BY <3>2, <3>3
  <2> QED
    BY <2>1, <2>2 DEF FilesMatchRows
<1> QED
  BY <1>1, <1>2, <1>3, <1>4

LEMMA PruneKeeps ==
    ASSUME LogInv, NEW p \in Procs, NEW t \in Targets, delete_prior_target_logs(p, t)
    PROVE  LogInv'
<1> DEFINE c == <<p, t>>
           j == job[p, t]
           S == Superseded(p, t)
<1>1. /\ c \in Cells /\ c[2] = t /\ job[c] = j /\ j \in Jobs /\ j.pc = "prune"
      /\ job' = Put(job, c, Idle) /\ UNCHANGED <<of, files, endpoint, remote, stray>>
  BY CellType DEF LogInv, delete_prior_target_logs, Step
<1>2. Held(j) = {}
  BY <1>1 DEF Held
<1>3. CASE UNCHANGED <<status, recent, doomed, owed>>
  <2> HIDE DEF c, j
  <2> QED
    BY <1>1, <1>2, <1>3, IdleType, JobMoves DEF LogInv, Typed
<1>4. CASE /\ status' = Deleted(S) /\ doomed' = Doomed(p, S)
           /\ owed' = IF Unsafe(p, t) THEN owed \ {t} ELSE owed
  <2>1. /\ S \subseteq Ids /\ j.id \notin S
        /\ \A i \in S : status[i] = "completed" /\ of[i][1] = t /\ Exists(i)
    BY DEF Superseded, Completed, Exists
  <2>2. /\ j.id \in Ids /\ of[j.id][1] = t
        /\ status[j.id] \in {"completed", "deleted"}
    <3>1. RowOf(c, j)
      BY <1>1 DEF LogInv, RowsOfJobs
    <3> QED
      BY <1>1, <3>1 DEF RowOf, Jobs
  <2>3. t \in owed' => status[j.id] = "completed"
    BY <1>4, <2>2 DEF Unsafe, Exists
  <2>4. owed' \subseteq owed
    BY <1>4
  <2> HIDE DEF c, j, S
  <2>5. /\ status' \in [Ids -> {"unused", "collecting", "completed", "failed", "deleted"}]
        /\ doomed' \in [Procs -> SUBSET SUBSET Ids] /\ DoomedDeleted' /\ FilesMatchRows'
        /\ \A i \in S : status'[i] = "deleted"
        /\ \A i \in Ids \ S : status'[i] = status[i]
    <3>1. /\ S \in SUBSET Ids /\ status' = Deleted(S) /\ (\A i \in S : Exists(i))
          /\ doomed' = Doomed(p, S)
      BY <1>4, <2>1
    <3>2. UNCHANGED files /\ stray \subseteq stray'
      BY <1>1
    <3> QED
      BY <3>1, <3>2, RowsDeleted
  <2>6. job' \in [Cells -> Jobs] /\ job'[c] = Idle /\ \A d \in Cells \ {c} : job'[d] = job[d]
    BY <1>1, IdleType, PutJob DEF LogInv
  <2>7. Typed'
    BY <1>1, <2>5, <2>6 DEF LogInv, Typed
  <2>8. RowsOfJobs'
    <3>1. RowOf(c, job[c])'
      BY <2>6, IdleType DEF RowOf, Collecting
    <3>2. \A d \in Cells \ {c} : RowOf(d, job[d])'
      <4> SUFFICES ASSUME NEW d \in Cells \ {c} PROVE RowOf(d, job[d])'
        OBVIOUS
      <4>1. RowOf(d, job[d]) /\ job'[d] = job[d] /\ job[d].id \in Ids \cup {0}
        BY <2>6 DEF LogInv, RowsOfJobs, Typed, Jobs
      <4>2. job[d].id # 0 =>
               \/ status'[job[d].id] = status[job[d].id]
               \/ status[job[d].id] = "completed" /\ status'[job[d].id] = "deleted"
        BY <2>1, <2>5, <4>1
      <4> QED
        BY <1>1, <4>1, <4>2 DEF RowOf, Collecting
    <3> QED
      BY <3>1, <3>2 DEF RowsOfJobs
  <2>9. OwnRows' /\ RemoteHeld'
    BY <1>1, <1>2, IdleType, OwnRowsKept, RemoteKept
  <2>10. BundleKept'
    <3> SUFFICES ASSUME NEW u \in owed' PROVE Completed(u)' # {}
      BY DEF BundleKept
    <3>1. CASE u = t
      <4>1. j.id \in Completed(t)'
        BY <1>1, <2>1, <2>2, <2>3, <2>5, <3>1 DEF Completed
      <4> QED
        BY <3>1, <4>1
    <3>2. CASE u # t
      <4>1. PICK i \in Ids : status[i] = "completed" /\ of[i][1] = u
        BY <2>4 DEF LogInv, BundleKept, Completed
      <4>2. i \in Completed(u)'
        BY <1>1, <2>1, <2>5, <3>2, <4>1 DEF Completed
      <4> QED
        BY <4>2
    <3> QED
      BY <3>1, <3>2
  <2> QED
    BY <2>5, <2>7, <2>8, <2>9, <2>10 DEF LogInv
<1> QED
  BY <1>3, <1>4 DEF delete_prior_target_logs

-----------------------------------------------------------------------------
(* Deletion, retention and crashes.                                        *)

LEMMA DeleteFileKeeps ==
    ASSUME LogInv, NEW p \in Procs, NEW S \in SUBSET Ids, delete_file(p, S)
    PROVE  LogInv'
<1>1. PICK left \in SUBSET S : files' = files \ (S \ left) /\ stray' = stray \cup left
  BY DEF delete_file
<1>2. /\ S \in doomed[p] /\ doomed' = Put(doomed, p, doomed[p] \ {S})
      /\ UNCHANGED <<status, of, job, endpoint, remote, owed>>
  BY DEF delete_file
<1>3. /\ doomed' \in [Procs -> SUBSET SUBSET Ids] /\ doomed'[p] = doomed[p] \ {S}
      /\ \A q \in Procs \ {p} : doomed'[q] = doomed[q]
  BY <1>2 DEF LogInv, Typed, Put
<1>4. \A i \in S : i \in Ids /\ status[i] = "deleted"
  BY <1>2 DEF LogInv, DoomedDeleted
<1>5. Typed' /\ OwnRows'
  BY <1>1, <1>2, <1>3 DEF LogInv, Typed, OwnRows
<1>6. DoomedDeleted'
  BY <1>2, <1>3 DEF LogInv, DoomedDeleted
<1>7. RowsOfJobs'
  <2> SUFFICES ASSUME NEW d \in Cells PROVE RowOf(d, job[d])'
    BY DEF RowsOfJobs
  <2>1. RowOf(d, job[d])
    BY DEF LogInv, RowsOfJobs
  <2> QED
    BY <1>1, <1>2, <1>4, <2>1 DEF RowOf
<1>8. RemoteHeld'
  BY <1>2 DEF LogInv, RemoteHeld, Held, Session, Task
<1>9. FilesMatchRows'
  <2>1. \A k \in Ids : status'[k] = "completed" => k \in files'
    BY <1>1, <1>2, <1>4 DEF LogInv, FilesMatchRows
  <2>2. ASSUME NEW k \in files'
        PROVE  Exists(k)' \/ k \in stray' \/ \E q \in Procs : k \in UNION doomed'[q]
    <3>1. k \in files /\ (k \in stray' \/ k \notin S)
      BY <1>1
    <3>2. Exists(k) \/ k \in stray \/ \E q \in Procs : k \in UNION doomed[q]
      BY <3>1 DEF LogInv, FilesMatchRows
    <3>3. ASSUME k \notin S, NEW q \in Procs, NEW B \in doomed[q], k \in B
          PROVE  B \in doomed'[q]
      BY <1>3, <3>3
    <3> QED
      BY <1>1, <1>2, <3>1, <3>2, <3>3 DEF Exists
  <2> QED
    BY <2>1, <2>2 DEF FilesMatchRows
<1>10. BundleKept'
  BY <1>2 DEF LogInv, BundleKept, Completed
<1> QED
  BY <1>5, <1>6, <1>7, <1>8, <1>9, <1>10 DEF LogInv

LEMMA DeleteKeeps ==
    ASSUME LogInv, NEW p \in Procs, NEW S \in SUBSET Ids, Delete(p, S),
           stray \subseteq stray', \A i \in S : InWork(i) => i \in stray',
           \/ doomed' = Doomed(p, S)
           \/ S \subseteq stray' /\ UNCHANGED doomed
    PROVE  LogInv'
<1>1. /\ status' = Deleted(S) /\ \A i \in S : Exists(i)
      /\ owed' = owed \ {of[i][1] : i \in {k \in S : status[k] = "completed"}}
      /\ UNCHANGED <<of, files, job, endpoint, remote>>
  BY DEF Delete
<1>2. /\ status' \in [Ids -> {"unused", "collecting", "completed", "failed", "deleted"}]
      /\ doomed' \in [Procs -> SUBSET SUBSET Ids] /\ DoomedDeleted' /\ FilesMatchRows'
      /\ \A i \in S : status'[i] = "deleted"
      /\ \A i \in Ids \ S : status'[i] = status[i]
  BY <1>1, RowsDeleted
<1>3. Typed' /\ OwnRows'
  BY <1>1, <1>2 DEF LogInv, Typed, OwnRows
<1>4. RowsOfJobs'
  <2> SUFFICES ASSUME NEW d \in Cells PROVE RowOf(d, job[d])'
    BY DEF RowsOfJobs
  <2>1. RowOf(d, job[d]) /\ job[d].id \in Ids \cup {0}
    BY DEF LogInv, RowsOfJobs, Typed, Jobs
  <2>2. job[d].id \in S => job[d].id \in stray'
    BY DEF InWork, Cells
  <2>3. stray \subseteq stray'
    OBVIOUS
  <2>4. CASE job[d].id = 0
    BY <1>1, <2>1, <2>4 DEF RowOf, Collecting
  <2>5. CASE job[d].id \in Ids \ S
    <3>1. status'[job[d].id] = status[job[d].id]
      BY <1>2, <2>5
    <3> QED
      BY <1>1, <2>1, <2>3, <3>1 DEF RowOf
  <2>6. CASE job[d].id \in S
    <3>1. status'[job[d].id] = "deleted" /\ job[d].id \in stray'
      BY <1>2, <2>2, <2>6
    <3> QED
      BY <1>1, <2>1, <3>1 DEF RowOf, Collecting
  <2> QED
    BY <2>1, <2>4, <2>5, <2>6
<1>5. RemoteHeld'
  BY <1>1 DEF LogInv, RemoteHeld, Held, Session, Task
<1>6. BundleKept'
  <2> SUFFICES ASSUME NEW u \in owed' PROVE Completed(u)' # {}
    BY DEF BundleKept
  <2>1. PICK k \in Ids : status[k] = "completed" /\ of[k][1] = u
    BY <1>1 DEF LogInv, BundleKept, Completed
  <2>2. k \notin S
    BY <1>1, <2>1
  <2>3. k \in Completed(u)'
    BY <1>1, <1>2, <2>1, <2>2 DEF Completed
  <2> QED
    BY <2>3
<1> QED
  BY <1>2, <1>3, <1>4, <1>5, <1>6 DEF LogInv

LEMMA DeletionKeeps ==
    ASSUME LogInv, NEW p \in Procs,
           \/ \E i \in Ids : delete_collected_log(p, i)
           \/ \E S \in SUBSET Ids : delete_expired_logs(p, S)
    PROVE  LogInv'
<1>1. ASSUME NEW i \in Ids, delete_collected_log(p, i) PROVE LogInv'
  <2>1. /\ {i} \in SUBSET Ids /\ Delete(p, {i}) /\ doomed' = Doomed(p, {i})
        /\ stray \subseteq stray' /\ \A k \in {i} : InWork(k) => k \in stray'
    BY <1>1 DEF delete_collected_log
  <2> QED
    BY <2>1, DeleteKeeps
<1>2. ASSUME NEW S \in SUBSET Ids, delete_expired_logs(p, S) PROVE LogInv'
  <2>1. /\ Delete(p, S) /\ stray \subseteq stray' /\ \A i \in S : ~InWork(i)
        /\ doomed' = Doomed(p, S) \/ (S \subseteq stray' /\ UNCHANGED doomed)
    BY <1>2 DEF delete_expired_logs, Expired
  <2> QED
    BY <2>1, DeleteKeeps
<1> QED
  BY <1>1, <1>2

LEMMA CrashKeeps ==
    ASSUME LogInv, NEW p \in Procs, Crash(p)
    PROVE  LogInv'
<1>1. /\ job' = [c \in DOMAIN job |-> IF c[1] = p THEN Idle ELSE job[c]]
      /\ stray' = stray \cup UNION doomed[p] /\ doomed' = Put(doomed, p, {})
      /\ UNCHANGED <<status, of, files, endpoint, owed>>
  BY DEF Crash, db
<1>2. /\ job' \in [Cells -> Jobs]
      /\ \A c \in Cells : job'[c] = IF c[1] = p THEN Idle ELSE job[c]
  BY <1>1, IdleType DEF LogInv, Typed
<1>3. /\ doomed' \in [Procs -> SUBSET SUBSET Ids] /\ doomed'[p] = {}
      /\ \A q \in Procs \ {p} : doomed'[q] = doomed[q]
  BY <1>1 DEF LogInv, Typed, Put
<1>4. Typed'
  BY <1>1, <1>2, <1>3 DEF LogInv, Typed
<1>5. RowsOfJobs'
  <2> SUFFICES ASSUME NEW d \in Cells PROVE RowOf(d, job[d])'
    BY DEF RowsOfJobs
  <2>1. RowOf(d, job[d])
    BY DEF LogInv, RowsOfJobs
  <2> QED
    BY <1>1, <1>2, <2>1, IdleType DEF RowOf, Collecting
<1>6. OwnRows'
  BY <1>2, IdleType DEF LogInv, OwnRows
<1>7. RemoteHeld'
  <2> SUFFICES ASSUME NEW r \in remote' PROVE \E c \in Cells : r \in Held(job'[c])
    BY DEF RemoteHeld, Held, Session, Task
  <2>1. r \in remote /\ r[2] \notin {job[p, t].id : t \in Targets}
    BY DEF Crash
  <2>2. PICK c \in Cells : r \in Held(job[c])
    BY <2>1 DEF LogInv, RemoteHeld
  <2>3. r[2] = job[c].id
    BY <2>2 DEF Held, Session, Task
  <2>4. c[1] # p
    <3>1. PICK q \in Procs, t \in Targets : c = <<q, t>>
      BY DEF Cells
    <3> QED
      BY <2>1, <2>3, <3>1
  <2> QED
    BY <1>2, <2>2, <2>4
<1>8. DoomedDeleted' /\ FilesMatchRows'
  <2>1. DoomedDeleted'
    BY <1>1, <1>3 DEF LogInv, DoomedDeleted
  <2>2. \A k \in files' : Exists(k)' \/ k \in stray' \/ \E q \in Procs : k \in UNION doomed'[q]
    BY <1>1, <1>3 DEF LogInv, FilesMatchRows, Exists
  <2> QED
    BY <1>1, <2>1, <2>2 DEF LogInv, FilesMatchRows
<1>9. BundleKept'
  BY <1>1 DEF LogInv, BundleKept, Completed
<1> QED
  BY <1>4, <1>5, <1>6, <1>7, <1>8, <1>9 DEF LogInv

-----------------------------------------------------------------------------
(* The theorems.                                                           *)

LEMMA NextKeeps == LogInv /\ [Next]_vars => LogInv'
<1> SUFFICES ASSUME LogInv, [Next]_vars PROVE LogInv'
  OBVIOUS
<1>1. CASE UNCHANGED vars
  BY <1>1, OthersKeep DEF vars, db
<1>2. CASE RearmPasses
  BY <1>2, OthersKeep DEF RearmPasses
<1>3. ASSUME NEW p \in Procs, Crash(p) PROVE LogInv'
  BY <1>3, CrashKeeps
<1>4. ASSUME NEW p \in Procs, NEW t \in Targets,
             collect_single(p, t) \/ on_alert(p, t) \/ policy_collect(p, t) PROVE LogInv'
  BY <1>4, StartKeeps
<1>5. ASSUME NEW p \in Procs, NEW t \in Targets, JobStep(p, t) PROVE LogInv'
  BY <1>5, CreateKeeps, ConnectKeeps, TaskKeeps, CloseKeeps, UpdateKeeps, PruneKeeps
     DEF JobStep
<1>6. ASSUME NEW p \in Procs,
             \/ \E i \in Ids : delete_collected_log(p, i)
             \/ \E S \in SUBSET Ids : delete_file(p, S) \/ delete_expired_logs(p, S)
      PROVE  LogInv'
  BY <1>6, DeleteFileKeeps, DeletionKeeps
<1>7. ASSUME NEW p \in Api, collect_all(p) \/ bulk_done(p) PROVE LogInv'
  BY <1>7, OthersKeep DEF collect_all, bulk_done, db
<1>8. ASSUME NEW p \in Api, NEW t \in Targets, bulk_collect(p, t) PROVE LogInv'
  BY <1>8, StartKeeps DEF Procs
<1> QED
  BY <1>1, <1>2, <1>3, <1>4, <1>5, <1>6, <1>7, <1>8 DEF Next

\* In every reachable state a collection writes a row of its own, which is its
\* target's and in the state that its stage implies unless the row was deleted
\* under it; what is on a BMC is what a collection at its stage holds there
\* (_collect_from_target, collect_diagnostic_data).
THEOREM LogInvariance == Spec => []LogInv
BY InitLog, NextKeeps, PTL DEF Spec

\* However many processes collect, prune, expire and crash, a completed row has
\* its file and a file a row that leads to it, but for the stated exceptions
\* (_collect_from_target, delete_prior_target_logs, delete_log_api).
THEOREM FilesHaveRows == Spec => []FilesMatchRows
<1>1. LogInv => FilesMatchRows
  BY DEF LogInv
<1> QED
  BY <1>1, LogInvariance, PTL

\* Pruning by concurrent collections of a target, in several processes, never
\* takes its last bundle, unless the row of the collection that prunes is gone
\* (delete_prior_target_logs).
THEOREM LatestBundleKept == Spec => []BundleKept
<1>1. LogInv => BundleKept
  BY DEF LogInv
<1> QED
  BY <1>1, LogInvariance, PTL

\* Every way out of the workflow, errors and timeouts included, deletes the task
\* and the session (collect_diagnostic_data, close).
THEOREM BmcLeftClean == Spec => []NothingLeftBehind
<1>1. LogInv => NothingLeftBehind
  <2> SUFFICES ASSUME LogInv, NEW r \in remote PROVE InWork(r[2])
    BY DEF NothingLeftBehind
  <2>1. PICK c \in Cells : r \in Held(job[c])
    BY DEF LogInv, RemoteHeld
  <2>2. r[2] = job[c].id
    BY <2>1 DEF Held, Session, Task
  <2> QED
    BY <2>2 DEF InWork, Cells
<1> QED
  BY <1>1, LogInvariance, PTL
=============================================================================
