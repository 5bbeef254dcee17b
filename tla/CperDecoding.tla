---------------------------- MODULE CperDecoding ----------------------------
(***************************************************************************)
(* The workers that fetch and decode the CPER attachments of alerts.  Every *)
(* collector runs one, and nothing in the alerts table says that a row is  *)
(* being worked on.  An action is what runs between two awaits; any delay  *)
(* between them is possible, and waiting for the semaphores that bound the *)
(* fetches of a worker is one.                                             *)
(***************************************************************************)
EXTENDS Naturals, FiniteSets, TLC

CONSTANTS
    Workers,         \* one per collector
    Alerts,          \* numbered in the order of occurred_at
    MaxAttempts,     \* max_attempts
    DecodeBatch      \* batch_size

ASSUME CperAssumption ==
    /\ Alerts \subseteq Nat
    /\ {MaxAttempts, DecodeBatch} \subseteq Nat \ {0}

Ages == {"fresh", "cooled", "stale"}
Gone == "gone"

VARIABLES
    status,    \* cper_status; "gone" before the alert is stored and once it is deleted
    attempts,  \* cper_attempts
    blob,      \* cper_decoded is there
    age,       \* of cper_attempted_at: within the cooldown, past it, past the
               \* interval of the retries of failed rows
    at,        \* where the loop of a worker is: "sleep", "requeue", "finalize",
               \* "select" or "batch"
    chosen,    \* the ids requeue_failed_cper has selected
    rows,      \* the batch: what was read of each row, and its outcome
    calm       \* from some time on no worker restarts and no write fails

table == <<status, attempts, blob, age>>
decodeVars == <<status, attempts, blob, age, at, chosen, rows, calm>>

With(f, p, v) == [f EXCEPT ![p] = v]

DecodeInit ==
    /\ status = [a \in Alerts |-> Gone] /\ attempts = [a \in Alerts |-> 0]
    /\ blob = [a \in Alerts |-> FALSE] /\ age = [a \in Alerts |-> "stale"]
    /\ at = [w \in Workers |-> "sleep"] /\ chosen = [w \in Workers |-> {}]
    /\ rows = [w \in Workers |-> << >>] /\ calm = FALSE

(***************************************************************************)
(* The table                                                               *)
(***************************************************************************)
\* An alert that refers to a CPER attachment is stored (_cper_eligible).
AlertStored(a) ==
    /\ status[a] = Gone /\ ~blob[a] /\ attempts[a] = 0
    /\ status' = With(status, a, "pending")
    /\ UNCHANGED <<attempts, blob, age, at, chosen, rows, calm>>

\* The attempts of a row that is deleted stay at 1: an alert is stored once.
AlertDeleted(a) ==
    /\ status[a] # Gone
    /\ status' = With(status, a, Gone) /\ attempts' = With(attempts, a, 1)
    /\ blob' = With(blob, a, FALSE) /\ age' = With(age, a, "stale")
    /\ UNCHANGED <<at, chosen, rows, calm>>

TimePasses ==
    /\ \E a \in Alerts : age[a] # "stale"
    /\ age' = [a \in Alerts |-> IF age[a] = "fresh" THEN "cooled" ELSE "stale"]
    /\ UNCHANGED <<status, attempts, blob, at, chosen, rows, calm>>

(***************************************************************************)
(* The loop of a worker                                                    *)
(***************************************************************************)
\* The sleep is over, and the maintenance is due or not.
Wake(w) ==
    /\ at[w] = "sleep"
    /\ \E next \in {"requeue", "select"} : at' = With(at, w, next)
    /\ UNCHANGED <<table, chosen, rows, calm>>

\* Mutant: rows whose attachment is gone are tried again too.
Requeueable_all == {a \in Alerts : status[a] \in {"fetch_failed", "unavailable"} /\ age[a] = "stale"}

Requeueable == {a \in Alerts : status[a] = "fetch_failed" /\ age[a] = "stale"}

\* The ids are selected first and updated then, whatever became of the rows.
requeue_failed_cper(w) ==
    /\ at[w] = "requeue"
    /\ \/ /\ chosen[w] = {} /\ Requeueable # {}
          /\ \E S \in SUBSET Requeueable :
                /\ Cardinality(S) = IF Cardinality(Requeueable) < DecodeBatch
                                    THEN Cardinality(Requeueable) ELSE DecodeBatch
                /\ chosen' = With(chosen, w, S)
          /\ UNCHANGED <<status, attempts, at>>
       \/ /\ chosen[w] = {} /\ Requeueable = {}
          /\ at' = With(at, w, "finalize")
          /\ UNCHANGED <<status, attempts, chosen>>
       \/ /\ chosen[w] # {}
          /\ LET S == {a \in chosen[w] : status[a] # Gone}
             IN  /\ status' = [a \in Alerts |-> IF a \in S THEN "pending" ELSE status[a]]
                 /\ attempts' = [a \in Alerts |-> IF a \in S THEN 0 ELSE attempts[a]]
          /\ chosen' = With(chosen, w, {}) /\ at' = With(at, w, "finalize")
    /\ UNCHANGED <<blob, age, rows, calm>>

\* Mutant: rows out of attempts are left to get_pending_cper_alerts.
Exhausted_none(a) == FALSE

Exhausted(a) == status[a] = "pending" /\ attempts[a] >= MaxAttempts

finalize_exhausted_cper(w) ==
    /\ at[w] = "finalize"
    /\ status' = [a \in Alerts |-> IF Exhausted(a) THEN "fetch_failed" ELSE status[a]]
    /\ at' = With(at, w, "select")
    /\ UNCHANGED <<attempts, blob, age, chosen, rows, calm>>

Pending ==
    {a \in Alerts : status[a] = "pending" /\ attempts[a] < MaxAttempts /\ age[a] # "fresh"}

\* The oldest of them, with what the worker needs to know.
get_pending_cper_alerts(w) ==
    /\ at[w] = "select"
    /\ LET S == {a \in Pending : Cardinality({b \in Pending : b < a}) < DecodeBatch}
       IN  /\ rows' = With(rows, w, [a \in S |-> [attempts |-> attempts[a], has |-> blob[a],
                                                 out |-> "waiting"]])
           /\ at' = With(at, w, IF S = {} THEN "sleep" ELSE "batch")
    /\ UNCHANGED <<table, chosen, calm>>

\* What an attempt may end with: the record that is there is summarised again;
\* else the attachment is fetched and decoded.  It is unavailable when the BMC
\* says so and when the target has been removed; an exception that nothing
\* foresees counts as a failed decoding.
Outcomes(a, r) ==
    IF r.has /\ blob[a] THEN {"decoded", "decode_error"}
    ELSE {"decoded", "unavailable", "fetch_error", "decode_error"}

enrich_one(w, a) ==
    /\ at[w] = "batch" /\ a \in DOMAIN rows[w] /\ rows[w][a].out = "waiting"
    /\ \E o \in Outcomes(a, rows[w][a]) :
          rows' = With(rows, w, [rows[w] EXCEPT ![a].out = o])
    /\ UNCHANGED <<table, at, chosen, calm>>

Failed(r) == r.out \in {"fetch_error", "decode_error"}

Increment(r) == IF Failed(r) THEN 1 ELSE 0

\* The status a worker derives from the attempts it has read.
NewStatus(r) ==
    IF ~Failed(r) THEN r.out
    ELSE IF r.attempts + 1 < MaxAttempts THEN "pending"
    ELSE IF r.out = "fetch_error" THEN "fetch_failed" ELSE "decode_failed"

\* All outcomes in one transaction, a savepoint each: the rows W are written,
\* the others fail, all of them if the transaction does.
set_cper_results_batch(w, W) ==
    /\ at[w] = "batch" /\ \A a \in DOMAIN rows[w] : rows[w][a].out # "waiting"
    /\ LET done == {a \in W : status[a] # Gone}
       IN  /\ status' = [a \in Alerts |-> IF a \in done THEN NewStatus(rows[w][a]) ELSE status[a]]
           /\ attempts' = [a \in Alerts |->
                              attempts[a] + IF a \in done THEN Increment(rows[w][a]) ELSE 0]
           /\ blob' = [a \in Alerts |-> blob[a] \/ (a \in done /\ rows[w][a].out = "decoded")]
           /\ age' = [a \in Alerts |-> IF a \in done THEN "fresh" ELSE age[a]]
    /\ at' = With(at, w, "sleep") /\ rows' = With(rows, w, << >>)
    /\ UNCHANGED <<chosen, calm>>

AllWritten(w) == set_cper_results_batch(w, DOMAIN rows[w])

\* stop(), a crash or a failing statement, and the start of a round that knows
\* nothing of the batch.
Restart(w) ==
    /\ ~calm /\ at[w] # "sleep"
    /\ at' = With(at, w, "sleep") /\ rows' = With(rows, w, << >>) /\ chosen' = With(chosen, w, {})
    /\ UNCHANGED <<table, calm>>

CalmDown == ~calm /\ calm' = TRUE /\ UNCHANGED <<table, at, chosen, rows>>

WorkerStep(w) ==
    \/ Wake(w) \/ requeue_failed_cper(w) \/ finalize_exhausted_cper(w)
    \/ get_pending_cper_alerts(w) \/ AllWritten(w)
    \/ \E a \in Alerts : enrich_one(w, a)

DecodeNext ==
    \/ TimePasses \/ CalmDown
    \/ \E a \in Alerts : AlertStored(a) \/ AlertDeleted(a)
    \/ \E w \in Workers :
          \/ WorkerStep(w) \/ Restart(w)
          \/ ~calm /\ \E W \in SUBSET DOMAIN rows[w] : set_cper_results_batch(w, W)

DecodeSpec == DecodeInit /\ [][DecodeNext]_decodeVars

\* A worker goes on, its fetches have timeouts, and the maintenance, whose time
\* comes again and again, is run.
DecodeFairSpec ==
    /\ DecodeSpec /\ WF_decodeVars(TimePasses)
    /\ \A w \in Workers : /\ WF_decodeVars(WorkerStep(w))
                          /\ SF_decodeVars(Wake(w) /\ at'[w] = "requeue")

(***************************************************************************)
(* Properties                                                              *)
(***************************************************************************)
Terminal == {"decoded", "unavailable", "decode_failed"}

Holders(a) == {w \in Workers : a \in DOMAIN rows[w] \cup chosen[w]}

DecodeTypeOK ==
    /\ status \in [Alerts -> {Gone, "pending", "fetch_failed"} \cup Terminal]
    /\ attempts \in [Alerts -> Nat] /\ blob \in [Alerts -> BOOLEAN] /\ age \in [Alerts -> Ages]
    /\ at \in [Workers -> {"sleep", "requeue", "finalize", "select", "batch"}]
    /\ \A w \in Workers : /\ Cardinality(DOMAIN rows[w]) <= DecodeBatch
                          /\ chosen[w] \subseteq Alerts
                          /\ at[w] = "batch" <=> rows[w] # << >>

\* A row that is decoded, that failed to decode or whose attachment is gone is
\* not taken again, and unless a worker had taken it before it keeps its
\* status: the retries are for failed fetches only (requeue_failed_cper,
\* get_pending_cper_alerts).
TerminalFinal ==
    [][\A a \in Alerts :
          status[a] \in Terminal =>
             /\ Holders(a)' \subseteq Holders(a)
             /\ Holders(a) = {} => status'[a] \in {status[a], Gone}]_decodeVars

\* No row stays pending, even one that two workers have counted past the limit
\* without either giving it a final status (finalize_exhausted_cper) or one
\* whose attempts are cut off by restarts.
PendingEnds ==
    \A a \in Alerts : (calm /\ status[a] = "pending") ~> status[a] # "pending"
=============================================================================
