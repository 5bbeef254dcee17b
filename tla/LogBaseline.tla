---------------------------- MODULE LogBaseline ----------------------------
(***************************************************************************)
(* The baseline pull: the entries of a BMC's log, read once and then again *)
(* from a cursor on.  One target and one log collection; the collectors    *)
(* share the cursor, which two of them use at once when the target moves.  *)
(* An action is what runs between two awaits.                              *)
(***************************************************************************)
EXTENDS Naturals, FiniteSets

CONSTANTS
    Procs,         \* the collectors
    Events,        \* the entries the BMC may log
    Created,       \* Created[e]: the time of an entry; 0 when it has none
    Form,          \* Form[e]: how the listing shows it: "full", "undated", "ref"
    Unwanted,      \* entries whose severity is not in the allow-list
    NewestFirst,   \* the order in which the BMC lists its log
    MaxEntries     \* baseline_max_entries_per_log

ASSUME BaselineAssumption ==
    /\ Created \in [Events -> Nat]
    /\ Form \in [Events -> {"full", "undated", "ref"}]
    /\ \A e \in Events : Form[e] = "full" => Created[e] > 0
    /\ Unwanted \subseteq Events /\ NewestFirst \in BOOLEAN
    /\ MaxEntries \in Nat \ {0}

VARIABLES
    log,       \* log[e]: the place of e in the BMC's log; 0 when it is not there
    pull,      \* the pull of each collector: its place and its locals
    cursor,    \* log_cursors.last_created; 0 when there is none
    calm,      \* from now on the BMC and the store answer
    stored,    \* the undated entries in the alerts table, by their identity
    handed,    \* history: the alerts given to the callback
    passed     \* history: entries a cursor left behind unread

vars == <<log, pull, cursor, calm, stored, handed, passed>>

Put(f, p, v) == [f EXCEPT ![p] = v]

Idle == [at |-> "idle", cursor |-> 0, todo |-> {}, newest |-> 0, skip |-> {}, old |-> 0]

Init == /\ log = [e \in Events |-> 0] /\ pull = [p \in Procs |-> Idle] /\ cursor = 0 /\ calm = FALSE
        /\ stored = {} /\ handed = {} /\ passed = {}

(***************************************************************************)
(* The BMC, whose clock does not go back, and the alerts table             *)
(***************************************************************************)
Logged == {e \in Events : log[e] > 0}

LogEntry(e) ==
    /\ e \notin Logged
    /\ Created[e] > 0 => \A f \in Logged : Created[f] <= Created[e]
    /\ log' = Put(log, e, Cardinality(Logged) + 1)
    /\ UNCHANGED <<pull, cursor, calm, stored, handed, passed>>

\* An undated alert is written, or its row reaches the retention age.
StoreChanges(e) ==
    /\ [ev |-> e, dated |-> FALSE] \in handed
    /\ stored' = IF e \in stored THEN stored \ {e} ELSE stored \cup {e}
    /\ UNCHANGED <<log, pull, cursor, calm, handed, passed>>

(***************************************************************************)
(* One pull                                                                *)
(***************************************************************************)
get_log_cursor(p) ==
    /\ pull[p].at = "idle"
    /\ pull' = Put(pull, p, [Idle EXCEPT !.at = "list", !.cursor = cursor])
    /\ UNCHANGED <<log, cursor, calm, stored, handed, passed>>

ListedTime(e) == IF Form[e] = "full" THEN Created[e] ELSE 0

\* Entries listed with their time come before the others, each kind newest first.
Before(e, f) == \/ ListedTime(e) > ListedTime(f)
                \/ ListedTime(e) = ListedTime(f) /\ log[e] > log[f]

\* The first MaxEntries in that order.
order_members_newest_first(members) ==
    {e \in members : Cardinality({f \in members : Before(f, e)}) < MaxEntries}

\* The first n entries of the listing: the pages read before one failed or
\* the budget was used up.
Pages(n) == {e \in Logged : IF NewestFirst THEN log[e] > Cardinality(Logged) - n
                             ELSE log[e] <= n}

collect_members(p) ==
    /\ pull[p].at = "list"
    /\ \E n \in 0..Cardinality(Logged) :
          LET todo == order_members_newest_first(Pages(n))
          IN  /\ calm => Pages(n) = Logged
              /\ pull' = Put(pull, p, [pull[p] EXCEPT !.at = "read", !.todo = todo,
                                          !.skip = Logged \ todo])
    /\ UNCHANGED <<log, cursor, calm, stored, handed, passed>>

\* Mutant: an entry of the cursor's own second counts as seen.
Older_or_equal(t, c) == c > 0 /\ t > 0 /\ t <= c

Older(t, c) == c > 0 /\ t > 0 /\ t < c

alert_source_seen(e) == e \in stored

Known(p, e) == \/ Older(ListedTime(e), pull[p].cursor)
               \/ ListedTime(e) = 0 /\ alert_source_seen(e)

\* e is the next entry of the pull.
AtEntry(p, e) == /\ pull[p].at = "read" /\ e \in pull[p].todo
                 /\ \A f \in pull[p].todo \ {e} : Before(e, f)

Without(p, e) == [pull[p] EXCEPT !.todo = @ \ {e}]

\* An entry is not fetched when the listing or the table shows it is old.
SkipKnown(p, e) ==
    /\ AtEntry(p, e) /\ Known(p, e)
    /\ pull' = Put(pull, p, Without(p, e))
    /\ UNCHANGED <<log, cursor, calm, stored, handed, passed>>

severity_allowed(e) == e \notin Unwanted

\* The entry, as the listing or the GET gave it, with time t (0: none).
Read(p, e, t) ==
    /\ IF Older(t, pull[p].cursor)
       THEN pull' = Put(pull, p, Without(p, e)) /\ UNCHANGED handed
       ELSE /\ pull' = Put(pull, p, [Without(p, e) EXCEPT !.newest = IF t > @ THEN t ELSE @])
            /\ handed' = IF severity_allowed(e)
                         THEN handed \cup {[ev |-> e, dated |-> t > 0]} ELSE handed
    /\ UNCHANGED <<log, cursor, calm, stored, passed>>

pull_collection(p, e) == AtEntry(p, e) /\ ~Known(p, e) /\ Read(p, e, Created[e])

\* A GET that fails: an entry listed without its time is used as it is, a mere
\* reference is skipped.
FetchFails(p, e) ==
    /\ ~calm /\ AtEntry(p, e) /\ ~Known(p, e)
    /\ \/ Form[e] = "undated" /\ Read(p, e, 0)
       \/ /\ Form[e] = "ref"
          /\ pull' = Put(pull, p, [Without(p, e) EXCEPT !.skip = @ \cup {e}])
          /\ UNCHANGED <<log, cursor, calm, stored, handed, passed>>

\* Without a new time there is nothing to store, else the stored cursor is
\* read before it is written.
EndOfPull(p) == IF pull[p].newest = 0 THEN Idle
                ELSE [pull[p] EXCEPT !.at = "set", !.old = cursor]

ReadCursor(p) ==
    /\ pull[p].at = "read" /\ pull[p].todo = {}
    /\ pull' = Put(pull, p, EndOfPull(p))
    /\ UNCHANGED <<log, cursor, calm, stored, handed, passed>>

\* The value read decides whether there is an advance; when there was no row and
\* another collector has inserted one, the newer of the two is kept.
set_log_cursor(p) ==
    /\ pull[p].at = "set"
    /\ LET new == pull[p].newest
           old == IF pull[p].old = 0 THEN cursor ELSE pull[p].old
       IN  /\ cursor' = IF new > old THEN new ELSE cursor
           /\ passed' = passed \cup {e \in pull[p].skip : Created[e] < new}
    /\ pull' = Put(pull, p, Idle)
    /\ UNCHANGED <<log, calm, stored, handed>>

\* A failure of the store, a cancelled pull, or a crash: no cursor is written.
PullFails(p) ==
    /\ ~calm /\ pull[p].at # "idle"
    /\ pull' = Put(pull, p, Idle)
    /\ UNCHANGED <<log, cursor, calm, stored, handed, passed>>

CalmDown == /\ ~calm /\ calm' = TRUE
            /\ UNCHANGED <<log, pull, cursor, stored, handed, passed>>

pull_baseline_alerts(p) ==
    \/ get_log_cursor(p) \/ collect_members(p) \/ ReadCursor(p) \/ set_log_cursor(p)
    \/ \E e \in Events : SkipKnown(p, e) \/ pull_collection(p, e) \/ FetchFails(p, e)

Next ==
    \/ CalmDown \/ \E e \in Events : LogEntry(e) \/ StoreChanges(e)
    \/ \E p \in Procs : pull_baseline_alerts(p) \/ PullFails(p)

Spec == Init /\ [][Next]_vars

\* The re-pull loop comes round again, and requests end by their timeouts.
FairSpec == Spec /\ \A p \in Procs : WF_vars(pull_baseline_alerts(p))

(***************************************************************************)
(* Properties                                                              *)
(***************************************************************************)
TypeOK ==
    /\ log \in [Events -> 0..Cardinality(Events)] /\ cursor \in {Created[e] : e \in Events} \cup {0}
    /\ \A p \in Procs :
          /\ pull[p].at \in {"idle", "list", "read", "set"}
          /\ pull[p].todo \cup pull[p].skip \subseteq Events
          /\ Cardinality(pull[p].todo) <= MaxEntries
    /\ calm \in BOOLEAN /\ handed \subseteq [ev : Events, dated : BOOLEAN]
    /\ stored \subseteq Events /\ passed \subseteq Events

Handed(e) == \E a \in handed : a.ev = e

\* The cursor passes an entry only after a pull has handed it over, has seen
\* that it is not wanted, or could not read it: with two pulls at a time, new
\* entries in the second of the cursor and pulls that end early, no other
\* entry is left behind for good (_pull_collection, set_log_cursor).
CursorPassesOnlyRead ==
    \A e \in Logged \ Unwanted :
        0 < Created[e] /\ Created[e] < cursor => Handed(e) \/ e \in passed

\* Once the BMC and the store answer, every wanted entry of the log is handed
\* over in the end, unless a cursor passed it unread or the log holds more
\* entries than a pull looks at (_baseline_repull_loop, pull_baseline_alerts).
EntriesEventuallyRead ==
    calm ~> \A e \in Logged \ Unwanted :
                Handed(e) \/ e \in passed \/ Cardinality(Logged) > MaxEntries

\* The cursor is a high-water mark.  It is not: two pulls that read it before
\* either writes can set it back (repository.py 2109-2119).
CursorMonotone == [][cursor' >= cursor]_vars
=============================================================================
