-------------------------- MODULE SystemPlacement --------------------------
(***************************************************************************)
(* Where a system sits in the data hall: the loc_* columns of one row of   *)
(* the targets table, which the inventory enricher of a collector, the     *)
(* connection test, the hostname resolution and the operator all write.    *)
(* Each write reads the row, decides by the trust of the two sources, and  *)
(* then updates the columns that differ from what it has read.  An action  *)
(* is what runs between two awaits.  The row stands for all coordinates by *)
(* its rack.                                                               *)
(***************************************************************************)
EXTENDS Naturals

CONSTANTS
    BmcRacks,         \* what the BMC may say
    OperatorRacks,    \* what an operator may say
    NameRack,         \* what the name of the system decodes to
    DefaultHeight,    \* default_system_height_u
    Heights,          \* what the BMC may derive from its chassis, Nil for nothing
    Refreshed         \* refresh_interval_hours > 0

ASSUME PlacementAssumption == Refreshed \in BOOLEAN

Nil == "nil"
Sources == {Nil, "hostname", "redfish", "manual", "pinned"}
Columns == {"rack", "height", "source"}
\* One that reads the BMC (a pass of the enricher or a connection test), one that
\* decodes the name, one for the operator.
Writers == {"bmc", "resolve", "operator"}

VARIABLES
    row,         \* the columns
    pulled,      \* inventory_updated_at: "never", "fresh" or "stale"
    job,         \* of a writer: where it is, its candidate, whether it is forced,
                 \* the columns it will update
    overtaken,   \* writers that read the row before an operator wrote it
    answering    \* from some time on the database and the BMC answer

placementVars == <<row, pulled, job, overtaken, answering>>

Placement(rack, height, source) == [rack |-> rack, height |-> height, source |-> source]

Empty == Placement(Nil, Nil, Nil)
NoJob == [pc |-> "idle", cand |-> Empty, force |-> FALSE, upd |-> << >>]

PlacementInit ==
    /\ row = Empty /\ pulled = "never" /\ job = [w \in Writers |-> NoJob]
    /\ overtaken = {} /\ answering = FALSE

Goto(w, pc) == job' = [job EXCEPT ![w].pc = pc]
Ends(w) == job' = [job EXCEPT ![w] = NoJob]

NamePlacement == Placement(NameRack, DefaultHeight, "hostname")
BmcPlacement(rack, height) == Placement(rack, height, "redfish")

(***************************************************************************)
(* The writers                                                             *)
(***************************************************************************)
\* Mutant: a system is looked at once.
is_due_once == pulled = "never"

is_due == pulled = "never" \/ (Refreshed /\ pulled = "stale")

\* A pass of the enricher opens a session with the BMC.
run_pass ==
    /\ job["bmc"].pc = "idle" /\ is_due /\ Goto("bmc", "collect")
    /\ UNCHANGED <<row, pulled, overtaken, answering>>

\* So does a connection test, and a pass that comes for the metric reports of the
\* system (_needs_discovery).
test_target_connection ==
    /\ job["bmc"].pc = "idle" /\ Goto("bmc", "collect")
    /\ UNCHANGED <<row, pulled, overtaken, answering>>

\* What the BMC says: a placement, a height alone, neither, or nothing at all.
collect_inventory ==
    /\ job["bmc"].pc = "collect"
    /\ \/ \E r \in BmcRacks, h \in Heights :
             job' = [job EXCEPT !["bmc"].pc = "inventory", !["bmc"].cand = BmcPlacement(r, h)]
       \/ /\ ~answering
          /\ \/ \E h \in Heights \cup {Nil} :
                   job' = [job EXCEPT !["bmc"].pc = "inventory",
                                      !["bmc"].cand = BmcPlacement(Nil, h)]
             \/ Ends("bmc")
    /\ UNCHANGED <<row, pulled, overtaken, answering>>

\* The inventory is stored first, the placement or the height then.
set_target_inventory ==
    /\ job["bmc"].pc = "inventory"
    /\ \/ /\ pulled' = "fresh"
          /\ IF job["bmc"].cand.rack = Nil /\ job["bmc"].cand.height = Nil
             THEN Ends("bmc") ELSE Goto("bmc", "read")
       \/ ~answering /\ Ends("bmc") /\ UNCHANGED pulled
    /\ UNCHANGED <<row, overtaken, answering>>

\* The name of the system decodes: at its creation and on request.
resolve_placements ==
    /\ job["resolve"].pc = "idle"
    /\ job' = [job EXCEPT !["resolve"] =
                 [NoJob EXCEPT !.pc = "read", !.cand = NamePlacement]]
    /\ UNCHANGED <<row, pulled, overtaken, answering>>

\* The operator places the system, against any other source.
set_placement ==
    /\ job["operator"].pc = "idle"
    /\ \E r \in OperatorRacks :
          job' = [job EXCEPT !["operator"] = [NoJob EXCEPT !.pc = "read", !.force = TRUE,
                                                !.cand = Placement(r, DefaultHeight, "manual")]]
    /\ UNCHANGED <<row, pulled, overtaken, answering>>

\* The import of a file that says where the new system is: its name was decoded
\* just before, and the precedence holds here too.
import_placement ==
    /\ job["operator"].pc = "idle" /\ row.source \in {Nil, "hostname"}
    /\ \E r \in OperatorRacks :
          job' = [job EXCEPT !["operator"] = [NoJob EXCEPT !.pc = "read",
                                                !.cand = Placement(r, Nil, "manual")]]
    /\ UNCHANGED <<row, pulled, overtaken, answering>>

clear_target_location ==
    /\ job["operator"].pc = "idle"
    /\ job' = [job EXCEPT !["operator"] = [NoJob EXCEPT !.pc = "read", !.force = TRUE,
                                                       !.cand = Placement(Nil, Nil, "pinned")]]
    /\ UNCHANGED <<row, pulled, overtaken, answering>>

(***************************************************************************)
(* One write                                                               *)
(***************************************************************************)
source_rank(s) == CASE s = Nil -> 0 [] s = "hostname" -> 1 [] s = "redfish" -> 2
                    [] s = "manual" -> 3 [] s = "pinned" -> 4

\* Mutant: a system that was cleared counts as one that was never placed.
should_overwrite_cleared(old, new) == old = "pinned" \/ source_rank(new) >= source_rank(old)

should_overwrite(old, new) == source_rank(new) >= source_rank(old)

\* The columns the session finds changed, of the height alone if no coordinate
\* is known.
Changes(w) ==
    LET all  == job[w].cand
        cols == IF all.rack = Nil /\ all.source = "redfish" THEN {"height"} ELSE Columns
    IN  [c \in {k \in cols : all[k] # row[k]} |-> all[c]]

\* The row is read and the write decided.
set_target_location(w) ==
    /\ job[w].pc = "read"
    /\ IF job[w].force \/ should_overwrite(row.source, job[w].cand.source)
       THEN job' = [job EXCEPT ![w].pc = "commit", ![w].upd = Changes(w)]
       ELSE Ends(w)
    /\ overtaken' = overtaken \ {w}
    /\ UNCHANGED <<row, pulled, answering>>

\* The update, by the key alone; or the database is locked and the whole write
\* is tried again; or it fails.
Commit(w) ==
    /\ job[w].pc = "commit"
    /\ \/ /\ row' = [c \in Columns |-> IF c \in DOMAIN job[w].upd THEN job[w].upd[c] ELSE row[c]]
          /\ Ends(w)
          /\ overtaken' = IF w = "operator"
                          THEN {v \in Writers \ {w} : job[v].pc = "commit"} \cup overtaken
                          ELSE overtaken \ {w}
       \/ ~answering /\ Goto(w, "read") /\ UNCHANGED <<row, overtaken>>
       \/ ~answering /\ Ends(w) /\ overtaken' = overtaken \ {w} /\ UNCHANGED row
    /\ UNCHANGED <<pulled, answering>>

InventoryAges ==
    /\ pulled = "fresh" /\ pulled' = "stale"
    /\ UNCHANGED <<row, job, overtaken, answering>>

PlacementCalms == ~answering /\ answering' = TRUE /\ UNCHANGED <<row, pulled, job, overtaken>>

WriterStep(w) ==
    \/ set_target_location(w) \/ Commit(w)
    \/ w = "bmc" /\ (collect_inventory \/ set_target_inventory)

PlacementNext ==
    \/ run_pass \/ test_target_connection \/ resolve_placements
    \/ set_placement \/ import_placement \/ clear_target_location \/ InventoryAges \/ PlacementCalms
    \/ \E w \in Writers : WriterStep(w)

\* The enricher goes on, every request ends, and time passes.
PlacementFair ==
    /\ WF_placementVars(run_pass) /\ WF_placementVars(InventoryAges)
    /\ \A w \in Writers : WF_placementVars(WriterStep(w))

PlacementSpec == PlacementInit /\ [][PlacementNext]_placementVars /\ PlacementFair

(***************************************************************************)
(* Properties                                                              *)
(***************************************************************************)
PlacementTypeOK ==
    /\ row.source \in Sources /\ row.rack \in BmcRacks \cup OperatorRacks \cup {NameRack, Nil}
    /\ pulled \in {"never", "fresh", "stale"} /\ overtaken \subseteq Writers

\* What an operator has set or cleared is changed by an operator, or by a write
\* that had read the row before the operator's was committed: no write that
\* starts later, from whatever source, touches any column of it
\* (set_target_location, set_target_height, should_overwrite).
OperatorPlacementKept ==
    [][row.source \in {"manual", "pinned"} /\ row' # row =>
          \E w \in overtaken \cup {"operator"} : job[w].pc = "commit" /\ job'[w].pc = "idle"]_placementVars

\* Once the BMC and the database answer, the row ends up with a placement from
\* the BMC or an operator and keeps one, though a pass may have stored the
\* inventory and failed to store the placement, and a resolution begun earlier
\* may still write what it took for an unplaced system (_is_due,
\* apply_inventory).
PlacementSettles ==
    <>answering => <>[](source_rank(row.source) >= source_rank("redfish"))
=============================================================================
