------------------------- MODULE LogBaselineProofs -------------------------
(***************************************************************************)
(* Proofs about LogBaseline, for any number of collectors, any entries,    *)
(* times and listings, either order of the log and any limit of a pull.    *)
(***************************************************************************)
EXTENDS LogBaseline, FiniteSetTheorems, TLAPS

USE BaselineAssumption

-----------------------------------------------------------------------------
(* The inductive invariant.                                                *)

Pulls == [at : {"idle", "list", "read", "set"}, cursor : Nat, todo : SUBSET Events,
          newest : Nat, skip : SUBSET Events, old : Nat]

Typed ==
    /\ log \in [Events -> Nat] /\ IsFiniteSet(Logged)
    /\ pull \in [Procs -> Pulls] /\ cursor \in Nat

\* Rows come from alerts that were handed over.
StoredHanded == \A e \in stored : Handed(e)

Accounted(e) == Handed(e) \/ e \in passed

\* The time c is that of a logged entry at most, so that what is logged from
\* now on is not older.
Reached(c) == c = 0 \/ \E f \in Logged : c <= Created[f]

\* No wanted entry older than c is lost.
Covered(c) == \A e \in Logged \ Unwanted :
                  0 < Created[e] /\ Created[e] < c => Accounted(e)

\* What the locals q of a pull say about a wanted entry: it is still to be read, or
\* was not readable, or needs no reading, or is newer than all the pull has seen.
LeftTo(q, e) ==
    \/ e \in q.todo \/ e \in q.skip \/ Accounted(e) \/ Created[e] = 0
    \/ Created[e] >= q.newest /\ \A f \in q.todo : Created[e] >= Created[f]

\* What holds of the locals q of a pull.  A pull may use an older cursor than the
\* stored one, and store one that is older still.
PullOK(q) ==
    /\ Reached(q.cursor) /\ Covered(q.cursor) /\ Reached(q.newest)
    /\ q.todo \subseteq Logged
    /\ q.at \in {"read", "set"} => \A e \in Logged \ Unwanted : LeftTo(q, e)
    /\ q.at = "set" => q.todo = {}

BaselineInv ==
    /\ Typed /\ StoredHanded /\ Reached(cursor) /\ Covered(cursor)
    /\ \A p \in Procs : PullOK(pull[p])

-----------------------------------------------------------------------------
(* What a step of a pull leaves alone.                                     *)

LEMMA IdleType == Idle \in Pulls
BY DEF Idle, Pulls

LEMMA PutPull ==
    ASSUME Typed, NEW p \in Procs, NEW q \in Pulls, pull' = Put(pull, p, q)
    PROVE  /\ pull' \in [Procs -> Pulls] /\ pull'[p] = q
           /\ \A r \in Procs \ {p} : pull'[r] = pull[r]
BY DEF Typed, Put

\* While nothing is logged, what is handed over or passed stays so.
LEMMA AccountedKept ==
    ASSUME UNCHANGED log, handed \subseteq handed', passed \subseteq passed'
    PROVE  /\ Logged' = Logged /\ \A e \in Events : Accounted(e) => Accounted(e)'
           /\ \A e \in Events : Handed(e) => Handed(e)'
           /\ \A c \in Nat : Reached(c) => Reached(c)'
           /\ \A c \in Nat : Covered(c) => Covered(c)'
           /\ \A q \in Pulls : PullOK(q) => PullOK(q)'
<1>1. Logged' = Logged
  BY DEF Logged
<1>2. \A e : Handed(e) => Handed(e)'
  BY DEF Handed
<1>3. \A e : Accounted(e) => Accounted(e)'
  BY <1>2 DEF Accounted
<1>4. \A c : Reached(c) => Reached(c)'
  BY <1>1 DEF Reached
<1>5. \A c : Covered(c) => Covered(c)'
  BY <1>1, <1>3 DEF Covered
<1>6. \A q, e : LeftTo(q, e) => LeftTo(q, e)'
  BY <1>3 DEF LeftTo
<1>7. \A q : PullOK(q) => PullOK(q)'
  BY <1>1, <1>4, <1>5, <1>6 DEF PullOK
<1> QED
  BY <1>1, <1>2, <1>3, <1>4, <1>5, <1>7

\* A step of one pull, which becomes q.
LEMMA PullMoves ==
    ASSUME BaselineInv, NEW p \in Procs, NEW q \in Pulls, pull' = Put(pull, p, q),
           UNCHANGED <<log, stored>>, handed \subseteq handed', passed \subseteq passed',
           cursor' \in Nat, Reached(cursor)', Covered(cursor)', PullOK(q)'
    PROVE  BaselineInv'
<1>1. /\ pull' \in [Procs -> Pulls] /\ pull'[p] = q
      /\ \A r \in Procs \ {p} : pull'[r] = pull[r]
  BY PutPull DEF BaselineInv
<1>2. Typed'
  BY <1>1 DEF BaselineInv, Typed, Logged
<1>3. StoredHanded'
  BY DEF BaselineInv, StoredHanded, Handed
<1>4. PullOK(pull[p])'
  BY <1>1 DEF PullOK, Reached, Covered, LeftTo
<1>5. \A r \in Procs \ {p} : PullOK(pull[r])'
  BY <1>1, AccountedKept DEF BaselineInv, Typed
<1> QED
  BY <1>1, <1>2, <1>3, <1>4, <1>5 DEF BaselineInv

-----------------------------------------------------------------------------
(* The actions.                                                            *)

LEMMA InitBaseline == Init => BaselineInv
<1> SUFFICES ASSUME Init PROVE BaselineInv
  OBVIOUS
<1>1. Logged = {} /\ IsFiniteSet({})
  BY FS_EmptySet DEF Init, Logged
<1>2. Typed
  BY <1>1, IdleType DEF Init, Typed
<1>3. PullOK(Idle)
  BY <1>1 DEF PullOK, Reached, Covered, Idle
<1> QED
  BY <1>1, <1>2, <1>3 DEF Init, BaselineInv, StoredHanded, Reached, Covered

\* What is logged now is not older than what the pulls and the cursor have seen.
LEMMA LogEntryKeeps ==
    ASSUME BaselineInv, NEW e \in Events, LogEntry(e)
    PROVE  BaselineInv'
<1>1. Cardinality(Logged) \in Nat
  BY FS_CardinalityType DEF BaselineInv, Typed
<1>2. /\ log' \in [Events -> Nat] /\ Logged' = Logged \cup {e} /\ e \notin Logged
      /\ UNCHANGED <<pull, cursor, stored, handed, passed>>
      /\ Created[e] > 0 => \A f \in Logged : Created[f] <= Created[e]
  BY <1>1 DEF LogEntry, Logged, Put, BaselineInv, Typed
<1>3. Typed'
  BY <1>2, FS_AddElement DEF BaselineInv, Typed
<1>4. StoredHanded' /\ \A f : Accounted(f)' <=> Accounted(f)
  BY <1>2 DEF BaselineInv, StoredHanded, Handed, Accounted
<1>5. \A c : Reached(c) => Reached(c)'
  BY <1>2 DEF Reached
<1>6. ASSUME NEW c \in Nat, Reached(c), Covered(c) PROVE Covered(c)'
  <2>1. Created[e] > 0 => ~(Created[e] < c)
    BY <1>2, <1>6 DEF Reached, Logged
  <2> QED
    BY <1>2, <1>4, <1>6, <2>1 DEF Covered
<1>7. ASSUME NEW q \in Pulls, PullOK(q) PROVE PullOK(q)'
  <2>1. q.cursor \in Nat /\ q.newest \in Nat /\ q.todo \subseteq Logged
    BY <1>7 DEF Pulls, PullOK
  <2>2. Reached(q.cursor)' /\ Covered(q.cursor)' /\ Reached(q.newest)'
    BY <1>5, <1>6, <1>7, <2>1 DEF PullOK
  <2>3. \A f \in Logged : LeftTo(q, f) => LeftTo(q, f)'
    BY <1>4 DEF LeftTo
  <2>4. LeftTo(q, e)'
    <3>1. Created[e] > 0 => Created[e] >= q.newest
      BY <1>2, <1>7, <2>1 DEF PullOK, Reached, Logged
    <3>2. Created[e] > 0 => \A f \in q.todo : Created[e] >= Created[f]
      BY <1>2, <2>1 DEF Logged
    <3> QED
      BY <3>1, <3>2 DEF LeftTo
  <2> QED
    BY <1>2, <1>7, <2>1, <2>2, <2>3, <2>4 DEF PullOK
<1>8. Reached(cursor)' /\ Covered(cursor)'
  BY <1>2, <1>5, <1>6 DEF BaselineInv, Typed
<1>9. ASSUME NEW p \in Procs PROVE PullOK(pull[p])'
  BY <1>2, <1>7 DEF BaselineInv, Typed
<1> QED
  BY <1>3, <1>4, <1>8, <1>9 DEF BaselineInv

LEMMA StoreKeeps ==
    ASSUME BaselineInv, NEW e \in Events, StoreChanges(e)
    PROVE  BaselineInv'
<1>1. /\ UNCHANGED <<log, pull, cursor, handed, passed>>
      /\ stored' \subseteq stored \cup {e} /\ Handed(e)
  BY DEF StoreChanges, Handed
<1>2. StoredHanded'
  BY <1>1 DEF BaselineInv, StoredHanded, Handed
<1>3. Typed' /\ Logged' = Logged
  BY <1>1 DEF BaselineInv, Typed, Logged
<1>4. Reached(cursor)' /\ Covered(cursor)' /\ \A p \in Procs : PullOK(pull[p])'
  BY <1>1, AccountedKept DEF BaselineInv, Typed
<1> QED
  BY <1>2, <1>3, <1>4 DEF BaselineInv

LEMMA CalmKeeps ==
    ASSUME BaselineInv, UNCHANGED <<log, pull, cursor, stored, handed, passed>>
    PROVE  BaselineInv'
<1>1. Typed' /\ StoredHanded'
  BY DEF BaselineInv, Typed, Logged, StoredHanded, Handed
<1>2. Reached(cursor)' /\ Covered(cursor)' /\ \A p \in Procs : PullOK(pull[p])'
  BY AccountedKept DEF BaselineInv, Typed
<1> QED
  BY <1>1, <1>2 DEF BaselineInv

\* A step of one pull that hands nothing over and writes no cursor.
LEMMA QuietMoves ==
    ASSUME BaselineInv, NEW p \in Procs, NEW q \in Pulls, pull' = Put(pull, p, q), PullOK(q),
           UNCHANGED <<log, cursor, stored, handed, passed>>
    PROVE  BaselineInv'
<1>1. Reached(cursor)' /\ Covered(cursor)' /\ PullOK(q)' /\ cursor' \in Nat
  BY AccountedKept DEF BaselineInv, Typed
<1> QED
  BY <1>1, PullMoves

LEMMA BeginKeeps ==
    ASSUME BaselineInv, NEW p \in Procs,
           get_log_cursor(p) \/ collect_members(p) \/ ReadCursor(p) \/ PullFails(p)
    PROVE  BaselineInv'
<1>1. UNCHANGED <<log, cursor, stored, handed, passed>>
  BY DEF get_log_cursor, collect_members, ReadCursor, PullFails
<1>2. pull[p] \in Pulls /\ PullOK(pull[p])
  BY DEF BaselineInv, Typed
<1>3. PullOK(Idle)
  BY DEF PullOK, Reached, Covered, Idle, Logged
<1>4. CASE get_log_cursor(p)
  <2>1. PICK q : q = [Idle EXCEPT !.at = "list", !.cursor = cursor]
    OBVIOUS
  <2>2. q \in Pulls /\ q.at = "list" /\ q.cursor = cursor /\ q.newest = 0 /\ q.todo = {}
    BY <2>1 DEF Idle, Pulls, BaselineInv, Typed
  <2>3. PullOK(q)
    BY <2>2 DEF PullOK, Reached, BaselineInv
  <2> QED
    BY <1>1, <1>4, <2>1, <2>2, <2>3, QuietMoves DEF get_log_cursor
<1>5. CASE collect_members(p)
  <2>1. PICK n \in 0 .. Cardinality(Logged) :
          pull' = Put(pull, p, [pull[p] EXCEPT !.at = "read",
                                    !.todo = order_members_newest_first(Pages(n)),
                                    !.skip = Logged \ order_members_newest_first(Pages(n))])
    BY <1>5 DEF collect_members
  <2>2. PICK todo : todo = order_members_newest_first(Pages(n))
    OBVIOUS
  <2>3. todo \subseteq Logged /\ Logged \subseteq Events
    BY <2>2 DEF order_members_newest_first, Pages, Logged
  <2>4. PICK q : q = [pull[p] EXCEPT !.at = "read", !.todo = todo, !.skip = Logged \ todo]
    OBVIOUS
  <2>5. /\ q \in Pulls /\ q.at = "read" /\ q.todo = todo /\ q.skip = Logged \ todo
        /\ q.cursor = pull[p].cursor /\ q.newest = pull[p].newest
    BY <1>2, <2>3, <2>4 DEF Pulls
  <2>6. PullOK(q)
    BY <1>2, <2>3, <2>5 DEF PullOK, LeftTo
  <2>7. pull' = Put(pull, p, q)
    BY <2>1, <2>2, <2>4
  <2> QED
    BY <1>1, <2>5, <2>6, <2>7, QuietMoves
<1>6. CASE ReadCursor(p) /\ pull[p].newest # 0
  <2>1. PICK q : q = [pull[p] EXCEPT !.at = "set", !.old = cursor]
    OBVIOUS
  <2>2. /\ q \in Pulls /\ q.at = "set" /\ q.todo = pull[p].todo /\ q.skip = pull[p].skip
        /\ q.cursor = pull[p].cursor /\ q.newest = pull[p].newest
    BY <1>2, <2>1 DEF Pulls, BaselineInv, Typed
  <2>3. pull[p].at = "read" /\ pull[p].todo = {} /\ pull' = Put(pull, p, q)
    BY <1>6, <2>1 DEF ReadCursor, EndOfPull
  <2>4. PullOK(q)
    BY <1>2, <2>2, <2>3 DEF PullOK, LeftTo
  <2> QED
    BY <1>1, <2>2, <2>3, <2>4, QuietMoves
<1>7. CASE pull' = Put(pull, p, Idle)
  BY <1>1, <1>3, <1>7, IdleType, QuietMoves
<1> QED
  BY <1>4, <1>5, <1>6, <1>7 DEF ReadCursor, EndOfPull, PullFails

\* The entry e leaves the pull's list, as accounted for, unwanted or unreadable; a
\* newer time than before is that of the entry.
LEMMA EntryLeaves ==
    ASSUME BaselineInv, NEW p \in Procs, NEW e \in pull[p].todo, pull[p].at = "read",
           NEW q \in Pulls, pull' = Put(pull, p, q),
           q.at = "read", q.cursor = pull[p].cursor, q.todo = pull[p].todo \ {e},
           pull[p].skip \subseteq q.skip, q.newest \in {pull[p].newest, Created[e]},
           UNCHANGED <<log, cursor, stored, passed>>, handed \subseteq handed',
           e \in q.skip \/ e \in Unwanted \/ Accounted(e)' \/ Created[e] = 0
    PROVE  BaselineInv'
<1>1. PullOK(pull[p]) /\ pull[p] \in Pulls
  BY DEF BaselineInv, Typed
<1>2. PullOK(pull[p]) /\ e \in Logged /\ e \in Events /\ Logged' = Logged
  BY <1>1 DEF PullOK, Logged
<1>3. Reached(cursor)' /\ Covered(cursor)' /\ cursor' \in Nat
  BY AccountedKept DEF BaselineInv, Typed
<1>4. \A f \in Events : Accounted(f) => Accounted(f)'
  BY AccountedKept
<1>5. Reached(q.cursor)' /\ Covered(q.cursor)' /\ Reached(q.newest)'
  <2>1. Reached(q.newest)
    BY <1>1, <1>2 DEF PullOK, Reached
  <2> QED
    BY <1>1, <2>1, AccountedKept DEF PullOK, Pulls
<1>6. ASSUME NEW f \in Logged \ Unwanted PROVE LeftTo(q, f)'
  <2>1. f \in Events /\ LeftTo(pull[p], f)
    BY <1>1 DEF PullOK, Logged
  <2>2. CASE f = e
    BY <1>6, <2>2 DEF LeftTo
  <2>3. CASE f # e /\ (f \in pull[p].todo \/ f \in pull[p].skip \/ Accounted(f) \/ Created[f] = 0)
    BY <1>4, <2>1, <2>3 DEF LeftTo
  <2>4. CASE Created[f] >= pull[p].newest /\ \A g \in pull[p].todo : Created[f] >= Created[g]
    BY <2>4 DEF LeftTo
  <2> QED
    BY <2>1, <2>2, <2>3, <2>4 DEF LeftTo
<1>7. PullOK(q)'
  BY <1>1, <1>2, <1>5, <1>6 DEF PullOK
<1> QED
  BY <1>3, <1>7, PullMoves

LEMMA ReadKeeps ==
    ASSUME BaselineInv, NEW p \in Procs, NEW e \in Events, AtEntry(p, e),
           NEW t \in {0, Created[e]}, Read(p, e, t)
    PROVE  BaselineInv'
<1>1. pull[p] \in Pulls /\ PullOK(pull[p]) /\ pull[p].at = "read" /\ e \in pull[p].todo
  BY DEF BaselineInv, Typed, AtEntry
<1>2. UNCHANGED <<log, cursor, stored, passed>>
  BY DEF Read
<1>3. CASE Older(t, pull[p].cursor)
  <2>1. PICK q : q = Without(p, e)
    OBVIOUS
  <2>2. /\ q \in Pulls /\ q.at = "read" /\ q.todo = pull[p].todo \ {e} /\ q.skip = pull[p].skip
        /\ q.cursor = pull[p].cursor /\ q.newest = pull[p].newest
    BY <1>1, <2>1 DEF Pulls, Without
  <2>3. pull' = Put(pull, p, q) /\ UNCHANGED handed
    BY <1>3, <2>1 DEF Read
  <2>4. e \in Unwanted \/ Accounted(e)
    BY <1>1, <1>3 DEF Older, PullOK, Covered
  <2>5. e \in Unwanted \/ Accounted(e)'
    BY <1>2, <2>3, <2>4, AccountedKept
  <2> QED
    BY <1>1, <1>2, <2>2, <2>3, <2>5, EntryLeaves
<1>4. CASE ~Older(t, pull[p].cursor)
  <2>1. PICK n : n = IF t > pull[p].newest THEN t ELSE pull[p].newest
    OBVIOUS
  <2>2. n \in Nat /\ n \in {pull[p].newest, Created[e]}
    BY <1>1, <2>1 DEF Pulls
  <2>3. PICK q : q = [Without(p, e) EXCEPT !.newest = n]
    OBVIOUS
  <2>4. /\ q \in Pulls /\ q.at = "read" /\ q.todo = pull[p].todo \ {e} /\ q.skip = pull[p].skip
        /\ q.cursor = pull[p].cursor /\ q.newest = n
    BY <1>1, <2>2, <2>3 DEF Pulls, Without
  <2>5. Without(p, e).newest = pull[p].newest
    BY <1>1 DEF Pulls, Without
  <2>6. pull' = Put(pull, p, q)
    BY <1>4, <2>1, <2>3, <2>5 DEF Read
  <2>7. /\ handed \subseteq handed'
        /\ e \notin Unwanted => [ev |-> e, dated |-> t > 0] \in handed'
    BY <1>4 DEF Read, severity_allowed
  <2>8. e \in Unwanted \/ Accounted(e)'
    BY <2>7 DEF Accounted, Handed
  <2> QED
    BY <1>1, <1>2, <2>2, <2>4, <2>6, <2>7, <2>8, EntryLeaves
<1> QED
  BY <1>3, <1>4

LEMMA EntryKeeps ==
    ASSUME BaselineInv, NEW p \in Procs, NEW e \in Events,
           SkipKnown(p, e) \/ pull_collection(p, e) \/ FetchFails(p, e)
    PROVE  BaselineInv'
<1>1. /\ AtEntry(p, e) /\ pull[p] \in Pulls /\ PullOK(pull[p]) /\ pull[p].at = "read"
      /\ e \in pull[p].todo
  BY DEF BaselineInv, Typed, AtEntry, SkipKnown, pull_collection, FetchFails
<1>2. CASE SkipKnown(p, e)
  <2>1. PICK q : q = Without(p, e)
    OBVIOUS
  <2>2. /\ q \in Pulls /\ q.at = "read" /\ q.todo = pull[p].todo \ {e} /\ q.skip = pull[p].skip
        /\ q.cursor = pull[p].cursor /\ q.newest = pull[p].newest
    BY <1>1, <2>1 DEF Pulls, Without
  <2>3. pull' = Put(pull, p, q) /\ UNCHANGED <<log, cursor, stored, handed, passed>>
    BY <1>2, <2>1 DEF SkipKnown
  <2>4. e \in Unwanted \/ Accounted(e)
    <3>1. CASE Older(ListedTime(e), pull[p].cursor)
      BY <1>1, <3>1 DEF Older, ListedTime, PullOK, Covered
    <3>2. CASE alert_source_seen(e)
      BY <3>2 DEF alert_source_seen, BaselineInv, StoredHanded, Accounted
    <3> QED
      BY <1>2, <3>1, <3>2 DEF SkipKnown, Known
  <2>5. e \in Unwanted \/ Accounted(e)'
    BY <2>3, <2>4, AccountedKept
  <2> QED
    BY <1>1, <2>2, <2>3, <2>5, EntryLeaves
<1>3. CASE pull_collection(p, e)
  BY <1>1, <1>3, ReadKeeps DEF pull_collection
<1>4. CASE Read(p, e, 0)
  BY <1>1, <1>4, ReadKeeps
<1>5. CASE /\ pull' = Put(pull, p, [Without(p, e) EXCEPT !.skip = @ \cup {e}])
           /\ UNCHANGED <<log, cursor, stored, handed, passed>>
  <2>1. PICK q : q = [Without(p, e) EXCEPT !.skip = @ \cup {e}]
    OBVIOUS
  <2>2. /\ q \in Pulls /\ q.at = "read" /\ q.todo = pull[p].todo \ {e}
        /\ q.skip = pull[p].skip \cup {e}
        /\ q.cursor = pull[p].cursor /\ q.newest = pull[p].newest
    BY <1>1, <2>1 DEF Pulls, Without
  <2>3. pull' = Put(pull, p, q)
    BY <1>5, <2>1
  <2> QED
    BY <1>1, <1>5, <2>2, <2>3, EntryLeaves
<1> QED
  BY <1>2, <1>3, <1>4, <1>5 DEF FetchFails

LEMMA SetCursorKeeps ==
    ASSUME BaselineInv, NEW p \in Procs, set_log_cursor(p)
    PROVE  BaselineInv'
<1>1. pull[p] \in Pulls /\ PullOK(pull[p]) /\ pull[p].at = "set" /\ pull[p].todo = {}
  BY DEF BaselineInv, Typed, set_log_cursor, PullOK
<1>2. PICK n : n = pull[p].newest
  OBVIOUS
<1>3. /\ cursor' \in {cursor, n} /\ n \in Nat /\ cursor \in Nat
      /\ passed' = passed \cup {e \in pull[p].skip : Created[e] < n}
      /\ pull' = Put(pull, p, Idle) /\ UNCHANGED <<log, stored, handed>>
  BY <1>1, <1>2 DEF set_log_cursor, BaselineInv, Typed, Pulls
<1>4. PullOK(Idle)
  BY DEF PullOK, Reached, Covered, Idle, Logged
<1>5. Covered(n)'
  <2> SUFFICES ASSUME NEW e \in Logged \ Unwanted, 0 < Created[e], Created[e] < n
               PROVE  Accounted(e)'
    BY <1>3 DEF Covered, Logged
  <2>1. LeftTo(pull[p], e) /\ e \in Events
    BY <1>1 DEF PullOK, Logged
  <2>2. e \in pull[p].skip \/ Accounted(e)
    BY <1>1, <1>2, <1>3, <2>1 DEF LeftTo
  <2> QED
    BY <1>3, <2>2 DEF Accounted, Handed
<1>6. Reached(n)'
  BY <1>1, <1>2, <1>3, AccountedKept DEF PullOK
<1>7. \E c \in Nat : c = cursor' /\ Reached(c)' /\ Covered(c)'
  <2>1. \E c \in Nat : c = cursor /\ Reached(c)' /\ Covered(c)'
    BY <1>3, AccountedKept DEF BaselineInv
  <2> QED
    BY <1>3, <1>5, <1>6, <2>1
<1>8. Reached(cursor)' /\ Covered(cursor)'
  BY <1>7 DEF Reached, Covered
<1>9. \E q \in Pulls : q = Idle /\ PullOK(q)'
  BY <1>3, <1>4, IdleType, AccountedKept
<1> QED
  BY <1>3, <1>8, <1>9, PullMoves

-----------------------------------------------------------------------------
(* The theorems.                                                           *)

LEMMA NextKeeps == BaselineInv /\ [Next]_vars => BaselineInv'
<1> SUFFICES ASSUME BaselineInv, [Next]_vars PROVE BaselineInv'
  OBVIOUS
<1>1. CASE CalmDown \/ UNCHANGED vars
  BY <1>1, CalmKeeps DEF CalmDown, vars
<1>2. ASSUME NEW e \in Events, LogEntry(e) \/ StoreChanges(e) PROVE BaselineInv'
  BY <1>2, LogEntryKeeps, StoreKeeps
<1>3. ASSUME NEW p \in Procs, pull_baseline_alerts(p) \/ PullFails(p) PROVE BaselineInv'
  BY <1>3, BeginKeeps, SetCursorKeeps, EntryKeeps DEF pull_baseline_alerts
<1> QED
  BY <1>1, <1>2, <1>3 DEF Next

\* In every reachable state, whatever cursor a pull started from and whatever
\* part of the log it got to see, each wanted entry is accounted for, still
\* ahead of the pull, or not older than anything the pull may store
\* (_pull_collection, order_members_newest_first, set_log_cursor).
THEOREM BaselineInvariance == Spec => []BaselineInv
BY InitBaseline, NextKeeps, PTL DEF Spec

\* No entry is left behind by a cursor that moved past it, with any number of
\* collectors pulling at once and although the cursor may go back
\* (_pull_collection, set_log_cursor).
THEOREM NothingLeftUnread == Spec => []CursorPassesOnlyRead
<1>1. BaselineInv => CursorPassesOnlyRead
  BY DEF BaselineInv, Covered, Accounted, CursorPassesOnlyRead
<1> QED
  BY <1>1, BaselineInvariance, PTL
=============================================================================
