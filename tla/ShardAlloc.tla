----------------------------- MODULE ShardAlloc -----------------------------
(***************************************************************************)
(* Rendezvous (HRW) allocation of targets to live collectors, the pure     *)
(* part of dynamic sharding (collector/src/shard_alloc.py).  Every         *)
(* collector evaluates the same operators over its own view of the fleet.  *)
(*                                                                         *)
(* Score stands for the sha256 weight of a (target, collector) pair.  The  *)
(* 64-bit weights of one target are taken to be distinct, so the tie-break *)
(* on the collector id never decides.                                      *)
(***************************************************************************)
EXTENDS Naturals, FiniteSetsExt

CONSTANTS Score    \* [targets \X collector ids -> Nat], see score()

\* ceil(n / d), for d > 0
CeilDiv(n, d) == (n + d - 1) \div d

\* A limit that forgets to round the fair share up.
effective_cap_floor(nTargets, nLive, maxPerShard) ==
    IF nLive <= 0 THEN maxPerShard
    ELSE IF maxPerShard <= nTargets \div nLive
         THEN maxPerShard ELSE nTargets \div nLive

effective_cap(nTargets, nLive, maxPerShard) ==
    IF nLive <= 0 THEN maxPerShard
    ELSE IF maxPerShard <= CeilDiv(nTargets, nLive)
         THEN maxPerShard ELSE CeilDiv(nTargets, nLive)

\* The collector of cs that target t scores highest on.
Preferred(t, cs) == CHOOSE c \in cs : \A d \in cs : Score[t, c] >= Score[t, d]

\* "Room" tested with <= : every collector may take one target too many.
WithRoomOffByOne(placed, live, cap) ==
    {c \in live : Cardinality({t \in DOMAIN placed : placed[t] = c}) <= cap}

\* Collectors of live that hold fewer than cap of the targets placed so far.
WithRoom(placed, live, cap) ==
    {c \in live : Cardinality({t \in DOMAIN placed : placed[t] = c}) < cap}

\* One round of the loop over the targets: t goes to its preferred collector
\* with room, or stays unassigned when there is none.
Place(placed, t, live, cap) ==
    LET room == WithRoom(placed, live, cap)
    IN  IF room = {} THEN placed
        ELSE [u \in DOMAIN placed \cup {t} |-> IF u = t THEN Preferred(t, room) ELSE placed[u]]

\* Serving the targets highest id first.
allocate_descending(targets, live, cap) ==
    MapThenFoldSet(LAMBDA t, placed : Place(placed, t, live, cap),
                   << >>, LAMBDA t : t, Min, targets)

\* Target -> collector, for the targets that found a place.  Targets are
\* served in id order: the fold takes the largest out last.
allocate(targets, live, cap) ==
    MapThenFoldSet(LAMBDA t, placed : Place(placed, t, live, cap),
                   << >>, LAMBDA t : t, Max, targets)

\* The slice of collector c: allocate(...).get(c, []).
Slice(targets, live, cap, c) ==
    LET placed == allocate(targets, live, cap)
    IN  {t \in targets : t \in DOMAIN placed /\ placed[t] = c}
=============================================================================
