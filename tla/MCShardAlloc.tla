---------------------------- MODULE MCShardAlloc ----------------------------
(***************************************************************************)
(* Checks the allocation operators over every small fleet: every           *)
(* preference order of every target, every set of live collectors and      *)
(* enabled targets, reached by collectors coming and going and targets     *)
(* being onboarded and deboarded.                                          *)
(***************************************************************************)
EXTENDS Naturals, FiniteSets

CONSTANTS MCTargets, MCCollectors, MCMaxPerShard

ASSUME FleetAssumption ==
    /\ IsFiniteSet(MCTargets) /\ MCTargets \subseteq Nat
    /\ IsFiniteSet(MCCollectors) /\ MCMaxPerShard \subseteq Nat

VARIABLES score, targets, live, maxPerShard

allocVars == <<score, targets, live, maxPerShard>>

INSTANCE ShardAlloc WITH Score <- score

N == Cardinality(MCCollectors)

\* All orders in which a target can rank the collectors.
Rankings == {r \in [MCCollectors -> 1 .. N] :
                \A c, d \in MCCollectors : c # d => r[c] # r[d]}

AllocInit ==
    /\ \E rank \in [MCTargets -> Rankings] :
          score = [tc \in MCTargets \X MCCollectors |-> rank[tc[1]][tc[2]]]
    /\ targets = MCTargets
    /\ live = MCCollectors
    /\ maxPerShard \in MCMaxPerShard

\* One target ranks the collectors in a fixed order: the collectors are alike, so
\* every other order is a renaming of it.
Representative ==
    LET t == CHOOSE u \in MCTargets : TRUE
        r == CHOOSE q \in Rankings : TRUE
    IN  \A c \in MCCollectors : score[t, c] = r[c]

JoinFleet(c) == /\ c \notin live
                /\ live' = live \cup {c}
                /\ UNCHANGED <<score, targets, maxPerShard>>

LeaveFleet(c) == /\ c \in live
                 /\ live' = live \ {c}
                 /\ UNCHANGED <<score, targets, maxPerShard>>

Onboard(t) == /\ t \notin targets
              /\ targets' = targets \cup {t}
              /\ UNCHANGED <<score, live, maxPerShard>>

Deboard(t) == /\ t \in targets
              /\ targets' = targets \ {t}
              /\ UNCHANGED <<score, live, maxPerShard>>

AllocNext == \/ \E c \in MCCollectors : JoinFleet(c) \/ LeaveFleet(c)
             \/ \E t \in MCTargets : Onboard(t) \/ Deboard(t)

AllocSpec == AllocInit /\ [][AllocNext]_allocVars

Cap == effective_cap(Cardinality(targets), Cardinality(live), maxPerShard)

MySlice(c) == Slice(targets, live, Cap, c)

\* No collector is given more targets than max_targets_per_shard, nor more
\* than the rounded-up fair share (shard_alloc.py effective_cap, allocate).
SliceWithinCap ==
    \A c \in live : /\ Cardinality(MySlice(c)) <= maxPerShard
                    /\ Cardinality(MySlice(c)) * Cardinality(live)
                          < Cardinality(targets) + Cardinality(live)

\* When live collectors x max_targets_per_shard reaches the fleet size, no
\* target is left out of every slice: the rounding of the fair share and
\* the spill of a full collector together lose nothing.  Otherwise exactly
\* the surplus is left out.
SlicesCoverFleet ==
    live # {} =>
        LET covered == UNION {MySlice(c) : c \in live}
            capacity == Cardinality(live) * maxPerShard
        IN  Cardinality(covered) =
                IF capacity >= Cardinality(targets) THEN Cardinality(targets) ELSE capacity

\* A target sits on a collector other than its favourite only because every
\* collector it likes better is filled with targets of smaller id: the
\* owner is a function of the id order and the weights alone, so two
\* collectors that agree on the inputs agree on the result.
OnlyFullCollectorsAreSkipped ==
    \A t \in targets : \A d \in live :
        LET owners == {c \in live : t \in MySlice(c)}
        IN  \/ d \in owners
            \/ \E c \in owners : score[t, c] > score[t, d]
            \/ Cardinality({u \in MySlice(d) : u < t}) = Cap
=============================================================================
