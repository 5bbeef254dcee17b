---------------------------- MODULE ShardLeases ----------------------------
(***************************************************************************)
(* Target ownership among collector processes: the tables shard_leases,    *)
(* collector_slots and collector_stats in the shared SQLite file, and the  *)
(* claim loop (ShardManager) every collector runs against them.            *)
(*                                                                         *)
(* Time.  A row's updated_at is represented by its age in ticks, capped at *)
(* AgeCap (StatCap for collector_stats), past which no comparison in the   *)
(* code tells ages apart.  Tick ages every row.  Functions that read the   *)
(* clock before they wait for the write lock write a row that is already   *)
(* w <= MaxWait ticks old and use a cutoff w ticks too early; MaxWait      *)
(* stands for SQLite's busy_timeout.                                       *)
(* MaxStall bounds the time a running process lets pass between two        *)
(* heartbeats; a value above AgeCap means no bound at all.                 *)
(*                                                                         *)
(* One transaction of the code is one action; the reads a pass makes       *)
(* before its last transaction are actions of their own, so a view can be  *)
(* out of date when it is used.                                            *)
(***************************************************************************)
EXTENDS ShardAlloc

CONSTANTS
    Procs,          \* collector processes (container hostnames)
    Targets,        \* target ids
    MaxOrdinal,     \* bound on slot ordinals
    Dynamic,        \* the processes configured with balance = "dynamic"
    Switchable,     \* targets the operator may enable and disable
    Unreliable,     \* processes that crash, are stopped or see database errors
    Pinned,         \* the processes started with an explicit COLLECTOR_ID
    MaxPerShard,    \* max_targets_per_shard
    TTL,            \* lease_ttl_seconds, in ticks
    MemberTTL,      \* membership_ttl_seconds, in ticks
    MaxWait,        \* longest wait for the write lock, in ticks
    MaxStall,       \* longest time between two heartbeats of a running process
    NoId,           \* no collector id: an absent lease, a process without id
    NoProc          \* no process: an absent slot row

Ordinals == 0 .. MaxOrdinal
Ids == Procs \cup Ordinals
AgeCap == TTL + MaxWait + 1
Ages == 0 .. AgeCap
Waits == 0 .. MaxWait
StatCap == MemberTTL + 1

\* Config.py ShardConfig: the membership window is no longer than the lease
\* TTL; targets are numbered; ids are told apart.
ASSUME ConstantsAssumption ==
    /\ Targets \subseteq Nat /\ IsFiniteSet(Targets)
    /\ IsFiniteSet(Procs)
    /\ MaxOrdinal \in Nat
    /\ Dynamic \subseteq Procs /\ Pinned \subseteq Procs /\ Unreliable \subseteq Procs
    /\ Switchable \subseteq Targets
    /\ MaxPerShard \in Nat \ {0}
    /\ TTL \in Nat \ {0} /\ MemberTTL \in Nat /\ MemberTTL <= TTL
    /\ MaxWait \in Nat /\ MaxStall \in Nat
    /\ NoId \notin Ids /\ NoProc \notin Procs
    /\ Procs \cap Ordinals = {}

VARIABLES
    enabled,        \* targets with enabled = 1
    leaseOwner,     \* shard_leases: target -> collector id or NoId
    leaseAge,       \* age of the lease row (0 when there is none)
    slotToken,      \* collector_slots: ordinal -> process or NoProc
    slotAge,        \* age of the slot row (0 when there is none)
    statAge,        \* collector_stats: age of an id's row, StatCap if none or old
    pc,             \* where each process is in its claim loop
    cid,            \* the id each process runs under (effective_id)
    booted,         \* the first claim pass of the process has committed
    since,          \* age of the process's last heartbeat
    live,           \* the live set a dynamic pass has read
    cap,            \* the bound that pass computed
    mine            \* the slice that pass computed

tables == <<leaseOwner, leaseAge, slotToken, slotAge, statAge>>
leases == <<leaseOwner, leaseAge>>
slots  == <<slotToken, slotAge>>
view   == <<live, cap, mine>>
vars   == <<enabled, leaseOwner, leaseAge, slotToken, slotAge, statAge,
            pc, cid, booted, since, live, cap, mine>>

\* Processes that claim a stable ordinal for their id (_init_sharding).
Slotted(p) == p \in Dynamic \ Pinned

\* First step of claim_once.
PassStart(p) == IF p \notin Dynamic THEN "claim"
                ELSE IF Slotted(p) THEN "renew" ELSE "view"

PassPcs == {"renew", "view", "alloc", "reconcile", "claim"}
RunPcs  == PassPcs \cup {"sleep"}
Pcs     == RunPcs \cup {"down", "slot", "join", "release", "freeslot"}

Up(p) == pc[p] # "down"

\* A lease is fresh while its owner may poll the target.
Fresh(t) == leaseOwner[t] # NoId /\ leaseAge[t] <= TTL

\* The targets get_active_targets gives process p to poll.
get_owned_targets(p) ==
    {t \in enabled : Fresh(t) /\ leaseOwner[t] = cid[p]}

\* The first n elements of S, in id order ("ORDER BY t.id LIMIT n").
Lowest(S, n) == {t \in S : Cardinality({u \in S : u < t}) < n}

-----------------------------------------------------------------------------
Init ==
    /\ enabled = Targets
    /\ leaseOwner = [t \in Targets |-> NoId]
    /\ leaseAge = [t \in Targets |-> 0]
    /\ slotToken = [o \in Ordinals |-> NoProc]
    /\ slotAge = [o \in Ordinals |-> 0]
    /\ statAge = [c \in Ids |-> StatCap]
    /\ pc = [p \in Procs |-> "down"]
    /\ cid = [p \in Procs |-> NoId]
    /\ booted = [p \in Procs |-> FALSE]
    /\ since = [p \in Procs |-> 0]
    /\ live = [p \in Procs |-> {}]
    /\ cap = [p \in Procs |-> 0]
    /\ mine = [p \in Procs |-> {}]

Goto(p, l) == pc' = [pc EXCEPT ![p] = l]

\* The memory of process p is gone.
Exit(p) ==
    /\ Goto(p, "down")
    /\ cid' = [cid EXCEPT ![p] = NoId]
    /\ booted' = [booted EXCEPT ![p] = FALSE]
    /\ since' = [since EXCEPT ![p] = 0]
    /\ live' = [live EXCEPT ![p] = {}]
    /\ cap' = [cap EXCEPT ![p] = 0]
    /\ mine' = [mine EXCEPT ![p] = {}]

\* _init_sharding up to the choice of the collector id.
Start(p) ==
    /\ pc[p] = "down"
    /\ Goto(p, IF Slotted(p) THEN "slot"
               ELSE IF p \in Dynamic THEN "join" ELSE "claim")
    /\ cid' = [cid EXCEPT ![p] = IF Slotted(p) THEN NoId ELSE p]
    /\ UNCHANGED <<enabled, tables, booted, since, view>>

\* Mutant: a row exactly TTL old is reaped too.
SlotKeptStrict(o, w) == slotToken[o] # NoProc /\ slotAge[o] < TTL + w

\* Slot rows that survive the opening DELETE of a slot transaction whose
\* clock was read w ticks ago.
SlotKept(o, w) == slotToken[o] # NoProc /\ slotAge[o] <= TTL + w

\* The slot tables after that DELETE and a write of row o by process p.
WriteSlot(p, o, w) ==
    /\ slotToken' = [x \in Ordinals |-> IF x = o THEN p
                                        ELSE IF SlotKept(x, w) THEN slotToken[x] ELSE NoProc]
    /\ slotAge' = [x \in Ordinals |-> IF x = o THEN w
                                      ELSE IF SlotKept(x, w) THEN slotAge[x] ELSE 0]

ReapSlots(w) ==
    /\ slotToken' = [x \in Ordinals |-> IF SlotKept(x, w) THEN slotToken[x] ELSE NoProc]
    /\ slotAge' = [x \in Ordinals |-> IF SlotKept(x, w) THEN slotAge[x] ELSE 0]

\* Mutant: the ordinals already taken are not scanned.
IsMySlotUnscanned(p, o, w) == o = 0

\* The ordinal claim_collector_slot settles on: the row this token already
\* has, or else the lowest one without a row.
IsMySlot(p, o, w) ==
    \/ SlotKept(o, w) /\ slotToken[o] = p
    \/ /\ \A x \in Ordinals : SlotKept(x, w) => slotToken[x] # p
       /\ ~ SlotKept(o, w)
       /\ \A x \in Ordinals : x < o => SlotKept(x, w)

claim_collector_slot(p, w) ==
    \E o \in Ordinals :
        /\ IsMySlot(p, o, w)
        /\ WriteSlot(p, o, w)
        /\ cid' = [cid EXCEPT ![p] = o]

ClaimSlot(p) ==
    /\ pc[p] = "slot"
    /\ \E w \in Waits : /\ claim_collector_slot(p, w)
                        /\ since' = [since EXCEPT ![p] = w]
    /\ Goto(p, "join")
    /\ UNCHANGED <<enabled, leases, statAge, booted, view>>

upsert_collector_stats(p, w) ==
    statAge' = [statAge EXCEPT ![cid[p]] = IF w <= MemberTTL THEN w ELSE StatCap]

\* The membership row published before the first claim; errors are
\* suppressed.
Join(p) ==
    /\ pc[p] = "join"
    /\ \/ \E w \in Waits : upsert_collector_stats(p, w)
       \/ p \in Unreliable /\ UNCHANGED statAge
    /\ Goto(p, PassStart(p))
    /\ UNCHANGED <<enabled, leases, slots, cid, booted, since, view>>

-----------------------------------------------------------------------------
(* One dynamic pass: renew the ordinal, read the membership, read the      *)
(* targets and compute the slice, reconcile the lease table.               *)

\* renew_collector_slot: the ordinal is re-asserted unless a peer has it;
\* losing it ends the process (os._exit), without any release.
RenewSlot(p) ==
    /\ pc[p] = "renew"
    /\ \E w \in Waits :
         IF SlotKept(cid[p], w) /\ slotToken[cid[p]] # p
         THEN ReapSlots(w) /\ Exit(p)
         ELSE /\ WriteSlot(p, cid[p], w)
              /\ since' = [since EXCEPT ![p] = w]
              /\ Goto(p, "view")
              /\ UNCHANGED <<cid, booted, view>>
    /\ UNCHANGED <<enabled, leases, statAge>>

\* A database error during the renewal counts as "still held".
RenewSlotError(p) ==
    /\ p \in Unreliable
    /\ pc[p] = "renew"
    /\ Goto(p, "view")
    /\ UNCHANGED <<enabled, tables, cid, booted, since, view>>

\* get_collector_stats(membership_ttl), plus self.
ReadMembership(p) ==
    /\ pc[p] = "view"
    /\ live' = [live EXCEPT ![p] = {c \in Ids : statAge[c] <= MemberTTL} \cup {cid[p]}]
    /\ Goto(p, "alloc")
    /\ UNCHANGED <<enabled, tables, cid, booted, since, cap, mine>>

\* get_enabled_target_ids, effective_cap and allocate.
ComputeSlice(p) ==
    /\ pc[p] = "alloc"
    /\ LET bound == effective_cap(Cardinality(enabled), Cardinality(live[p]), MaxPerShard)
       IN  /\ cap' = [cap EXCEPT ![p] = bound]
           /\ mine' = [mine EXCEPT ![p] = Slice(enabled, live[p], bound, cid[p])]
    /\ Goto(p, "reconcile")
    /\ UNCHANGED <<enabled, tables, cid, booted, since, live>>

\* Mutants: the cutoff is off by one; stale leases are never reclaimed.
ClaimableEarly(t, w) == t \in enabled /\ (leaseOwner[t] = NoId \/ leaseAge[t] >= TTL + w)
ClaimableUnowned(t, w) == t \in enabled /\ leaseOwner[t] = NoId

\* A target that has no owner after the sweep, or whose lease has outlived
\* the TTL by w (the guard of every claim upsert).
Claimable(t, w) == t \in enabled /\ (leaseOwner[t] = NoId \/ leaseAge[t] > TTL + w)

\* The claim of a slice: the rows of my slice that are mine, unowned or
\* stale.
SliceClaims(p) == {t \in mine[p] \cap enabled : leaseOwner[t] = cid[p] \/ Claimable(t, 0)}

\* The orphan safety net: what is still claimable then, as far as the bound
\* leaves room above my fresh leases.
OrphanClaims(p) ==
    LET ownedNow == get_owned_targets(p) \cup SliceClaims(p)
        orphans  == {t \in enabled : Claimable(t, 0)} \ SliceClaims(p)
    IN  Lowest(orphans, IF cap[p] >= Cardinality(ownedNow)
                        THEN cap[p] - Cardinality(ownedNow) ELSE 0)

\* The lease table after the sweep of disabled targets and a write of the
\* rows of claims by p, with a clock that was read w ticks ago.
WriteLeases(p, claims, w) ==
    /\ leaseOwner' = [t \in Targets |-> IF t \in claims THEN cid[p]
                                        ELSE IF t \in enabled THEN leaseOwner[t] ELSE NoId]
    /\ leaseAge' = [t \in Targets |-> IF t \in claims THEN w
                                      ELSE IF t \in enabled THEN leaseAge[t] ELSE 0]

reconcile_shard_leases(p) == WriteLeases(p, SliceClaims(p) \cup OrphanClaims(p), 0)

\* The end of a pass that committed; the view it was based on is dropped.
EndPass(p) ==
    /\ Goto(p, "sleep")
    /\ booted' = [booted EXCEPT ![p] = TRUE]
    /\ live' = [live EXCEPT ![p] = {}]
    /\ cap' = [cap EXCEPT ![p] = 0]
    /\ mine' = [mine EXCEPT ![p] = {}]

Reconcile(p) ==
    /\ pc[p] = "reconcile"
    /\ reconcile_shard_leases(p)
    /\ since' = IF Slotted(p) THEN since ELSE [since EXCEPT ![p] = 0]
    /\ EndPass(p)
    /\ UNCHANGED <<enabled, slots, statAge, cid>>

\* Mutants: the leases already held do not count against the cap; they are
\* not heartbeated.
StaticClaimsUncounted(p, w) ==
    {t \in enabled : leaseOwner[t] = cid[p]} \cup Lowest({t \in enabled : Claimable(t, w)}, MaxPerShard)
StaticClaimsNoHeartbeat(p, w) == Lowest({t \in enabled : Claimable(t, w)}, MaxPerShard)

\* The static pass: heartbeat every lease I have, then claim what is
\* claimable in id order up to the cap.
StaticClaims(p, w) ==
    LET owned == {t \in enabled : leaseOwner[t] = cid[p]}
    IN  owned \cup Lowest({t \in enabled : Claimable(t, w)} \ owned,
                          IF MaxPerShard >= Cardinality(owned)
                          THEN MaxPerShard - Cardinality(owned) ELSE 0)

claim_shard_targets(p, w) == WriteLeases(p, StaticClaims(p, w), w)

ClaimTargets(p) ==
    /\ pc[p] = "claim"
    /\ \E w \in Waits : /\ claim_shard_targets(p, w)
                        /\ since' = [since EXCEPT ![p] = w]
    /\ EndPass(p)
    /\ UNCHANGED <<enabled, slots, statAge, cid>>

\* An exception out of claim_once: the first pass ends the process, a later
\* one is logged and retried at once (the sleep is skipped).
PassFails(p) ==
    /\ p \in Unreliable
    /\ pc[p] \in {"view", "alloc", "reconcile", "claim"}
    /\ \/ /\ booted[p]
          /\ Goto(p, PassStart(p))
          /\ live' = [live EXCEPT ![p] = {}]
          /\ cap' = [cap EXCEPT ![p] = 0]
          /\ mine' = [mine EXCEPT ![p] = {}]
          /\ UNCHANGED <<cid, booted, since>>
       \/ ~ booted[p] /\ Exit(p)
    /\ UNCHANGED <<enabled, tables>>

\* claim_interval has passed (run).
Wake(p) ==
    /\ pc[p] = "sleep"
    /\ Goto(p, PassStart(p))
    /\ UNCHANGED <<enabled, tables, cid, booted, since, view>>

-----------------------------------------------------------------------------
\* collector_stats_task, which runs beside the claim loop.
PublishStats(p) ==
    /\ booted[p] /\ pc[p] \in RunPcs
    /\ \E w \in Waits : upsert_collector_stats(p, w)
    /\ UNCHANGED <<enabled, leases, slots, pc, cid, booted, since, view>>

Crash(p) ==
    /\ p \in Unreliable
    /\ Up(p)
    /\ Exit(p)
    /\ UNCHANGED <<enabled, tables>>

\* SIGTERM: the claim loop and the stats task are cancelled first.
Shutdown(p) ==
    /\ p \in Unreliable
    /\ booted[p] /\ pc[p] \in RunPcs
    /\ Goto(p, "release")
    /\ live' = [live EXCEPT ![p] = {}]
    /\ cap' = [cap EXCEPT ![p] = 0]
    /\ mine' = [mine EXCEPT ![p] = {}]
    /\ UNCHANGED <<enabled, tables, cid, booted, since>>

\* Drops every lease under this process's id, and its membership row.
release_shard_leases(p) ==
    /\ leaseOwner' = [t \in Targets |-> IF leaseOwner[t] = cid[p] THEN NoId ELSE leaseOwner[t]]
    /\ leaseAge' = [t \in Targets |-> IF leaseOwner[t] = cid[p] THEN 0 ELSE leaseAge[t]]
    /\ statAge' = [statAge EXCEPT ![cid[p]] = StatCap]

\* Best effort: an error is logged and the shutdown goes on.
ReleaseLeases(p) ==
    /\ pc[p] = "release"
    /\ \/ release_shard_leases(p)
       \/ UNCHANGED <<leases, statAge>>
    /\ Goto(p, "freeslot")
    /\ UNCHANGED <<enabled, slots, cid, booted, since, view>>

release_collector_slot(p) ==
    /\ slotToken' = [o \in Ordinals |-> IF slotToken[o] = p THEN NoProc ELSE slotToken[o]]
    /\ slotAge' = [o \in Ordinals |-> IF slotToken[o] = p THEN 0 ELSE slotAge[o]]

ReleaseSlot(p) ==
    /\ pc[p] = "freeslot"
    /\ \/ Slotted(p) /\ release_collector_slot(p)
       \/ UNCHANGED slots
    /\ Exit(p)
    /\ UNCHANGED <<enabled, leases, statAge>>

\* The API enables or disables a target.
SetEnabled(t) ==
    /\ enabled' = IF t \in enabled THEN enabled \ {t} ELSE enabled \cup {t}
    /\ UNCHANGED <<tables, pc, cid, booted, since, view>>

Older(age, most) == IF age < most THEN age + 1 ELSE most

\* A running process beats again before its last heartbeat is MaxStall old.
Timely == \A p \in Procs : Up(p) => since[p] < MaxStall

Tick ==
    /\ Timely
    /\ leaseAge' = [t \in Targets |-> IF leaseOwner[t] = NoId THEN 0 ELSE Older(leaseAge[t], AgeCap)]
    /\ slotAge' = [o \in Ordinals |-> IF slotToken[o] = NoProc THEN 0 ELSE Older(slotAge[o], AgeCap)]
    /\ statAge' = [c \in Ids |-> Older(statAge[c], StatCap)]
    /\ since' = [p \in Procs |-> IF Up(p) THEN Older(since[p], AgeCap) ELSE 0]
    /\ UNCHANGED <<enabled, leaseOwner, slotToken, pc, cid, booted, view>>

ProcStep(p) ==
    \/ Start(p) \/ ClaimSlot(p) \/ Join(p)
    \/ RenewSlot(p) \/ RenewSlotError(p) \/ ReadMembership(p) \/ ComputeSlice(p)
    \/ Reconcile(p) \/ ClaimTargets(p) \/ PassFails(p) \/ Wake(p)
    \/ PublishStats(p) \/ Crash(p) \/ Shutdown(p) \/ ReleaseLeases(p) \/ ReleaseSlot(p)

Next == \/ \E p \in Procs : ProcStep(p)
        \/ \E t \in Switchable : SetEnabled(t)
        \/ Tick

Spec == Init /\ [][Next]_vars


\* Fairness.  Time passes and the claim loop of a running process is
\* eventually resumed.  Nothing is owed by the operator, by crashes, or by
\* the stats task (a process that is late to publish is undercounted).
LoopRuns(p) ==
    WF_vars(ClaimSlot(p) \/ Join(p) \/ Wake(p) \/ ReleaseLeases(p) \/ ReleaseSlot(p))

\* The database does not fail the same step of a claim pass of p for ever.
PassesCommit(p) == /\ SF_vars(RenewSlot(p)) /\ SF_vars(ReadMembership(p))
                   /\ SF_vars(ComputeSlice(p))
                   /\ SF_vars(Reconcile(p) \/ ClaimTargets(p))

\* The passes of p go on, but may fail for ever.
PassesRun(p) == WF_vars(\/ RenewSlot(p) \/ RenewSlotError(p) \/ ReadMembership(p)
                        \/ ComputeSlice(p) \/ Reconcile(p) \/ ClaimTargets(p) \/ PassFails(p))

FairSpec == /\ Spec
            /\ WF_vars(Tick)
            /\ \A p \in Procs : LoopRuns(p) /\ PassesCommit(p)

FailingPeerSpec == /\ Spec
                   /\ WF_vars(Tick)
                   /\ \A p \in Procs : LoopRuns(p)
                   /\ \A p \in Procs \ Unreliable : PassesCommit(p)
                   /\ \A p \in Unreliable : PassesRun(p)

-----------------------------------------------------------------------------
TypeOK ==
    /\ enabled \subseteq Targets
    /\ leaseOwner \in [Targets -> Ids \cup {NoId}]
    /\ leaseAge \in [Targets -> Ages]
    /\ slotToken \in [Ordinals -> Procs \cup {NoProc}]
    /\ slotAge \in [Ordinals -> Ages]
    /\ statAge \in [Ids -> 0 .. StatCap]
    /\ pc \in [Procs -> Pcs]
    /\ cid \in [Procs -> Ids \cup {NoId}]
    /\ booted \in [Procs -> BOOLEAN]
    /\ since \in [Procs -> Ages]
    /\ live \in [Procs -> SUBSET Ids]
    /\ cap \in [Procs -> Nat]
    /\ mine \in [Procs -> SUBSET Targets]

\* The steal guard: a lease that is still fresh never passes to another
\* collector id, whatever the modes, views and lock waits of the processes.
\* It ends early only when its target is disabled or a process running
\* under the owning id shuts down.
FreshLeaseKept ==
    [][\A t \in Targets :
          Fresh(t) /\ leaseOwner'[t] # leaseOwner[t] =>
              /\ leaseOwner'[t] = NoId
              /\ \/ t \notin enabled
                 \/ \E p \in Procs : pc[p] = "release" /\ cid[p] = leaseOwner[t]]_vars

\* An ordinal whose row is still fresh never passes to another process: two
\* replicas that start together get different ordinals, and a process that
\* was reaped while stalled does not take its ordinal back from a successor.
FreshSlotKept ==
    [][\A o \in Ordinals :
          slotToken[o] # NoProc /\ slotAge[o] <= TTL /\ slotToken'[o] # slotToken[o] =>
              slotToken'[o] = NoProc /\ pc[slotToken[o]] = "freeslot"]_vars

\* A collector in static mode never holds more than max_targets_per_shard
\* leases, stale ones included: its heartbeat revives every lease that
\* nobody took, so the claims of two passes must not add up past the cap.
StaticWithinCap ==
    \A p \in Procs \ Dynamic :
        Cardinality({t \in Targets : leaseOwner[t] = p}) <= MaxPerShard

\* No lease of a running static collector outlives its TTL between two
\* passes, provided that passes are at most MaxStall <= TTL apart
\* (ShardConfig._check_heartbeat_margin: "otherwise a live collector's
\* leases can expire between heartbeats").
StaticLeasesStayFresh ==
    \A p \in Procs \ Dynamic : booted[p] =>
        \A t \in Targets : leaseOwner[t] = cid[p] => Fresh(t)

\* No two running processes collect from the same target.
NoDoubleOwnership ==
    \A p, q \in Procs :
        Up(p) /\ Up(q) /\ p # q => get_owned_targets(p) \cap get_owned_targets(q) = {}

\* The process that collects from t; used to map the leases to
\* TargetOwnership.
Collectors(t) == {p \in Procs : Up(p) /\ t \in get_owned_targets(p)}
Holder == [t \in Targets |-> IF Collectors(t) = {} THEN NoProc
                             ELSE CHOOSE p \in Collectors(t) : TRUE]

Ownership == INSTANCE TargetOwnership WITH holder <- Holder

\* The leases implement exclusive ownership without direct handover, as
\* long as every running process renews its identity within the TTL.
ImplementsOwnership == Ownership!Spec

\* Identity: a process that has claimed an ordinal still has its row in
\* collector_slots, exactly as old as its last heartbeat.
IdentityHeld ==
    \A p \in Procs :
        /\ cid[p] \in Ordinals =>
              /\ slotToken[cid[p]] = p
              /\ slotAge[cid[p]] = since[p]
        /\ since[p] <= MaxStall


\* Once the fleet has settled (exactly the processes of up run, for good,
\* and t stays enabled), t does not stay without a fresh lease: dead owners'
\* leases age out, and what no slice covers is adopted.
EnabledTargetsCovered ==
    \A up \in SUBSET Procs \ {{}}, t \in Targets :
        <>[]({p \in Procs : Up(p)} = up /\ t \in enabled) => []<> Fresh(t)

\* The claim of reconcile_shard_leases that the orphan sweep covers what no
\* slice covers, "when a peer's reconcile is failing while it still looks
\* live" included: with every process up, no enabled target stays without a
\* fresh lease.
OrphansCovered ==
    \A t \in Targets :
        <>[]((\A p \in Procs : Up(p)) /\ t \in enabled) => []<> Fresh(t)

\* The claim of docs/SCALABILITY.md and reconcile_shard_leases that handoff
\* is gap-free ("a target is never un-owned mid-handoff"): while its
\* collector is running, no passing of time leaves a target without a fresh
\* lease.
GapFreeHandoff ==
    [][Tick => \A t \in Targets : Collectors(t) # {} => Fresh(t)']_vars

\* The claim of effective_cap and ShardConfig that max_targets_per_shard is
\* a hard ceiling on the targets one collector owns.
OwnedWithinCeiling ==
    \A p \in Procs : Up(p) => Cardinality(get_owned_targets(p)) <= MaxPerShard

=============================================================================
