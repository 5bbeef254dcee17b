------------------------- MODULE ShardLeasesProofs -------------------------
(***************************************************************************)
(* Proofs about ShardLeases, for any number of processes and targets, any  *)
(* TTLs, lock waits and mix of balancing modes.                            *)
(***************************************************************************)
EXTENDS ShardLeases, FiniteSetTheorems, TLAPS

USE ConstantsAssumption

-----------------------------------------------------------------------------
(* Facts about the operators the actions are built from.                   *)

LEMMA ConstantSets ==
    /\ IsFiniteSet(Ids)
    /\ TTL + MaxWait + 1 \in Nat
    /\ Waits \subseteq Ages
    /\ 0 \in Ages /\ AgeCap \in Ages
    /\ 0 \in 0 .. StatCap /\ StatCap \in 0 .. StatCap
<1>1. IsFiniteSet(Ordinals)
  BY FS_Interval DEF Ordinals
<1>2. IsFiniteSet(Ids)
  BY <1>1, FS_Union DEF Ids
<1> QED
  BY <1>2 DEF Waits, Ages, AgeCap, StatCap

\* The bound of an allocation pass is a natural number.
LEMMA CapType ==
    ASSUME NEW n \in Nat, NEW k \in Nat
    PROVE  effective_cap(n, k, MaxPerShard) \in Nat
<1>1. CASE k = 0
  BY <1>1 DEF effective_cap
<1>2. CASE k > 0
  <2>1. (n + k - 1) \in Nat
    BY <1>2
  <2>2. (n + k - 1) \div k \in Nat
    BY <1>2, <2>1
  <2> QED
    BY <1>2, <2>2 DEF effective_cap, CeilDiv
<1> QED
  BY <1>1, <1>2

\* "LIMIT n" selects from the rows of the query.
LEMMA LowestSubset == ASSUME NEW S, NEW n PROVE Lowest(S, n) \subseteq S
BY DEF Lowest

\* Ages stay in their range when they grow.
LEMMA OlderType ==
    ASSUME NEW most \in Nat, NEW age \in 0 .. most
    PROVE  Older(age, most) \in 0 .. most
BY DEF Older

-----------------------------------------------------------------------------
(* Type correctness, together with what a process's place in its loop says *)
(* about the id it runs under.  (The two are proved together: the live set *)
(* a pass reads is a set of ids only because the process has one.)         *)

IdOK ==
    \A p \in Procs :
        /\ pc[p] \in {"down", "slot"} => cid[p] = NoId
        /\ pc[p] \notin {"down", "slot"} =>
              IF Slotted(p) THEN cid[p] \in Ordinals ELSE cid[p] = p
        /\ pc[p] \in {"slot", "renew"} => Slotted(p)
        /\ pc[p] = "claim" => p \notin Dynamic
        /\ pc[p] \in {"join", "view", "alloc", "reconcile"} => p \in Dynamic

LEMMA InitType == Init => TypeOK
BY ConstantSets DEF Init, TypeOK, Pcs, RunPcs, PassPcs

\* The lease table a claim or reconcile transaction leaves behind.
LEMMA WriteLeasesType ==
    ASSUME TypeOK, NEW p \in Procs, NEW claims, NEW w \in Waits, WriteLeases(p, claims, w)
    PROVE  /\ leaseOwner' \in [Targets -> Ids \cup {NoId}]
           /\ leaseAge' \in [Targets -> Ages]
BY ConstantSets DEF TypeOK, WriteLeases

\* The slot table a claim or renewal leaves behind.
LEMMA WriteSlotType ==
    ASSUME TypeOK, NEW p \in Procs, NEW o, NEW w \in Waits, WriteSlot(p, o, w)
    PROVE  /\ slotToken' \in [Ordinals -> Procs \cup {NoProc}]
           /\ slotAge' \in [Ordinals -> Ages]
BY ConstantSets DEF TypeOK, WriteSlot

LEMMA StatsType ==
    ASSUME TypeOK, NEW p \in Procs, NEW w \in Waits, upsert_collector_stats(p, w)
    PROVE  statAge' \in [Ids -> 0 .. StatCap]
<1>1. (IF w <= MemberTTL THEN w ELSE StatCap) \in 0 .. StatCap
  BY DEF Waits, StatCap
<1>2. statAge \in [Ids -> 0 .. StatCap]
  BY DEF TypeOK
<1> QED
  BY <1>1, <1>2 DEF upsert_collector_stats

LEMMA PassStartType == ASSUME NEW p \in Procs PROVE PassStart(p) \in Pcs
BY DEF PassStart, Pcs, RunPcs, PassPcs

LEMMA ExitType ==
    ASSUME TypeOK, NEW p \in Procs, Exit(p)
    PROVE  /\ pc' \in [Procs -> Pcs] /\ cid' \in [Procs -> Ids \cup {NoId}]
           /\ booted' \in [Procs -> BOOLEAN] /\ since' \in [Procs -> Ages]
           /\ live' \in [Procs -> SUBSET Ids] /\ cap' \in [Procs -> Nat]
           /\ mine' \in [Procs -> SUBSET Targets]
BY ConstantSets DEF TypeOK, Exit, Goto, Pcs

LEMMA StartType == ASSUME TypeOK, NEW p \in Procs, Start(p) PROVE TypeOK'
BY DEF TypeOK, Start, Goto, tables, view, Pcs, RunPcs, PassPcs, Ids

LEMMA ClaimSlotType == ASSUME TypeOK, NEW p \in Procs, ClaimSlot(p) PROVE TypeOK'
<1>1. PICK w \in Waits : claim_collector_slot(p, w) /\ since' = [since EXCEPT ![p] = w]
  BY DEF ClaimSlot
<1>2. PICK o \in Ordinals : WriteSlot(p, o, w) /\ cid' = [cid EXCEPT ![p] = o]
  BY <1>1 DEF claim_collector_slot
<1>3. /\ slotToken' \in [Ordinals -> Procs \cup {NoProc}]
      /\ slotAge' \in [Ordinals -> Ages]
  BY <1>2, WriteSlotType
<1>4. cid' \in [Procs -> Ids \cup {NoId}] /\ since' \in [Procs -> Ages]
  BY <1>1, <1>2, ConstantSets DEF TypeOK, Ids
<1> QED
  BY <1>3, <1>4 DEF TypeOK, ClaimSlot, Goto, leases, view, Pcs

LEMMA JoinType == ASSUME TypeOK, NEW p \in Procs, Join(p) PROVE TypeOK'
<1>1. statAge' \in [Ids -> 0 .. StatCap]
  BY StatsType DEF Join, TypeOK
<1> QED
  BY <1>1, PassStartType DEF TypeOK, Join, Goto, leases, slots, view

LEMMA RenewSlotType == ASSUME TypeOK, NEW p \in Procs, RenewSlot(p) PROVE TypeOK'
<1>1. PICK w \in Waits :
         \/ ReapSlots(w) /\ Exit(p)
         \/ /\ WriteSlot(p, cid[p], w)
            /\ since' = [since EXCEPT ![p] = w]
            /\ Goto(p, "view")
            /\ UNCHANGED <<cid, booted, view>>
  BY DEF RenewSlot
<1>2. CASE ReapSlots(w) /\ Exit(p)
  <2>1. /\ slotToken' \in [Ordinals -> Procs \cup {NoProc}]
        /\ slotAge' \in [Ordinals -> Ages]
    BY <1>2, ConstantSets DEF TypeOK, ReapSlots
  <2> QED
    BY <1>2, <2>1, ExitType DEF TypeOK, RenewSlot, leases
<1>3. CASE /\ WriteSlot(p, cid[p], w)
           /\ since' = [since EXCEPT ![p] = w]
           /\ Goto(p, "view")
           /\ UNCHANGED <<cid, booted, view>>
  <2>1. since' \in [Procs -> Ages]
    BY <1>3, ConstantSets DEF TypeOK
  <2>2. pc' \in [Procs -> Pcs]
    BY <1>3 DEF TypeOK, Goto, Pcs, RunPcs, PassPcs
  <2> QED
    BY <1>3, <2>1, <2>2, WriteSlotType DEF TypeOK, RenewSlot, leases, view
<1> QED
  BY <1>1, <1>2, <1>3

LEMMA RenewSlotErrorType == ASSUME TypeOK, NEW p \in Procs, RenewSlotError(p) PROVE TypeOK'
BY DEF TypeOK, RenewSlotError, Goto, tables, view, Pcs, RunPcs, PassPcs

LEMMA ReadMembershipType ==
    ASSUME TypeOK, NEW p \in Procs, ReadMembership(p), cid[p] \in Ids PROVE TypeOK'
BY DEF TypeOK, ReadMembership, Goto, tables, Pcs, RunPcs, PassPcs

LEMMA ComputeSliceType == ASSUME TypeOK, NEW p \in Procs, ComputeSlice(p) PROVE TypeOK'
<1> DEFINE bound == effective_cap(Cardinality(enabled), Cardinality(live[p]), MaxPerShard)
<1>1. Cardinality(enabled) \in Nat
  BY FS_Subset, FS_CardinalityType DEF TypeOK
<1>2. Cardinality(live[p]) \in Nat
  <2>1. live[p] \subseteq Ids
    BY DEF TypeOK
  <2> QED
    BY <2>1, ConstantSets, FS_Subset, FS_CardinalityType
<1>3. bound \in Nat
  BY <1>1, <1>2, CapType
<1>4. Slice(enabled, live[p], bound, cid[p]) \subseteq Targets
  BY DEF Slice, TypeOK
<1>5. /\ cap' = [cap EXCEPT ![p] = bound]
      /\ mine' = [mine EXCEPT ![p] = Slice(enabled, live[p], bound, cid[p])]
  BY DEF ComputeSlice
<1>6. cap' \in [Procs -> Nat] /\ mine' \in [Procs -> SUBSET Targets]
  <2> HIDE DEF bound
  <2> QED
    BY <1>3, <1>4, <1>5 DEF TypeOK
<1> QED
  BY <1>6 DEF TypeOK, ComputeSlice, Goto, tables, Pcs, RunPcs, PassPcs

LEMMA EndPassType ==
    ASSUME TypeOK, NEW p \in Procs, EndPass(p)
    PROVE  /\ pc' \in [Procs -> Pcs] /\ booted' \in [Procs -> BOOLEAN]
           /\ live' \in [Procs -> SUBSET Ids] /\ cap' \in [Procs -> Nat]
           /\ mine' \in [Procs -> SUBSET Targets]
BY DEF TypeOK, EndPass, Goto, Pcs, RunPcs

LEMMA ReconcileType == ASSUME TypeOK, NEW p \in Procs, Reconcile(p) PROVE TypeOK'
<1>1. 0 \in Waits
  BY DEF Waits
<1>2. /\ leaseOwner' \in [Targets -> Ids \cup {NoId}]
      /\ leaseAge' \in [Targets -> Ages]
  BY <1>1, WriteLeasesType DEF Reconcile, reconcile_shard_leases
<1>3. since' \in [Procs -> Ages]
  BY ConstantSets DEF Reconcile, TypeOK
<1> QED
  BY <1>2, <1>3, EndPassType DEF TypeOK, Reconcile, slots

LEMMA ClaimTargetsType == ASSUME TypeOK, NEW p \in Procs, ClaimTargets(p) PROVE TypeOK'
<1>1. PICK w \in Waits : claim_shard_targets(p, w) /\ since' = [since EXCEPT ![p] = w]
  BY DEF ClaimTargets
<1>2. /\ leaseOwner' \in [Targets -> Ids \cup {NoId}]
      /\ leaseAge' \in [Targets -> Ages]
  BY <1>1, WriteLeasesType DEF claim_shard_targets
<1>3. since' \in [Procs -> Ages]
  BY <1>1, ConstantSets DEF TypeOK
<1> QED
  BY <1>2, <1>3, EndPassType DEF TypeOK, ClaimTargets, slots

LEMMA PassFailsType == ASSUME TypeOK, NEW p \in Procs, PassFails(p) PROVE TypeOK'
<1>1. CASE Exit(p)
  BY <1>1, ExitType DEF TypeOK, PassFails, tables
<1>2. CASE ~ Exit(p)
  BY <1>2, PassStartType DEF TypeOK, PassFails, Goto, tables
<1> QED
  BY <1>1, <1>2

LEMMA WakeType == ASSUME TypeOK, NEW p \in Procs, Wake(p) PROVE TypeOK'
BY PassStartType DEF TypeOK, Wake, Goto, tables, view

LEMMA PublishStatsType == ASSUME TypeOK, NEW p \in Procs, PublishStats(p) PROVE TypeOK'
BY StatsType DEF TypeOK, PublishStats, leases, slots, view

LEMMA CrashType == ASSUME TypeOK, NEW p \in Procs, Crash(p) PROVE TypeOK'
BY ExitType DEF TypeOK, Crash, tables

LEMMA ShutdownType == ASSUME TypeOK, NEW p \in Procs, Shutdown(p) PROVE TypeOK'
BY DEF TypeOK, Shutdown, Goto, tables, Pcs

LEMMA ReleaseLeasesType == ASSUME TypeOK, NEW p \in Procs, ReleaseLeases(p) PROVE TypeOK'
<1>1. /\ leaseOwner' \in [Targets -> Ids \cup {NoId}]
      /\ leaseAge' \in [Targets -> Ages]
      /\ statAge' \in [Ids -> 0 .. StatCap]
  <2>1. CASE release_shard_leases(p)
    BY <2>1, ConstantSets DEF TypeOK, release_shard_leases
  <2>2. CASE UNCHANGED <<leases, statAge>>
    BY <2>2 DEF TypeOK, leases
  <2> QED
    BY <2>1, <2>2 DEF ReleaseLeases
<1> QED
  BY <1>1 DEF TypeOK, ReleaseLeases, Goto, slots, view, Pcs

LEMMA ReleaseSlotType == ASSUME TypeOK, NEW p \in Procs, ReleaseSlot(p) PROVE TypeOK'
<1>1. /\ slotToken' \in [Ordinals -> Procs \cup {NoProc}]
      /\ slotAge' \in [Ordinals -> Ages]
  BY ConstantSets DEF TypeOK, ReleaseSlot, release_collector_slot, slots
<1> QED
  BY <1>1, ExitType DEF TypeOK, ReleaseSlot, leases

LEMMA SetEnabledType == ASSUME TypeOK, NEW t \in Switchable, SetEnabled(t) PROVE TypeOK'
BY DEF TypeOK, SetEnabled, tables, view

LEMMA TickType == ASSUME TypeOK, Tick PROVE TypeOK'
<1>1. /\ leaseAge' \in [Targets -> Ages]
      /\ slotAge' \in [Ordinals -> Ages]
      /\ since' \in [Procs -> Ages]
  BY OlderType, ConstantSets DEF TypeOK, Tick, Ages, AgeCap
<1>2. statAge' \in [Ids -> 0 .. StatCap]
  BY OlderType DEF TypeOK, Tick, StatCap
<1> QED
  BY <1>1, <1>2 DEF TypeOK, Tick, view

\* Only the process that acts moves in its loop or changes its id.
LEMMA IdOKStep ==
    ASSUME TypeOK, IdOK, NEW p \in Procs, ProcStep(p) PROVE IdOK'
<1> DEFINE Good(l, c) ==
      /\ l \in {"down", "slot"} => c = NoId
      /\ l \notin {"down", "slot"} => IF Slotted(p) THEN c \in Ordinals ELSE c = p
      /\ l \in {"slot", "renew"} => Slotted(p)
      /\ l = "claim" => p \notin Dynamic
      /\ l \in {"join", "view", "alloc", "reconcile"} => p \in Dynamic
<1>1. SUFFICES /\ \A q \in Procs \ {p} : pc'[q] = pc[q] /\ cid'[q] = cid[q]
               /\ Good(pc'[p], cid'[p])
  BY DEF IdOK
<1>2. pc \in [Procs -> Pcs] /\ cid \in [Procs -> Ids \cup {NoId}]
  BY DEF TypeOK
<1>3. Good(pc[p], cid[p])
  BY DEF IdOK
<1>4. CASE Exit(p)
  BY <1>2, <1>4 DEF Exit, Goto
<1>5. CASE Start(p)
  BY <1>2, <1>3, <1>5 DEF Start, Goto, Slotted
<1>6. CASE ClaimSlot(p)
  BY <1>2, <1>3, <1>6 DEF ClaimSlot, Goto, claim_collector_slot, Slotted
<1>7. CASE Join(p)
  BY <1>2, <1>3, <1>7 DEF Join, Goto, PassStart, Slotted
<1>8. CASE RenewSlot(p) /\ ~ Exit(p)
  BY <1>2, <1>3, <1>8 DEF RenewSlot, Goto, Slotted
<1>9. CASE RenewSlotError(p)
  BY <1>2, <1>3, <1>9 DEF RenewSlotError, Goto, Slotted
<1>10. CASE ReadMembership(p)
  BY <1>2, <1>3, <1>10 DEF ReadMembership, Goto
<1>11. CASE ComputeSlice(p)
  BY <1>2, <1>3, <1>11 DEF ComputeSlice, Goto
<1>12. CASE Reconcile(p)
  BY <1>2, <1>3, <1>12 DEF Reconcile, EndPass, Goto
<1>13. CASE ClaimTargets(p)
  BY <1>2, <1>3, <1>13 DEF ClaimTargets, EndPass, Goto
<1>14. CASE PassFails(p) /\ ~ Exit(p)
  BY <1>2, <1>3, <1>14 DEF PassFails, Goto, PassStart, Slotted
<1>15. CASE Wake(p)
  BY <1>2, <1>3, <1>15 DEF Wake, Goto, PassStart, Slotted
<1>16. CASE PublishStats(p)
  BY <1>3, <1>16 DEF PublishStats
<1>17. CASE Shutdown(p)
  BY <1>2, <1>3, <1>17 DEF Shutdown, Goto, RunPcs, PassPcs
<1>18. CASE ReleaseLeases(p)
  BY <1>2, <1>3, <1>18 DEF ReleaseLeases, Goto
<1> QED
  BY <1>4, <1>5, <1>6, <1>7, <1>8, <1>9, <1>10, <1>11, <1>12, <1>13, <1>14, <1>15,
     <1>16, <1>17, <1>18 DEF ProcStep, Crash, ReleaseSlot

\* Every step of a process preserves the types.
LEMMA ProcStepType ==
    ASSUME TypeOK, IdOK, NEW p \in Procs, ProcStep(p) PROVE TypeOK'
<1>1. pc[p] = "view" => cid[p] \in Ids
  BY DEF IdOK, Ids
<1>2. CASE ReadMembership(p)
  BY <1>1, <1>2, ReadMembershipType DEF ReadMembership
<1> QED
  BY <1>2, StartType, ClaimSlotType, JoinType, RenewSlotType, RenewSlotErrorType,
     ComputeSliceType, ReconcileType, ClaimTargetsType, PassFailsType, WakeType,
     PublishStatsType, CrashType, ShutdownType, ReleaseLeasesType, ReleaseSlotType
     DEF ProcStep

LEMMA TypeInductive == TypeOK /\ IdOK /\ [Next]_vars => (TypeOK /\ IdOK)'
<1> SUFFICES ASSUME TypeOK, IdOK, [Next]_vars PROVE (TypeOK /\ IdOK)'
  OBVIOUS
<1>1. ASSUME NEW p \in Procs, ProcStep(p) PROVE (TypeOK /\ IdOK)'
  BY <1>1, ProcStepType, IdOKStep
<1>2. ASSUME NEW t \in Switchable, SetEnabled(t) PROVE (TypeOK /\ IdOK)'
  BY <1>2, SetEnabledType DEF SetEnabled, IdOK
<1>3. CASE Tick
  BY <1>3, TickType DEF Tick, IdOK
<1>4. CASE UNCHANGED vars
  BY <1>4 DEF vars, TypeOK, IdOK
<1> QED
  BY <1>1, <1>2, <1>3, <1>4 DEF Next

LEMMA InitIdOK == Init => IdOK
BY DEF Init, IdOK

LEMMA TypeAndId == Spec => [](TypeOK /\ IdOK)
BY InitType, InitIdOK, TypeInductive, PTL DEF Spec

\* Every reachable state of the lease, slot and membership tables and of
\* the claim loops is well typed, for every fleet and configuration.
THEOREM TypeCorrect == Spec => []TypeOK
BY TypeAndId, PTL

-----------------------------------------------------------------------------
(* The steal guards.                                                       *)

\* What FreshLeaseKept says of one step.
LeaseStepOK ==
    \A t \in Targets :
        Fresh(t) /\ leaseOwner'[t] # leaseOwner[t] =>
            /\ leaseOwner'[t] = NoId
            /\ \/ t \notin enabled
               \/ \E p \in Procs : pc[p] = "release" /\ cid[p] = leaseOwner[t]

\* A write of leases takes nothing that is fresh and somebody else's, if
\* what it claims is its own or claimable.
LEMMA WriteLeasesKeeps ==
    ASSUME TypeOK, NEW p \in Procs, NEW claims, NEW w \in Waits, WriteLeases(p, claims, w),
           \A t \in claims : leaseOwner[t] = cid[p] \/ Claimable(t, w)
    PROVE  LeaseStepOK
<1> SUFFICES ASSUME NEW t \in Targets, Fresh(t), leaseOwner'[t] # leaseOwner[t]
             PROVE  leaseOwner'[t] = NoId /\ t \notin enabled
  BY DEF LeaseStepOK
<1>1. leaseAge[t] \in Nat /\ w \in Nat
  BY DEF TypeOK, Ages, AgeCap, Waits
<1>2. ~ Claimable(t, w)
  BY <1>1 DEF Fresh, Claimable
<1> QED
  BY <1>2 DEF WriteLeases

LEMMA ReconcileKeeps == ASSUME TypeOK, NEW p \in Procs, Reconcile(p) PROVE LeaseStepOK
<1>1. \A t \in SliceClaims(p) \cup OrphanClaims(p) : leaseOwner[t] = cid[p] \/ Claimable(t, 0)
  BY LowestSubset DEF SliceClaims, OrphanClaims
<1>2. 0 \in Waits
  BY DEF Waits
<1> QED
  BY <1>1, <1>2, WriteLeasesKeeps DEF Reconcile, reconcile_shard_leases

LEMMA ClaimTargetsKeeps == ASSUME TypeOK, NEW p \in Procs, ClaimTargets(p) PROVE LeaseStepOK
<1>1. PICK w \in Waits : claim_shard_targets(p, w)
  BY DEF ClaimTargets
<1>2. \A t \in StaticClaims(p, w) : leaseOwner[t] = cid[p] \/ Claimable(t, w)
  BY LowestSubset DEF StaticClaims
<1> QED
  BY <1>1, <1>2, WriteLeasesKeeps DEF claim_shard_targets

LEMMA LeaseStep == ASSUME TypeOK, [Next]_vars PROVE LeaseStepOK
<1>1. ASSUME NEW p \in Procs, ProcStep(p) PROVE LeaseStepOK
  <2>1. CASE ReleaseLeases(p)
    BY <2>1 DEF ReleaseLeases, release_shard_leases, leases, LeaseStepOK, TypeOK
  <2>2. CASE Reconcile(p) \/ ClaimTargets(p)
    BY <2>2, ReconcileKeeps, ClaimTargetsKeeps
  <2>3. CASE UNCHANGED leaseOwner
    BY <2>3 DEF LeaseStepOK
  <2> QED
    BY <1>1, <2>1, <2>2, <2>3
       DEF ProcStep, Start, ClaimSlot, Join, RenewSlot, RenewSlotError, ReadMembership,
           ComputeSlice, PassFails, Wake, PublishStats, Crash, Shutdown, ReleaseSlot,
           tables, leases
<1>2. CASE UNCHANGED leaseOwner
  BY <1>2 DEF LeaseStepOK
<1> QED
  BY <1>1, <1>2 DEF Next, SetEnabled, Tick, vars, tables

\* No claim pass, in either mode, with any view of the fleet and any wait
\* for the write lock, takes a fresh lease from another collector id
\* (claim_shard_targets and reconcile_shard_leases).
THEOREM FreshLeaseTheorem == Spec => FreshLeaseKept
<1>1. TypeOK /\ [Next]_vars => [LeaseStepOK]_vars
  BY LeaseStep
<1>2. Spec => [][LeaseStepOK]_vars
  BY <1>1, TypeCorrect, PTL DEF Spec
<1> QED
  BY <1>2 DEF FreshLeaseKept, LeaseStepOK

\* What FreshSlotKept says of one step.
SlotStepOK ==
    \A o \in Ordinals :
        slotToken[o] # NoProc /\ slotAge[o] <= TTL /\ slotToken'[o] # slotToken[o] =>
            slotToken'[o] = NoProc /\ pc[slotToken[o]] = "freeslot"

LEMMA SlotKeptWhenFresh ==
    ASSUME TypeOK, NEW o \in Ordinals, NEW w \in Waits,
           slotToken[o] # NoProc, slotAge[o] <= TTL
    PROVE  SlotKept(o, w)
<1>1. slotAge[o] \in Nat /\ w \in Nat
  BY DEF TypeOK, Ages, AgeCap, Waits
<1> QED
  BY <1>1 DEF SlotKept

LEMMA SlotStep == ASSUME TypeOK, [Next]_vars PROVE SlotStepOK
<1>1. ASSUME NEW p \in Procs, ProcStep(p) PROVE SlotStepOK
  <2>1. CASE ClaimSlot(p)
    <3>1. PICK w \in Waits, o \in Ordinals : IsMySlot(p, o, w) /\ WriteSlot(p, o, w)
      BY <2>1 DEF ClaimSlot, claim_collector_slot
    <3> QED
      BY <3>1, SlotKeptWhenFresh DEF SlotStepOK, IsMySlot, WriteSlot
  <2>2. CASE RenewSlot(p)
    <3>1. PICK w \in Waits :
             \/ ReapSlots(w)
             \/ /\ WriteSlot(p, cid[p], w)
                /\ ~ (SlotKept(cid[p], w) /\ slotToken[cid[p]] # p)
      BY <2>2 DEF RenewSlot
    <3>2. CASE ReapSlots(w)
      BY <3>2, SlotKeptWhenFresh DEF SlotStepOK, ReapSlots
    <3>3. CASE WriteSlot(p, cid[p], w) /\ ~ (SlotKept(cid[p], w) /\ slotToken[cid[p]] # p)
      BY <3>3, SlotKeptWhenFresh DEF SlotStepOK, WriteSlot
    <3> QED
      BY <3>1, <3>2, <3>3
  <2>3. CASE ReleaseSlot(p)
    BY <2>3 DEF ReleaseSlot, release_collector_slot, slots, SlotStepOK
  <2>4. CASE UNCHANGED slotToken
    BY <2>4 DEF SlotStepOK
  <2> QED
    BY <1>1, <2>1, <2>2, <2>3, <2>4
       DEF ProcStep, Start, Join, RenewSlotError, ReadMembership, ComputeSlice, Reconcile,
           ClaimTargets, PassFails, Wake, PublishStats, Crash, Shutdown, ReleaseLeases,
           tables, slots
<1>2. CASE UNCHANGED slotToken
  BY <1>2 DEF SlotStepOK
<1> QED
  BY <1>1, <1>2 DEF Next, SetEnabled, Tick, vars, tables

\* A stable ordinal with a fresh heartbeat is never given to a second
\* process (claim_collector_slot, renew_collector_slot).
THEOREM FreshSlotTheorem == Spec => FreshSlotKept
<1>1. TypeOK /\ [Next]_vars => [SlotStepOK]_vars
  BY SlotStep
<1>2. Spec => [][SlotStepOK]_vars
  BY <1>1, TypeCorrect, PTL DEF Spec
<1> QED
  BY <1>2 DEF FreshSlotKept, SlotStepOK

-----------------------------------------------------------------------------
(* Identity.  With heartbeats at most MaxStall <= TTL apart, a slot row    *)
(* never gets old enough to be reaped while its process runs.              *)

Timed == MaxWait <= MaxStall /\ MaxStall <= TTL

\* The row of a running process survives the opening DELETE of any slot
\* transaction.
LEMMA RowSurvives ==
    ASSUME TypeOK, IdentityHeld, Timed, NEW q \in Procs, cid[q] \in Ordinals, NEW w \in Waits
    PROVE  SlotKept(cid[q], w) /\ slotToken[cid[q]] = q
<1>1. slotToken[cid[q]] = q /\ slotAge[cid[q]] = since[q] /\ since[q] <= MaxStall
  BY DEF IdentityHeld
<1>2. since[q] \in Nat /\ w \in Nat
  BY DEF TypeOK, Ages, AgeCap, Waits
<1>3. q # NoProc
  OBVIOUS
<1> QED
  BY <1>1, <1>2, <1>3 DEF SlotKept, Timed

\* Writing the row of p, which no other process holds, keeps everybody's
\* identity.
LEMMA WriteSlotIdentity ==
    ASSUME TypeOK, IdOK, IdentityHeld, Timed, NEW p \in Procs, NEW o \in Ordinals, NEW w \in Waits,
           WriteSlot(p, o, w), cid'[p] = o, since'[p] = w,
           \A q \in Procs \ {p} : cid[q] # o /\ cid'[q] = cid[q] /\ since'[q] = since[q]
    PROVE  IdentityHeld'
<1> SUFFICES ASSUME NEW q \in Procs
             PROVE  /\ cid'[q] \in Ordinals => /\ slotToken'[cid'[q]] = q
                                               /\ slotAge'[cid'[q]] = since'[q]
                    /\ since'[q] <= MaxStall
  BY DEF IdentityHeld
<1>1. CASE q = p
  BY <1>1 DEF WriteSlot, Waits, Timed
<1>2. CASE q # p
  <2>1. since'[q] = since[q] /\ since[q] <= MaxStall /\ cid'[q] = cid[q] /\ cid[q] # o
    BY <1>2 DEF IdentityHeld
  <2>2. cid[q] \in Ordinals =>
           SlotKept(cid[q], w) /\ slotToken[cid[q]] = q /\ slotAge[cid[q]] = since[q]
    BY RowSurvives DEF IdentityHeld
  <2> QED
    BY <2>1, <2>2 DEF WriteSlot
<1> QED
  BY <1>1, <1>2

LEMMA ClaimSlotIdentity ==
    ASSUME TypeOK, IdOK, IdentityHeld, Timed, NEW p \in Procs, ClaimSlot(p)
    PROVE  IdentityHeld'
<1>1. PICK w \in Waits, o \in Ordinals :
         /\ IsMySlot(p, o, w) /\ WriteSlot(p, o, w)
         /\ cid' = [cid EXCEPT ![p] = o]
         /\ since' = [since EXCEPT ![p] = w]
  BY DEF ClaimSlot, claim_collector_slot
<1>2. ASSUME NEW q \in Procs \ {p} PROVE cid[q] # o
  <2>1. SUFFICES ASSUME cid[q] = o PROVE FALSE
    OBVIOUS
  <2>2. SlotKept(o, w) /\ slotToken[o] = q
    BY <2>1, RowSurvives
  <2> QED
    BY <1>1, <2>2 DEF IsMySlot
<1> QED
  BY <1>1, <1>2, WriteSlotIdentity DEF TypeOK

LEMMA RenewSlotIdentity ==
    ASSUME TypeOK, IdOK, IdentityHeld, Timed, NEW p \in Procs, RenewSlot(p)
    PROVE  IdentityHeld'
<1>1. cid[p] \in Ordinals
  BY DEF IdOK, RenewSlot
<1>2. PICK w \in Waits :
         IF SlotKept(cid[p], w) /\ slotToken[cid[p]] # p
         THEN ReapSlots(w) /\ Exit(p)
         ELSE /\ WriteSlot(p, cid[p], w)
              /\ since' = [since EXCEPT ![p] = w]
              /\ Goto(p, "view")
              /\ UNCHANGED <<cid, booted, view>>
  BY DEF RenewSlot
<1>3. SlotKept(cid[p], w) /\ slotToken[cid[p]] = p
  BY <1>1, RowSurvives
<1>4. /\ WriteSlot(p, cid[p], w)
      /\ since' = [since EXCEPT ![p] = w]
      /\ cid' = cid
  BY <1>2, <1>3
<1>5. ASSUME NEW q \in Procs \ {p} PROVE cid[q] # cid[p]
  BY <1>1, <1>3, RowSurvives
<1> QED
  BY <1>1, <1>4, <1>5, WriteSlotIdentity DEF TypeOK

\* Leaving gives up the id; nobody else's row is touched.
LEMMA ExitIdentity ==
    ASSUME TypeOK, IdentityHeld, NEW p \in Procs, Exit(p),
           \A o \in Ordinals : slotToken[o] # p =>
                slotToken'[o] = slotToken[o] /\ slotAge'[o] = slotAge[o]
    PROVE  IdentityHeld'
<1>1. cid'[p] = NoId /\ since'[p] = 0 /\ NoId \notin Ordinals
  BY DEF Exit, TypeOK, Ids
<1>2. \A q \in Procs \ {p} : cid'[q] = cid[q] /\ since'[q] = since[q]
  BY DEF Exit, TypeOK
<1>3. ASSUME NEW q \in Procs \ {p}, cid[q] \in Ordinals
      PROVE  slotToken'[cid[q]] = q /\ slotAge'[cid[q]] = since[q]
  BY <1>3 DEF IdentityHeld
<1> QED
  BY <1>1, <1>2, <1>3 DEF IdentityHeld

LEMMA TickIdentity == ASSUME TypeOK, IdOK, IdentityHeld, Tick PROVE IdentityHeld'
<1> SUFFICES ASSUME NEW q \in Procs
             PROVE  /\ cid[q] \in Ordinals => /\ slotToken[cid[q]] = q
                                              /\ slotAge'[cid[q]] = since'[q]
                    /\ since'[q] <= MaxStall
  BY DEF IdentityHeld, Tick
<1>1. since[q] \in Nat /\ since[q] <= MaxStall
  BY DEF IdentityHeld, TypeOK, Ages, AgeCap
<1>2. since'[q] = IF Up(q) THEN Older(since[q], AgeCap) ELSE 0
  BY DEF Tick
<1>3. since'[q] <= MaxStall
  BY <1>1, <1>2 DEF Tick, Timely, Older, AgeCap
<1>4. ASSUME cid[q] \in Ordinals
      PROVE  slotToken[cid[q]] = q /\ slotAge'[cid[q]] = since'[q]
  <2>1. Up(q)
    BY <1>4 DEF IdOK, Up, Ids
  <2>2. slotToken[cid[q]] = q /\ slotAge[cid[q]] = since[q] /\ q # NoProc
    BY <1>4 DEF IdentityHeld
  <2> QED
    BY <1>2, <1>4, <2>1, <2>2 DEF Tick
<1> QED
  BY <1>3, <1>4

\* A heartbeat of a process that has no slot, and every step that touches
\* neither the slot table nor the ids.
LEMMA OtherIdentity ==
    ASSUME TypeOK, IdOK, IdentityHeld, Timed, NEW p \in Procs, UNCHANGED <<slotToken, slotAge>>,
           \A q \in Procs \ {p} : cid'[q] = cid[q] /\ since'[q] = since[q],
           \/ cid'[p] = cid[p] /\ since'[p] = since[p]
           \/ cid'[p] \notin Ordinals /\ (since'[p] \in Waits \/ since'[p] = since[p])
    PROVE  IdentityHeld'
<1>1. ASSUME NEW q \in Procs, q # p \/ (cid'[p] = cid[p] /\ since'[p] = since[p])
      PROVE  /\ cid'[q] \in Ordinals => /\ slotToken'[cid'[q]] = q
                                        /\ slotAge'[cid'[q]] = since'[q]
             /\ since'[q] <= MaxStall
  BY <1>1 DEF IdentityHeld
<1>2. CASE cid'[p] \notin Ordinals /\ (since'[p] \in Waits \/ since'[p] = since[p])
  <2>1. since'[p] <= MaxStall
    BY <1>2 DEF IdentityHeld, Waits, Timed
  <2> QED
    BY <1>1, <1>2, <2>1 DEF IdentityHeld
<1> QED
  BY <1>1, <1>2 DEF IdentityHeld

LEMMA IdentityInductive ==
    ASSUME TypeOK, IdOK, IdentityHeld, Timed, [Next]_vars PROVE IdentityHeld'
<1>1. ASSUME NEW p \in Procs, ProcStep(p) PROVE IdentityHeld'
  <2> USE DEF TypeOK
  <2>1. ~ Slotted(p) => p \notin Ordinals
    OBVIOUS
  <2>2. CASE Start(p)
    BY <2>2, OtherIdentity DEF Start, tables, Ids
  <2>3. CASE ClaimSlot(p)
    BY <2>3, ClaimSlotIdentity
  <2>4. CASE RenewSlot(p)
    BY <2>4, RenewSlotIdentity
  <2>5. CASE Reconcile(p)
    <3>1. CASE Slotted(p)
      BY <2>5, <3>1, OtherIdentity DEF Reconcile, slots
    <3>2. CASE ~ Slotted(p)
      <4>1. cid[p] = p
        BY <2>5, <3>2 DEF IdOK, Reconcile
      <4>2. 0 \in Waits
        BY DEF Waits
      <4> QED
        BY <2>5, <3>2, <4>1, <4>2, OtherIdentity DEF Reconcile, slots
    <3> QED
      BY <3>1, <3>2
  <2>6. CASE ClaimTargets(p)
    <3>1. cid[p] = p
      BY <2>6 DEF IdOK, ClaimTargets, Slotted
    <3>2. PICK w \in Waits : since' = [since EXCEPT ![p] = w]
      BY <2>6 DEF ClaimTargets
    <3> QED
      BY <2>6, <3>1, <3>2, OtherIdentity DEF ClaimTargets, slots
  <2>7. CASE Exit(p) /\ UNCHANGED slots
    BY <2>7, ExitIdentity DEF slots
  <2>8. CASE ReleaseSlot(p)
    BY <2>8, ExitIdentity DEF ReleaseSlot, release_collector_slot, slots
  <2>9. CASE UNCHANGED <<slotToken, slotAge, cid, since>>
    BY <2>9, OtherIdentity
  <2> QED
    BY <1>1, <2>2, <2>3, <2>4, <2>5, <2>6, <2>7, <2>8, <2>9
       DEF ProcStep, Join, RenewSlotError, ReadMembership, ComputeSlice, PassFails, Wake,
           PublishStats, Crash, Shutdown, ReleaseLeases, tables, slots
<1>2. CASE Tick
  BY <1>2, TickIdentity
<1>3. CASE UNCHANGED <<slotToken, slotAge, cid, since>>
  BY <1>3 DEF IdentityHeld
<1> QED
  BY <1>1, <1>2, <1>3 DEF Next, SetEnabled, vars, tables

\* The inductive invariant of the timed results.
IInv == TypeOK /\ IdOK /\ IdentityHeld

LEMMA InitIdentity == Init => IdentityHeld
BY DEF Init, IdentityHeld, Ids

LEMMA IInvInductive == Timed /\ IInv /\ [Next]_vars => IInv'
BY TypeInductive, IdentityInductive DEF IInv

LEMMA IInvAlways == ASSUME Timed PROVE Spec => []IInv
<1>1. Init => IInv
  BY InitType, InitIdOK, InitIdentity DEF IInv
<1>2. IInv /\ [Next]_vars => IInv'
  BY IInvInductive
<1> QED
  BY <1>1, <1>2, PTL DEF Spec

\* If no running process lets more than the lease TTL pass between two
\* heartbeats (lock waits included), it never loses the ordinal its id is
\* derived from: the os._exit branch of ShardManager._reconcile_dynamic is
\* reached only by processes that stalled longer than that.
THEOREM IdentityTheorem == ASSUME Timed PROVE Spec => []IdentityHeld
<1>1. IInv => IdentityHeld
  BY DEF IInv
<1> QED
  BY <1>1, IInvAlways, PTL

\* Ids are never shared.
LEMMA UniqueIds ==
    ASSUME IInv, NEW p \in Procs, NEW q \in Procs, cid[p] = cid[q], cid[p] # NoId
    PROVE  p = q
<1>1. CASE cid[p] \in Ordinals
  BY <1>1 DEF IInv, IdentityHeld
<1>2. CASE cid[p] \notin Ordinals
  BY <1>2 DEF IInv, IdOK
<1> QED
  BY <1>1, <1>2

LEMMA UniqueIdsNext ==
    ASSUME IInv', NEW p \in Procs, NEW q \in Procs, cid'[p] = cid'[q], cid'[p] # NoId
    PROVE  p = q
<1>1. CASE cid'[p] \in Ordinals
  BY <1>1 DEF IInv, IdentityHeld
<1>2. CASE cid'[p] \notin Ordinals
  BY <1>2 DEF IInv, IdOK
<1> QED
  BY <1>1, <1>2

LEMMA NoDoubleOwnershipState == IInv => NoDoubleOwnership
<1> SUFFICES ASSUME IInv, NEW p \in Procs, NEW q \in Procs, NEW t,
                    t \in get_owned_targets(p), t \in get_owned_targets(q)
             PROVE  p = q
  BY DEF NoDoubleOwnership
<1>1. cid[p] = cid[q] /\ cid[p] # NoId
  BY DEF get_owned_targets, Fresh
<1> QED
  BY <1>1, UniqueIds

\* Under the same timing assumption no target is collected by two running
\* processes at once (docs/SCALABILITY.md: "no target is ever double-owned").
THEOREM NoDoubleOwnershipTheorem == ASSUME Timed PROVE Spec => []NoDoubleOwnership
BY NoDoubleOwnershipState, IInvAlways, PTL

-----------------------------------------------------------------------------
(* Refinement of TargetOwnership.                                          *)

LEMMA HolderFacts ==
    ASSUME NEW t \in Targets, Holder[t] # NoProc
    PROVE  \E p \in Procs : Holder[t] = p /\ Fresh(t) /\ leaseOwner[t] = cid[p]
BY DEF Holder, Collectors, get_owned_targets

LEMMA HolderFactsNext ==
    ASSUME NEW t \in Targets, Holder'[t] # NoProc
    PROVE  \E p \in Procs : /\ Holder'[t] = p
                            /\ leaseOwner'[t] # NoId /\ leaseOwner'[t] = cid'[p]
BY DEF Holder, Collectors, get_owned_targets, Fresh

\* At most one process changes its id in a step, and it only gains or loses
\* one.
LEMMA OneIdChanges ==
    ASSUME TypeOK, IdOK, [Next]_vars, NEW p \in Procs, NEW q \in Procs, p # q,
           cid[p] # NoId, cid'[q] # NoId
    PROVE  cid'[p] = cid[p] \/ cid'[q] = cid[q]
<1>1. ASSUME NEW r \in Procs, ProcStep(r) PROVE \A x \in Procs \ {r} : cid'[x] = cid[x]
  BY <1>1 DEF TypeOK, ProcStep, Start, ClaimSlot, claim_collector_slot, Join, RenewSlot,
     RenewSlotError, ReadMembership, ComputeSlice, Reconcile, ClaimTargets, PassFails, Wake,
     PublishStats, Crash, Shutdown, ReleaseLeases, ReleaseSlot, Exit
<1> QED
  BY <1>1 DEF Next, SetEnabled, Tick, vars

LEMMA OwnershipStep ==
    ASSUME IInv, IInv', [Next]_vars PROVE [Ownership!Next]_Holder
<1>1. Holder' \in [Targets -> Procs \cup {NoProc}]
  BY DEF Holder, Collectors
<1>2. ASSUME NEW t \in Targets, Holder[t] # NoProc, Holder'[t] # NoProc
      PROVE  Holder'[t] = Holder[t]
  <2>1. PICK p \in Procs : Holder[t] = p /\ Fresh(t) /\ leaseOwner[t] = cid[p]
    BY <1>2, HolderFacts
  <2>2. PICK q \in Procs : /\ Holder'[t] = q
                           /\ leaseOwner'[t] # NoId /\ leaseOwner'[t] = cid'[q]
    BY <1>2, HolderFactsNext
  <2>3. leaseOwner'[t] = leaseOwner[t]
    BY <2>1, <2>2, LeaseStep DEF LeaseStepOK, IInv
  <2>4. cid[p] = cid'[q] /\ cid[p] # NoId
    BY <2>1, <2>2, <2>3
  <2>5. SUFFICES ASSUME p # q PROVE FALSE
    BY <2>1, <2>2
  <2>6. cid'[p] = cid[p] \/ cid'[q] = cid[q]
    BY <2>4, <2>5, OneIdChanges DEF IInv
  <2>7. CASE cid'[q] = cid[q]
    BY <2>4, <2>5, <2>7, UniqueIds
  <2>8. CASE cid'[p] = cid[p]
    BY <2>4, <2>5, <2>8, UniqueIdsNext
  <2> QED
    BY <2>6, <2>7, <2>8
<1> QED
  BY <1>1, <1>2 DEF Ownership!Next

\* The lease protocol implements TargetOwnership: under the timing
\* assumption a target has at most one collecting process, and changes
\* hands only by way of nobody.
THEOREM OwnershipTheorem == ASSUME Timed PROVE Spec => ImplementsOwnership
<1>1. Init => Ownership!Init
  BY DEF Init, Ownership!Init, Holder, Collectors, Up
<1>2. IInv /\ IInv' /\ [Next]_vars => [Ownership!Next]_Holder
  BY OwnershipStep
<1> QED
  BY <1>1, <1>2, IInvAlways, PTL DEF Spec, ImplementsOwnership, Ownership!Spec

-----------------------------------------------------------------------------
(* The cap of the static mode.                                             *)

\* "ORDER BY id LIMIT n" selects at most n rows: the number of smaller rows
\* numbers the selected ones injectively from 0 to n - 1.
LEMMA LowestBound ==
    ASSUME NEW S, S \subseteq Nat, IsFiniteSet(S), NEW n \in Nat
    PROVE  IsFiniteSet(Lowest(S, n)) /\ Cardinality(Lowest(S, n)) <= n
<1> DEFINE Below(t) == {u \in S : u < t}
           L == Lowest(S, n)
           rank == [t \in L |-> Cardinality(Below(t))]
<1>1. L \subseteq S /\ IsFiniteSet(L)
  BY LowestSubset, FS_Subset
<1>2. \A t : IsFiniteSet(Below(t)) /\ Cardinality(Below(t)) \in Nat
  BY FS_Subset, FS_CardinalityType
<1>3. \A t \in L : rank[t] \in 0 .. (n - 1)
  BY <1>2 DEF Lowest
<1>4. ASSUME NEW t \in L, NEW u \in L, t < u PROVE rank[t] < rank[u]
  <2>1. t \in S /\ t \in Nat /\ u \in Nat
    BY <1>1
  <2>2. t \in Below(u) /\ t \notin Below(t)
    BY <1>4, <2>1
  <2>3. Below(t) \in SUBSET Below(u)
    <3> SUFFICES ASSUME NEW x \in S, x < t PROVE x < u
      OBVIOUS
    <3> x \in Nat
      OBVIOUS
    <3> QED
      BY <1>4, <2>1
  <2>4. /\ Cardinality(Below(t)) <= Cardinality(Below(u))
        /\ Cardinality(Below(u)) = Cardinality(Below(t)) => Below(u) = Below(t)
    <3> HIDE DEF Below
    <3> QED
      BY <1>2, <2>3, FS_Subset
  <2>5. Cardinality(Below(t)) < Cardinality(Below(u))
    <3> HIDE DEF Below
    <3> QED
      BY <1>2, <2>2, <2>4
  <2> QED
    BY <2>5
<1>5. rank \in Injection(L, 0 .. (n - 1))
  <2>1. rank \in [L -> 0 .. (n - 1)]
    BY <1>3
  <2>2. ASSUME NEW t \in L, NEW u \in L, rank[t] = rank[u] PROVE t = u
    <3>1. t \in Nat /\ u \in Nat /\ rank[t] \in Nat /\ rank[u] \in Nat
      BY <1>1, <1>2
    <3> HIDE DEF rank, L
    <3>2. ~ (t < u) /\ ~ (u < t)
      BY <1>4, <2>2, <3>1
    <3> QED
      BY <3>1, <3>2
  <2> HIDE DEF rank, L
  <2> QED
    BY <2>1, <2>2 DEF Injection, IsInjective
<1>6. IsFiniteSet(0 .. (n - 1)) /\ Cardinality(0 .. (n - 1)) = n
  BY FS_Interval
<1>7. Cardinality(L) <= Cardinality(0 .. (n - 1))
  <2> HIDE DEF rank, L
  <2> QED
    BY <1>1, <1>5, <1>6, FS_Injection DEF ExistsInjection
<1> QED
  BY <1>1, <1>6, <1>7

LeasesOf(c) == {t \in Targets : leaseOwner[t] = c}

LEMMA LeasesOfFinite ==
    ASSUME NEW c PROVE IsFiniteSet(LeasesOf(c)) /\ Cardinality(LeasesOf(c)) \in Nat
BY FS_Subset, FS_CardinalityType DEF LeasesOf

LEMMA FewerLeases ==
    ASSUME NEW c, LeasesOf(c)' \subseteq LeasesOf(c), Cardinality(LeasesOf(c)) <= MaxPerShard
    PROVE  Cardinality(LeasesOf(c)') <= MaxPerShard
<1>1. IsFiniteSet(LeasesOf(c)) /\ Cardinality(LeasesOf(c)) \in Nat
  BY LeasesOfFinite
<1>2. IsFiniteSet(LeasesOf(c)') /\ Cardinality(LeasesOf(c)') <= Cardinality(LeasesOf(c))
  BY <1>1, FS_Subset
<1>3. Cardinality(LeasesOf(c)') \in Nat
  BY <1>2, FS_CardinalityType
<1> QED
  BY <1>1, <1>2, <1>3

\* What a static pass ends up with: its old leases and at most as many new
\* ones as the cap leaves room for.
LEMMA StaticClaimsBound ==
    ASSUME TypeOK, NEW p \in Procs, NEW w \in Waits,
           Cardinality(LeasesOf(cid[p])) <= MaxPerShard
    PROVE  /\ IsFiniteSet(StaticClaims(p, w))
           /\ Cardinality(StaticClaims(p, w)) <= MaxPerShard
<1> DEFINE owned == {t \in enabled : leaseOwner[t] = cid[p]}
           rest  == {t \in enabled : Claimable(t, w)} \ owned
           room  == IF MaxPerShard >= Cardinality(owned)
                    THEN MaxPerShard - Cardinality(owned) ELSE 0
           new   == Lowest(rest, room)
<1>1. StaticClaims(p, w) = owned \cup new
  BY DEF StaticClaims
<1>2. IsFiniteSet(owned) /\ Cardinality(owned) \in Nat /\ Cardinality(owned) <= MaxPerShard
  <2>1. owned \subseteq LeasesOf(cid[p])
    BY DEF LeasesOf, TypeOK
  <2>2. IsFiniteSet(LeasesOf(cid[p])) /\ Cardinality(LeasesOf(cid[p])) \in Nat
    BY LeasesOfFinite
  <2>3. IsFiniteSet(owned) /\ Cardinality(owned) <= Cardinality(LeasesOf(cid[p]))
    BY <2>1, <2>2, FS_Subset
  <2> QED
    BY <2>2, <2>3, FS_CardinalityType
<1>3. rest \subseteq Nat /\ IsFiniteSet(rest)
  <2>1. rest \subseteq Targets
    BY DEF TypeOK
  <2> QED
    BY <2>1, FS_Subset
<1>4. room \in Nat /\ Cardinality(owned) + room = MaxPerShard
  BY <1>2
<1>5. IsFiniteSet(new) /\ Cardinality(new) <= room
  <2> HIDE DEF rest, room
  <2> QED
    BY <1>3, <1>4, LowestBound
<1>6. /\ IsFiniteSet(owned \cup new)
      /\ Cardinality(owned \cup new)
            = Cardinality(owned) + Cardinality(new) - Cardinality(owned \cap new)
  BY <1>2, <1>5, FS_Union
<1>7. Cardinality(new) \in Nat /\ Cardinality(owned \cap new) \in Nat
  BY <1>2, <1>5, FS_Subset, FS_CardinalityType
<1> HIDE DEF owned, new, room
<1> QED
  BY <1>1, <1>2, <1>4, <1>5, <1>6, <1>7

\* A pass of process r leaves the leases of another id c alone or takes
\* some of them away.
LEMMA OthersLose ==
    ASSUME NEW r \in Procs, NEW claims, NEW w, WriteLeases(r, claims, w), NEW c, c # cid[r], c # NoId
    PROVE  LeasesOf(c)' \subseteq LeasesOf(c)
BY DEF WriteLeases, LeasesOf

LEMMA StaticCapStep ==
    ASSUME TypeOK, IdOK, StaticWithinCap, [Next]_vars PROVE StaticWithinCap'
<1> SUFFICES ASSUME NEW p \in Procs \ Dynamic PROVE Cardinality(LeasesOf(p)') <= MaxPerShard
  BY DEF StaticWithinCap, LeasesOf
<1>1. Cardinality(LeasesOf(p)) <= MaxPerShard /\ p # NoId
  BY DEF StaticWithinCap, LeasesOf, Ids
<1>2. ASSUME NEW r \in Procs, ProcStep(r) PROVE Cardinality(LeasesOf(p)') <= MaxPerShard
  <2>1. CASE UNCHANGED leaseOwner
    BY <1>1, <2>1, FewerLeases DEF LeasesOf
  <2>2. CASE ReleaseLeases(r)
    <3>1. LeasesOf(p)' \subseteq LeasesOf(p)
      BY <1>1, <2>2 DEF ReleaseLeases, release_shard_leases, leases, LeasesOf
    <3> QED
      BY <1>1, <3>1, FewerLeases
  <2>3. CASE Reconcile(r)
    <3>1. cid[r] # p
      BY <2>3 DEF Reconcile, IdOK, Slotted
    <3>2. WriteLeases(r, SliceClaims(r) \cup OrphanClaims(r), 0)
      BY <2>3 DEF Reconcile, reconcile_shard_leases
    <3>3. LeasesOf(p)' \subseteq LeasesOf(p)
      BY <1>1, <3>1, <3>2, OthersLose
    <3> QED
      BY <1>1, <3>3, FewerLeases
  <2>4. CASE ClaimTargets(r)
    <3>1. cid[r] = r
      BY <2>4 DEF ClaimTargets, IdOK, Slotted
    <3>2. PICK w \in Waits : WriteLeases(r, StaticClaims(r, w), w)
      BY <2>4 DEF ClaimTargets, claim_shard_targets
    <3>3. CASE r # p
      BY <1>1, <3>1, <3>2, <3>3, OthersLose, FewerLeases
    <3>4. CASE r = p
      <4>1. LeasesOf(p)' \subseteq StaticClaims(r, w)
        BY <1>1, <3>1, <3>2, <3>4 DEF WriteLeases, LeasesOf, StaticClaims
      <4>2. /\ IsFiniteSet(StaticClaims(r, w))
            /\ Cardinality(StaticClaims(r, w)) <= MaxPerShard
        BY <1>1, <3>1, <3>4, StaticClaimsBound
      <4>3. IsFiniteSet(LeasesOf(p)') /\ Cardinality(LeasesOf(p)') <= Cardinality(StaticClaims(r, w))
        BY <4>1, <4>2, FS_Subset
      <4> QED
        BY <4>2, <4>3, FS_CardinalityType
    <3> QED
      BY <3>3, <3>4
  <2> QED
    BY <1>2, <2>1, <2>2, <2>3, <2>4
       DEF ProcStep, Start, ClaimSlot, Join, RenewSlot, RenewSlotError, ReadMembership,
           ComputeSlice, PassFails, Wake, PublishStats, Crash, Shutdown, ReleaseSlot,
           tables, leases
<1>3. CASE UNCHANGED leaseOwner
  BY <1>1, <1>3, FewerLeases DEF LeasesOf
<1> QED
  BY <1>2, <1>3 DEF Next, SetEnabled, Tick, vars, tables

\* A static collector never holds more than max_targets_per_shard leases,
\* even though its heartbeat revives leases that had gone stale
\* (claim_shard_targets).
THEOREM StaticCapTheorem == Spec => []StaticWithinCap
<1>1. Init => StaticWithinCap
  <2> SUFFICES ASSUME Init, NEW p \in Procs \ Dynamic
               PROVE  Cardinality({t \in Targets : leaseOwner[t] = p}) <= MaxPerShard
    BY DEF StaticWithinCap
  <2>1. {t \in Targets : leaseOwner[t] = p} = {}
    BY DEF Init, Ids
  <2>2. Cardinality({}) = 0
    BY FS_EmptySet
  <2> QED
    BY <2>1, <2>2
<1>2. TypeOK /\ IdOK /\ StaticWithinCap /\ [Next]_vars => StaticWithinCap'
  BY StaticCapStep
<1> QED
  BY <1>1, <1>2, TypeAndId, PTL DEF Spec

-----------------------------------------------------------------------------
(* The heartbeat of the static mode.                                       *)

\* Every lease of a booted static process is at most as old as its last
\* pass.
HeartbeatInv ==
    \A p \in Procs \ Dynamic : booted[p] =>
        /\ Up(p)
        /\ \A t \in Targets : leaseOwner[t] = p => leaseAge[t] <= since[p]

\* A pass of another process leaves the leases of p as old as they were.
LEMMA OthersAges ==
    ASSUME TypeOK, NEW r \in Procs, NEW claims, NEW w, WriteLeases(r, claims, w),
           NEW c, c # cid[r], c # NoId, NEW t \in Targets, leaseOwner'[t] = c
    PROVE  leaseOwner[t] = c /\ leaseAge'[t] = leaseAge[t]
BY DEF WriteLeases, TypeOK

LEMMA HeartbeatStep ==
    ASSUME TypeOK, IdOK, HeartbeatInv, [Next]_vars PROVE HeartbeatInv'
<1> SUFFICES ASSUME NEW p \in Procs \ Dynamic, booted'[p]
             PROVE  /\ Up(p)'
                    /\ \A t \in Targets : leaseOwner'[t] = p => leaseAge'[t] <= since'[p]
  BY DEF HeartbeatInv
<1> DEFINE Goal == /\ Up(p)'
                   /\ \A t \in Targets : leaseOwner'[t] = p => leaseAge'[t] <= since'[p]
<1>0. /\ pc \in [Procs -> Pcs] /\ cid \in [Procs -> Ids \cup {NoId}]
      /\ booted \in [Procs -> BOOLEAN] /\ since \in [Procs -> Ages]
      /\ leaseAge \in [Targets -> Ages] /\ leaseOwner \in [Targets -> Ids \cup {NoId}]
      /\ p # NoId /\ p \notin Ordinals
  BY DEF TypeOK, Ids
<1>1. ASSUME NEW r \in Procs, ProcStep(r) PROVE Goal
  <2>1. CASE Exit(r)
    <3>1. r # p /\ booted[p] /\ since'[p] = since[p] /\ pc'[p] = pc[p]
      BY <1>0, <2>1 DEF Exit, Goto
    <3>2. UNCHANGED leases
      BY <1>1, <2>1, <3>1 DEF ProcStep, Start, ClaimSlot, Join, RenewSlot, RenewSlotError,
         ReadMembership, ComputeSlice, Reconcile, ClaimTargets, PassFails, Wake, PublishStats,
         Crash, Shutdown, ReleaseLeases, ReleaseSlot, Exit, EndPass, Goto, tables, leases, TypeOK
    <3> QED
      BY <3>1, <3>2 DEF HeartbeatInv, Up, leases
  <2>2. CASE ReleaseLeases(r)
    <3>1. booted[p] /\ since' = since
      BY <2>2 DEF ReleaseLeases
    <3>2. Up(p)'
      BY <1>0, <2>2, <3>1 DEF ReleaseLeases, Goto, Up, HeartbeatInv
    <3>3. ASSUME NEW t \in Targets, leaseOwner'[t] = p
          PROVE  leaseOwner[t] = p /\ leaseAge'[t] = leaseAge[t]
      BY <1>0, <2>2, <3>3 DEF ReleaseLeases, release_shard_leases, leases
    <3> QED
      BY <3>1, <3>2, <3>3 DEF HeartbeatInv
  <2>3. CASE Reconcile(r)
    <3>1. cid[r] # p /\ r # p
      BY <1>0, <2>3 DEF Reconcile, IdOK
    <3>2. WriteLeases(r, SliceClaims(r) \cup OrphanClaims(r), 0)
      BY <2>3 DEF Reconcile, reconcile_shard_leases
    <3>3. booted[p] /\ since'[p] = since[p] /\ pc'[p] = pc[p]
      BY <1>0, <2>3, <3>1 DEF Reconcile, EndPass, Goto
    <3> QED
      BY <1>0, <3>1, <3>2, <3>3, OthersAges DEF HeartbeatInv, Up
  <2>4. CASE ClaimTargets(r)
    <3>1. cid[r] = r
      BY <2>4 DEF ClaimTargets, IdOK, Slotted
    <3>2. PICK w \in Waits : /\ WriteLeases(r, StaticClaims(r, w), w)
                             /\ since' = [since EXCEPT ![r] = w]
      BY <2>4 DEF ClaimTargets, claim_shard_targets
    <3>3. CASE r # p
      <4>1. booted[p] /\ since'[p] = since[p] /\ pc'[p] = pc[p]
        BY <1>0, <2>4, <3>2, <3>3 DEF ClaimTargets, EndPass, Goto
      <4> QED
        BY <1>0, <3>1, <3>2, <3>3, <4>1, OthersAges DEF HeartbeatInv, Up
    <3>4. CASE r = p
      <4>1. Up(p)' /\ since'[p] = w /\ w \in Nat
        BY <1>0, <2>4, <3>2, <3>4 DEF ClaimTargets, EndPass, Goto, Up, Waits
      <4>2. ASSUME NEW t \in Targets, leaseOwner'[t] = p PROVE leaseAge'[t] = w
        BY <1>0, <3>1, <3>2, <3>4, <4>2 DEF WriteLeases, StaticClaims
      <4> QED
        BY <4>1, <4>2
    <3> QED
      BY <3>3, <3>4
  <2>5. CASE Start(r) \/ ClaimSlot(r) \/ RenewSlot(r)
    <3>1. (booted[p] /\ UNCHANGED leases) \/ Exit(r)
      BY <2>5 DEF Start, ClaimSlot, RenewSlot, tables, leases
    <3>2. CASE booted[p] /\ UNCHANGED leases /\ ~ Exit(r)
      <4>1. r # p \/ Start(r)
        BY <1>0, <2>5 DEF ClaimSlot, RenewSlot, IdOK, Slotted
      <4>2. r # p
        BY <3>2, <4>1 DEF Start, HeartbeatInv, Up
      <4>3. since'[p] = since[p] /\ pc'[p] = pc[p]
        BY <1>0, <2>5, <3>2, <4>2 DEF Start, ClaimSlot, RenewSlot, Goto
      <4> QED
        BY <3>2, <4>3 DEF HeartbeatInv, Up, leases
    <3> QED
      BY <2>1, <3>1, <3>2
  <2>6. CASE /\ ~ Exit(r)
             /\ \/ Join(r) \/ RenewSlotError(r) \/ ReadMembership(r) \/ ComputeSlice(r)
                \/ PassFails(r) \/ Wake(r) \/ PublishStats(r) \/ Shutdown(r)
    <3>1. booted[p] /\ UNCHANGED <<leases, since>>
      BY <2>6 DEF Join, RenewSlotError, ReadMembership, ComputeSlice, PassFails, Wake,
                  PublishStats, Shutdown, tables, leases
    <3>2. pc'[p] # "down"
      BY <1>0, <2>6, <3>1 DEF Join, RenewSlotError, ReadMembership, ComputeSlice, PassFails,
         Wake, PublishStats, Shutdown, Goto, PassStart, HeartbeatInv, Up
    <3> QED
      BY <3>1, <3>2 DEF HeartbeatInv, Up, leases
  <2> QED
    BY <1>1, <2>1, <2>2, <2>3, <2>4, <2>5, <2>6 DEF ProcStep, Crash, ReleaseSlot
<1>2. CASE Tick
  <2>1. booted[p] /\ Up(p) /\ Up(p)'
    BY <1>2 DEF Tick, HeartbeatInv, Up
  <2>2. since'[p] = Older(since[p], AgeCap)
    BY <1>2, <2>1 DEF Tick
  <2>3. ASSUME NEW t \in Targets, leaseOwner'[t] = p PROVE leaseAge'[t] <= since'[p]
    <3>1. leaseOwner[t] = p /\ leaseAge'[t] = Older(leaseAge[t], AgeCap)
      BY <1>0, <1>2, <2>3 DEF Tick
    <3>2. leaseAge[t] <= since[p] /\ leaseAge[t] \in 0 .. AgeCap /\ since[p] \in 0 .. AgeCap
      BY <1>0, <2>1, <3>1 DEF HeartbeatInv, Ages
    <3> QED
      BY <2>2, <3>1, <3>2, ConstantSets DEF Older, AgeCap
  <2> QED
    BY <2>1, <2>3
<1>3. CASE UNCHANGED <<leaseOwner, leaseAge, since, pc, booted>>
  BY <1>3 DEF HeartbeatInv, Up
<1> QED
  BY <1>1, <1>2, <1>3 DEF Next, SetEnabled, vars, tables

\* With passes at most lease_ttl apart, no lease of a running static
\* collector expires between two passes (ShardConfig._check_heartbeat_margin).
THEOREM StaticFreshTheorem == ASSUME Timed PROVE Spec => []StaticLeasesStayFresh
<1>1. Init => HeartbeatInv
  BY DEF Init, HeartbeatInv
<1>2. TypeOK /\ IdOK /\ HeartbeatInv /\ [Next]_vars => HeartbeatInv'
  BY HeartbeatStep
<1>3. Spec => []HeartbeatInv
  BY <1>1, <1>2, TypeAndId, PTL DEF Spec
<1>4. IInv /\ HeartbeatInv => StaticLeasesStayFresh
  <2> SUFFICES ASSUME IInv, HeartbeatInv, NEW p \in Procs \ Dynamic, booted[p],
                      NEW t \in Targets, leaseOwner[t] = cid[p]
               PROVE  Fresh(t)
    BY DEF StaticLeasesStayFresh
  <2>1. Up(p) /\ ~ Slotted(p)
    BY DEF HeartbeatInv, Slotted
  <2>2. CASE cid[p] = p
    <3>1. leaseAge[t] <= since[p] /\ since[p] <= MaxStall
      BY <2>2 DEF HeartbeatInv, IInv, IdentityHeld
    <3>2. leaseAge[t] \in Nat /\ since[p] \in Nat
      BY DEF IInv, TypeOK, Ages, AgeCap
    <3> QED
      BY <2>2, <3>1, <3>2 DEF Fresh, Timed, Ids
  <2>3. pc[p] # "slot"
    BY <2>1 DEF IInv, IdOK
  <2> QED
    BY <2>1, <2>2, <2>3 DEF IInv, IdOK, Up
<1> QED
  BY <1>3, <1>4, IInvAlways, PTL
=============================================================================
