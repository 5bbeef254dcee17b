---------------------- MODULE AlertSubscriptionsProofs ----------------------
(***************************************************************************)
(* Proofs about AlertSubscriptions, for any targets and configurations, in *)
(* every mode of the manager and for any room in the tables of the BMCs.   *)
(***************************************************************************)
EXTENDS AlertSubscriptions, TLAPS

USE SubscriptionAssumption

-----------------------------------------------------------------------------
(* The inductive invariant.                                                *)

Passes == [at : Places, want : [Targets -> Configs \cup {None}], todo : SUBSET Targets,
           add : SUBSET Targets, cur : Targets \cup {None}, sub : HookSub \cup {None}]

Subscribers == [cfg : Configs, state : {"reconnecting", "connected", "cooldown", "failed"},
                fails : Nat]

Typed ==
    /\ sse \in [Targets -> Subscribers \cup {None}]
    /\ hook \in [Targets -> HookSub \cup {None}]
    /\ fp \in [Targets -> Configs \cup {None}]
    /\ refresh \in Passes /\ bmc \in [Targets -> SUBSET Sub]

\* What the place of the refresh and of stop() says about the locals of the pass.
Stages ==
    /\ refresh.at = "cancelled" <=> stopping \in {"hooks", "done"}
    /\ refresh.at # "cancelled" => cutOff = None
    /\ stopping = "done" => \A t \in Targets : hook[t] = None
    /\ refresh.at = "deleting" => refresh.cur \in refresh.todo /\ refresh.sub \in HookSub
    /\ refresh.at \in {"probe", "reconcile", "create"} => refresh.cur \in refresh.add
    /\ \A t \in refresh.add : refresh.want[t] # None
    /\ refresh.at \in {"idle", "read", "verify", "cancelled"} => refresh.add = {}
    /\ refresh.at = "verify" => \A t \in refresh.todo : hook[t] # None

\* The target waits for its removal in the running pass.
Waits(t) == refresh.at \in {"remove", "deleting"} /\ t \in refresh.todo

\* The subscription that the BMC holds as s is in the hands of the manager.
Held(t, s) ==
    \/ hook[t] # None /\ hook[t].id = s.id
    \/ refresh.at = "deleting" /\ refresh.cur = t /\ refresh.sub.id = s.id

TargetOK(t) ==
    /\ sse[t] = None \/ hook[t] = None
    /\ sse[t] # None => fp[t] = sse[t].cfg
    /\ hook[t] # None => fp[t] = hook[t].cfg
    /\ refresh.at = "deleting" /\ refresh.cur = t => ~Subscribed(t)
    /\ Subscribed(t) /\ ~Waits(t) =>
           /\ t \notin refresh.add
           /\ refresh.at \notin {"read", "cancelled"} => fp[t] = refresh.want[t]
    /\ t \in lossy \cup {cutOff} \/ \A s \in bmc[t] : s.dest = "mine" => Held(t, s)

SubscriptionInv == Typed /\ Stages /\ \A t \in Targets : TargetOK(t)

-----------------------------------------------------------------------------
(* Steps around the passes.                                                *)

LEMMA InitSubscriptions == Init => SubscriptionInv
<1> SUFFICES ASSUME Init PROVE SubscriptionInv
  OBVIOUS
<1>1. /\ refresh \in Passes /\ refresh.at = "idle" /\ refresh.add = {} /\ refresh.todo = {}
      /\ refresh.cur = None
  BY DEF Init, NoPass, Passes, Places
<1>2. bmc \in [Targets -> SUBSET Sub]
  BY DEF Init, Sub
<1>3. Typed
  BY <1>1, <1>2 DEF Init, Typed
<1>4. Stages
  BY <1>1 DEF Init, Stages
<1>5. ASSUME NEW t \in Targets PROVE TargetOK(t)
  BY <1>1, <1>2 DEF Init, TargetOK, Subscribed, Mine
<1> QED
  BY <1>3, <1>4, <1>5 DEF SubscriptionInv

\* A step that leaves the subscriptions and the pass alone.
LEMMA OthersKeep ==
    ASSUME SubscriptionInv, UNCHANGED <<sse, hook, fp, refresh, bmc, lossy, cutOff>>,
           \/ stopping' = stopping
           \/ stopping = "no" /\ stopping' = "sse"
           \/ stopping = "hooks" /\ stopping' = "done" /\ \A t \in Targets : hook[t] = None
    PROVE  SubscriptionInv'
<1>1. Typed' /\ Stages'
  BY DEF SubscriptionInv, Typed, Stages
<1>2. \A t \in Targets : TargetOK(t)'
  BY DEF SubscriptionInv, TargetOK, Subscribed, Waits, Held
<1> QED
  BY <1>1, <1>2 DEF SubscriptionInv

LEMMA BmcKeeps ==
    ASSUME SubscriptionInv, NEW t \in Targets, BmcChanges(t)
    PROVE  SubscriptionInv'
<1>1. UNCHANGED <<sse, hook, fp, refresh, lossy, cutOff, stopping>>
  BY DEF BmcChanges, manager
<1>2. bmc' \in [Targets -> SUBSET Sub] /\ \A u \in Targets : bmc'[u] \subseteq bmc[u]
  BY DEF BmcChanges, Put, SubscriptionInv, Typed
<1>3. Typed' /\ Stages'
  BY <1>1, <1>2 DEF SubscriptionInv, Typed, Stages
<1>4. ASSUME NEW u \in Targets PROVE TargetOK(u)'
  BY <1>1, <1>2 DEF SubscriptionInv, TargetOK, Subscribed, Waits, Held
<1> QED
  BY <1>3, <1>4 DEF SubscriptionInv

\* A subscriber keeps its configuration.
LEMMA SseStepKeeps ==
    ASSUME SubscriptionInv, NEW t \in Targets, sse[t] # None,
           NEW v \in Subscribers, v.cfg = sse[t].cfg, SseStep(t, v)
    PROVE  SubscriptionInv'
<1>1. UNCHANGED <<hook, fp, refresh, bmc, lossy, cutOff, stopping>>
  BY DEF SseStep
<1>2. /\ sse' \in [Targets -> Subscribers \cup {None}] /\ sse'[t] = v
      /\ \A u \in Targets : u # t => sse'[u] = sse[u]
  BY DEF SseStep, Put, SubscriptionInv, Typed
<1>3. Typed' /\ Stages'
  BY <1>1, <1>2 DEF SubscriptionInv, Typed, Stages
<1>4. ASSUME NEW u \in Targets PROVE TargetOK(u)'
  BY <1>1, <1>2 DEF SubscriptionInv, TargetOK, Subscribed, Waits, Held
<1> QED
  BY <1>3, <1>4 DEF SubscriptionInv

LEMMA SubscriberKeeps ==
    ASSUME SubscriptionInv, NEW t \in Targets, subscribe_loop(t)
    PROVE  SubscriptionInv'
<1>1. sse[t] # None /\ sse[t] \in Subscribers
  BY DEF SubscriptionInv, Typed, subscribe_loop, connect_and_listen, StreamEnds, CooldownOver
<1>2. \A st \in {"reconnecting", "connected", "cooldown", "failed"}, n \in Nat :
        /\ [sse[t] EXCEPT !.state = st, !.fails = n] \in Subscribers
        /\ [sse[t] EXCEPT !.state = st, !.fails = n].cfg = sse[t].cfg
  BY <1>1 DEF Subscribers
<1>3. \A st \in {"reconnecting", "connected", "cooldown", "failed"} :
        /\ [sse[t] EXCEPT !.state = st] \in Subscribers
        /\ [sse[t] EXCEPT !.state = st].cfg = sse[t].cfg
  BY <1>1 DEF Subscribers
<1>4. Counted(sse[t].fails) \in Nat
  BY <1>1 DEF Subscribers, Counted
<1>5. \E v \in Subscribers : v.cfg = sse[t].cfg /\ SseStep(t, v)
  <2>1. CASE connect_and_listen(t)
    BY <1>2, <1>3, <1>4, <2>1 DEF connect_and_listen
  <2>2. CASE StreamEnds(t)
    BY <1>2, <1>3, <2>2 DEF StreamEnds
  <2>3. CASE CooldownOver(t)
    BY <1>2, <2>3 DEF CooldownOver
  <2> QED
    BY <2>1, <2>2, <2>3 DEF subscribe_loop
<1> QED
  BY <1>1, <1>5, SseStepKeeps

-----------------------------------------------------------------------------
(* The passes.                                                             *)

LEMMA ReadKeeps ==
    ASSUME SubscriptionInv, ReadTargets
    PROVE  SubscriptionInv'
<1>1. UNCHANGED <<sse, hook, fp, bmc, lossy, cutOff, stopping>>
  BY DEF ReadTargets, manager
<1>2. refresh.at = "idle" /\ refresh.add = {} /\ cutOff = None /\ stopping = "no"
  BY DEF ReadTargets, SubscriptionInv, Stages
<1>3. /\ refresh' \in Passes /\ refresh'.at = "read" /\ refresh'.add = {}
      /\ refresh'.todo = refresh.todo
  BY <1>2 DEF ReadTargets, SubscriptionInv, Typed, Passes, Places
<1>4. Typed' /\ Stages'
  BY <1>1, <1>2, <1>3 DEF SubscriptionInv, Typed, Stages
<1>5. ASSUME NEW t \in Targets PROVE TargetOK(t)'
  BY <1>1, <1>2, <1>3 DEF SubscriptionInv, TargetOK, Subscribed, Waits, Held
<1> QED
  BY <1>4, <1>5 DEF SubscriptionInv

LEMMA PlanKeeps ==
    ASSUME SubscriptionInv, Plan
    PROVE  SubscriptionInv'
<1> DEFINE want == refresh.want
           current == {t \in Targets : Subscribed(t)} \ Harvested
           changed == Changed(current, want)
<1>1. UNCHANGED <<hook, fp, bmc, lossy, cutOff, stopping>> /\ refresh.at = "read" /\ cutOff = None
  BY DEF Plan, SubscriptionInv, Stages
<1>2. sse' = [t \in Targets |-> IF t \in Harvested THEN None ELSE sse[t]]
  BY DEF Plan
<1>3. /\ refresh' \in Passes /\ refresh'.at = "remove" /\ refresh'.want = want
      /\ refresh'.todo = (current \ Desired(want)) \cup changed
      /\ refresh'.add = (Desired(want) \ current) \cup changed
  <2>1. /\ (current \ Desired(want)) \cup changed \in SUBSET Targets
        /\ (Desired(want) \ current) \cup changed \in SUBSET Targets
    BY DEF Changed, Desired
  <2>2. refresh' = [refresh EXCEPT !.at = "remove",
                      !.todo = (current \ Desired(want)) \cup changed,
                      !.add = (Desired(want) \ current) \cup changed]
    BY DEF Plan
  <2> HIDE DEF current, changed
  <2> QED
    BY <2>1, <2>2 DEF SubscriptionInv, Typed, Passes, Places
<1>4. \A t \in Targets : sse'[t] = IF t \in Harvested THEN None ELSE sse[t]
  BY <1>2
<1>5. Typed'
  BY <1>1, <1>2, <1>3 DEF SubscriptionInv, Typed
<1>6. Stages'
  <2>1. \A t \in refresh'.add : want[t] # None
    BY <1>3 DEF Changed, Desired
  <2> HIDE DEF current, changed
  <2> QED
    BY <1>1, <1>3, <2>1 DEF SubscriptionInv, Stages
<1>7. ASSUME NEW t \in Targets PROVE TargetOK(t)'
  <2>1. TargetOK(t)
    BY DEF SubscriptionInv
  <2>2. Subscribed(t)' => t \in current
    BY <1>1, <1>4, <2>1 DEF Subscribed, Harvested, TargetOK
  <2>3. t \in current /\ t \notin refresh'.todo => t \notin refresh'.add /\ fp[t] = want[t]
    BY <1>3 DEF Changed, Desired
  <2> HIDE DEF current, changed
  <2> QED
    BY <1>1, <1>3, <1>4, <2>1, <2>2, <2>3 DEF TargetOK, Subscribed, Waits, Held
<1> QED
  BY <1>5, <1>6, <1>7 DEF SubscriptionInv

LEMMA RemoveSseKeeps ==
    ASSUME SubscriptionInv, NEW t \in Targets, RemoveSse(t)
    PROVE  SubscriptionInv'
<1>1. /\ UNCHANGED <<hook, bmc, lossy, cutOff, stopping>> /\ refresh.at = "remove"
      /\ hook[t] = None
  BY DEF RemoveSse
<1>2. /\ sse' \in [Targets -> Subscribers \cup {None}] /\ sse'[t] = None
      /\ fp' \in [Targets -> Configs \cup {None}] /\ fp'[t] = None
      /\ \A u \in Targets : u # t => sse'[u] = sse[u] /\ fp'[u] = fp[u]
  BY DEF RemoveSse, Forget, Put, SubscriptionInv, Typed
<1>3. /\ refresh' \in Passes /\ refresh'.at = "remove" /\ refresh'.want = refresh.want
      /\ refresh'.todo = refresh.todo \ {t} /\ refresh'.add = refresh.add
  BY <1>1 DEF RemoveSse, SubscriptionInv, Typed, Passes
<1>4. Typed' /\ Stages'
  BY <1>1, <1>2, <1>3 DEF SubscriptionInv, Typed, Stages
<1>5. ASSUME NEW u \in Targets PROVE TargetOK(u)'
  BY <1>1, <1>2, <1>3 DEF SubscriptionInv, TargetOK, Subscribed, Waits, Held
<1> QED
  BY <1>4, <1>5 DEF SubscriptionInv

LEMMA RemoveHookKeeps ==
    ASSUME SubscriptionInv, NEW t \in Targets, RemoveHook(t)
    PROVE  SubscriptionInv'
<1>1. /\ UNCHANGED <<fp, bmc, lossy, cutOff, stopping>> /\ refresh.at = "remove"
      /\ hook[t] \in HookSub /\ t \in refresh.todo
  BY DEF RemoveHook, SubscriptionInv, Typed
<1>2. /\ sse' \in [Targets -> Subscribers \cup {None}] /\ sse'[t] = None
      /\ hook' \in [Targets -> HookSub \cup {None}] /\ hook'[t] = None
      /\ \A u \in Targets : u # t => sse'[u] = sse[u] /\ hook'[u] = hook[u]
  BY DEF RemoveHook, Put, SubscriptionInv, Typed
<1>3. /\ refresh' \in Passes /\ refresh'.at = "deleting" /\ refresh'.want = refresh.want
      /\ refresh'.todo = refresh.todo /\ refresh'.add = refresh.add
      /\ refresh'.cur = t /\ refresh'.sub = hook[t]
  BY <1>1 DEF RemoveHook, SubscriptionInv, Typed, Passes, Places
<1>4. Typed' /\ Stages'
  BY <1>1, <1>2, <1>3 DEF SubscriptionInv, Typed, Stages
<1>5. ASSUME NEW u \in Targets PROVE TargetOK(u)'
  BY <1>1, <1>2, <1>3 DEF SubscriptionInv, TargetOK, Subscribed, Waits, Held
<1> QED
  BY <1>4, <1>5 DEF SubscriptionInv

\* A DELETE takes all the subscriptions with the id, or the target counts as lossy.
LEMMA DeletedSubs ==
    ASSUME Typed, NEW t \in Targets, NEW h, delete_subscription(t, h)
    PROVE  /\ bmc' \in [Targets -> SUBSET Sub] /\ lossy \subseteq lossy'
           /\ \A u \in Targets : bmc'[u] \subseteq bmc[u]
           /\ t \in lossy' \/ \A s \in bmc'[t] : s.id # h.id
<1> DEFINE gone == Put(bmc, t, {s \in bmc[t] : s.id # h.id})
<1>1. /\ gone \in [Targets -> SUBSET Sub] /\ \A u \in Targets : gone[u] \subseteq bmc[u]
      /\ \A s \in gone[t] : s.id # h.id
  BY DEF Put, Typed
<1>2. /\ bmc' \in {bmc, gone} /\ lossy \subseteq lossy'
      /\ t \in lossy' \/ bmc' = gone
  BY DEF delete_subscription
<1> HIDE DEF gone
<1> QED
  BY <1>1, <1>2 DEF Typed

LEMMA DeleteAnsweredKeeps ==
    ASSUME SubscriptionInv, DeleteAnswered
    PROVE  SubscriptionInv'
<1> DEFINE t == refresh.cur
           h == refresh.sub
<1>1. /\ UNCHANGED <<sse, hook, cutOff, stopping>> /\ refresh.at = "deleting"
      /\ t \in Targets /\ t \in refresh.todo /\ delete_subscription(t, h)
  BY DEF DeleteAnswered, SubscriptionInv, Typed, Stages, Passes
<1>2. /\ fp' \in [Targets -> Configs \cup {None}] /\ fp'[t] = None
      /\ \A u \in Targets : u # t => fp'[u] = fp[u]
  BY <1>1 DEF DeleteAnswered, Forget, Put, SubscriptionInv, Typed
<1>3. /\ refresh' \in Passes /\ refresh'.at = "remove" /\ refresh'.want = refresh.want
      /\ refresh'.todo = refresh.todo \ {t} /\ refresh'.add = refresh.add
  BY DEF DeleteAnswered, SubscriptionInv, Typed, Passes, Places
<1>4. /\ bmc' \in [Targets -> SUBSET Sub] /\ lossy \subseteq lossy'
      /\ \A u \in Targets : bmc'[u] \subseteq bmc[u]
      /\ t \in lossy' \/ \A s \in bmc'[t] : s.id # h.id
  <2> HIDE DEF t, h
  <2> QED
    BY <1>1, DeletedSubs DEF SubscriptionInv
<1>5. Typed' /\ Stages'
  BY <1>1, <1>2, <1>3, <1>4 DEF SubscriptionInv, Typed, Stages
<1>6. ASSUME NEW u \in Targets PROVE TargetOK(u)'
  <2>1. TargetOK(u)
    BY DEF SubscriptionInv
  <2> QED
    BY <1>1, <1>2, <1>3, <1>4, <2>1 DEF TargetOK, Subscribed, Waits, Held
<1> QED
  BY <1>5, <1>6 DEF SubscriptionInv

LEMMA BeginAddsKeeps ==
    ASSUME SubscriptionInv, BeginAdds
    PROVE  SubscriptionInv'
<1>1. /\ UNCHANGED <<sse, hook, fp, bmc, lossy, cutOff, stopping>> /\ refresh.at = "remove"
      /\ refresh.todo = {}
  BY DEF BeginAdds
<1>2. PICK add \in SUBSET refresh.add : refresh' = [refresh EXCEPT !.at = "add", !.add = add]
  BY DEF BeginAdds
<1>3. /\ refresh' \in Passes /\ refresh'.at = "add" /\ refresh'.want = refresh.want
      /\ refresh'.todo = refresh.todo /\ refresh'.add \subseteq refresh.add
  BY <1>2 DEF SubscriptionInv, Typed, Passes, Places
<1>4. Typed' /\ Stages'
  BY <1>1, <1>3 DEF SubscriptionInv, Typed, Stages
<1>5. ASSUME NEW t \in Targets PROVE TargetOK(t)'
  BY <1>1, <1>3 DEF SubscriptionInv, TargetOK, Subscribed, Waits, Held
<1> QED
  BY <1>4, <1>5 DEF SubscriptionInv

\* The steps of a pass that subscribe nothing: the next target is taken in hand, it is
\* tried in another way, or it is left alone.
LEMMA AddMoves ==
    ASSUME SubscriptionInv, UNCHANGED <<sse, hook, fp, cutOff, stopping>>,
           refresh.at \in {"add", "probe", "reconcile", "create"},
           refresh' \in Passes, refresh'.at \in {"add", "probe", "reconcile", "create"},
           refresh'.want = refresh.want, refresh'.add \subseteq refresh.add,
           refresh'.at # "add" => refresh'.cur \in refresh'.add,
           bmc' \in [Targets -> SUBSET Sub], lossy \subseteq lossy',
           \A t \in Targets : \/ t \in lossy'
                              \/ \A s \in bmc'[t] : s.dest = "mine" => s \in bmc[t]
    PROVE  SubscriptionInv'
<1>1. Typed' /\ Stages'
  BY DEF SubscriptionInv, Typed, Stages
<1>2. ASSUME NEW t \in Targets PROVE TargetOK(t)'
  <2>1. TargetOK(t)
    BY DEF SubscriptionInv
  <2> QED
    BY <2>1 DEF TargetOK, Subscribed, Waits, Held
<1> QED
  BY <1>1, <1>2 DEF SubscriptionInv

\* The target in hand has no subscription that the manager knows of.
LEMMA InHand ==
    ASSUME SubscriptionInv, refresh.at \in {"probe", "reconcile", "create"}
    PROVE  /\ refresh.cur \in Targets /\ refresh.cur \in refresh.add /\ ~Subscribed(refresh.cur)
           /\ cutOff = None
           /\ refresh.want[refresh.cur] \in Configs
           /\ refresh.cur \in lossy \/ \A s \in bmc[refresh.cur] : s.dest # "mine"
<1> DEFINE t == refresh.cur
<1>1. t \in refresh.add /\ t \in Targets /\ refresh.want[t] # None /\ refresh.want[t] \in Configs \cup {None} /\ cutOff = None
  BY DEF SubscriptionInv, Typed, Stages, Passes
<1>2. TargetOK(t)
  BY <1>1 DEF SubscriptionInv
<1>3. ~Subscribed(t)
  BY <1>1, <1>2 DEF TargetOK, Waits
<1> HIDE DEF t
<1>4. t \in lossy \/ \A s \in bmc[t] : s.dest # "mine"
  BY <1>1, <1>2, <1>3 DEF TargetOK, Subscribed, Held
<1> QED
  BY <1>1, <1>3, <1>4 DEF t

\* What Added and Place do to the pass.
LEMMA AddedPass ==
    ASSUME Typed, NEW t \in Targets, Added(t)
    PROVE  /\ refresh' \in Passes /\ refresh'.at = "add" /\ refresh'.want = refresh.want
           /\ refresh'.add = refresh.add \ {t}
BY DEF Added, Typed, Passes, Places

LEMMA PlacePass ==
    ASSUME Typed, NEW p \in Places, Place(p)
    PROVE  /\ refresh' \in Passes /\ refresh'.at = p /\ refresh'.want = refresh.want
           /\ refresh'.add = refresh.add /\ refresh'.cur = refresh.cur
BY DEF Place, Typed, Passes

LEMMA StartKeeps ==
    ASSUME SubscriptionInv, NEW t \in Targets, start_subscription(t)
    PROVE  SubscriptionInv'
<1>1. /\ UNCHANGED <<sse, hook, fp, bmc, lossy, cutOff, stopping>>
      /\ refresh.at = "add" /\ t \in refresh.add
  BY DEF start_subscription, manager
<1>2. CASE Added(t)
  BY <1>1, <1>2, AddedPass, AddMoves DEF SubscriptionInv, Typed
<1>3. CASE refresh' = [refresh EXCEPT !.cur = t,
                          !.at = IF ForceWebhook THEN "reconcile" ELSE "probe"]
  <2>1. /\ refresh' \in Passes /\ refresh'.at \in {"reconcile", "probe"}
        /\ refresh'.want = refresh.want /\ refresh'.add = refresh.add /\ refresh'.cur = t
    BY <1>3 DEF SubscriptionInv, Typed, Passes, Places
  <2> QED
    BY <1>1, <2>1, AddMoves DEF SubscriptionInv, Typed
<1> QED
  BY <1>2, <1>3 DEF start_subscription

LEMMA ProbeKeeps ==
    ASSUME SubscriptionInv, check_sse_capability
    PROVE  SubscriptionInv'
<1> DEFINE t == refresh.cur
<1>1. UNCHANGED <<hook, bmc, lossy, cutOff, stopping>> /\ refresh.at = "probe"
  BY DEF check_sse_capability
<1>2. /\ t \in Targets /\ t \in refresh.add /\ ~Subscribed(t) /\ cutOff = None
      /\ refresh.want[t] \in Configs
  BY <1>1, InHand
<1>3. CASE start_sse_subscription(t)
  <2>1. PICK v : v = [cfg |-> refresh.want[t], state |-> "reconnecting", fails |-> 0]
    OBVIOUS
  <2>2. v \in Subscribers /\ v.cfg = refresh.want[t]
    BY <1>2, <2>1 DEF Subscribers
  <2>3. sse' = Put(sse, t, v) /\ fp' = Put(fp, t, refresh.want[t]) /\ Added(t)
    BY <1>3, <2>1 DEF start_sse_subscription
  <2> HIDE DEF t
  <2>4. /\ sse' \in [Targets -> Subscribers \cup {None}] /\ sse'[t] = v
        /\ fp' \in [Targets -> Configs \cup {None}] /\ fp'[t] = refresh.want[t]
        /\ \A u \in Targets : u # t => sse'[u] = sse[u] /\ fp'[u] = fp[u]
    BY <1>2, <2>2, <2>3 DEF Put, SubscriptionInv, Typed
  <2>5. /\ refresh' \in Passes /\ refresh'.at = "add" /\ refresh'.want = refresh.want
        /\ refresh'.add = refresh.add \ {t}
    BY <1>2, <2>3, AddedPass DEF SubscriptionInv
  <2>6. Typed' /\ Stages'
    BY <1>1, <2>4, <2>5 DEF SubscriptionInv, Typed, Stages
  <2>7. ASSUME NEW u \in Targets PROVE TargetOK(u)'
    <3>1. TargetOK(u)
      BY DEF SubscriptionInv
    <3> QED
      BY <1>1, <1>2, <2>2, <2>4, <2>5, <3>1 DEF TargetOK, Subscribed, Waits, Held
  <2> QED
    BY <2>6, <2>7 DEF SubscriptionInv
<1>4. CASE (Place("reconcile") \/ Added(t)) /\ UNCHANGED <<sse, fp>>
  <2>1. CASE Place("reconcile")
    <3>1. "reconcile" \in Places
      BY DEF Places
    <3> QED
      BY <1>1, <1>2, <1>4, <2>1, <3>1, PlacePass, AddMoves DEF SubscriptionInv, Typed
  <2>2. CASE Added(t)
    <3> HIDE DEF t
    <3> QED
      BY <1>1, <1>2, <1>4, <2>2, AddedPass, AddMoves DEF SubscriptionInv, Typed
  <2> QED
    BY <1>4, <2>1, <2>2
<1> QED
  BY <1>3, <1>4 DEF check_sse_capability

\* The target in hand gets a webhook subscriber, of the one subscription there is.
LEMMA RegisterKeeps ==
    ASSUME SubscriptionInv, NEW t, t = refresh.cur, refresh.at \in {"reconcile", "create"},
           NEW id \in 1 .. MaxSubs, NEW url \in {"absolute", "relative"}, Register(t, id, url),
           UNCHANGED <<sse, lossy, cutOff, stopping>>,
           bmc' \in [Targets -> SUBSET Sub], \A u \in Targets : u # t => bmc'[u] = bmc[u],
           t \in lossy \/ \A s \in bmc'[t] : s.dest = "mine" => s.id = id
    PROVE  SubscriptionInv'
<1>1. /\ t \in Targets /\ t \in refresh.add /\ ~Subscribed(t) /\ cutOff = None
      /\ refresh.want[t] \in Configs
  BY InHand
<1>2. PICK v : v = [cfg |-> refresh.want[t], id |-> id, url |-> url]
  OBVIOUS
<1>3. v \in HookSub /\ v.cfg = refresh.want[t] /\ v.id = id /\ v # None
  BY <1>1, <1>2 DEF HookSub
<1>4. hook' = Put(hook, t, v) /\ fp' = Put(fp, t, refresh.want[t]) /\ Added(t)
  BY <1>2 DEF Register
<1>5. /\ hook' \in [Targets -> HookSub \cup {None}] /\ hook'[t] = v
      /\ fp' \in [Targets -> Configs \cup {None}] /\ fp'[t] = refresh.want[t]
      /\ \A u \in Targets : u # t => hook'[u] = hook[u] /\ fp'[u] = fp[u]
  BY <1>1, <1>3, <1>4 DEF Put, SubscriptionInv, Typed
<1>6. /\ refresh' \in Passes /\ refresh'.at = "add" /\ refresh'.want = refresh.want
      /\ refresh'.add = refresh.add \ {t}
  BY <1>1, <1>4, AddedPass DEF SubscriptionInv
<1>7. Typed' /\ Stages'
  BY <1>5, <1>6 DEF SubscriptionInv, Typed, Stages
<1>8. ASSUME NEW u \in Targets PROVE TargetOK(u)'
  <2>1. TargetOK(u)
    BY DEF SubscriptionInv
  <2> QED
    BY <1>1, <1>3, <1>5, <1>6, <2>1 DEF TargetOK, Subscribed, Waits, Held
<1> QED
  BY <1>7, <1>8 DEF SubscriptionInv

LEMMA ReconcileKeeps ==
    ASSUME SubscriptionInv, reconcile_by_context
    PROVE  SubscriptionInv'
<1> PICK t : t = refresh.cur
  OBVIOUS
<1>1. UNCHANGED <<sse, cutOff, stopping>> /\ refresh.at = "reconcile"
  BY DEF reconcile_by_context
<1>2. /\ t \in Targets /\ t \in refresh.add
      /\ t \in lossy \/ \A s \in bmc[t] : s.dest # "mine"
  BY <1>1, InHand
<1>3. "create" \in Places
  BY DEF Places
<1>4. CASE Place("create") /\ lossy' = lossy \cup {t} /\ UNCHANGED <<hook, fp, bmc>>
  BY <1>1, <1>2, <1>3, <1>4, PlacePass, AddMoves DEF SubscriptionInv, Typed
<1>5. CASE /\ bmc' = Put(bmc, t, bmc[t] \ Orphaned(t)) /\ UNCHANGED lossy
           /\ \/ Place("create") /\ UNCHANGED <<hook, fp>>
              \/ \E s \in Mine(t) : Register(t, s.id, "absolute")
  <2>1. /\ bmc' \in [Targets -> SUBSET Sub] /\ \A u \in Targets : bmc'[u] \subseteq bmc[u]
        /\ \A u \in Targets : u # t => bmc'[u] = bmc[u]
    BY <1>2, <1>5 DEF Put, SubscriptionInv, Typed
  <2>2. CASE Place("create") /\ UNCHANGED <<hook, fp>>
    BY <1>1, <1>2, <1>3, <1>5, <2>1, <2>2, PlacePass, AddMoves DEF SubscriptionInv
  <2>3. ASSUME NEW s \in Mine(t), Register(t, s.id, "absolute")
        PROVE  SubscriptionInv'
    <3>1. s.id \in 1 .. MaxSubs /\ t \in lossy
      BY <1>2 DEF Mine, SubscriptionInv, Typed, Sub
    <3>2. PICK id \in 1 .. MaxSubs : id = s.id
      BY <3>1
    <3>3. Register(t, id, "absolute") /\ UNCHANGED <<sse, lossy, cutOff, stopping>>
      BY <1>1, <1>5, <2>3, <3>2
    <3> QED
      BY <1>1, <2>1, <3>1, <3>3, RegisterKeeps
  <2> QED
    BY <1>5, <2>2, <2>3
<1> QED
  BY <1>4, <1>5 DEF reconcile_by_context

LEMMA CreateKeeps ==
    ASSUME SubscriptionInv, create_subscription
    PROVE  SubscriptionInv'
<1> PICK t : t = refresh.cur
  OBVIOUS
<1>1. UNCHANGED <<sse, cutOff, stopping>> /\ refresh.at = "create"
  BY DEF create_subscription
<1>2. /\ t \in Targets /\ t \in refresh.add
      /\ t \in lossy \/ \A s \in bmc[t] : s.dest # "mine"
  BY <1>1, InHand
<1>3. ASSUME NEW id \in FreeIds(t), Insert(t, id)
      PROVE  /\ bmc' \in [Targets -> SUBSET Sub] /\ \A u \in Targets : u # t => bmc'[u] = bmc[u]
             /\ id \in 1 .. MaxSubs
             /\ t \in lossy \/ \A s \in bmc'[t] : s.dest = "mine" => s.id = id
  <2>1. PICK new : new = [id |-> id, dest |-> "mine"]
    OBVIOUS
  <2>2. new \in Sub /\ new.id = id /\ id \in 1 .. MaxSubs
    BY <1>3, <2>1 DEF FreeIds, Sub
  <2>3. bmc' = Put(bmc, t, bmc[t] \cup {new})
    BY <1>3, <2>1 DEF Insert
  <2> QED
    BY <1>2, <2>2, <2>3 DEF Put, SubscriptionInv, Typed
<1>4. ASSUME NEW id \in FreeIds(t), NEW url \in Locations, Insert(t, id), Register(t, id, url),
             UNCHANGED lossy
      PROVE  SubscriptionInv'
  BY <1>1, <1>3, <1>4, RegisterKeeps
<1>5. ASSUME NEW s \in find_existing_subscription(t), Register(t, s.id, "absolute"),
             UNCHANGED <<bmc, lossy>>
      PROVE  SubscriptionInv'
  <2>1. s.id \in 1 .. MaxSubs /\ t \in lossy
    BY <1>2 DEF find_existing_subscription, SubscriptionInv, Typed, Sub
  <2> QED
    BY <1>1, <1>5, <2>1, RegisterKeeps DEF SubscriptionInv, Typed
<1>6. CASE Added(t) /\ UNCHANGED <<hook, fp, bmc, lossy>>
  BY <1>1, <1>2, <1>6, AddedPass, AddMoves DEF SubscriptionInv, Typed
<1>7. CASE /\ Added(t) /\ UNCHANGED <<hook, fp>> /\ lossy' = lossy \cup {t}
           /\ bmc' = bmc \/ \E id \in FreeIds(t) : Insert(t, id)
  <2>1. bmc' \in [Targets -> SUBSET Sub] /\ \A u \in Targets : u # t => bmc'[u] = bmc[u]
    BY <1>3, <1>7 DEF SubscriptionInv, Typed
  <2> QED
    BY <1>1, <1>2, <1>7, <2>1, AddedPass, AddMoves DEF SubscriptionInv
<1> QED
  BY <1>4, <1>5, <1>6, <1>7 DEF create_subscription

LEMMA BeginVerifyKeeps ==
    ASSUME SubscriptionInv, BeginVerify
    PROVE  SubscriptionInv'
<1>1. /\ UNCHANGED <<sse, hook, fp, bmc, lossy, cutOff, stopping>>
      /\ refresh.at = "add" /\ refresh.add = {}
  BY DEF BeginVerify
<1>2. PICK due \in SUBSET Targets :
        /\ \A t \in due : hook[t] # None
        /\ refresh' = [refresh EXCEPT !.at = IF due = {} THEN "idle" ELSE "verify", !.todo = due]
  BY DEF BeginVerify
<1>3. /\ refresh' \in Passes /\ refresh'.at \in {"idle", "verify"}
      /\ refresh'.want = refresh.want /\ refresh'.add = {} /\ refresh'.todo = due
  BY <1>1, <1>2 DEF SubscriptionInv, Typed, Passes, Places
<1>4. Typed' /\ Stages'
  BY <1>1, <1>2, <1>3 DEF SubscriptionInv, Typed, Stages
<1>5. ASSUME NEW t \in Targets PROVE TargetOK(t)'
  BY <1>1, <1>3 DEF SubscriptionInv, TargetOK, Subscribed, Waits, Held
<1> QED
  BY <1>4, <1>5 DEF SubscriptionInv

LEMMA VerifyKeeps ==
    ASSUME SubscriptionInv, NEW t \in Targets, verify_webhook_subscriptions(t)
    PROVE  SubscriptionInv'
<1>1. /\ UNCHANGED <<sse, cutOff, stopping>> /\ refresh.at = "verify" /\ t \in refresh.todo
      /\ refresh.add = {} /\ hook[t] # None
  BY DEF verify_webhook_subscriptions, SubscriptionInv, Stages
<1>2. /\ refresh' \in Passes /\ refresh'.at \in {"idle", "verify"}
      /\ refresh'.want = refresh.want /\ refresh'.add = {} /\ refresh'.todo = refresh.todo \ {t}
  BY <1>1 DEF verify_webhook_subscriptions, SubscriptionInv, Typed, Passes, Places
<1>3. CASE UNCHANGED <<hook, fp, bmc, lossy>>
  <2>1. Typed' /\ Stages'
    BY <1>1, <1>2, <1>3 DEF SubscriptionInv, Typed, Stages
  <2>2. ASSUME NEW u \in Targets PROVE TargetOK(u)'
    BY <1>1, <1>2, <1>3 DEF SubscriptionInv, TargetOK, Subscribed, Waits, Held
  <2> QED
    BY <2>1, <2>2 DEF SubscriptionInv
<1>4. CASE delete_subscription(t, hook[t]) /\ Drop(t)
  <2>1. /\ bmc' \in [Targets -> SUBSET Sub] /\ lossy \subseteq lossy'
        /\ \A u \in Targets : bmc'[u] \subseteq bmc[u]
        /\ t \in lossy' \/ \A s \in bmc'[t] : s.id # hook[t].id
    BY <1>4, DeletedSubs DEF SubscriptionInv
  <2>2. /\ hook' \in [Targets -> HookSub \cup {None}] /\ hook'[t] = None
        /\ fp' \in [Targets -> Configs \cup {None}] /\ fp'[t] = None
        /\ \A u \in Targets : u # t => hook'[u] = hook[u] /\ fp'[u] = fp[u]
    BY <1>4 DEF Drop, Put, SubscriptionInv, Typed
  <2>3. Typed'
    BY <1>1, <1>2, <2>1, <2>2 DEF SubscriptionInv, Typed
  <2>4. Stages'
    <3>1. \A u \in refresh'.todo : u \in Targets /\ u # t /\ hook[u] # None
      BY <1>1, <1>2 DEF SubscriptionInv, Typed, Stages, Passes
    <3>2. \A u \in refresh'.todo : hook'[u] # None
      BY <2>2, <3>1
    <3> QED
      BY <1>1, <1>2, <2>2, <3>2 DEF SubscriptionInv, Stages
  <2>5. ASSUME NEW u \in Targets PROVE TargetOK(u)'
    <3>1. TargetOK(u)
      BY DEF SubscriptionInv
    <3> QED
      BY <1>1, <1>2, <2>1, <2>2, <3>1 DEF TargetOK, Subscribed, Waits, Held
  <2> QED
    BY <2>3, <2>4, <2>5 DEF SubscriptionInv
<1> QED
  BY <1>3, <1>4 DEF verify_webhook_subscriptions

-----------------------------------------------------------------------------
(* stop().                                                                 *)

LEMMA CancelKeeps ==
    ASSUME SubscriptionInv, CancelTasks
    PROVE  SubscriptionInv'
<1>1. /\ UNCHANGED <<hook, fp, lossy>> /\ stopping = "sse" /\ stopping' = "hooks"
      /\ cutOff' = refresh.cur /\ cutOff = None /\ refresh.at # "cancelled"
  BY DEF CancelTasks, SubscriptionInv, Stages
<1>2. sse' \in [Targets -> Subscribers \cup {None}] /\ \A u \in Targets : sse'[u] = None
  BY DEF CancelTasks
<1>3. /\ refresh' \in Passes /\ refresh'.at = "cancelled" /\ refresh'.add = {}
      /\ refresh'.todo = {}
  BY DEF CancelTasks, NoPass, Passes, Places
<1>4. /\ bmc' \in [Targets -> SUBSET Sub]
      /\ \A u \in Targets : u # refresh.cur => bmc'[u] = bmc[u]
  <2> PICK t : t = refresh.cur
    OBVIOUS
  <2>1. CASE UNCHANGED bmc
    BY <2>1 DEF SubscriptionInv, Typed
  <2>2. CASE refresh.at = "deleting" /\ bmc' = Put(bmc, t, {s \in bmc[t] : s.id # refresh.sub.id})
    <3>1. t \in Targets
      BY <2>2 DEF SubscriptionInv, Stages, Typed, Passes
    <3> QED
      BY <2>2, <3>1 DEF Put, SubscriptionInv, Typed
  <2>3. ASSUME refresh.at = "create", NEW id \in FreeIds(t), Insert(t, id)
        PROVE  <1>4
    <3>1. PICK new : new = [id |-> id, dest |-> "mine"]
      OBVIOUS
    <3>2. new \in Sub /\ t \in Targets
      BY <2>3, <3>1, InHand DEF FreeIds, Sub
    <3>3. bmc' = Put(bmc, t, bmc[t] \cup {new})
      BY <2>3, <3>1 DEF Insert
    <3> QED
      BY <3>2, <3>3 DEF Put, SubscriptionInv, Typed
  <2> QED
    BY <2>1, <2>2, <2>3 DEF CancelTasks, RequestServed
<1>5. Typed' /\ Stages'
  BY <1>1, <1>2, <1>3, <1>4 DEF SubscriptionInv, Typed, Stages
<1>6. ASSUME NEW u \in Targets PROVE TargetOK(u)'
  <2>1. TargetOK(u)
    BY DEF SubscriptionInv
  <2> QED
    BY <1>1, <1>2, <1>3, <1>4, <2>1 DEF TargetOK, Subscribed, Waits, Held
<1> QED
  BY <1>5, <1>6 DEF SubscriptionInv

LEMMA StopHookKeeps ==
    ASSUME SubscriptionInv, NEW t \in Targets, StopHook(t)
    PROVE  SubscriptionInv'
<1>1. /\ UNCHANGED <<sse, fp, refresh, stopping, cutOff>> /\ stopping = "hooks"
      /\ refresh.at = "cancelled" /\ hook[t] # None
  BY DEF StopHook, SubscriptionInv, Stages
<1>2. /\ bmc' \in [Targets -> SUBSET Sub] /\ lossy \subseteq lossy'
      /\ \A u \in Targets : bmc'[u] \subseteq bmc[u]
      /\ t \in lossy' \/ \A s \in bmc'[t] : s.id # hook[t].id
  BY DeletedSubs DEF StopHook, TearDown, SubscriptionInv
<1>3. /\ hook' \in [Targets -> HookSub \cup {None}] /\ hook'[t] = None
      /\ \A u \in Targets : u # t => hook'[u] = hook[u]
  BY DEF StopHook, Put, SubscriptionInv, Typed
<1>4. Typed' /\ Stages'
  BY <1>1, <1>2, <1>3 DEF SubscriptionInv, Typed, Stages
<1>5. ASSUME NEW u \in Targets PROVE TargetOK(u)'
  <2>1. TargetOK(u)
    BY DEF SubscriptionInv
  <2> QED
    BY <1>1, <1>2, <1>3, <2>1 DEF TargetOK, Subscribed, Waits, Held
<1> QED
  BY <1>4, <1>5 DEF SubscriptionInv

-----------------------------------------------------------------------------
(* The theorems.                                                           *)

LEMMA NextSubscriptions == SubscriptionInv /\ [Next]_vars => SubscriptionInv'
<1> SUFFICES ASSUME SubscriptionInv, [Next]_vars PROVE SubscriptionInv'
  OBVIOUS
<1>1. CASE UNCHANGED vars
  BY <1>1, OthersKeep DEF vars
<1>2. CASE Pass
  BY <1>2, ReadKeeps, PlanKeeps, DeleteAnsweredKeeps, BeginAddsKeeps, ProbeKeeps, ReconcileKeeps,
     CreateKeeps, BeginVerifyKeeps, RemoveSseKeeps, RemoveHookKeeps, StartKeeps, VerifyKeeps
     DEF Pass, start_webhook_subscription
<1>3. CASE StopSubscribers
  BY <1>3, OthersKeep DEF StopSubscribers, manager
<1>4. CASE CancelTasks
  BY <1>4, CancelKeeps
<1>5. CASE Stopped
  BY <1>5, OthersKeep DEF Stopped, manager
<1>6. CASE Exited
  BY <1>6, OthersKeep DEF Exited, vars
<1>7. ASSUME NEW t \in Targets, create_target(t) \/ update_target(t) \/ delete_target(t)
      PROVE  SubscriptionInv'
  BY <1>7, OthersKeep DEF create_target, update_target, delete_target, SetRow, manager
<1>8. ASSUME NEW t \in Targets, RetryDue(t) \/ VerifyDue(t)
      PROVE  SubscriptionInv'
  BY <1>8, OthersKeep DEF RetryDue, VerifyDue
<1> QED
  BY <1>1, <1>2, <1>3, <1>4, <1>5, <1>6, <1>7, <1>8, SubscriberKeeps, BmcKeeps, StopHookKeeps
     DEF Next

\* What the manager keeps about a target agrees at every await: at most one
\* transport, a fingerprint of the configuration in use, and no subscription on
\* a BMC that neither a subscriber nor the removal in hand knows.
THEOREM SubscriptionInvariance == Spec => []SubscriptionInv
BY InitSubscriptions, NextSubscriptions, PTL DEF Spec

\* After every refresh pass the subscribers run with the configuration that pass
\* read, one per target (_refresh_subscriptions), however rows, BMCs and streams
\* changed while the pass waited for its requests.
THEOREM ConfigFollowed == Spec => []SubscriptionsMatchConfig
<1>1. ASSUME SubscriptionInv PROVE SubscriptionsMatchConfig
  BY <1>1 DEF SubscriptionInv, TargetOK, Subscribed, Waits, SubscriptionsMatchConfig
<1> QED
  BY <1>1, SubscriptionInvariance, PTL

\* Between passes each subscription on a BMC that points here is the one its
\* webhook subscriber knows, unless a request to that BMC failed
\* (_reconcile_by_context, _verify_webhook_subscriptions).
THEOREM EverySubscriptionKnown == Spec => []NoUnknownSubscription
<1>1. ASSUME SubscriptionInv PROVE NoUnknownSubscription
  BY <1>1 DEF SubscriptionInv, Stages, TargetOK, Held, Mine, NoUnknownSubscription
<1> QED
  BY <1>1, SubscriptionInvariance, PTL

\* stop() leaves a subscription on a BMC only after a failed request, or for the
\* target in hand when the refresh task was cancelled (AlertManager.stop).
THEOREM StopCleansUp == Spec => []StopLeaksOnlyCutOff
<1>1. ASSUME SubscriptionInv PROVE StopLeaksOnlyCutOff
  BY <1>1 DEF SubscriptionInv, Stages, TargetOK, Held, Mine, StopLeaksOnlyCutOff
<1> QED
  BY <1>1, SubscriptionInvariance, PTL
=============================================================================
