------------------------- MODULE AlertSubscriptions -------------------------
(***************************************************************************)
(* The alert subscriptions of one collector: AlertManager's refresh pass,  *)
(* its SSE and webhook subscribers, the BMCs they talk to and the stop of  *)
(* the manager.  An action is what runs between two awaits; a request to a *)
(* BMC is answered by an action of its own.                                *)
(***************************************************************************)
EXTENDS Naturals, FiniteSets

CONSTANTS
    Targets,
    Configs,          \* connection-relevant settings of a target (the fingerprint)
    WrongEndpoint,    \* the configurations whose alert_sse_endpoint does not exist
    Undecryptable,    \* the configurations whose password cannot be decrypted
    AutoRetry,        \* permanent_failure_retry_hours > 0
    WebhookFallback,  \* enable_webhook_fallback
    ForceWebhook,     \* force_webhook_mode
    Locations,        \* forms of the Location header: "absolute", "relative"
    MaxSubs,          \* room in the subscription table of a BMC
    FailLimit,        \* consecutive failures before a transient error is permanent
    None

HookSub == [cfg : Configs, id : 1..MaxSubs, url : {"absolute", "relative"}]

ASSUME SubscriptionAssumption ==
    /\ WrongEndpoint \subseteq Configs /\ Undecryptable \subseteq Configs
    /\ AutoRetry \in BOOLEAN /\ WebhookFallback \in BOOLEAN /\ ForceWebhook \in BOOLEAN
    /\ Locations \subseteq {"absolute", "relative"}
    /\ MaxSubs \in Nat \ {0} /\ FailLimit \in Nat
    /\ None \notin Configs \cup Targets \cup HookSub

VARIABLES
    row,       \* the targets table: a configuration, "disabled" or "absent"
    sse,       \* _subscribers
    hook,      \* _webhook_subscribers
    fp,        \* _sub_fingerprints
    failed,    \* _permanently_failed: None, "later", "due" or "never"
    verified,  \* _webhook_verified_at: None, "recent" or "due"
    refresh,   \* the refresh task: its place and the locals of the pass
    stopping,  \* the place of stop()
    doomed,    \* the subscribers stop() has listed
    bmc,       \* the subscriptions each BMC holds
    health,    \* what a BMC supports and whether it answers
    lossy,     \* history: targets with a BMC request that failed or was lost
    cutOff,    \* history: the target in hand when the refresh was cancelled
    orphans    \* history: SSE subscribers that run and that nobody will stop

manager == <<sse, hook, fp, failed, verified>>
vars == <<row, sse, hook, fp, failed, verified, refresh, stopping, doomed,
          bmc, health, lossy, cutOff, orphans>>

Sub == [id : 1..MaxSubs, dest : {"mine", "old"}]
SseSub == [cfg : Configs, state : {"reconnecting", "connected", "cooldown", "failed"},
           fails : 0..(FailLimit + 1)]
Places == {"idle", "read", "remove", "deleting", "add", "probe", "reconcile",
           "create", "verify", "cancelled"}

Mine(t) == {s \in bmc[t] : s.dest = "mine"}
Desired(want) == {t \in Targets : want[t] # None}
Subscribed(t) == sse[t] # None \/ hook[t] # None
Put(f, t, v) == [f EXCEPT ![t] = v]

NoPass(p) == [at |-> p, want |-> [t \in Targets |-> None],
              todo |-> {}, add |-> {}, cur |-> None, sub |-> None]

Init ==
    /\ row \in [Targets -> Configs \cup {"absent"}]
    /\ sse = [t \in Targets |-> None] /\ hook = [t \in Targets |-> None]
    /\ fp = [t \in Targets |-> None] /\ failed = [t \in Targets |-> None]
    /\ verified = [t \in Targets |-> None]
    /\ refresh = NoPass("idle")
    /\ stopping = "no" /\ doomed = {}
    /\ bmc \in [Targets -> {{}, {[id |-> 1, dest |-> "mine"]}, {[id |-> 1, dest |-> "old"]}}]
    /\ health \in [Targets -> {"sse", "hook"}]
    /\ lossy = {t \in Targets : Mine(t) # {}}
    /\ cutOff = None /\ orphans = {}

(***************************************************************************)
(* The targets table, as the API changes it                                *)
(***************************************************************************)
\* No pass reads the table once stop() has begun: later changes are left out.
SetRow(t, v) == /\ stopping = "no"
                /\ row' = Put(row, t, v)
                /\ UNCHANGED <<manager, refresh, stopping, doomed, bmc, health,
                               lossy, cutOff, orphans>>

create_target(t) == row[t] = "absent" /\ \E c \in Configs : SetRow(t, c)

update_target(t) ==
    /\ row[t] # "absent"
    /\ \E v \in (Configs \cup {"disabled"}) \ {row[t]} : SetRow(t, v)

delete_target(t) == row[t] # "absent" /\ SetRow(t, "absent")

(***************************************************************************)
(* One refresh pass                                                        *)
(***************************************************************************)
Place(p) == refresh' = [refresh EXCEPT !.at = p]

ReadTargets ==
    /\ refresh.at = "idle" /\ stopping = "no"
    /\ refresh' = [refresh EXCEPT !.at = "read",
           !.want = [t \in Targets |-> IF row[t] \in Configs THEN row[t] ELSE None]]
    /\ UNCHANGED <<row, manager, stopping, doomed, bmc, health, lossy, cutOff, orphans>>

RetryMark == IF AutoRetry THEN "later" ELSE "never"

\* The SSE subscribers that gave up are moved to the permanent failures.
Harvested == {t \in Targets : sse[t] # None /\ sse[t].state = "failed"}

Fixed(mark, want) ==
    {t \in Desired(want) : mark[t] # None /\ fp[t] # None /\ fp[t] # want[t]}

\* Mutant: only the presence of a target is compared.
Changed_ignored(current, want) == {}

Changed(current, want) == {t \in current \cap Desired(want) : fp[t] # want[t]}

Plan ==
    /\ refresh.at = "read"
    /\ LET want == refresh.want
           mark == [t \in Targets |-> IF t \in Harvested /\ failed[t] = None
                                      THEN RetryMark ELSE failed[t]]
           current == {t \in Targets : Subscribed(t)} \ Harvested
           changed == Changed(current, want)
       IN  /\ sse' = [t \in Targets |-> IF t \in Harvested THEN None ELSE sse[t]]
           /\ failed' = [t \in Targets |-> IF t \in Fixed(mark, want) THEN None ELSE mark[t]]
           /\ refresh' = [refresh EXCEPT !.at = "remove",
                            !.todo = (current \ Desired(want)) \cup changed,
                            !.add = (Desired(want) \ current) \cup changed]
    /\ UNCHANGED <<row, hook, fp, verified, stopping, doomed, bmc, health, lossy,
                   cutOff, orphans>>

\* What a removal forgets once the subscription is gone.
Forget(t) ==
    /\ fp' = Put(fp, t, None)
    /\ failed' = Put(failed, t, None)

RemoveSse(t) ==
    /\ refresh.at = "remove" /\ t \in refresh.todo /\ hook[t] = None
    /\ sse' = Put(sse, t, None)
    /\ Forget(t)
    /\ refresh' = [refresh EXCEPT !.todo = @ \ {t}]
    /\ UNCHANGED <<row, hook, verified, stopping, doomed, bmc, health, lossy, cutOff, orphans>>

RemoveHook(t) ==
    /\ refresh.at = "remove" /\ t \in refresh.todo /\ hook[t] # None
    /\ sse' = Put(sse, t, None)
    /\ hook' = Put(hook, t, None)
    /\ refresh' = [refresh EXCEPT !.at = "deleting", !.cur = t, !.sub = hook[t]]
    /\ UNCHANGED <<row, fp, failed, verified, stopping, doomed, bmc, health, lossy,
                   cutOff, orphans>>

\* DELETE of a subscription: a relative URL never leaves the client, and
\* when the BMC does not answer the request may have arrived all the same.
delete_subscription(t, h) ==
    LET gone == Put(bmc, t, {s \in bmc[t] : s.id # h.id})
    IN  \/ h.url = "absolute" /\ health[t] # "down" /\ bmc' = gone /\ UNCHANGED lossy
        \/ /\ h.url = "relative" \/ health[t] = "down"
           /\ bmc' = bmc \/ (h.url = "absolute" /\ bmc' = gone)
           /\ lossy' = lossy \cup {t}

\* Mutant: a removed webhook is only dropped from the dictionary.
DeleteAnswered_local ==
    /\ refresh.at = "deleting"
    /\ Forget(refresh.cur)
    /\ refresh' = [refresh EXCEPT !.at = "remove", !.todo = @ \ {refresh.cur},
                                  !.cur = None, !.sub = None]
    /\ UNCHANGED <<row, sse, hook, verified, stopping, doomed, bmc, health, lossy,
                   cutOff, orphans>>

DeleteAnswered ==
    /\ refresh.at = "deleting"
    /\ delete_subscription(refresh.cur, refresh.sub)
    /\ Forget(refresh.cur)
    /\ refresh' = [refresh EXCEPT !.at = "remove", !.todo = @ \ {refresh.cur},
                                  !.cur = None, !.sub = None]
    /\ UNCHANGED <<row, sse, hook, verified, stopping, doomed, health, cutOff, orphans>>

BeginAdds ==
    /\ refresh.at = "remove" /\ refresh.todo = {}
    /\ LET mark == [t \in Targets |-> IF AutoRetry /\ failed[t] = "due"
                                      THEN None ELSE failed[t]]
       IN  /\ failed' = mark
           /\ refresh' = [refresh EXCEPT !.at = "add",
                             !.add = {t \in refresh.add : mark[t] = None}]
    /\ UNCHANGED <<row, sse, hook, fp, verified, stopping, doomed, bmc, health, lossy,
                   cutOff, orphans>>

\* The end of _start_subscription for the target in hand.
Added(t) == refresh' = [refresh EXCEPT !.at = "add", !.add = @ \ {t}, !.cur = None]

\* Credentials that cannot be decrypted, and webhook mode without webhooks,
\* leave the target alone until the next pass.
start_subscription(t) ==
    /\ refresh.at = "add" /\ t \in refresh.add
    /\ IF refresh.want[t] \in Undecryptable \/ (ForceWebhook /\ ~WebhookFallback)
       THEN Added(t)
       ELSE refresh' = [refresh EXCEPT !.cur = t,
                           !.at = IF ForceWebhook THEN "reconcile" ELSE "probe"]
    /\ UNCHANGED <<row, manager, stopping, doomed, bmc, health, lossy, cutOff, orphans>>

start_sse_subscription(t) ==
    /\ sse' = Put(sse, t, [cfg |-> refresh.want[t], state |-> "reconnecting", fails |-> 0])
    /\ fp' = Put(fp, t, refresh.want[t])
    /\ Added(t)

\* The test of a stream: a BMC that supports SSE but sends nothing for five
\* seconds counts as broken.
test_sse_endpoint(t) == IF health[t] = "sse" THEN {"supported", "broken"} ELSE {"broken"}

check_sse_capability ==
    /\ refresh.at = "probe"
    /\ \E support \in test_sse_endpoint(refresh.cur) :
          \/ support = "supported" /\ start_sse_subscription(refresh.cur)
          \/ /\ support = "broken"
             /\ IF WebhookFallback THEN Place("reconcile") ELSE Added(refresh.cur)
             /\ UNCHANGED <<sse, fp>>
    /\ UNCHANGED <<row, hook, failed, verified, stopping, doomed, bmc, health, lossy,
                   cutOff, orphans>>

Register(t, id, url) ==
    /\ hook' = Put(hook, t, [cfg |-> refresh.want[t], id |-> id, url |-> url])
    /\ fp' = Put(fp, t, refresh.want[t])
    /\ Added(t)

Orphaned(t) == {s \in bmc[t] : s.dest = "old"}

\* Adopt a subscription that already points here, delete the ones that
\* point elsewhere.
reconcile_by_context ==
    /\ refresh.at = "reconcile"
    /\ LET t == refresh.cur
       IN  \/ /\ health[t] = "down"
              /\ Place("create")
              /\ lossy' = lossy \cup {t}
              /\ UNCHANGED <<hook, fp, bmc>>
           \/ /\ health[t] # "down"
              /\ bmc' = Put(bmc, t, bmc[t] \ Orphaned(t))
              /\ IF Mine(t) = {} THEN Place("create") /\ UNCHANGED <<hook, fp>>
                 ELSE \E s \in Mine(t) : Register(t, s.id, "absolute")
              /\ UNCHANGED lossy
    /\ UNCHANGED <<row, sse, failed, verified, stopping, doomed, health, cutOff, orphans>>

FreeIds(t) == 1..MaxSubs \ {s.id : s \in bmc[t]}

Insert(t, id) == bmc' = Put(bmc, t, bmc[t] \cup {[id |-> id, dest |-> "mine"]})

find_existing_subscription(t) == {s \in bmc[t] : s.dest = "mine"}

\* 201; 409 and the subscription found; 400 of a format error, 405 and 501;
\* any other answer, or none.
create_subscription ==
    /\ refresh.at = "create"
    /\ LET t == refresh.cur
       IN  \/ /\ health[t] \in {"sse", "hook"}
              /\ \E id \in FreeIds(t), url \in Locations :
                    Insert(t, id) /\ Register(t, id, url)
              /\ UNCHANGED <<failed, lossy>>
           \/ /\ health[t] \in {"sse", "hook"}
              /\ \E s \in find_existing_subscription(t) : Register(t, s.id, "absolute")
              /\ UNCHANGED <<failed, bmc, lossy>>
           \/ /\ health[t] = "reject"
              /\ failed' = Put(failed, t, RetryMark)
              /\ Added(t)
              /\ UNCHANGED <<hook, fp, bmc, lossy>>
           \/ /\ health[t] = "down" \/ FreeIds(t) = {}
              /\ Added(t)
              /\ bmc' = bmc \/ \E id \in FreeIds(t) : Insert(t, id)
              /\ lossy' = lossy \cup {t}
              /\ UNCHANGED <<hook, fp, failed>>
    /\ UNCHANGED <<row, sse, verified, stopping, doomed, health, cutOff, orphans>>

start_webhook_subscription == reconcile_by_context \/ create_subscription

BeginVerify ==
    /\ refresh.at = "add" /\ refresh.add = {}
    /\ LET due == {t \in Targets : hook[t] # None /\ verified[t] = "due"}
       IN  /\ verified' = [t \in Targets |-> IF hook[t] # None /\ verified[t] = None
                                             THEN "recent" ELSE verified[t]]
           /\ refresh' = [refresh EXCEPT !.at = IF due = {} THEN "idle" ELSE "verify",
                                         !.todo = due]
    /\ UNCHANGED <<row, sse, hook, fp, failed, stopping, doomed, bmc, health, lossy,
                   cutOff, orphans>>

StillThere(t) ==
    /\ hook[t].url = "absolute" /\ health[t] # "down"
    /\ \E s \in bmc[t] : s.id = hook[t].id

\* Mutant: a subscription that is gone is only deleted, not forgotten.
Drop_kept(t) == UNCHANGED <<hook, fp>> /\ verified' = Put(verified, t, None)

Drop(t) == /\ hook' = Put(hook, t, None)
           /\ fp' = Put(fp, t, None)
           /\ verified' = Put(verified, t, None)

\* A subscription that cannot be read back is deleted and dropped.
verify_webhook_subscriptions(t) ==
    /\ refresh.at = "verify" /\ t \in refresh.todo
    /\ refresh' = [refresh EXCEPT !.todo = @ \ {t},
                                  !.at = IF refresh.todo = {t} THEN "idle" ELSE "verify"]
    /\ \/ /\ StillThere(t)
          /\ verified' = Put(verified, t, "recent")
          /\ UNCHANGED <<hook, fp, bmc, lossy>>
       \/ ~StillThere(t) /\ delete_subscription(t, hook[t]) /\ Drop(t)
    /\ UNCHANGED <<row, sse, failed, stopping, doomed, health, cutOff, orphans>>

(***************************************************************************)
(* The task of an SSE subscriber                                           *)
(***************************************************************************)
SseStep(t, s) ==
    /\ sse' = Put(sse, t, s)
    /\ UNCHANGED <<row, hook, fp, failed, verified, refresh, stopping, doomed, bmc,
                   health, lossy, cutOff, orphans>>

Connects(t) == health[t] = "sse" /\ sse[t].cfg \notin WrongEndpoint

\* 401, 403, 404, 405, 501 and a stream that closes at once are permanent; a
\* refused, unreachable or silent BMC is after more than FailLimit errors in a
\* row; any other error never is.
classify_error(t) ==
    IF health[t] # "down" THEN {"permanent"}
    ELSE {"transient"} \cup (IF sse[t].fails > FailLimit THEN {"permanent"} ELSE {})

\* The count matters up to the limit only.
Counted(n) == IF n > FailLimit THEN n ELSE n + 1

connect_and_listen(t) ==
    /\ sse[t] # None /\ sse[t].state = "reconnecting"
    /\ \/ Connects(t) /\ SseStep(t, [sse[t] EXCEPT !.state = "connected", !.fails = 0])
       \/ ~Connects(t) /\ "permanent" \in classify_error(t)
                       /\ SseStep(t, [sse[t] EXCEPT !.state = "failed"])
       \/ ~Connects(t) /\ "transient" \in classify_error(t)
                       /\ \E s \in {"reconnecting", "cooldown"} :
                             SseStep(t, [sse[t] EXCEPT !.state = s, !.fails = Counted(@)])

\* A stream ends when its BMC stops serving it: an error, or a clean close,
\* which in the first thirty seconds without an event is permanent.
StreamEnds(t) ==
    /\ sse[t] # None /\ sse[t].state = "connected" /\ health[t] # "sse"
    /\ \/ \E n \in {0, 1} : SseStep(t, [sse[t] EXCEPT !.state = "reconnecting", !.fails = n])
       \/ SseStep(t, [sse[t] EXCEPT !.state = "failed"])

CooldownOver(t) ==
    /\ sse[t] # None /\ sse[t].state = "cooldown"
    /\ SseStep(t, [sse[t] EXCEPT !.state = "reconnecting", !.fails = 0])

subscribe_loop(t) == connect_and_listen(t) \/ StreamEnds(t) \/ CooldownOver(t)

(***************************************************************************)
(* Time and the BMC                                                        *)
(***************************************************************************)
RetryDue(t) ==
    /\ failed[t] = "later" /\ refresh.at # "cancelled"
    /\ failed' = Put(failed, t, "due")
    /\ UNCHANGED <<row, sse, hook, fp, verified, refresh, stopping, doomed, bmc, health,
                   lossy, cutOff, orphans>>

VerifyDue(t) ==
    /\ verified[t] = "recent" /\ refresh.at # "cancelled"
    /\ verified' = Put(verified, t, "due")
    /\ UNCHANGED <<row, sse, hook, fp, failed, refresh, stopping, doomed, bmc, health,
                   lossy, cutOff, orphans>>

\* A BMC restarts, is upgraded or reconfigured; a restart may empty its table.
BmcChanges(t) ==
    /\ stopping # "done"
    /\ \E h \in {"sse", "hook", "reject", "down"} \ {health[t]} :
          health' = Put(health, t, h)
    /\ bmc' = bmc \/ (health[t] = "down" /\ bmc' = Put(bmc, t, {}))
    /\ UNCHANGED <<row, manager, refresh, stopping, doomed, lossy, cutOff, orphans>>

(***************************************************************************)
(* stop()                                                                  *)
(***************************************************************************)
\* Up to here stop() only waits for the CPER worker, while the refresh and the
\* subscribers go on as before; from here it stops the subscribers it has listed.
StopSubscribers ==
    /\ stopping = "no"
    /\ stopping' = "sse"
    /\ doomed' = {t \in Targets : sse[t] # None}
    /\ UNCHANGED <<row, manager, refresh, bmc, health, lossy, cutOff, orphans>>

\* The request in hand when the refresh is cancelled may have been served.
RequestServed ==
    \/ UNCHANGED bmc
    \/ /\ refresh.at = "deleting" /\ refresh.sub.url = "absolute"
       /\ bmc' = Put(bmc, refresh.cur, {s \in bmc[refresh.cur] : s.id # refresh.sub.id})
    \/ refresh.at = "create" /\ \E id \in FreeIds(refresh.cur) : Insert(refresh.cur, id)

CancelTasks ==
    /\ stopping = "sse"
    /\ stopping' = "hooks"
    /\ orphans' = {t \in Targets : sse[t] # None} \ doomed
    /\ sse' = [t \in Targets |-> None]
    /\ cutOff' = refresh.cur
    /\ RequestServed
    /\ refresh' = NoPass("cancelled")
    /\ UNCHANGED <<row, hook, fp, failed, verified, doomed, health, lossy>>

\* Mutant: the webhook subscribers are dropped without a request.
TearDown_silently(t) == UNCHANGED <<bmc, lossy>>

TearDown(t) == delete_subscription(t, hook[t])

StopHook(t) ==
    /\ stopping = "hooks" /\ hook[t] # None
    /\ TearDown(t)
    /\ hook' = Put(hook, t, None)
    /\ UNCHANGED <<row, sse, fp, failed, verified, refresh, stopping, doomed, health,
                   cutOff, orphans>>

Stopped ==
    /\ stopping = "hooks" /\ \A t \in Targets : hook[t] = None
    /\ stopping' = "done"
    /\ UNCHANGED <<row, manager, refresh, doomed, bmc, health, lossy, cutOff, orphans>>

Exited == stopping = "done" /\ UNCHANGED vars

Pass ==
    \/ ReadTargets \/ Plan \/ DeleteAnswered \/ BeginAdds \/ check_sse_capability
    \/ start_webhook_subscription \/ BeginVerify
    \/ \E t \in Targets : \/ RemoveSse(t) \/ RemoveHook(t) \/ start_subscription(t)
                          \/ verify_webhook_subscriptions(t)

Next ==
    \/ Pass \/ StopSubscribers \/ CancelTasks \/ Stopped \/ Exited
    \/ \E t \in Targets : \/ create_target(t) \/ update_target(t) \/ delete_target(t)
                          \/ subscribe_loop(t) \/ RetryDue(t) \/ VerifyDue(t) \/ BmcChanges(t)
                          \/ StopHook(t)

Spec == Init /\ [][Next]_vars

\* asyncio resumes what is ready, requests end by their timeouts, time passes.
FairSpec ==
    /\ Spec
    /\ WF_vars(Pass)
    /\ \A t \in Targets : WF_vars(subscribe_loop(t)) /\ WF_vars(RetryDue(t)) /\ WF_vars(VerifyDue(t))

(***************************************************************************)
(* Properties                                                              *)
(***************************************************************************)
TypeOK ==
    /\ row \in [Targets -> Configs \cup {"absent", "disabled"}]
    /\ sse \in [Targets -> SseSub \cup {None}]
    /\ hook \in [Targets -> HookSub \cup {None}]
    /\ fp \in [Targets -> Configs \cup {None}]
    /\ failed \in [Targets -> {None, "later", "due", "never"}]
    /\ verified \in [Targets -> {None, "recent", "due"}]
    /\ refresh \in [at : Places, want : [Targets -> Configs \cup {None}],
                     todo : SUBSET Targets, add : SUBSET Targets,
                     cur : Targets \cup {None}, sub : HookSub \cup {None}]
    /\ stopping \in {"no", "sse", "hooks", "done"}
    /\ bmc \in [Targets -> SUBSET Sub]
    /\ health \in [Targets -> {"sse", "hook", "reject", "down"}]
    /\ \A S \in {doomed, lossy, orphans} : S \subseteq Targets
    /\ cutOff \in Targets \cup {None}

\* Between two passes every subscription belongs to a target the last pass
\* wanted, runs with the configuration that pass read, and is the only one
\* of its target: no subscriber keeps old credentials or an old address, and
\* no target is subscribed through both transports (_refresh_subscriptions).
SubscriptionsMatchConfig ==
    refresh.at = "idle" =>
        \A t \in Targets :
            /\ sse[t] = None \/ hook[t] = None
            /\ sse[t] # None => sse[t].cfg = refresh.want[t] /\ fp[t] = sse[t].cfg
            /\ hook[t] # None => hook[t].cfg = refresh.want[t] /\ fp[t] = hook[t].cfg

\* When stop() has returned, a subscription to this collector is left on a
\* BMC only if a request to that BMC failed or the refresh was cancelled with
\* that very target in hand: whatever was registered, adopted, re-created or
\* dropped before, nothing else leaks (AlertManager.stop).
StopLeaksOnlyCutOff ==
    stopping = "done" => \A t \in Targets : Mine(t) # {} => t \in lossy \cup {cutOff}

\* Between two passes a subscription on a BMC that points to this collector is
\* one a webhook subscriber still knows, unless a request to that BMC failed:
\* no pass creates a second one or forgets one (_reconcile_by_context,
\* _verify_webhook_subscriptions).
NoUnknownSubscription ==
    refresh.at = "idle" =>
        \A t \in Targets \ lossy : \A s \in Mine(t) : hook[t] # None /\ hook[t].id = s.id

Delivering(t) ==
    \/ sse[t] # None /\ sse[t].state = "connected"
    \/ hook[t] # None /\ \E s \in Mine(t) : s.id = hook[t].id

Steady(t, c, h) == stopping = "no" /\ row[t] = c /\ health[t] = h

\* A target whose row and BMC stay as they are, with a working configuration,
\* ends up with a subscription that delivers, whatever failed before: marks
\* are lifted, dead subscribers are harvested, lost webhooks are re-created.
EventuallyDelivering ==
    \A t \in Targets, c \in Configs \ (WrongEndpoint \cup Undecryptable),
       h \in {"sse", "hook"} :
        <>[]Steady(t, c, h) => <>[]Delivering(t)

\* stop() stops every SSE subscriber.  It does not: one that the refresh
\* starts while stop() awaits the others runs on (alert_manager.py 345-347).
AllSubscribersStopped == stopping = "done" => orphans = {}

\* A target that is taken out and put back is tried again.  It is not when its
\* first subscription was refused for good and the mark is still there
\* (alert_manager.py 505-506 clears marks of subscribed targets only).
RemovalClearsMark ==
    \A t \in Targets : refresh.at = "idle" /\ refresh.want[t] = None => failed[t] = None
=============================================================================
