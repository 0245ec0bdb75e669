----------------------------- MODULE Dispatcher -----------------------------
(***************************************************************************)
(* The dispatcher (pkg/dispatcher): it takes every pending pod, waits      *)
(* until the pod's group is complete, picks a scheduler instance for it    *)
(* and writes the choice into the pod's annotations.  Pods of schedulers   *)
(* that disappear, and pods whose annotations make no sense, are reset to  *)
(* pending by its reconciler and travel the same way again.                *)
(*                                                                         *)
(* The API server is `api`.  The dispatcher sees it through one informer:  *)
(* `watch[p]` holds the versions under way, `lister[p]` the one cached, and*)
(* every registered handler is a goroutine with an inbox of its own, so    *)
(* the handlers of one event run in any order relative to each other.  The *)
(* handlers named in Lagging keep an inbox; the others run with the lister *)
(* update.  MetricsFIFO queues are sets here, any pod of which may be next:*)
(* their order is left open, and each loop is fair to each queued pod      *)
(* because the queues are first-in first-out.                              *)
(***************************************************************************)
EXTENDS PodState, Sequences, FiniteSets

CONSTANTS
  Pods, Groups, NoGroup, NoPod,
  WithNodes,     \* schedulers that own nodes (node shuffling)
  Slots,         \* dispatchingPod goroutines alive at once (bound)
  Scenarios      \* the situations one of which a behaviour starts in

FaultKinds == {"edit", "break", "delete", "deleteGroup", "fail", "lostAnswer", "crash", "silent"}
Handlers   == {"pending", "dispatched", "units"}

\* A situation: the group of every pod and Spec.MinMember of every group, the
\* handlers that may fall behind the lister, the versions under way per pod
\* and inbox (bound), what may go wrong and how often in all (bound).
Scenario == [groupOf : [Pods -> Groups \union {NoGroup}], minMember : Nat,
             lagging : SUBSET Handlers, maxLag : Nat,
             faults : SUBSET FaultKinds, maxFaults : Nat]

\* The values that stand for nothing are different from the real ones.
ASSUME ConstantsAssumption ==
  /\ Scenarios \subseteq Scenario
  /\ NoGroup \notin Groups /\ NoPod \notin Pods /\ NoScheduler \notin Schedulers
  /\ {"absent", "waiting", "placed", "broken"} \intersect Schedulers = {}

VARIABLES
  api, watch, lister, inbox,   \* the API server's pods and the informer
  podGroup,                    \* PodGroup objects: "none", "pending" or "scheduled"
  fifo, sorted, ready,         \* FIFOPendingPodsQueue, SortedPodsQueue, readyUnitPods
  units,                       \* unitInfos.units
  hand,                        \* pod in the hands of pendingUnitPodsLoop / pendingLoop
  task,                        \* dispatchingPod goroutines
  info,                        \* dispatchInfo
  crd, gs,                     \* Scheduler objects; the maintainer's generalSchedulers
  stale, abnormal,             \* the reconciler's work queues
  env,                         \* the situation, and how often something went wrong
  excused                      \* pods edited, created again, or whose write went unanswered

objects == <<api, watch, lister, inbox, podGroup>>
queues  == <<fifo, sorted, ready, units, hand>>
vars    == <<api, watch, lister, inbox, podGroup, fifo, sorted, ready, units, hand,
             task, info, crd, gs, stale, abnormal, env, excused>>

GroupOf   == env.scenario.groupOf
MinMember == env.scenario.minMember
Lagging   == env.scenario.lagging
LagBound  == env.scenario.maxLag

-----------------------------------------------------------------------------
(* Objects *)

Fresh == [annotated |-> TRUE, state |-> "", sched |-> NoScheduler, assumed |-> FALSE,
          nominated |-> FALSE, bound |-> FALSE, legal |-> TRUE, ours |-> TRUE]

\* A pod that does not exist; no handler's filter accepts it.
Gone == [Fresh EXCEPT !.state = "gone", !.legal = FALSE, !.ours = FALSE]

Exists(o) == o.state # "gone"

NewUnitInfo == [pg |-> "none", pods |-> {}, unSortedPods |-> {}, scheduler |-> NoScheduler]

NewDispatchInfo == [pods    |-> [p \in Pods |-> NoScheduler],
                    toPods  |-> [s \in Schedulers |-> {}],
                    schedulers |-> {}]

Idle == [pod |-> NoPod, pc |-> "idle", prev |-> NoScheduler, sched |-> NoScheduler]

\* The queues that the handlers of pod events work on.
Mem == [fifo |-> fifo, sorted |-> sorted, ready |-> ready, units |-> units]

-----------------------------------------------------------------------------
(* unitInfos *)

\* A group is dispatchable once it exists and either is past its pending
\* phase or has MinMember pods.
readyToBeDispatched(ui) ==
  /\ ui.pg # "none"
  /\ ui.pg = "pending" => Cardinality(ui.pods) >= MinMember

\* Write ui as unit g and, when it is ready, move its unsorted pods on
\* (readyToBeDispatched then movePodsToReadyQueue).
SettleUnit(m, g, ui) ==
  IF readyToBeDispatched(ui)
  THEN [m EXCEPT !.ready = @ \union ui.unSortedPods,
                 !.units[g] = [ui EXCEPT !.unSortedPods = {}]]
  ELSE [m EXCEPT !.units[g] = ui]

AddUnSortedPodInfo(m, g, p) ==
  SettleUnit(m, g, [m.units[g] EXCEPT !.unSortedPods = @ \union {p}, !.pods = @ \union {p}])

DeleteUnSortedPodInfo(m, g, p) ==
  IF g = NoGroup THEN m ELSE [m EXCEPT !.units[g].unSortedPods = @ \ {p}]

AddPodKey(m, g, p) == SettleUnit(m, g, [m.units[g] EXCEPT !.pods = @ \union {p}])

\* An entry with no pods and no PodGroup is deleted, the assigned scheduler
\* with it.
DropEmpty(ui) == IF ui.pods = {} /\ ui.pg = "none" THEN NewUnitInfo ELSE ui

DeletePodKey(m, g, p) ==
  LET ui == [m.units[g] EXCEPT !.pods = @ \ {p}, !.unSortedPods = @ \ {p}]
  IN  [m EXCEPT !.units[g] = DropEmpty(ui)]

-----------------------------------------------------------------------------
(* dispatchInfo *)

\* addPod overwrites the pod's entry and inserts it under the new scheduler;
\* an entry under another scheduler stays where it is.
addPod(d, p, s) == [d EXCEPT !.pods[p] = s, !.toPods[s] = @ \union {p}]

removePod(d, p) ==
  IF d.pods[p] = NoScheduler THEN d
  ELSE [d EXCEPT !.toPods[d.pods[p]] = @ \ {p}, !.pods[p] = NoScheduler]

\* GetMostIdleSchedulerAndAddPodInAdvance: every registered scheduler with
\* the fewest pods, active or not.
MostIdle(d) ==
  {s \in d.schedulers : \A t \in d.schedulers :
     Cardinality(d.toPods[s]) <= Cardinality(d.toPods[t])}

-----------------------------------------------------------------------------
(* Handlers of pod events *)

addPodToPendingOrSortedQueue(m, p) ==
  IF GroupOf[p] # NoGroup THEN AddUnSortedPodInfo(m, GroupOf[p], p)
  ELSE [m EXCEPT !.fifo = @ \union {p}]

\* A pod already sorted is updated in place; otherwise it is taken out of
\* the earlier queues and put in again.
updatePodInPendingOrSortedQueue(m, p) ==
  IF p \in m.sorted THEN m
  ELSE addPodToPendingOrSortedQueue(
         DeleteUnSortedPodInfo([m EXCEPT !.fifo = @ \ {p}], GroupOf[p], p), p)

deletePodFromPendingOrSortedQueue(m, p) ==
  IF p \in m.sorted THEN [m EXCEPT !.sorted = @ \ {p}]
  ELSE IF GroupOf[p] # NoGroup THEN DeleteUnSortedPodInfo(m, GroupOf[p], p)
  ELSE [m EXCEPT !.fifo = @ \ {p}]

PendingHandler(m, p, old, new) ==
  LET event == Filtered(PendingPodOfGodel(old), PendingPodOfGodel(new))
  IN CASE event = "add"    -> addPodToPendingOrSortedQueue(m, p)
       [] event = "update" -> updatePodInPendingOrSortedQueue(m, p)
       [] event = "delete" -> deletePodFromPendingOrSortedQueue(m, p)
       [] OTHER            -> m

\* There is no UpdateFunc: a change from one scheduler to another goes unseen.
DispatchedHandler(d, p, old, new) ==
  LET event == Filtered(DispatchedPodOfGodel(old), DispatchedPodOfGodel(new))
  IN CASE event = "add"    -> addPod(d, p, new.sched)
       [] event = "delete" -> removePod(d, p)
       [] OTHER            -> d

\* addPodToUnitInfos and deletePodFromUnitInfos: unfiltered, no UpdateFunc.
UnitsHandler(m, p, old, new) ==
  IF GroupOf[p] = NoGroup \/ (Exists(old) /\ Exists(new)) THEN m
  ELSE IF Exists(new) THEN AddPodKey(m, GroupOf[p], p)
  ELSE DeletePodKey(m, GroupOf[p], p)

\* addPodToAbnormalQueue and updatePodInAbnormalQueue.
AbnormalHandler(q, p, new) == IF AbnormalPodStateOfGodel(new) THEN q \union {p} ELSE q

SetMem(m) == fifo' = m.fifo /\ sorted' = m.sorted /\ ready' = m.ready /\ units' = m.units

\* The handlers hs run on an event.  Each touches memory of its own, but for
\* the units, where the order of the two makes no difference.
Notified(hs, p, old, new) ==
  LET m == IF "pending" \in hs THEN PendingHandler(Mem, p, old, new) ELSE Mem IN
  /\ SetMem(IF "units" \in hs THEN UnitsHandler(m, p, old, new) ELSE m)
  /\ info' = IF "dispatched" \in hs THEN DispatchedHandler(info, p, old, new) ELSE info

-----------------------------------------------------------------------------
Init ==
  /\ \E sc \in Scenarios : env = [scenario |-> sc, faults |-> 0]
  /\ api = [p \in Pods |-> Fresh]
  /\ watch = [p \in Pods |-> <<Fresh>>]
  /\ lister = [p \in Pods |-> Gone]
  /\ inbox = [h \in Lagging |-> [p \in Pods |-> <<>>]]
  /\ podGroup = [g \in Groups |-> "none"]
  /\ fifo = {} /\ sorted = {} /\ ready = {}
  /\ units = [g \in Groups |-> NewUnitInfo]
  /\ hand = [l \in {"unit", "pending"} |-> NoPod]
  /\ task = [i \in Slots |-> Idle]
  /\ crd = [s \in Schedulers |-> "fresh"]
  /\ gs = [s \in Schedulers |-> "active"]
  /\ info = [NewDispatchInfo EXCEPT !.schedulers = Schedulers]
  /\ stale = {} /\ abnormal = {}
  /\ excused = {}

Fault(kind) ==
  /\ kind \in env.scenario.faults /\ env.faults < env.scenario.maxFaults
  /\ env' = [env EXCEPT !.faults = @ + 1]

\* An API write to pod p that the informer will deliver.
Write(p, o) ==
  /\ Len(watch[p]) < LagBound
  /\ api' = [api EXCEPT ![p] = o]
  /\ watch' = [watch EXCEPT ![p] = Append(@, o)]
  /\ UNCHANGED <<lister, inbox, podGroup>>

-----------------------------------------------------------------------------
(* The users, the schedulers and the API server *)

others == <<queues, task, info, crd, gs, stale, abnormal>>

\* The spec or the labels of a waiting pod change.
EditPod(p) ==
  /\ PendingPod(api[p]) /\ Fault("edit")
  /\ Write(p, api[p]) /\ excused' = excused \union {p}
  /\ UNCHANGED others

\* The annotations of a waiting pod are edited into a state that means nothing.
BreakPod(p) ==
  /\ PendingPod(api[p]) /\ Fault("break")
  /\ Write(p, [api[p] EXCEPT !.state = "dispatched"]) /\ excused' = excused \union {p}
  /\ UNCHANGED others

DeletePod(p) ==
  /\ Exists(api[p]) /\ Fault("delete")
  /\ Write(p, Gone) /\ UNCHANGED <<others, excused>>

\* A pod of the same name is created again.
CreatePod(p) ==
  /\ ~Exists(api[p]) /\ Write(p, Fresh) /\ excused' = excused \union {p}
  /\ UNCHANGED <<others, env>>

\* The scheduler named on the pod places it.
AssumePod(p) ==
  /\ DispatchedPod(api[p]) /\ crd[api[p].sched] = "fresh"
  /\ Write(p, [api[p] EXCEPT !.state = "assumed", !.assumed = TRUE])
  /\ UNCHANGED <<others, env, excused>>

-----------------------------------------------------------------------------
(* The informer *)

\* The lister takes the next version; handlers that keep up run, the others
\* are notified.
Deliver(p) ==
  LET new == Head(watch[p]) IN
  /\ watch[p] # <<>>
  /\ \A h \in Lagging : Len(inbox[h][p]) < LagBound
  /\ watch' = [watch EXCEPT ![p] = Tail(@)]
  /\ lister' = [lister EXCEPT ![p] = new]
  /\ inbox' = [h \in Lagging |-> [inbox[h] EXCEPT ![p] = Append(@, <<lister[p], new>>)]]
  /\ Notified(Handlers \ Lagging, p, lister[p], new)
  /\ abnormal' = AbnormalHandler(abnormal, p, new)
  /\ UNCHANGED <<api, podGroup, hand, task, crd, gs, stale, env, excused>>

Notify(h, p) ==
  /\ h \in Lagging
  /\ inbox[h][p] # <<>>
  /\ inbox' = [inbox EXCEPT ![h][p] = Tail(@)]
  /\ Notified({h}, p, Head(inbox[h][p])[1], Head(inbox[h][p])[2])
  /\ UNCHANGED <<api, watch, lister, podGroup, hand, task, crd, gs, stale, abnormal, env, excused>>

\* Mutant: a unit that becomes ready with its PodGroup is not moved on.
addPodGroupOnly(g, phase) ==
  /\ podGroup' = [podGroup EXCEPT ![g] = phase]
  /\ units' = [units EXCEPT ![g].pg = phase]
  /\ UNCHANGED <<api, watch, lister, inbox, fifo, sorted, ready, hand, task, info, crd, gs,
                 stale, abnormal, env, excused>>

\* PodGroup objects and their handlers (addPodGroup, DeletePodGroup).
addPodGroup(g, phase) ==
  /\ podGroup' = [podGroup EXCEPT ![g] = phase]
  /\ SetMem(SettleUnit(Mem, g, [units[g] EXCEPT !.pg = phase]))
  /\ UNCHANGED <<api, watch, lister, inbox, hand, task, info, crd, gs, stale, abnormal, env, excused>>

AddPodGroup(g)    == podGroup[g] = "none" /\ addPodGroup(g, "pending")
UpdatePodGroup(g) == podGroup[g] = "pending" /\ readyToBeDispatched(units[g])
                     /\ (\A p \in Pods : GroupOf[p] = g => ~PendingPod(api[p]))
                     /\ addPodGroup(g, "scheduled")

DeletePodGroup(g) ==
  /\ podGroup[g] # "none" /\ Fault("deleteGroup")
  /\ podGroup' = [podGroup EXCEPT ![g] = "none"]
  /\ units' = [units EXCEPT ![g] = DropEmpty([units[g] EXCEPT !.pg = "none"])]
  /\ UNCHANGED <<api, watch, lister, inbox, fifo, sorted, ready, hand, task, info, crd, gs,
                 stale, abnormal, excused>>

-----------------------------------------------------------------------------
(* The loops *)

loopUnchanged == <<objects, units, info, crd, gs, stale, abnormal, env, excused>>

\* pendingUnitPodsLoop: Pop from the ready queue, then AddPodInfo.
UnitLoopPop(p) ==
  /\ p \in ready /\ hand["unit"] = NoPod
  /\ ready' = ready \ {p} /\ hand' = [hand EXCEPT !["unit"] = p]
  /\ UNCHANGED <<loopUnchanged, fifo, sorted, task>>

UnitLoopAdd ==
  /\ hand["unit"] # NoPod
  /\ fifo' = fifo \union {hand["unit"]} /\ hand' = [hand EXCEPT !["unit"] = NoPod]
  /\ UNCHANGED <<loopUnchanged, ready, sorted, task>>

\* pendingLoop: the same from the FIFO to the sorted queue.
PendingLoopPop(p) ==
  /\ p \in fifo /\ hand["pending"] = NoPod
  /\ fifo' = fifo \ {p} /\ hand' = [hand EXCEPT !["pending"] = p]
  /\ UNCHANGED <<loopUnchanged, ready, sorted, task>>

PendingLoopAdd ==
  /\ hand["pending"] # NoPod
  /\ sorted' = sorted \union {hand["pending"]} /\ hand' = [hand EXCEPT !["pending"] = NoPod]
  /\ UNCHANGED <<loopUnchanged, ready, fifo, task>>

\* sortedLoop: a goroutine per pod.
SortedLoop(p, i) ==
  /\ p \in sorted /\ task[i] = Idle
  /\ \A j \in Slots : task[j] = Idle => i <= j
  /\ sorted' = sorted \ {p}
  /\ task' = [task EXCEPT ![i] = [Idle EXCEPT !.pod = p, !.pc = "get"]]
  /\ UNCHANGED <<loopUnchanged, ready, fifo, hand>>

-----------------------------------------------------------------------------
(* dispatchingPod *)

taskUnchanged == <<fifo, ready, hand, crd, gs, stale, abnormal>>

Finish(i)  == task' = [task EXCEPT ![i] = Idle]
\* Mutant: a pod whose dispatching failed is not queued again.
RequeueForgotten(i) == Finish(i) /\ UNCHANGED sorted

Requeue(i) == Finish(i) /\ sorted' = sorted \union {task[i].pod}
Goto(i, t) == task' = [task EXCEPT ![i] = t] /\ UNCHANGED sorted

Active(s) == s \in Schedulers /\ gs[s] = "active"

\* Mutant: only the cached assignment is consulted.
SchedulersOnPodsIgnored(g) == {}

\* getAssignedSchedulerFromPods: a scheduler named on some pod of the group.
SchedulersOnPods(g) ==
  {lister[p].sched : p \in {q \in Pods : GroupOf[q] = g}} \ {NoScheduler}

\* The lister is read and, for a pod of a group, the PodGroup lister and the
\* unit's assigned scheduler, cached or named on a pod.  A pod no longer
\* pending is dropped, a pod without PodGroup goes back to the queue.
GetPod(i) ==
  LET p == task[i].pod
      g == GroupOf[p]
      named == SchedulersOnPods(g) IN
  /\ task[i].pc = "get"
  /\ UNCHANGED <<objects, info, units, env, excused, taskUnchanged>>
  /\ \/ /\ ~PendingPodOfGodel(lister[p])
        /\ Finish(i) /\ UNCHANGED sorted
     \/ /\ PendingPodOfGodel(lister[p]) /\ g = NoGroup
        /\ Goto(i, [task[i] EXCEPT !.pc = "select"])
     \/ /\ PendingPodOfGodel(lister[p]) /\ g # NoGroup
        /\ \/ podGroup[g] = "none" /\ Requeue(i)
           \/ /\ podGroup[g] # "none" /\ units[g].scheduler # NoScheduler
              /\ Goto(i, [task[i] EXCEPT !.pc = "select", !.prev = units[g].scheduler])
           \/ /\ podGroup[g] # "none" /\ units[g].scheduler = NoScheduler /\ named = {}
              /\ Goto(i, [task[i] EXCEPT !.pc = "select"])
           \/ /\ podGroup[g] # "none" /\ units[g].scheduler = NoScheduler
              /\ \E s \in named : Goto(i, [task[i] EXCEPT !.pc = "adopt", !.prev = s])

\* AssignSchedulerToPodGroupUnit: unless forced, another scheduler already
\* assigned is an error.
Assign(i, s, force, next) ==
  LET g == GroupOf[task[i].pod] IN
  IF force \/ units[g].scheduler \in {NoScheduler, s}
  THEN units' = [units EXCEPT ![g].scheduler = s] /\ Goto(i, [task[i] EXCEPT !.pc = next])
  ELSE Requeue(i) /\ UNCHANGED units

\* The end of getAssignedScheduler: the name found on a pod is cached.
AdoptScheduler(i) ==
  /\ task[i].pc = "adopt"
  /\ Assign(i, task[i].prev, FALSE, "select")
  /\ UNCHANGED <<objects, info, env, excused, taskUnchanged>>

\* selectSchedulerForUnit and loadBalancing: keep the assigned scheduler
\* while it is active, else take a most idle one; the pod is counted in
\* advance.  No registered scheduler is an error: the pod goes back.
SelectScheduler(i) ==
  LET p == task[i].pod IN
  /\ task[i].pc = "select"
  /\ UNCHANGED <<objects, units, env, excused, taskUnchanged>>
  /\ \/ /\ Active(task[i].prev)
        /\ info' = addPod(info, p, task[i].prev)
        /\ Goto(i, [task[i] EXCEPT !.pc = "patch", !.sched = task[i].prev])
     \/ /\ ~Active(task[i].prev)
        /\ \E s \in MostIdle(info) :
             /\ info' = addPod(info, p, s)
             /\ Goto(i, [task[i] EXCEPT !.sched = s,
                           !.pc = IF GroupOf[p] = NoGroup THEN "patch" ELSE "assign"])
     \/ /\ ~Active(task[i].prev) /\ info.schedulers = {}
        /\ Requeue(i) /\ UNCHANGED info

\* The end of selectSchedulerForUnit, forced when the previous scheduler was
\* found inactive.  On an error the pod stays counted for the one picked.
AssignScheduler(i) ==
  /\ task[i].pc = "assign"
  /\ Assign(i, task[i].sched, task[i].prev # NoScheduler, "patch")
  /\ UNCHANGED <<objects, info, env, excused, taskUnchanged>>

\* sendPodToScheduler: a merge patch of two annotations, without a resource
\* version.  On an error the pod is uncounted and, unless it is gone, queued
\* again; the answer of a write that succeeded may be lost.
SendPodToScheduler(i) ==
  LET p == task[i].pod
      patched == [api[p] EXCEPT !.state = "dispatched", !.sched = task[i].sched] IN
  /\ task[i].pc = "patch"
  /\ UNCHANGED <<units, taskUnchanged>>
  /\ \/ /\ Exists(api[p]) /\ Write(p, patched)
        /\ Finish(i) /\ UNCHANGED <<sorted, info, env, excused>>
     \/ /\ ~Exists(api[p]) /\ info' = removePod(info, p)
        /\ Finish(i) /\ UNCHANGED <<objects, sorted, env, excused>>
     \/ /\ Exists(api[p]) /\ Fault("fail")
        /\ info' = removePod(info, p) /\ Requeue(i) /\ UNCHANGED <<objects, excused>>
     \/ /\ Exists(api[p]) /\ Fault("lostAnswer")
        /\ info' = removePod(info, p) /\ Requeue(i)
        /\ Write(p, patched) /\ excused' = excused \union {p}

-----------------------------------------------------------------------------
(* Schedulers, the maintainer and the reconciler *)

schedUnchanged == <<objects, queues, task, excused>>

\* Scheduler s stops renewing Status.LastUpdateTime.
FallSilent(s) ==
  /\ crd[s] = "fresh" /\ Fault("silent")
  /\ crd' = [crd EXCEPT ![s] = "stale"]
  /\ UNCHANGED <<schedUnchanged, info, gs, stale, abnormal>>

\* It renews it, or registers again once its deletion has been handled:
\* updateScheduler or addScheduler runs.  Only the latter tells dispatchInfo.
Heartbeat(s) ==
  /\ crd[s] = "stale" \/ (crd[s] = "none" /\ s \notin info.schedulers)
  /\ crd' = [crd EXCEPT ![s] = "fresh"]
  /\ gs' = [gs EXCEPT ![s] = "active"]
  /\ info' = IF crd[s] = "none" THEN [info EXCEPT !.schedulers = @ \union {s}] ELSE info
  /\ UNCHANGED <<schedUnchanged, stale, abnormal, env>>

\* PopulateSchedulers: a listed scheduler is added, as active when it was
\* unknown and by its heartbeat otherwise.
PopulateSchedulers(s) ==
  /\ crd[s] # "none"
  /\ gs' = [gs EXCEPT ![s] = IF @ = "absent" \/ crd[s] = "fresh" THEN "active" ELSE "inactive"]
  /\ gs' # gs
  /\ UNCHANGED <<schedUnchanged, crd, info, stale, abnormal, env>>

\* SyncUpSchedulersStatus: schedulers whose object is gone are deactivated,
\* silent ones have their object deleted, inactive ones that speak again are
\* activated.
SyncUpSchedulersStatus(s) ==
  /\ \/ /\ gs[s] = "active" /\ crd[s] = "none"
        /\ gs' = [gs EXCEPT ![s] = "inactive"] /\ UNCHANGED crd
     \/ /\ gs[s] # "absent" /\ crd[s] = "stale"
        /\ crd' = [crd EXCEPT ![s] = "none"] /\ UNCHANGED gs
     \/ /\ gs[s] = "inactive" /\ crd[s] = "fresh"
        /\ gs' = [gs EXCEPT ![s] = "active"] /\ UNCHANGED crd
  /\ UNCHANGED <<schedUnchanged, info, stale, abnormal, env>>

\* deleteScheduler: the scheduler leaves dispatchInfo, the maintainer drops
\* it (a scheduler that owns nodes stays, inactive), and the reconciler
\* takes over the pods counted for it.
deleteScheduler(s) ==
  LET known == {p \in info.toPods[s] : info.pods[p] # NoScheduler} IN
  /\ crd[s] = "none" /\ s \in info.schedulers
  /\ gs' = [gs EXCEPT ![s] = IF s \in WithNodes THEN "inactive" ELSE "absent"]
  /\ stale' = stale \union known
  /\ info' = [schedulers |-> info.schedulers \ {s},
              pods |-> [p \in Pods |-> IF p \in known THEN NoScheduler ELSE info.pods[p]],
              toPods |-> [t \in Schedulers |-> info.toPods[t] \ {p \in known : info.pods[p] = t}]]
  /\ UNCHANGED <<schedUnchanged, crd, abnormal, env>>

\* Mutant: the scheduler's liveness is not looked at.
OrphanOrNot(o) == DispatchedPodOfGodel(o)

\* A dispatched pod whose scheduler is inactive or unknown.
Orphan(o) == DispatchedPodOfGodel(o) /\ ~Active(o.sched)

\* Mutant: pods of schedulers the maintainer has forgotten are passed over.
CollectDispatchedPodsOfKnown ==
  /\ stale' = stale \union {p \in Pods : Orphan(lister[p]) /\ gs[lister[p].sched] = "inactive"}
  /\ stale' # stale
  /\ UNCHANGED <<schedUnchanged, info, crd, gs, abnormal, env>>

\* collectDispatchedPodsInInactiveSchedulers.
CollectDispatchedPods ==
  /\ stale' = stale \union {p \in Pods : Orphan(lister[p])}
  /\ stale' # stale
  /\ UNCHANGED <<schedUnchanged, info, crd, gs, abnormal, env>>

\* resetPodToPendingState is an Update with the resource version of the
\* lister's copy: it conflicts, and the key is queued again, while newer
\* versions are under way.
ResetOrRetry(p) ==
  \/ watch[p] = <<>> /\ Write(p, resetPodToPendingState(lister[p]))
  \/ watch[p] # <<>> /\ UNCHANGED objects

StaleDispatchedPodsSyncer(p) ==
  /\ p \in stale
  /\ UNCHANGED <<queues, task, info, crd, gs, abnormal, env, excused>>
  /\ IF Orphan(lister[p])
     THEN /\ ResetOrRetry(p)
          /\ stale' = IF watch[p] = <<>> THEN stale \ {p} ELSE stale
     ELSE stale' = stale \ {p} /\ UNCHANGED objects

AbnormalStatePodsSyncer(p) ==
  /\ p \in abnormal
  /\ UNCHANGED <<queues, task, info, crd, gs, stale, env, excused>>
  /\ IF AbnormalPodStateOfGodel(lister[p])
     THEN /\ ResetOrRetry(p)
          /\ abnormal' = IF watch[p] = <<>> THEN abnormal \ {p} ELSE abnormal
     ELSE abnormal' = abnormal \ {p} /\ UNCHANGED objects

-----------------------------------------------------------------------------
\* The dispatcher process dies and another takes over: the informer lists
\* everything, and every handler is told of every pod.  Schedulers listed
\* are active until proved silent.
Restart ==
  LET pending == {p \in Pods : PendingPodOfGodel(api[p])}
      given == {p \in Pods : DispatchedPodOfGodel(api[p])}
      unit(g) == [NewUnitInfo EXCEPT !.pg = podGroup[g],
                    !.pods = {p \in Pods : GroupOf[p] = g /\ Exists(api[p])},
                    !.unSortedPods = {p \in pending : GroupOf[p] = g}]
      full == {g \in Groups : readyToBeDispatched(unit(g))}
  IN
  /\ Fault("crash")
  /\ lister' = api /\ watch' = [p \in Pods |-> <<>>]
  /\ inbox' = [h \in Lagging |-> [p \in Pods |-> <<>>]]
  /\ fifo' = {p \in pending : GroupOf[p] = NoGroup} /\ sorted' = {}
  /\ ready' = {p \in pending : GroupOf[p] \in full}
  /\ units' = [g \in Groups |-> IF g \in full THEN [unit(g) EXCEPT !.unSortedPods = {}] ELSE unit(g)]
  /\ info' = [schedulers |-> {s \in Schedulers : crd[s] # "none"},
              pods |-> [p \in Pods |-> IF p \in given THEN api[p].sched ELSE NoScheduler],
              toPods |-> [s \in Schedulers |-> {p \in given : api[p].sched = s}]]
  /\ abnormal' = {p \in Pods : AbnormalPodStateOfGodel(api[p])}
  /\ hand' = [l \in DOMAIN hand |-> NoPod]
  /\ task' = [i \in Slots |-> Idle]
  /\ gs' = [s \in Schedulers |-> IF crd[s] = "none" THEN "absent" ELSE "active"]
  /\ stale' = {}
  /\ UNCHANGED <<api, podGroup, crd, excused>>

PodStep(p) ==
  \/ Deliver(p) \/ \E h \in Handlers : Notify(h, p)
  \/ UnitLoopPop(p) \/ PendingLoopPop(p)
  \/ \E i \in Slots : SortedLoop(p, i)
  \/ StaleDispatchedPodsSyncer(p) \/ AbnormalStatePodsSyncer(p)

TaskStep(i) == GetPod(i) \/ AdoptScheduler(i) \/ SelectScheduler(i) \/ AssignScheduler(i) \/ SendPodToScheduler(i)

UserStep(p) == EditPod(p) \/ BreakPod(p) \/ DeletePod(p) \/ CreatePod(p) \/ AssumePod(p)

Next ==
  \/ \E p \in Pods : PodStep(p) \/ UserStep(p)
  \/ \E g \in Groups : AddPodGroup(g) \/ UpdatePodGroup(g) \/ DeletePodGroup(g)
  \/ UnitLoopAdd \/ PendingLoopAdd
  \/ \E i \in Slots : TaskStep(i)
  \/ \E s \in Schedulers : \/ FallSilent(s) \/ Heartbeat(s)
                           \/ PopulateSchedulers(s) \/ SyncUpSchedulersStatus(s)
                           \/ deleteScheduler(s)
  \/ CollectDispatchedPods
  \/ Restart

Spec == Init /\ [][Next]_vars

\* Every goroutine of the dispatcher keeps running and a write fails only
\* finitely often (MaxFaults).  Steps on one pod compete for a loop or a slot
\* with steps on another; the queues are first-in first-out, so a queued pod
\* gets its turn: strong fairness.  Users, schedulers and crashes are free.
Fairness ==
  /\ \A p \in Pods :
       /\ WF_vars(Deliver(p)) /\ \A h \in Handlers : WF_vars(Notify(h, p))
       /\ SF_vars(UnitLoopPop(p)) /\ SF_vars(PendingLoopPop(p))
       /\ SF_vars(\E i \in Slots : SortedLoop(p, i))
       /\ WF_vars(StaleDispatchedPodsSyncer(p)) /\ WF_vars(AbnormalStatePodsSyncer(p))
  /\ WF_vars(UnitLoopAdd) /\ WF_vars(PendingLoopAdd)
  /\ \A i \in Slots : WF_vars(TaskStep(i))
  /\ \A s \in Schedulers : WF_vars(SyncUpSchedulersStatus(s)) /\ WF_vars(deleteScheduler(s))
  /\ WF_vars(CollectDispatchedPods)

FairSpec == Spec /\ Fairness

-----------------------------------------------------------------------------
(* Properties *)

\* The informer has delivered everything about p and every handler has run.
Settled(p) == watch[p] = <<>> /\ \A h \in Lagging : inbox[h][p] = <<>>

Tracked(p) ==
  \/ p \in fifo \union sorted \union ready
  \/ \E g \in Groups : p \in units[g].unSortedPods
  \/ \E l \in DOMAIN hand : hand[l] = p
  \/ \E i \in Slots : task[i].pod = p

\* A member of a group whose name was used before, while unitInfos' handler may
\* be behind the one of the pending pods.
Overtaken(p) == GroupOf[p] # NoGroup /\ "units" \in Lagging /\ p \in excused

TypeOK ==
  /\ \A p \in Pods : Len(watch[p]) <= LagBound
  /\ fifo \union sorted \union ready \subseteq Pods
  /\ \A g \in Groups : /\ units[g].unSortedPods \subseteq units[g].pods
                       /\ units[g].pods \subseteq {p \in Pods : GroupOf[p] = g}
  /\ task \in [Slots -> [pod : Pods \union {NoPod}, pc : {"idle", "get", "adopt", "select", "assign", "patch"},
                         prev : Schedulers \union {NoScheduler}, sched : Schedulers \union {NoScheduler}]]
  /\ info.pods \in [Pods -> Schedulers \union {NoScheduler}]
  /\ info.toPods \in [Schedulers -> SUBSET Pods]
  /\ gs \in [Schedulers -> {"absent", "active", "inactive"}]
  /\ stale \union abnormal \union excused \subseteq Pods

\* No pending pod falls out of the dispatcher: once its events have been
\* handled it is in a queue, in its unit's waiting set, or in the hands of a
\* loop or a dispatching goroutine.  Nothing else would ever bring it back,
\* the informers do not resync.  The exception is a member of a group whose
\* name was used before while the handler of unitInfos is behind: DeletePod
\* for the old pod then takes the new one out of unSortedPods.
NoPodLost ==
  \A p \in Pods : Settled(p) /\ PendingPodOfGodel(api[p]) /\ ~Overtaken(p) => Tracked(p)

\* A dispatched pod whose scheduler is known to be gone does not stay with
\* it: deleteScheduler or the five-minute sweep finds it and the syncer
\* resets it, unless the scheduler comes back.
OrphansAreTakenBack == \A p \in Pods : []<>~Orphan(api[p])

\* The group of p, if it has one, exists and is complete at the API server.
Dispatchable(p) ==
  LET g == GroupOf[p] IN
  /\ info.schedulers # {}
  /\ g # NoGroup => /\ podGroup[g] # "none"
                    /\ podGroup[g] = "pending" =>
                         Cardinality({q \in Pods : GroupOf[q] = g /\ Exists(api[q])}) >= MinMember

\* A dispatchable pod is dispatched, whatever failed, crashed or was edited
\* on the way.
PodsAreDispatched == \A p \in Pods : []<>~(PendingPodOfGodel(api[p]) /\ Dispatchable(p))

\* While no scheduler falls silent, the pods of a unit are all given to the
\* same one, whichever goroutines race for the assignment and whether the
\* assignment was lost with the dispatcher's memory.
UnitStaysTogether ==
  "silent" \notin env.scenario.faults => \A p, q \in Pods :
    GroupOf[p] = GroupOf[q] /\ GroupOf[p] # NoGroup
    /\ DispatchedPod(api[p]) /\ DispatchedPod(api[q])
    => api[p].sched = api[q].sched

OwnerOf(o) ==
  CASE ~Exists(o)       -> "absent"
    [] PendingPod(o)    -> "waiting"
    [] DispatchedPod(o) -> o.sched
    [] AssumedPod(o)    -> "placed"
    [] OTHER            -> "broken"

\* The dispatcher implements PodOwnership: a pod with a scheduler is given to
\* another one only after it was taken back, and only for a reason.
Ownership == INSTANCE PodOwnership
  WITH owner <- [p \in Pods |-> OwnerOf(api[p])], active <- {s \in Schedulers : Active(s)},
       Absent <- "absent", Waiting <- "waiting", Placed <- "placed", Broken <- "broken"

OwnershipSpec == Ownership!Spec

-----------------------------------------------------------------------------
(* Neither NoPodLost nor the refinement follows from what they say alone;   *)
(* these are the facts they rest on.                                        *)

Objects ==
  {o \in [annotated : {TRUE}, state : PodStates \union {"gone"},
          sched : Schedulers \union {NoScheduler}, assumed : BOOLEAN,
          nominated : {FALSE}, bound : {FALSE}, legal : BOOLEAN, ours : BOOLEAN] :
     Exists(o) \/ o = Gone}

\* The last version under way is the one at the API server.
Latest(p) == IF watch[p] = <<>> THEN lister[p] ELSE watch[p][Len(watch[p])]

\* What a handler that lags is told begins where it stopped and ends with
\* the lister's version.
InOrder(b, last) ==
  /\ b # <<>> => b[Len(b)][2] = last
  /\ \A i \in 2 .. Len(b) : b[i][1] = b[i - 1][2]

ObjectsOK ==
  /\ api \in [Pods -> Objects] /\ lister \in [Pods -> Objects]
  /\ watch \in [Pods -> Seq(Objects)]
  /\ inbox \in [Lagging -> [Pods -> Seq(Objects \X Objects)]]
  /\ \A p \in Pods : api[p] = Latest(p)
  /\ \A h \in Lagging, p \in Pods : InOrder(inbox[h][p], lister[p])

UnitInfos == [pg : {"none", "pending", "scheduled"}, pods : SUBSET Pods,
              unSortedPods : SUBSET Pods, scheduler : Schedulers \union {NoScheduler}]

UnitOK(g, ui) ==
  ui \in UnitInfos /\ ui.unSortedPods \subseteq ui.pods /\ \A p \in ui.pods : GroupOf[p] = g

MemOK(m) ==
  /\ m.fifo \subseteq Pods /\ m.sorted \subseteq Pods /\ m.ready \subseteq Pods
  /\ m.units \in [Groups -> UnitInfos] /\ \A g \in Groups : UnitOK(g, m.units[g])

MemoryOK ==
  /\ env \in [scenario : Scenarios, faults : Nat]
  /\ MemOK(Mem)
  /\ hand \in [{"unit", "pending"} -> Pods \union {NoPod}]
  /\ podGroup \in [Groups -> {"none", "pending", "scheduled"}]
  /\ stale \subseteq Pods /\ abnormal \subseteq Pods /\ excused \subseteq Pods

Tasks == [pod : Pods \union {NoPod}, pc : {"idle", "get", "adopt", "select", "assign", "patch"},
          prev : Schedulers \union {NoScheduler}, sched : Schedulers \union {NoScheduler}]

TasksOK ==
  /\ task \in [Slots -> Tasks]
  /\ \A i \in Slots : /\ task[i].pc # "idle" => task[i].pod \in Pods
                      /\ task[i].pc = "adopt" => task[i].prev \in Schedulers
                      /\ task[i].pc \in {"assign", "patch"} => task[i].sched \in Schedulers
  /\ info \in [pods : [Pods -> Schedulers \union {NoScheduler}],
               toPods : [Schedulers -> SUBSET Pods], schedulers : SUBSET Schedulers]

\* The events the handler of pending pods has not been told of, and the
\* version it was told of last.
Told(p) == IF "pending" \in Lagging THEN inbox["pending"][p] ELSE <<>>
View(p) == IF Told(p) = <<>> THEN lister[p] ELSE Told(p)[1][1]

PendingEvent(p) ==
  \/ \E i \in 1 .. Len(watch[p]) : PendingPodOfGodel(watch[p][i])
  \/ \E i \in 1 .. Len(Told(p)) : PendingPodOfGodel(Told(p)[i][2])

\* Where a pod that waits can be: in a queue, in somebody's hands, or in an
\* event under way.
Where(m, p) ==
  {x \in {"fifo", "sorted", "ready", "waits"} :
     \/ x = "fifo" /\ p \in m.fifo
     \/ x = "sorted" /\ p \in m.sorted
     \/ x = "ready" /\ p \in m.ready
     \/ x = "waits" /\ \E g \in Groups : p \in m.units[g].unSortedPods}

InHands(p) ==
  {x \in {"unit", "pending", "task"} :
     \/ x \in {"unit", "pending"} /\ hand[x] = p
     \/ x = "task" /\ \E i \in Slots : task[i].pod = p}

Spots(p) == Where(Mem, p) \union InHands(p) \union (IF PendingEvent(p) THEN {"event"} ELSE {})

\* At most one version under way makes the pod pending.
OneEvent(p) ==
  /\ \A i, j \in 1 .. Len(watch[p]) :
       PendingPodOfGodel(watch[p][i]) /\ PendingPodOfGodel(watch[p][j]) => i = j
  /\ \A i, j \in 1 .. Len(Told(p)) :
       PendingPodOfGodel(Told(p)[i][2]) /\ PendingPodOfGodel(Told(p)[j][2]) => i = j
  /\ \A i \in 1 .. Len(watch[p]), j \in 1 .. Len(Told(p)) :
       ~(PendingPodOfGodel(watch[p][i]) /\ PendingPodOfGodel(Told(p)[j][2]))

\* A pod that is not excused is in one place, and there only while it waits
\* or after it was deleted: no second goroutine can give it away again.
OnePlace(p) ==
  /\ \A x, y \in Spots(p) : x = y
  /\ \A i, j \in Slots : task[i].pod = p /\ task[j].pod = p => i = j
  /\ OneEvent(p)
  /\ Spots(p) # {} => PendingPod(api[p]) \/ ~Exists(api[p])

\* A pod that was deleted stays so until somebody creates it again.
DeletedForGood(p) ==
  Exists(api[p]) =>
    /\ \A i \in 1 .. Len(watch[p]) : Exists(watch[p][i])
    /\ \A h \in Lagging : \A i \in 1 .. Len(inbox[h][p]) : Exists(inbox[h][p][i][2])

\* A pod the handler has seen pending is in somebody's hands unless an event
\* is under way that ends its waiting.
Kept(p) ==
  /\ PendingPodOfGodel(View(p))
  /\ \A i \in 1 .. Len(watch[p]) : PendingPodOfGodel(watch[p][i])
  /\ \A i \in 1 .. Len(Told(p)) : PendingPodOfGodel(Told(p)[i][2])
  => Tracked(p)

DispatchInv ==
  /\ ObjectsOK /\ MemoryOK /\ TasksOK
  /\ \A p \in Pods : /\ p \notin excused => OnePlace(p) /\ DeletedForGood(p)
                     /\ ~Overtaken(p) => Kept(p)
=============================================================================
