-------------------------- MODULE SchedulingQueue --------------------------
(***************************************************************************)
(* The scheduling queue of one scheduler workflow                          *)
(* (pkg/scheduler/queue/priority_queue.go) with the parties that drive it: *)
(*   - the pod handler (podeventshandler.go), the PodGroup handler and the *)
(*     node handlers (eventhandlers.go), each late by its own event stream *)
(*     while the listers are already up to date;                           *)
(*   - the scheduling loop (unit_scheduler.go), which pops a unit, places  *)
(*     some of its pods and hands the rest back;                           *)
(*   - the goroutine that persists the placements;                         *)
(*   - the four periodic flushers of the queue.                            *)
(*                                                                         *)
(* A unit is a PodGroup with its pods, or a single pod.  Queue operations  *)
(* run under the queue's lock and are pure functions of the queue here, so *)
(* that one handler may apply several of them.                             *)
(***************************************************************************)
EXTENDS Naturals, FiniteSets, Sequences

CONSTANTS
    Pods,           \* pod UIDs
    Groups,         \* PodGroups
    NoUnit,         \* the scheduling loop is between two units
    Scenarios       \* the situations one of which a behaviour starts in

(* A situation: the unit of every pod and the MinMember of every PodGroup; the
   phases the PodGroup controller gives a PodGroup; the states in which pods are
   first seen; whether PodGroups are deleted and created again (groupsMayGo),
   calls of the API server may fail, the pod handler may be late by more than
   the TTL of assumed pods (deadlinesPass), and the scheduler gives pods it
   cannot place back to the dispatcher (disablePreemption).  maxLag bounds the
   events of one object a handler is behind, maxChanges the changes others make. *)
Scenario == [unit : [Pods -> Groups \cup Pods], minMember : [Groups -> 1..Cardinality(Pods)],
             phases : SUBSET {"scheduled", "timeout"},
             arrivals : SUBSET {"dispatched", "elsewhere", "assumed"},
             groupsMayGo : BOOLEAN, patchesMayFail : BOOLEAN, deadlinesPass : BOOLEAN,
             disablePreemption : BOOLEAN, maxLag : 1..3, maxChanges : 0..3]

Units == Groups \cup Pods

ASSUME DisjointAssumption == Groups \cap Pods = {} /\ NoUnit \notin Units
ASSUME ScenariosAssumption ==
    Scenarios \subseteq Scenario /\ \A sc \in Scenarios, p \in Pods : sc.unit[p] \in Groups \cup {p}

VARIABLES
    log,        \* log[p]: the state of p the pod handler saw last, then the ones it has yet to see
    glog,       \* glog[g]: the same for the PodGroup handler
    env,        \* the situation, and how many changes others have made so far
    queue,      \* the queue: sub-queues, waitingPodsList, priorityHeap, move request
    cached,     \* PodStore.PodStates of the scheduler cache
    assumed,    \* PodStore.AssumedPods
    status,     \* UnitStatusStore: the scheduling status of every PodGroup
    cycle,      \* the unit the scheduling loop works on
    persisting, \* placed pods whose patch has not been sent yet
    failed,     \* failedPatchTaskQueue of the reconciler
    patching,   \* tasks the reconciler has checked and is about to patch
    finished    \* assumed pods with a deadline: FinishReserving was called

vars == <<log, glog, env, queue, cached, assumed, status, cycle, persisting, failed, patching, finished>>
tasks == <<persisting, failed, patching>>

Unit              == env.scenario.unit
MinMember         == env.scenario.minMember
GroupPhases       == env.scenario.phases
Arrivals          == env.scenario.arrivals
GroupsMayGo       == env.scenario.groupsMayGo
PatchesMayFail    == env.scenario.patchesMayFail
DeadlinesPass     == env.scenario.deadlinesPass
DisablePreemption == env.scenario.disablePreemption
MaxLag            == env.scenario.maxLag
MaxChanges        == env.scenario.maxChanges

Changing == env.changes < MaxChanges /\ env' = [env EXCEPT !.changes = @ + 1]

----------------------------------------------------------------------------
(* "dispatched": dispatched to this scheduler; "elsewhere": pending, or given
   to another scheduler; "assumed": assumed by this scheduler, or bound. *)
PodStates   == {"absent", "dispatched", "elsewhere", "assumed", "deleted"}
GroupStates == {"absent", "pending", "scheduled", "timeout"}
SubQueues   == {"waitingQ", "readyQ", "backoffQ", "unschedulableQ"}

(* A QueuedUnitInfo: its pods and whether its backoff timer runs.  A sub-queue
   maps every unit key to a unit, EmptyUnit if it has none under that key. *)
QueuedUnitInfo == [pods : SUBSET Pods, backoff : BOOLEAN]
EmptyUnit == [pods |-> {}, backoff |-> FALSE]

PriorityQueue == [sub     : [SubQueues -> [Units -> QueuedUnitInfo]],
                  waiting : [Units -> SUBSET Pods],   \* waitingPodsList
                  heap    : SUBSET Units,             \* keys of priorityHeap
                  moved   : BOOLEAN]                  \* moveRequestCycle = schedulingCycle

Stages == {"idle", "popped", "placed", "reporting"}

(* The unit under work: the pods placed, and the others; redispatch is
   DispatchToAnotherScheduler. *)
Cycle == [stage : Stages, unit : Units \cup {NoUnit}, pods : SUBSET Pods, placed : SUBSET Pods, redispatch : BOOLEAN]
IdleCycle == [stage |-> "idle", unit |-> NoUnit, pods |-> {}, placed |-> {}, redispatch |-> FALSE]

Seen(p)        == Head(log[p])
Lister(p)      == log[p][Len(log[p])]
GroupLister(g) == glog[g][Len(glog[g])]

(* Every variable has its type, the histories are never empty, a unit holds
   pods of its own only, and the assumed pods, with those of them that have a
   deadline, are entries of the cache (PodStore: "The key could further be used
   to get an entry in PodStates"). *)
TypeOK ==
    /\ log \in [Pods -> Seq(PodStates)] /\ \A p \in Pods : Len(log[p]) >= 1
    /\ glog \in [Groups -> Seq(GroupStates)] /\ \A g \in Groups : Len(glog[g]) >= 1
    /\ env.scenario \in Scenarios /\ env.changes \in 0..MaxChanges
    /\ queue \in PriorityQueue
    /\ cached \in SUBSET Pods
    /\ assumed \in SUBSET Pods
    /\ status \in [Units -> GroupStates]
    /\ cycle \in Cycle
    /\ {persisting, failed, patching, finished} \subseteq SUBSET Pods
    /\ \A s \in SubQueues, u \in Units : \A p \in queue.sub[s][u].pods \cup queue.waiting[u] : Unit[p] = u
    /\ finished \subseteq assumed /\ assumed \subseteq cached

Init ==
    /\ log = [p \in Pods |-> <<"absent">>]
    /\ glog = [g \in Groups |-> <<"absent">>]
    /\ \E sc \in Scenarios : env = [scenario |-> sc, changes |-> 0]
    /\ queue = [sub     |-> [s \in SubQueues |-> [u \in Units |-> EmptyUnit]],
                waiting |-> [u \in Units |-> {}],
                heap    |-> {},
                moved   |-> FALSE]
    /\ cached = {} /\ assumed = {}
    /\ status = [u \in Units |-> "absent"]
    /\ cycle = IdleCycle
    /\ persisting = {} /\ failed = {} /\ patching = {} /\ finished = {}

----------------------------------------------------------------------------
(* Operations of the queue. *)

UnitsIn(q, s)  == {u \in Units : q.sub[s][u].pods # {}}
Queues(q, u)   == {s \in SubQueues : u \in UnitsIn(q, s)}
CanCreate(u)   == u \in Pods \/ GroupLister(u) # "absent"

ReadyToBeScheduled(st, u, pods) ==
    IF u \in Groups THEN Cardinality(pods) >= MinMember[u] \/ st[u] = "scheduled"
                    ELSE pods # {}

SchedulingStatusTimeout(st, u) == u \in Groups /\ st[u] = "timeout"

Put(q, s, u, unit) == [q EXCEPT !.sub[s][u] = unit]
Take(q, s, u)      == Put(q, s, u, EmptyUnit)
ReadyOrWaiting(st, u, pods) == IF ReadyToBeScheduled(st, u, pods) THEN "readyQ" ELSE "waitingQ"

(* The sub-queue the unit is found in, in the order they are searched. *)
FindQueue(q, u) ==
    LET in == Queues(q, u)
    IN  CASE "waitingQ" \in in -> "waitingQ"
          [] "readyQ" \in in   -> "readyQ"
          [] "backoffQ" \in in -> "backoffQ"
          [] OTHER             -> "unschedulableQ"

(* A unit created for pod p takes the pods waiting for it along. *)
CreateUnitInfo(q, p) == [pods |-> {p} \cup q.waiting[Unit[p]], backoff |-> FALSE]

(* The pod waits in waitingPodsList until its PodGroup is known. *)
AddWaitingPod(q, p) == [q EXCEPT !.waiting[Unit[p]] = @ \cup {p}]

(* Mutant: the pods taken along stay in waitingPodsList. *)
PutNewUnitLeavesWaiting(q, p) ==
    LET u == Unit[p]
        unit == CreateUnitInfo(q, p)
    IN  [Put(q, ReadyOrWaiting(status, u, unit.pods), u, unit) EXCEPT !.heap = @ \cup {u}]

PutNewUnit(q, p) ==
    LET u == Unit[p]
        unit == CreateUnitInfo(q, p)
    IN  [Put(q, ReadyOrWaiting(status, u, unit.pods), u, unit) EXCEPT !.waiting[u] = {}, !.heap = @ \cup {u}]

Add(q, p) ==
    LET u == Unit[p]
        s == FindQueue(q, u)
        unit == [q.sub[s][u] EXCEPT !.pods = @ \cup {p}]
        target == IF s = "backoffQ" THEN s ELSE ReadyOrWaiting(status, u, unit.pods)
    IN  IF Queues(q, u) # {}
        THEN [Put(Take(q, s, u), target, u, unit) EXCEPT !.heap = @ \cup {u}]
        ELSE IF CanCreate(u) THEN PutNewUnit(q, p) ELSE AddWaitingPod(q, p)

(* podUpdated: the update changed more than the status of the pod. *)
Update(q, p, podUpdated) ==
    LET u == Unit[p]
        s == FindQueue(q, u)
        unit == [q.sub[s][u] EXCEPT !.pods = @ \cup {p}]
        target == IF s = "unschedulableQ" /\ podUpdated
                  THEN IF unit.backoff THEN "backoffQ" ELSE ReadyOrWaiting(status, u, unit.pods)
                  ELSE s
    IN  IF Queues(q, u) # {}
        THEN [Put(Take(q, s, u), target, u, unit) EXCEPT !.heap = @ \cup {u}]
        ELSE IF CanCreate(u) THEN PutNewUnit(q, p) ELSE AddWaitingPod(q, p)

Delete(q, p) ==
    LET u == Unit[p]
        s == FindQueue(q, u)
        unit == [q.sub[s][u] EXCEPT !.pods = @ \ {p}]
        rest == [Take(q, s, u) EXCEPT !.waiting[u] = @ \ {p}]
        target == IF s # "waitingQ" /\ ~ReadyToBeScheduled(status, u, unit.pods) THEN "waitingQ" ELSE s
    IN  IF Queues(q, u) = {} THEN [q EXCEPT !.waiting[u] = @ \ {p}]
        ELSE IF unit.pods = {} THEN [rest EXCEPT !.heap = @ \ {u}]
        ELSE Put(rest, target, u, unit)

(* Mutant: a unit whose PodGroup has timed out is dropped. *)
AddUnschedulableDropsTimedOut(q, u, pods) ==
    LET s == FindQueue(q, u)
        unit == [pods |-> pods \cup q.sub[s][u].pods, backoff |-> TRUE]
    IN  IF pods = {} \/ SchedulingStatusTimeout(status, u) THEN q
        ELSE [Put(Take(q, s, u), IF q.moved THEN "backoffQ" ELSE "unschedulableQ", u, unit) EXCEPT !.heap = @ \cup {u}]

(* The pods the loop could not place come back, merged with the pods that
   came into the queue for the same unit in the meantime. *)
AddUnschedulableIfNotPresent(q, u, pods) ==
    LET s == FindQueue(q, u)
        unit == [pods |-> pods \cup q.sub[s][u].pods, backoff |-> TRUE]
        target == IF q.moved /\ ~SchedulingStatusTimeout(status, u) THEN "backoffQ" ELSE "unschedulableQ"
    IN  IF pods = {} THEN q
        ELSE [Put(Take(q, s, u), target, u, unit) EXCEPT !.heap = @ \cup {u}]

MoveUnitsToReadyOrBackoffQueue(q, us) ==
    LET unit(u) == q.sub["unschedulableQ"][u]
        Moving(s) == {u \in us : s = IF unit(u).backoff THEN "backoffQ" ELSE "readyQ"}
    IN  [q EXCEPT !.sub = [s \in SubQueues |-> [u \in Units |->
                              IF u \in Moving(s) THEN unit(u)
                              ELSE IF s = "unschedulableQ" /\ u \in us THEN EmptyUnit
                              ELSE q.sub[s][u]]],
                  !.moved = TRUE]

MoveAllToActiveOrBackoffQueue(q, st) ==
    MoveUnitsToReadyOrBackoffQueue(q, {u \in UnitsIn(q, "unschedulableQ") : ~SchedulingStatusTimeout(st, u)})

(* Units of the pods of unschedulableQ with an affinity term that matches a
   pod: any of them, the terms are not modelled. *)
MovableUnits(q) == SUBSET {u \in UnitsIn(q, "unschedulableQ") : ~SchedulingStatusTimeout(status, u)}

(* The waiting pods of the units us become units of their own.  A unit that is
   in the target queue under the same key is replaced. *)
TransferWaitingPods(q, st, us) ==
    LET Target(u) == ReadyOrWaiting(st, u, q.waiting[u])
    IN  [q EXCEPT !.sub = [s \in SubQueues |-> [u \in Units |->
                              IF u \in us /\ s = Target(u)
                              THEN [pods |-> q.waiting[u], backoff |-> FALSE]
                              ELSE q.sub[s][u]]],
                  !.waiting = [u \in Units |-> IF u \in us THEN {} ELSE @[u]]]

(* PodGroup events name the group "namespace/name"; waitingPodsList is keyed by
   "PodGroupUnit/namespace/name". *)
GetUnitIdentifier(g) == <<"PodGroupUnit", g>>
GetPodGroupKey(g)    == <<g>>

ActivePodGroupUnit(q, st, key) ==
    TransferWaitingPods(q, st, {g \in Groups : /\ GetUnitIdentifier(g) = key
                                               /\ q.waiting[g] # {} /\ CanCreate(g)})

----------------------------------------------------------------------------
(* The API server and the informers: a change of an object updates the lister
   and becomes one event for its handler. *)

Notify(p, state) ==
    /\ Len(log[p]) <= MaxLag
    /\ log' = [log EXCEPT ![p] = Append(@, state)]

Change(p, from, to) ==
    /\ Lister(p) \in from
    /\ Changing
    /\ Notify(p, to)
    /\ UNCHANGED <<glog, queue, cached, assumed, status, cycle, tasks, finished>>

(* A pod exists when the scheduler starts, or is created later on. *)
PodArrives(p) ==
    /\ log[p] = <<"absent">>
    /\ \E state \in Arrivals : Notify(p, state)
    /\ UNCHANGED <<glog, env, queue, cached, assumed, status, cycle, tasks, finished>>

(* Others change the pod: its spec or labels; the dispatcher takes it away from
   this scheduler, or gives it back; the binder rejects its placement. *)
PodTouched(p)    == Change(p, {"dispatched"}, "dispatched")
PodTakenAway(p)  == Change(p, {"dispatched"}, "elsewhere")
PodGivenBack(p)  == Change(p, {"elsewhere"}, "dispatched")
PodRejected(p)   == Change(p, {"assumed"}, "dispatched")
PodDeleted(p)    == Change(p, {"dispatched", "elsewhere", "assumed"}, "deleted")

NotifyGroup(g, state) ==
    /\ Len(glog[g]) <= MaxLag
    /\ glog' = [glog EXCEPT ![g] = Append(@, state)]
    /\ UNCHANGED <<log, queue, cached, assumed, status, cycle, tasks, finished>>

GroupCreated(g) ==
    /\ GroupLister(g) = "absent"
    /\ Len(glog[g]) = 1 \/ GroupsMayGo
    /\ NotifyGroup(g, "pending")
    /\ UNCHANGED env

GroupPhaseChanged(g) ==
    /\ GroupLister(g) # "absent"
    /\ \E phase \in GroupPhases \ {GroupLister(g)} : NotifyGroup(g, phase)
    /\ Changing

GroupDeleted(g) ==
    /\ GroupsMayGo
    /\ GroupLister(g) # "absent"
    /\ NotifyGroup(g, "absent")
    /\ Changing

----------------------------------------------------------------------------
(* The pod handler.  First the scheduler cache, then the queue. *)

Handled(p) == log' = [log EXCEPT ![p] = Tail(@)]

(* The queue after an event of an assumed or bound pod: its placement may help
   units with a matching affinity term. *)
AssignedPodAdded(q) == {MoveUnitsToReadyOrBackoffQueue(q, us) : us \in MovableUnits(q)}

AddPod(p) ==
    /\ Len(log[p]) > 1 /\ Seen(p) = "absent"
    /\ Handled(p)
    /\ cached' = IF log[p][2] = "assumed" THEN cached \cup {p} ELSE cached
    /\ queue' \in CASE log[p][2] = "assumed"    -> AssignedPodAdded(queue)
                     [] log[p][2] = "dispatched" -> {Add(queue, p)}
                     [] OTHER                    -> {queue}
    /\ UNCHANGED <<glog, env, assumed, status, cycle, tasks, finished>>

(* Mutant: every update replaces the entry of the cache, assumed or not. *)
UpdatePodInCacheAlways(p, old, new) ==
    /\ cached' = IF new = "assumed" THEN cached \cup {p} ELSE cached \ {p}
    /\ assumed' = assumed \ {p}
    /\ finished' = finished \ {p}

(* An update of a pod this scheduler has assumed in its cache is ignored as
   long as neither version is assumed or bound. *)
UpdatePodInCache(p, old, new) ==
    IF "assumed" \notin {old, new} /\ p \in assumed
    THEN UNCHANGED <<cached, assumed, finished>>
    ELSE /\ cached' = IF new = "assumed" THEN cached \cup {p} ELSE cached \ {p}
         /\ assumed' = assumed \ {p}
         /\ finished' = finished \ {p}

QueuesAfterCacheUpdate(old, new) ==
    CASE new = "assumed"                    -> AssignedPodAdded(queue)
      [] old = "assumed" /\ new # "assumed" -> {MoveAllToActiveOrBackoffQueue(queue, status)}
      [] OTHER                              -> {queue}

(* podutil.FilteringUpdate with dispatchedPodOfThisScheduler; skipPodUpdate
   looks at the cache after the update. *)
FilteringUpdate(q, p, old, new) ==
    CASE old = "dispatched" /\ new = "dispatched" ->
             IF p \in assumed' THEN {q} ELSE {Update(q, p, b) : b \in BOOLEAN}
      [] old # "dispatched" /\ new = "dispatched" -> {Add(q, p)}
      [] old = "dispatched" /\ new # "dispatched" -> {Delete(q, p)}
      [] OTHER                                    -> {q}

UpdatePod(p) ==
    /\ Len(log[p]) > 1 /\ Seen(p) # "absent" /\ log[p][2] # "deleted"
    /\ UpdatePodInCache(p, Seen(p), log[p][2])
    /\ \E q \in QueuesAfterCacheUpdate(Seen(p), log[p][2]) :
           queue' \in FilteringUpdate(q, p, Seen(p), log[p][2])
    /\ Handled(p)
    /\ UNCHANGED <<glog, env, status, cycle, tasks>>

(* The cache goes by the pod the event carries: one that was not assumed yet
   leaves the cache alone. *)
DeletePod(p) ==
    /\ Len(log[p]) > 1 /\ log[p][2] = "deleted"
    /\ IF Seen(p) = "assumed"
       THEN /\ cached' = cached \ {p}
            /\ assumed' = assumed \ {p}
            /\ finished' = finished \ {p}
       ELSE UNCHANGED <<cached, assumed, finished>>
    /\ LET q == MoveAllToActiveOrBackoffQueue(queue, status)
       IN  queue' = IF Seen(p) = "dispatched" THEN Delete(q, p) ELSE q
    /\ Handled(p)
    /\ UNCHANGED <<glog, env, status, cycle, tasks>>

----------------------------------------------------------------------------
(* The PodGroup handler and the node handlers.  The status of the unit in the
   cache is up to date before the queue is asked to move units. *)

HandledGroup(g) ==
    /\ glog' = [glog EXCEPT ![g] = Tail(@)]
    /\ status' = [status EXCEPT ![g] = glog[g][2]]

AddOrUpdatePodGroup(g) ==
    /\ Len(glog[g]) > 1 /\ glog[g][2] # "absent"
    /\ HandledGroup(g)
    /\ queue' = ActivePodGroupUnit(MoveAllToActiveOrBackoffQueue(queue, status'), status', GetPodGroupKey(g))
    /\ UNCHANGED <<log, env, cached, assumed, cycle, tasks, finished>>

DeletePodGroup(g) ==
    /\ Len(glog[g]) > 1 /\ glog[g][2] = "absent"
    /\ HandledGroup(g)
    /\ UNCHANGED <<log, env, queue, cached, assumed, cycle, tasks, finished>>

(* A node, NMNode or CNR update that may make pods schedulable. *)
UpdateNode ==
    /\ queue' = IF UnitsIn(queue, "unschedulableQ") = {} THEN queue
                ELSE MoveAllToActiveOrBackoffQueue(queue, status)
    /\ UNCHANGED <<log, glog, env, cached, assumed, status, cycle, tasks, finished>>

(* A new node or NMNode. *)
AddNode ==
    /\ queue' = MoveAllToActiveOrBackoffQueue(queue, status)
    /\ UNCHANGED <<log, glog, env, cached, assumed, status, cycle, tasks, finished>>

----------------------------------------------------------------------------
(* The scheduling loop. *)

Pop(u) ==
    /\ cycle.stage = "idle"
    /\ u \in UnitsIn(queue, "readyQ")
    /\ cycle' = [IdleCycle EXCEPT !.stage = "popped", !.unit = u, !.pods = queue.sub["readyQ"][u].pods]
    /\ queue' = [Take(queue, "readyQ", u) EXCEPT !.heap = @ \ {u}, !.moved = FALSE]
    /\ UNCHANGED <<log, glog, env, cached, assumed, status, tasks, finished>>

GetMinMember(u)  == IF u \in Groups THEN MinMember[u] ELSE 1
EverScheduled(u) == u \in Groups /\ status[u] = "scheduled"

(* constructSchedulingUnitInfo refuses a unit with too few pods. *)
TooFewPods(u, pods) == ~EverScheduled(u) /\ GetMinMember(u) > Cardinality(pods)

(* The Coscheduling plugin, which goes by the PodGroups in the cache. *)
PreFilter(u) == u \in Groups => status[u] \notin {"absent", "timeout"}

(* The pods a node was found for.  Cached pods are skipped, and fewer than
   MinMember pods are no success unless the unit was scheduled before. *)
Placements(u, pods) ==
    {{}} \cup {S \in SUBSET (pods \ cached) : /\ S # {} /\ PreFilter(u)
                                              /\ EverScheduled(u) \/ Cardinality(S) >= GetMinMember(u)}

ScheduleUnit ==
    /\ cycle.stage = "popped"
    /\ \E S \in Placements(cycle.unit, cycle.pods) :
           /\ cached' = cached \cup S
           /\ assumed' = assumed \cup S
           /\ cycle' = [cycle EXCEPT !.stage = "placed", !.placed = S, !.pods = @ \ S,
                                     !.redispatch = DisablePreemption /\ ~TooFewPods(cycle.unit, cycle.pods)]
    /\ UNCHANGED <<log, glog, env, queue, status, tasks, finished>>

(* Pods the lister has lost, and skipPodSchedule of the unit scheduler. *)
NotReEnqueued(p) == Lister(p) \in {"deleted", "assumed"} \/ p \in cached

HandleSchedulingUnitFailure ==
    /\ cycle.stage = "placed"
    /\ queue' = IF cycle.redispatch THEN queue
                ELSE AddUnschedulableIfNotPresent(queue, cycle.unit, {p \in cycle.pods : ~NotReEnqueued(p)})
    /\ cycle' = [cycle EXCEPT !.stage = "reporting"]
    /\ UNCHANGED <<log, glog, env, cached, assumed, status, tasks, finished>>

(* Every pod that was not placed gets a condition, also one that was not
   re-enqueued; it may also go back to the dispatcher.  The patch says nothing
   of the version of the pod it was made for, and it may fail for good or
   change nothing. *)
UpdateFailedSchedulingPod(p) ==
    /\ cycle.stage = "reporting"
    /\ p \in cycle.pods
    /\ \/ /\ Lister(p) # "deleted"
          /\ Notify(p, IF cycle.redispatch THEN "elsewhere" ELSE Lister(p))
       \/ /\ Lister(p) \in {"deleted", "elsewhere"} \/ PatchesMayFail \/ ~cycle.redispatch
          /\ UNCHANGED log
    /\ cycle' = [cycle EXCEPT !.pods = @ \ {p}]
    /\ UNCHANGED <<glog, env, queue, cached, assumed, status, tasks, finished>>

(* The placements are persisted by a goroutine of their own. *)
EndCycle ==
    /\ cycle.stage = "reporting" /\ cycle.pods = {}
    /\ cycle' = IdleCycle
    /\ persisting' = persisting \cup cycle.placed
    /\ UNCHANGED <<log, glog, env, queue, cached, assumed, status, failed, patching, finished>>

----------------------------------------------------------------------------
(* Persisting the placements: persistViaPatchPod, then the reconciler for the
   patches that failed, and the expiry of what was assumed. *)

ForgetPods(ps) ==
    /\ cached' = cached \ (assumed \cap ps)
    /\ assumed' = assumed \ ps
    /\ finished' = finished \ ps

PersistPod(p) ==
    /\ p \in persisting
    /\ persisting' = persisting \ {p}
    /\ Lister(p) # "deleted"
    /\ Notify(p, "assumed")
    /\ finished' = finished \cup (assumed \cap {p})
    /\ UNCHANGED <<glog, env, queue, cached, assumed, status, cycle, failed, patching>>

(* Mutant: a pod found deleted is not forgotten. *)
PersistDeletedPodKept(p) ==
    /\ p \in persisting
    /\ persisting' = persisting \ {p}
    /\ Lister(p) = "deleted"
    /\ UNCHANGED <<log, glog, env, queue, cached, assumed, status, cycle, failed, patching, finished>>

PersistDeletedPod(p) ==
    /\ p \in persisting
    /\ persisting' = persisting \ {p}
    /\ Lister(p) = "deleted"
    /\ ForgetPods({p})
    /\ UNCHANGED <<log, glog, env, queue, status, cycle, failed, patching>>

(* The call fails; the patch may have been applied all the same. *)
PersistPodFails(p) ==
    /\ PatchesMayFail
    /\ p \in persisting
    /\ persisting' = persisting \ {p}
    /\ failed' = failed \cup {p}
    /\ \/ UNCHANGED log
       \/ Lister(p) # "deleted" /\ Notify(p, "assumed")
    /\ UNCHANGED <<glog, env, queue, cached, assumed, status, cycle, patching, finished>>

(* failedPatchTaskWorker: a look at the lister, then the patch.  A pod that is
   dispatched to another scheduler passes checkPodState, a pending one does not;
   both are "elsewhere". *)
CheckPodState(p) ==
    /\ p \in failed /\ patching = {}
    /\ failed' = failed \ {p}
    /\ \/ /\ Lister(p) \in {"dispatched", "elsewhere"}
          /\ patching' = {p}
          /\ UNCHANGED <<cached, assumed, finished>>
       \/ /\ Lister(p) # "dispatched"
          /\ ForgetPods({p})
          /\ UNCHANGED patching
    /\ UNCHANGED <<log, glog, env, queue, status, cycle, persisting>>

PatchAgain(p) ==
    /\ p \in patching
    /\ patching' = {}
    /\ IF Lister(p) = "deleted" THEN UNCHANGED log ELSE Notify(p, "assumed")
    /\ UNCHANGED <<glog, env, queue, cached, assumed, status, cycle, persisting, failed, finished>>

(* AddFailedTask for the next attempt. *)
PatchAgainFails(p) ==
    /\ PatchesMayFail
    /\ p \in patching
    /\ patching' = {}
    /\ failed' = failed \cup {p}
    /\ UNCHANGED <<log, glog, env, queue, cached, assumed, status, cycle, persisting, finished>>

(* Assumed pods whose deadline has passed. *)
CleanupExpiredAssumedPods ==
    /\ DeadlinesPass
    /\ \E expired \in SUBSET finished \ {{}} : ForgetPods(expired)
    /\ UNCHANGED <<log, glog, env, queue, status, cycle, tasks>>

----------------------------------------------------------------------------
(* The flushers of the queue. *)

Flush(q) ==
    /\ queue # q
    /\ queue' = q
    /\ UNCHANGED <<log, glog, env, cached, assumed, status, cycle, tasks, finished>>

(* Time passes: a backoff timer ends. *)
BackoffEnds(u) == \E s \in SubQueues : queue.sub[s][u].backoff /\ Flush([queue EXCEPT !.sub[s][u].backoff = FALSE])

(* Units us leave a sub-queue for another, where they replace a unit of the same key. *)
MoveUnits(q, us, from, to) ==
    [q EXCEPT !.sub[to]   = [u \in Units |-> IF u \in us THEN q.sub[from][u] ELSE @[u]],
              !.sub[from] = [u \in Units |-> IF u \in us THEN EmptyUnit ELSE @[u]]]

FlushBackoffQCompleted ==
    Flush(MoveUnits(queue, {u \in UnitsIn(queue, "backoffQ") : ~queue.sub["backoffQ"][u].backoff}, "backoffQ", "readyQ"))

FlushScheduledUnitsInWaitingQ ==
    Flush(MoveUnits(queue, {u \in UnitsIn(queue, "waitingQ") :
                              ReadyToBeScheduled(status, u, queue.sub["waitingQ"][u].pods)}, "waitingQ", "readyQ"))

(* The units us have been unschedulable for long. *)
FlushUnschedulableQLeftover(us) ==
    /\ us \in MovableUnits(queue)
    /\ Flush(MoveUnitsToReadyOrBackoffQueue(queue, us))

(* Mutant: only the pods of PodGroups that were scheduled before are flushed. *)
FlushWaitingPodsListOfScheduled ==
    Flush(TransferWaitingPods(queue, status, {u \in Units : queue.waiting[u] # {} /\ CanCreate(u) /\ status[u] = "scheduled"}))

FlushWaitingPodsList ==
    Flush(TransferWaitingPods(queue, status, {u \in Units : queue.waiting[u] # {} /\ CanCreate(u)}))

----------------------------------------------------------------------------
InformerStep ==
    \/ \E p \in Pods : \/ PodArrives(p) \/ PodTouched(p) \/ PodTakenAway(p)
                       \/ PodGivenBack(p) \/ PodRejected(p) \/ PodDeleted(p)
    \/ \E g \in Groups : GroupCreated(g) \/ GroupPhaseChanged(g) \/ GroupDeleted(g)

HandlerStep ==
    \/ \E p \in Pods : AddPod(p) \/ UpdatePod(p) \/ DeletePod(p)
    \/ \E g \in Groups : AddOrUpdatePodGroup(g) \/ DeletePodGroup(g)
    \/ UpdateNode \/ AddNode

LoopStep ==
    \/ \E u \in Units : Pop(u)
    \/ ScheduleUnit \/ HandleSchedulingUnitFailure \/ EndCycle
    \/ \E p \in Pods : UpdateFailedSchedulingPod(p)

PersistStep ==
    \/ \E p \in Pods : \/ PersistPod(p) \/ PersistDeletedPod(p) \/ PersistPodFails(p)
                       \/ CheckPodState(p) \/ PatchAgain(p) \/ PatchAgainFails(p)
    \/ CleanupExpiredAssumedPods

FlusherStep ==
    \/ \E u \in Units : BackoffEnds(u)
    \/ FlushBackoffQCompleted \/ FlushScheduledUnitsInWaitingQ \/ FlushWaitingPodsList
    \/ \E us \in SUBSET Units : FlushUnschedulableQLeftover(us)

Next == InformerStep \/ HandlerStep \/ LoopStep \/ PersistStep \/ FlusherStep

Spec == Init /\ [][Next]_vars

----------------------------------------------------------------------------
(* Properties. *)

Quiet(p) == Len(log[p]) = 1

Queued(p) == \/ \E s \in SubQueues, u \in Units : p \in queue.sub[s][u].pods
             \/ \E u \in Units : p \in queue.waiting[u]

(* A pod that is dispatched to this scheduler, all of whose events have been
   handled, is never forgotten: it is in a sub-queue or the waitingPodsList, in
   the hands of the scheduling loop, or in the cache. *)
NoPodLost ==
    \A p \in Pods : Quiet(p) /\ Seen(p) = "dispatched" => Queued(p) \/ p \in cycle.pods \cup cached

(* A unit key is in at most one of the sub-queues and the waitingPodsList:
   "It assumes the pod is only in one queue" (Delete). *)
OneQueue ==
    \A u \in Units : /\ Cardinality(Queues(queue, u)) <= 1
                     /\ queue.waiting[u] # {} => Queues(queue, u) = {}

(* The priorityHeap, whose minimum and maximum scale the scores of the units,
   names no unit that has left the queue. *)
HeapNamesQueuedUnits == \A u \in queue.heap : Queues(queue, u) # {}

(* Somebody will release every assumed pod: the loop, the persisting goroutine
   or the reconciler works on it, an event of it is due, or it has a deadline. *)
AssumedPodsAreReleased ==
    \A p \in assumed : p \in cycle.placed \cup persisting \cup failed \cup patching \cup finished \/ ~Quiet(p)

----------------------------------------------------------------------------
(* Every goroutine goes on: the handlers work off their events, the loop and
   the persisting goroutine run on, the flushers run periodically, and a unit
   is flushed from unschedulableQ after unschedulableQTimeInterval. *)
Fairness ==
    /\ \A p \in Pods : /\ WF_vars(AddPod(p) \/ UpdatePod(p) \/ DeletePod(p))
                       /\ WF_vars(PersistPod(p) \/ PersistDeletedPod(p))
                       /\ WF_vars(UpdateFailedSchedulingPod(p))
    /\ \A g \in Groups : WF_vars(AddOrUpdatePodGroup(g) \/ DeletePodGroup(g))
    /\ WF_vars(\E u \in Units : Pop(u))
    /\ WF_vars(ScheduleUnit) /\ WF_vars(HandleSchedulingUnitFailure) /\ WF_vars(EndCycle)
    /\ WF_vars(FlushBackoffQCompleted) /\ WF_vars(FlushScheduledUnitsInWaitingQ) /\ WF_vars(FlushWaitingPodsList)
    /\ \A u \in Units : /\ WF_vars(BackoffEnds(u))
                        /\ WF_vars(\E us \in SUBSET Units : u \in us /\ FlushUnschedulableQLeftover(us))

LiveSpec == Spec /\ Fairness

(* Pods that stay dispatched to this scheduler, together with the other pods of
   their unit and its PodGroup, are tried again and again, whatever the order
   in which pods and PodGroup arrive and however often they fail. *)
UnitsAreRetried ==
    \A u \in Units, p \in Pods :
        <>[](/\ Unit[p] = u
             /\ \A q \in Pods : Unit[q] = u => Lister(q) = "dispatched"
             /\ u \in Groups => GroupLister(u) # "absent")
        => []<>(p \in cycle.pods)
============================================================================
