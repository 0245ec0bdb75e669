# A TLA+ verification of the Gödel scheduler

The Gödel scheduler places pods of a Kubernetes cluster with three kinds of
processes that talk to each other through annotations of the pods at the API
server: one *dispatcher* gives every pending pod to a scheduler, several
*schedulers* choose a node for the pods given to them, and one *binder* resolves
the conflicts between their choices and binds the pods. Every process keeps a
cache that informers fill and that its own decisions run ahead of. Most of what
is hard to test is there: an event is handled late, a decision made on a
snapshot is applied to a pod that has changed, a call fails half way.

`PROJECT.json` has the components, the runs, the mutants that show that every
property can fail, the map from definitions to source lines, the findings, the
hazards with the properties that cover them, and the theorems.

    tlc -config MCDispatch.cfg MCDispatch        one run
    tlapm DispatcherProofs.tla                   the proofs of one module

## 1. The system and its modules

Paths are relative to `src/pkg`.

| part | source | module | proofs |
|---|---|---|---|
| Pod states in annotations | `util/pod/podstate.go` | `PodState` | |
| Dispatcher: queues, loops, dispatching goroutines, reconciler, scheduler registry | `dispatcher` | `Dispatcher`, which implements `PodOwnership` | `DispatcherSteps`, `DispatcherProofs` |
| Scheduler maintainer, node shuffler | `dispatcher/scheduler-maintainer`, `dispatcher/node-shuffler` | `NodePartition` | `NodePartitionProofs` |
| Scheduling queue, pod handlers, scheduler reconciler | `scheduler/queue`, `scheduler/podeventshandler.go`, `scheduler/reconciler` | `SchedulingQueue` | |
| Cycle of a unit | `scheduler/core/unit_scheduler`, `scheduler/framework/unit_runtime` | `UnitScheduler` | |
| Search for victims | `scheduler/core/pod_scheduler/preemption.go` and its plugins | `Preemption` | |
| Node store and its incremental snapshot | `scheduler/cache` | `NodeSnapshot` | |
| Preemption store and its snapshot | `scheduler/cache/commonstores/preemption_store`, `util/generationstore` | `VictimStore` over `GenerationStore` | |
| Pods of a node by priority | `util/splay` | `Splay` | |
| NUMA accounts of a node | `framework/api/nodeinfo.go`, `plugins/nonnativeresource` | `NumaTopology` | |
| Reserved room of a deleted pod | `controller/reservation`, the reservation stores of both caches | `Reservation`, `ReservationSnapshot` | |
| Binder cache, handlers, pipeline for one task | `binder/cache`, `binder/eventhandlers.go`, `binder/godel_binder.go` | `BinderCache` | `BinderCacheProofs`, `BinderCacheFollows` |
| Binding of gangs | `binder/godel_binder.go`, `binder/binder_unit.go`, `binder/queue`, `binder/controller` | `GangBinder`, composed of `BinderQueue`, `BindingUnit` and `PodGroupController` | |
| Binder inside the scheduler | `binder/embedded_binder.go` | `EmbeddedBinder` | `EmbeddedBinderProofs` |
| Volumes of a pod | `volume/scheduling` | `VolumeBinding` | |

The dispatcher hands a pod over by patching it to *dispatched* with the name of
a scheduler; that scheduler patches it to *assumed* with a node, or back to
pending; the binder binds it, or patches it back to dispatched. No patch names
the version of the pod it was made for.

The hazards are of five families: *late handlers* (the lister and the other
handlers of one informer are ahead of the handler that fills a cache; a relist
merges a deletion and a creation); *two goroutines on one pod*; *half-done work*
(a patch or a bind fails, or succeeds and reports an error; one task of a unit
fails; a process restarts); *clean-up that only a timer does*; and *copies that
are refreshed incrementally*.

## 2. How the modules follow the code

Every module has one action per handler, loop body, goroutine step or worker.
An informer is a sequence of versions per object: its head is what the handler
has processed, its last element what the API server has. The verdict of a filter
or score is an arbitrary choice. Each module's head comment says what it leaves
out; here is what a reader needs to know first.

**Dispatcher.** `api` is the API server, `watch` the versions under way,
`lister` what the informer has cached. client-go runs every registered handler
in a goroutine of its own, so a handler named in `Lagging` has an inbox; the
others run with the lister. `fifo`, `units`, `ready` and `sorted` are the
queues, `hand` is the pod a loop has popped and not yet put down, `task` the
`dispatchingPod` goroutines with one step per lock section (`GetPod`,
`AdoptScheduler`, `SelectScheduler`, `AssignScheduler`,
`SendPodToScheduler`). `CollectDispatchedPods`, `StaleDispatchedPodsSyncer` and
`AbnormalStatePodsSyncer` are the reconciler. `Restart` empties the memory and
replays the API server's objects through all handlers. What a behaviour may meet
(group sizes, lagging handlers, kinds and number of faults) is a *scenario*
chosen in `Init`. `excused` is a history variable: the pods that somebody edited
while they waited or created again under their old name, or whose dispatch went
through without the dispatcher learning of it.

**NodePartition.** A machine has an object of each kind in `Kinds`; the worker
of the shuffler reads both listers, chooses a scheduler and updates the objects
one after the other, each with the version it read.

**SchedulingQueue.** The queue is one record and its operations are functions
from queue to queue, because a handler applies several of them under one event.
A unit key maps to at most one unit per sub-queue; adding a unit under a key
that is present replaces it, as the heaps do. Around it: the pod, PodGroup and
node handlers, one cycle of the loop, the persisting goroutine, the reconciler,
the worker that expires assumed pods and the four flushers.

**UnitScheduler.** The cycle `SchedulingQueue` takes as one step: node groups
one after the other, reservations in the snapshot, the choice of the best group,
the loop that assumes pods in the cache and reverts, re-enqueuing, and the
goroutine that persists while the next cycle runs.

**Preemption, Splay, NumaTopology** are algorithms on data: TLC enumerates
clusters, trees and reports, and the properties compare the result with a
definition that does not search.

**NodeSnapshot, VictimStore, ReservationSnapshot.** A list store numbers every
change; the snapshot's raw store remembers the number it has seen and the keys
it touched itself. `steady` in the latter two marks nodes whose cached detail is
the one the snapshot copied; a detail that was dropped and created anew starts
counting again, which the refresh does not notice.

**BinderCache.** `log[m]` is the history of the pod name `m` that the cache
handler has yet to see; the pipeline reads the present. The stages of
`CheckAndBindUnit` and the binding goroutine are actions of their own. `fault`
names the run-time check (`klog.FlushAndExit`) that ended the process. Units
have one task here, a pod's resources are its membership in the node entry.

**GangBinder.** Units of several tasks through the binder's queue, the main loop
and concurrent goroutines; the lists of `BindingUnit`; the lock in the
PodGroup's annotation that the pipeline and the controller compete for. Of the
cache only membership, markers and unit status are kept.

**EmbeddedBinder.** One `BindUnit` call per unit: validation of the nodes,
attempts per pod, time-outs, answers that get lost, the scheduler's reconciler
and cache handler, restarts of the binder, reshuffled nodes.

**Reservation.** One pod whose room is kept, the placeholder counted in both
caches, the Reservation object and the pods that compete for the room.
**VolumeBinding.** Matching, the assume caches, the writes one by one, the
volume controller and the wait for it.

## 3. What the runs show

`about` in `PROJECT.json` has one sentence per run. Several runs check
components side by side that share no state in these models: the initial state
chooses the part under test, the others rest, and every property speaks of its
part. The component a run's module EXTENDS is the one whose properties are also
proved; the others are instances with variables of their own.

| run | components | shown |
|---|---|---|
| `dispatch` | Dispatcher | no pending pod falls out of the queues (`NoPodLost`); the pods of a group go to one scheduler while none falls silent (`UnitStaysTogether`); the dispatcher implements `PodOwnership` (`OwnershipSpec`) |
| `pods_move_on` | SchedulingQueue, Dispatcher | units are retried for ever; pods of a scheduler that is gone are taken back; a dispatchable pod is dispatched |
| `nodes_and_gangs` | NodePartition, GangBinder | partitions follow annotations; no machine stays with a scheduler that is gone; a complete gang is bound or given back |
| `scheduler` | EmbeddedBinder, NodeSnapshot, UnitScheduler, Preemption, VolumeBinding, Reservation | places are accounted; the snapshot differs only where the next refresh looks; no pod is dropped between queue, cycle and cache, a gang is persisted together; evictions respect budgets and are needed and cheapest; a placed pod reaches its volumes and no write undoes another; a placeholder's room is counted and used once |
| `stores` | BinderCache, VictimStore, Splay, NumaTopology, ReservationSnapshot | the stores are exact under every order of operations, and copies follow them |
| `queue_scenarios` | SchedulingQueue | no pod is lost while its PodGroup stays, a unit is in one sub-queue, assumed pods are released, a placement is made once |
| `gang_binding` | GangBinder | no pod and no reservation is lost, a gang that timed out is not bound, a gang is bound together |
| `preemption` | BinderCache | marked victims are cached; assumptions and markers expire |
| `relist` | BinderCache | the stores agree with each other and with the informer once the handler has caught up, assumptions end only for a cause, and the inductive invariant `FollowInv` holds, through relists that merge two incarnations |

**Violations**, each with a finding that quotes the comment the code does not
live up to.

| run | what happens |
|---|---|
| `merged` | a merged update leaves a marker without its pod, and `CleanupPodDeletionMarker` ends the process |
| `queue_overwritten` | two units of one key overwrite each other after a PodGroup was deleted and created again |
| `timed_out_unit` | a unit that was re-enqueued and then times out stays assumed in the binder's cache without a deadline |

**Bounds.** Two pods of one group are the least that race for an assignment and
that a unit can be split over; two schedulers the least between which a pod can
be given twice; two goroutines (`Slots`) the least that race. Two incarnations
of a name are the least that a relist can merge. Lag 1 makes an event overtake
another handler; lag 2 lets a binding and a deletion be pending at once.
`MaxFaults`, `MaxTrouble`, `MaxChanges` bound what others do, not what the
program does: one fault of every kind in every position for the dispatcher, two
for the binders. `gang_binding` has three members of which two are needed; the
second only comes while nothing goes wrong (`TroubleWithTwo`). Where an
invariant is proved (section 4), the bounds of its run do not matter.

**Conditions.** `PodsPlacedOnce` holds where deadlines do not pass: a handler
that is late by more than the TTL of assumed pods lets a pod be placed twice.
`NoPodLostWhileGroupsStay` needs PodGroups to stay because of
`queue_overwritten`. `NoPodLost` of the dispatcher excepts *overtaken* pods: a
group member that was deleted and created again while the handler of `unitInfos`
is behind is taken out of `unSortedPods` by `DeletePod` for its predecessor
(`unit.go:272`). `PartitionFollowsAnnotation` is about machines with one object:
with two, `updateNodeSchedulerNameAnnotation` writes the Node first and returns
if the NMNode fails (`node_shuffler.go:253`), and `SyncUpNodeAndCNR`, which would
repair it, is empty. `CompleteGangIsSettled` is checked with one fault; with two
it fails, as the deviations below explain.

**Deadlock** is checked for the queue only: there a node may always be added.
All other models stop when their bounded changes are used up and the work is
done, as the program does.

**Fairness.** Weak fairness of handlers, loops, goroutines, workers and timers:
`wait.Until` and the informers run them for ever, and a call returns. Strong
fairness where steps on several objects compete for one loop and the queue is
first-in first-out (`UnitLoopPop`, `PendingLoopPop`, `SortedLoop`, `WorkerGet`).
Nothing is assumed of users, faults, arrivals or the success of a placement. The
binder cache's `FairSpec` has only the deadlines and the two workers.

### Deviations for which no run is kept

Behaviours of the models, and of the code, that a comment leads one not to
expect.

*Queue and scheduler.*
* `addPodGroupToCache` wakes waiting pods under `namespace/name` while
  `waitingPodsList` is keyed by `PodGroupUnit/namespace/name`
  (`scheduler/eventhandlers.go:474`, `priority_queue.go:385`): they wait for the
  20-second flusher.
* With preemption disabled a failing patch leaves a pod in no queue
  (`unit_scheduler.go:661`, comment at 520), and a pod updated during its own
  cycle is sent back although its placement is persisted.
* A pod deleted between the two steps of the reconciler stays assumed.
* A node update while a unit is processed is missed when `unschedulableQ` is
  empty (`scheduler/eventhandlers.go:232`).
* When the cache refuses a pod, the loop that reverts forgets the refused pod
  each time instead of the pods assumed before it (`unit_scheduler.go:759`);
  `UnitScheduler` is run with `Refusals = {0}`, where the loop is empty.
* A unit that misses MinMember loses its list of successful pods, so
  `unReservePods` leaves their reservations in the snapshot until the refresh.
* A deleted node whose pods remain stays in the snapshot's lists
  (`node_store.go:423`).
* A refresh does not drop victims of a preemptor whose node detail was created
  anew (`liststore.go:229`).
* `RemoveCNR` drops the NUMA allocations of running pods; used ports are a set
  without counts, so the first of two pods that leaves frees the port.

*Binder.*
* `MarkPodToDelete` ends a healthy process when a victim's name is used again:
  the victim is looked up by name (`godel_binder.go:1056`).
* The markers removed with a preemptor (`eventhandlers.go:367`) are those of the
  nominated UIDs, not of the marked ones.
* `BinderQueue.Delete` leaves a parked pod while its unit is in a heap
  (`binder_queue.go:421`).
* A gang may end as Scheduled with fewer than MinMember pods bound, when binds
  fail after the PodGroup was locked (`docs/features/gang-scheduling.md:5`).
* The embedded binder patches failed pods to assumed although no other binder
  runs; its own reconciler never gets a task; it validates the ownership of
  nodes once per unit.

*Reservations and volumes.*
* The room of a placeholder nobody claims is not given back by
  `CleanupExpiredAssumedPodReservation` (`reservation_store.go:488`), against
  `docs/features/resource-reservation.md:38`.
* `checkBindings` does not look at which volume a claim was bound to; two tasks
  of a unit can match one volume; a write whose answer is lost sets a second
  volume aside.

## 4. What is proved

The theorems hold for every set of pods, names, nodes, groups and schedulers,
every lag, every number of goroutines, attempts and faults. They rest on the
named assumptions of the modules and on nothing else: that the value for
"nothing" is not one of the real ones, that the scenarios are scenarios, and in
`BinderCache` that a UID has one name. TLC evaluates the assumptions in the runs.

| theorem | module | statement |
|---|---|---|
| `DispatchInvariant` | `DispatcherProofs` | `Spec => []DispatchInv` |
| `PendingPodsAreKept` | | `Spec => []NoPodLost` |
| `DispatcherImplementsOwnership` | | `Spec => OwnershipSpec` |
| `PartitionInvariant` | `NodePartitionProofs` | `Spec => []PartitionInv` |
| `PartitionsAlwaysNamed` | | `Spec => []PartitionsAreNamed`, with one object per machine or two |
| `PartitionAlwaysFollows` | | `Spec => []PartitionFollowsAnnotation`, with one |
| `PlacesAlwaysAccounted` | `EmbeddedBinderProofs` | `Spec => []PlacesAreAccounted` |
| `TypeCorrectness` | `BinderCacheProofs` | `Spec => []TypeOK` |
| `CacheInvariant`, `StoresAlwaysAgree`, `AssumedPodsAlwaysConsistent` | | `Spec => []CacheInv`, `[]StoresAgree`, `[]AssumedPodsConsistent` |
| `NodeEntriesAlwaysExact` | `BinderCacheFollows` | `Spec => []NodeEntriesAreExact` |
| `MarkedPodsAlwaysCached` | | `Spec /\ ~Relist => []MarkedPodsAreCached` |
| `FollowInvariant`, `CacheAlwaysFollowsInformer` | | `Spec => []FollowInv`, `[]CacheFollowsInformer` |
| `AssumptionsEndForACause` | | `Spec => AssumptionEndsForACause`, an action property |

**Dispatcher.** `NoPodLost` and the refinement need the same invariant. A pod is
given away twice only if two goroutines have it, so the refinement needs that a
pod is in *one place* (`OnePlace`): in one queue, one hand, one task, or in one
event under way that makes it pending. The event must be counted, because its
handler will queue the pod, and at most one such event may be under way
(`OneEvent`). This fails for pods that were edited while they waited, created
again under their old name or dispatched unnoticed; `excused` names exactly
those. `OnePlace` needs that a pod leaves its place when it is given away, or the
pod would be in a place while dispatched; so a place implies that the pod waits
or was deleted. A deleted pod may be in a place until its deletion is handled;
that nothing under way revives it is `DeletedForGood`. `NoPodLost` is about a
moment when all events are handled; its inductive form `Kept` says of any moment
that a pod which the handler of pending pods has seen waiting, and which no event
under way takes out of waiting, is tracked. What the handler has seen is `View`:
the lister's version, or the older version from which its next event starts,
which needs that inboxes are chains (`InOrder`). The proof has one lemma per
step (`...Kept`), which reduce to four kinds of step: a move between places
(`MoveKept`), a write (`WriteKept`), a delivery (`DeliverKept`) and the run of a
late handler (`NotifyKept`). The refinement maps a pod to the owner its
annotations name (`OwnerOf`) and the schedulers to the active ones; every step is
a step of `PodOwnership` or a stutter (`StepOwnership`).

**NodePartition.** That a machine is where its annotation says needs the reverse
too, that a machine is in no partition that none of its objects names
(`PartitionsAreNamed`): otherwise `Repartition`, which removes it from the old
object's partition, would leave it in a third. Both need that the last version
under way is the API server's, and that `SyncUpSchedulersStatus` forgets only
schedulers without machines.

**EmbeddedBinder.** That an assumed pod is settled by somebody depends on how far
its `BindUnit` call is: a call has answered for exactly the pods it passed
(`CallOK`), and the pods it failed go to the reconciler in the step that returns.
That bound pods are counted rests on `NeverDispatchedAgain`: the event that a pod
is bound cannot be followed by one that lets the cache forget it.

**BinderCache.** `StoresAgree` is not inductive: `PodStore.AddPod` keeps the
entry of a cached pod while `NodeStore.AddPod` adds it to the node of the event.
What excludes that is in the histories: a pod the handler has yet to see as
created-and-bound was never handed to the pipeline, so it is not cached
(`FreshInv`); to keep that, the objects of one UID are consecutive and belong to
its name (`HistoryInv`), and tasks in flight have a node (`TaskInv`).
`CacheFollowsInformer` needs in addition what the cache has while the handler is
behind: a pod is cached and not assumed exactly if the last event the handler
saw of its name showed it bound (`HandledInv`), that bound pods stay bound
(`OrderInv`), and that only assumed pods have a deadline. The node entries are
exact by an argument about one entry (`EntriesExact`), independent of the pods.
Without relists a marked victim is cached and not assumed (`MarkedNotAssumed`),
because expiry and forgetting touch assumed pods only and `MarkPodToDelete`
refuses them; the run `merged` shows that `~Relist` cannot be dropped.

The inductive invariants were model-checked before they were proved; `FollowInv`
is still an invariant of a run.

**Only model-checked.** Liveness and everything under fairness, which the prover
does not do. `UnitStaysTogether`: its invariant would have to follow the
assignment of a group through the goroutines, the memory of `unitInfos` and a
restart at once. `SchedulingQueue`, `GangBinder`, `UnitScheduler`,
`Reservation` and `VolumeBinding`: their proofs are yet to be written.
`Splay`, `Preemption`, `NumaTopology` and the generation stores compute with
recursive definitions and folds over sequences, about which the prover cannot
do induction.

## 5. Not modelled

* Filters and scores (pure functions of a snapshot), load metrics (floating
  point), the order inside heaps, option parsing, logging, metrics and tracing.
* The workflow switch (`scheduler/switch.go`): every module of the scheduler is
  one workflow.
* The PDB, movement, PodGroup and load-aware stores: indexes filled by one
  handler each and read by plugins.
* Preferred nodes, images, devices other than NUMA nodes, storage classes and
  topology terms of volumes, a Reservation that is occupied twice, the garbage
  collection of PodGroups, the shutting down of processes except where a hazard
  names it.
* The composition of the three processes over one pod: each is modelled against
  what the others may do to the pod's annotations.
