--------------------------- MODULE NodePartition ---------------------------
(***************************************************************************)
(* Node partitions: the scheduler maintainer's book of which scheduler     *)
(* instance owns which node, and the node shuffler that writes the owner   *)
(* into the annotation of the Node and NMNode objects (feature             *)
(* DispatcherNodeShuffle).  A machine has an object of each kind in Kinds; *)
(* `owner[k][n]` is the annotation at the API server, `seen[k][n]` the one *)
(* the listers hold and the handlers have processed, `watch[k][n]` the     *)
(* versions under way.                                                     *)
(***************************************************************************)
EXTENDS Naturals, Sequences, FiniteSets

CONSTANTS
  Nodes, Schedulers, None, Gone,
  Kinds,        \* a subset of {"Node", "NMNode"}
  MaxLag,       \* versions of one object under way (bound)
  MaxChanges    \* objects deleted or created again, schedulers silenced, writes failed (bound)

\* No scheduler is called like a missing annotation or a missing object.
ASSUME ConstantsAssumption == {None, Gone} \intersect Schedulers = {}

VARIABLES
  owner, watch, seen,
  crd,       \* Scheduler objects: "fresh", "stale" or "none"
  known,     \* schedulers whose last event was an add or update
  gs,        \* generalSchedulers: "absent", "active" or "inactive"
  nodes,     \* GodelScheduler.nodes
  queue,     \* nodeProcessingQueue, deduplicated by nodeCache
  worker,    \* nodeProcessingWorker
  changes

objects == <<owner, watch, seen>>
vars == <<owner, watch, seen, crd, known, gs, nodes, queue, worker, changes>>

Annotations == Schedulers \union {None, Gone}
Resting == [pc |-> "get", node |-> None, got |-> [k \in Kinds |-> Gone], sched |-> None]

Active(s)   == gs[s] = "active"
IsOwner(a)  == a \in Schedulers
Change      == changes < MaxChanges /\ changes' = changes + 1

Init ==
  /\ owner = [k \in Kinds |-> [n \in Nodes |-> None]]
  /\ watch = [k \in Kinds |-> [n \in Nodes |-> <<None>>]]
  /\ seen  = [k \in Kinds |-> [n \in Nodes |-> Gone]]
  /\ crd = [s \in Schedulers |-> "fresh"] /\ known = Schedulers
  /\ gs = [s \in Schedulers |-> "active"]
  /\ nodes = [s \in Schedulers |-> {}]
  /\ queue = {} /\ worker = Resting /\ changes = 0

Write(k, n, a) ==
  /\ Len(watch[k][n]) < MaxLag
  /\ owner' = [owner EXCEPT ![k][n] = a]
  /\ watch' = [watch EXCEPT ![k][n] = Append(@, a)]
  /\ UNCHANGED seen

-----------------------------------------------------------------------------
(* Handlers of Node and NMNode events *)

\* Mutant: the node stays in its old partition.
RepartitionKeepsOld(n, old, new) ==
  /\ nodes' = [s \in Schedulers |-> IF s = new THEN nodes[s] \union {n} ELSE nodes[s]]
  /\ gs' = IF IsOwner(new) /\ gs[new] = "absent" THEN [gs EXCEPT ![new] = "active"] ELSE gs

\* addNodeToGodelScheduler: an unknown scheduler is created, as active.
\* Add, Update and Delete differ only in the annotations before and after:
\* the node leaves the partition of the old one and enters that of the new.
Repartition(n, old, new) ==
  /\ nodes' = [s \in Schedulers |->
                 IF s = new THEN nodes[s] \union {n}
                 ELSE IF s = old THEN nodes[s] \ {n} ELSE nodes[s]]
  /\ gs' = IF IsOwner(new) /\ gs[new] = "absent" THEN [gs EXCEPT ![new] = "active"] ELSE gs

\* Mutant: only a node without annotation is queued.
EnqueueUnannotated(n, a) == queue' = IF a = None THEN queue \union {n} ELSE queue

\* addNodeToProcessingQueueIfNecessary, after the maintainer's handler.
EnqueueIfNecessary(n, a) ==
  queue' = IF a = None \/ (IsOwner(a) /\ gs'[a] # "active") THEN queue \union {n} ELSE queue

\* addNode, updateNode, deleteNode and their NMNode twins.
HandleNode(k, n) ==
  LET new == Head(watch[k][n]) IN
  /\ watch[k][n] # <<>>
  /\ watch' = [watch EXCEPT ![k][n] = Tail(@)]
  /\ seen' = [seen EXCEPT ![k][n] = new]
  /\ Repartition(n, seen[k][n], new)
  /\ EnqueueIfNecessary(n, new)
  /\ UNCHANGED <<owner, crd, known, worker, changes>>

\* The kubelet or the node manager reports: an update event that leaves the
\* annotation alone.
ReportStatus(k, n) ==
  /\ owner[k][n] # Gone /\ watch[k][n] = <<>>
  /\ Repartition(n, seen[k][n], seen[k][n])
  /\ EnqueueIfNecessary(n, seen[k][n])
  /\ UNCHANGED <<objects, crd, known, worker, changes>>

DeleteNode(k, n) ==
  /\ owner[k][n] # Gone /\ Change /\ Write(k, n, Gone)
  /\ UNCHANGED <<crd, known, gs, nodes, queue, worker>>

CreateNode(k, n) ==
  /\ owner[k][n] = Gone /\ Write(k, n, None)
  /\ UNCHANGED <<crd, known, gs, nodes, queue, worker, changes>>

-----------------------------------------------------------------------------
(* Schedulers *)

rest == <<objects, nodes, queue, worker>>

FallSilent(s) ==
  /\ crd[s] = "fresh" /\ Change /\ crd' = [crd EXCEPT ![s] = "stale"]
  /\ UNCHANGED <<rest, known, gs>>

\* updateSchedulerBasedOnSchedulerCRD for a heartbeat or a new object.
Heartbeat(s) ==
  /\ crd[s] = "stale" \/ (crd[s] = "none" /\ s \notin known)
  /\ crd' = [crd EXCEPT ![s] = "fresh"] /\ known' = known \union {s}
  /\ gs' = [gs EXCEPT ![s] = "active"]
  /\ UNCHANGED <<rest, changes>>

\* SyncUpSchedulersStatus.
SyncUpSchedulersStatus(s) ==
  /\ \/ /\ gs[s] = "active" /\ crd[s] = "none"
        /\ gs' = [gs EXCEPT ![s] = "inactive"] /\ UNCHANGED crd
     \/ /\ gs[s] # "absent" /\ crd[s] = "stale"
        /\ crd' = [crd EXCEPT ![s] = "none"] /\ UNCHANGED gs
     \/ /\ gs[s] = "inactive" /\ crd[s] = "fresh"
        /\ gs' = [gs EXCEPT ![s] = "active"] /\ UNCHANGED crd
  /\ UNCHANGED <<rest, known, changes>>

\* DeleteScheduler: only a scheduler without nodes is forgotten.
DeleteScheduler(s) ==
  /\ crd[s] = "none" /\ s \in known
  /\ known' = known \ {s}
  /\ gs' = [gs EXCEPT ![s] = IF @ = "absent" \/ nodes[s] = {} THEN "absent" ELSE "inactive"]
  /\ UNCHANGED <<rest, crd, changes>>

-----------------------------------------------------------------------------
(* The shuffler *)

workerUnchanged == <<crd, known, gs, nodes>>

\* nodeProcessingWorker: pop a node and read both listers.
WorkerGet(n) ==
  /\ worker.pc = "get" /\ n \in queue
  /\ queue' = queue \ {n}
  /\ worker' = IF \A k \in Kinds : seen[k][n] = Gone THEN Resting
               ELSE [Resting EXCEPT !.pc = "choose", !.node = n,
                                    !.got = [k \in Kinds |-> seen[k][n]]]
  /\ UNCHANGED <<objects, workerUnchanged, changes>>

LeastNodes == {s \in Schedulers : Active(s) /\ \A t \in Schedulers :
                 Active(t) => Cardinality(nodes[s]) <= Cardinality(nodes[t])}
MostNodes  == {s \in Schedulers : Active(s) /\ \A t \in Schedulers :
                 Active(t) => Cardinality(nodes[s]) >= Cardinality(nodes[t])}

\* chooseOneSchedulerForThisNode.
WorkerChoose ==
  /\ worker.pc = "choose"
  /\ \/ LeastNodes = {} /\ worker' = Resting
     \/ \E s \in LeastNodes : worker' = [worker EXCEPT !.pc = "Node", !.sched = s]
  /\ UNCHANGED <<objects, queue, workerUnchanged, changes>>

\* updateNodeSchedulerNameAnnotation: the Node, then the NMNode, each an
\* Update with the resource version of the lister's copy.  The first error
\* ends it; nothing is queued again.
UpdateAnnotation(k, next) ==
  LET n == worker.node
      wanted == k \in Kinds /\ worker.got[k] \notin {Gone, worker.sched}
      current == k \in Kinds => watch[k][n] = <<>> /\ owner[k][n] = worker.got[k] IN
  /\ worker.pc = k
  /\ UNCHANGED <<queue, workerUnchanged>>
  /\ \/ /\ ~wanted
        /\ worker' = next /\ UNCHANGED <<objects, changes>>
     \/ /\ wanted /\ current /\ Write(k, n, worker.sched)
        /\ worker' = next /\ UNCHANGED changes
     \/ /\ wanted /\ ~current
        /\ worker' = Resting /\ UNCHANGED <<objects, changes>>
     \/ /\ wanted /\ current /\ Change
        /\ worker' = Resting /\ UNCHANGED objects

UpdateNode   == UpdateAnnotation("Node", [worker EXCEPT !.pc = "NMNode"])
UpdateNMNode == UpdateAnnotation("NMNode", Resting)

\* ReBalanceSchedulerNodes: half the difference is moved when the largest
\* partition is more than twice the smallest.
ReBalanceSchedulerNodes ==
  \E most \in MostNodes, least \in LeastNodes :
    LET m == Cardinality(nodes[most])
        l == Cardinality(nodes[least])
        moved == (m + l) \div 2 - l IN
    /\ m > 2 * l /\ m > 1
    /\ 0 < moved /\ moved < m
    /\ \E some \in {x \in SUBSET nodes[most] : Cardinality(x) = moved} :
         queue' = queue \union some /\ queue' # queue
    /\ UNCHANGED <<objects, worker, workerUnchanged, changes>>

-----------------------------------------------------------------------------
Next ==
  \/ \E k \in Kinds, n \in Nodes :
       HandleNode(k, n) \/ ReportStatus(k, n) \/ DeleteNode(k, n) \/ CreateNode(k, n)
  \/ \E s \in Schedulers :
       FallSilent(s) \/ Heartbeat(s) \/ SyncUpSchedulersStatus(s) \/ DeleteScheduler(s)
  \/ \E n \in Nodes : WorkerGet(n)
  \/ WorkerChoose \/ UpdateNode \/ UpdateNMNode \/ ReBalanceSchedulerNodes

Spec == Init /\ [][Next]_vars

\* Informers, workers and node heartbeats go on.
Fairness ==
  /\ \A k \in Kinds, n \in Nodes : WF_vars(HandleNode(k, n)) /\ WF_vars(ReportStatus(k, n))
  /\ \A s \in Schedulers : WF_vars(SyncUpSchedulersStatus(s)) /\ WF_vars(DeleteScheduler(s))
  /\ \A n \in Nodes : SF_vars(WorkerGet(n))
  /\ WF_vars(WorkerChoose) /\ WF_vars(UpdateNode) /\ WF_vars(UpdateNMNode)

FairSpec == Spec /\ Fairness

-----------------------------------------------------------------------------
Quiet(n) == \A k \in Kinds : watch[k][n] = <<>>

\* Once its events are handled, a machine is in the partition of exactly the
\* scheduler its annotation names at the API server, and the maintainer has
\* not forgotten that scheduler, although schedulers come and go in between.
\* Holds where every machine has one object (OneObject).
PartitionFollowsAnnotation ==
  \A n \in Nodes, k \in Kinds : Quiet(n) =>
    /\ {s \in Schedulers : n \in nodes[s]} = {owner[k][n]} \intersect Schedulers
    /\ IsOwner(owner[k][n]) => gs[owner[k][n]] # "absent"

\* A machine does not stay with a scheduler that is gone while another is
\* alive: the next status report brings it back to the shuffler.
NodesFindALiveScheduler ==
  \A n \in Nodes, k \in Kinds :
    []<>(owner[k][n] = Gone \/ LeastNodes = {}
         \/ (IsOwner(owner[k][n]) /\ Active(owner[k][n])))

-----------------------------------------------------------------------------
(* PartitionFollowsAnnotation is not inductive; these are the facts it      *)
(* rests on.  All but the last hold with both kinds of objects.             *)

OneObject == \A j, k \in Kinds : j = k

\* The last version under way is the one at the API server.
Latest(k, n) == IF watch[k][n] = <<>> THEN seen[k][n] ELSE watch[k][n][Len(watch[k][n])]

ObjectsOK ==
  /\ owner \in [Kinds -> [Nodes -> Annotations]]
  /\ watch \in [Kinds -> [Nodes -> Seq(Annotations)]]
  /\ seen \in [Kinds -> [Nodes -> Annotations]]
  /\ \A k \in Kinds, n \in Nodes : owner[k][n] = Latest(k, n)

\* Every machine of a partition is there because one of its objects says so,
\* and the maintainer has not forgotten the scheduler of the partition.
PartitionsAreNamed ==
  \A s \in Schedulers : \A n \in nodes[s] :
    gs[s] # "absent" /\ n \in Nodes /\ \E k \in Kinds : seen[k][n] = s

\* A machine is in the partition its only object names.
NamedPartitionsHold ==
  OneObject => \A k \in Kinds, n \in Nodes :
                 IsOwner(seen[k][n]) => n \in nodes[seen[k][n]]

Workers == [pc : {"get", "choose", "Node", "NMNode"}, node : Nodes \union {None},
            got : [Kinds -> Annotations], sched : Annotations]

PartitionInv ==
  /\ ObjectsOK
  /\ gs \in [Schedulers -> {"absent", "active", "inactive"}]
  /\ nodes \in [Schedulers -> SUBSET Nodes]
  /\ worker \in Workers
  /\ worker.pc # "get" => worker.node \in Nodes
  /\ PartitionsAreNamed
  /\ NamedPartitionsHold
=============================================================================
