---------------------------- MODULE BinderCache ----------------------------
(***************************************************************************)
(* The cache of the binder (pkg/binder/cache): the pod store, the node     *)
(* store, the deletion-marker store and the running pods of the unit       *)
(* status store.  One lock protects them, and every pod event goes through *)
(* all of them in a fixed order.                                           *)
(*                                                                         *)
(* Three parties drive the cache concurrently:                             *)
(*   - the informer's cache handler, which sees the history of every pod   *)
(*     name in order but late (log);                                       *)
(*   - the binding pipeline, which assumes and forgets pods and marks      *)
(*     victims; a second handler of the same informer feeds it, so it may  *)
(*     be ahead of the cache handler or behind it;                         *)
(*   - two periodic workers, which expire assumed pods and markers.        *)
(*                                                                         *)
(* The stores check their mutual consistency at run time and end the       *)
(* process when they find it broken: fault names the check that did so.    *)
(***************************************************************************)
EXTENDS Naturals, FiniteSets, Sequences

CONSTANTS
    Names,             \* pod names (namespace/name)
    Uids,              \* pod UIDs, one per incarnation of a name
    NameOf,            \* the name of every UID
    Preemptors,        \* the UIDs the scheduler nominates with a victim
    Nodes,             \* node names
    SteadyNodes,       \* the nodes that exist from the start and stay as they are
    NoNode,            \* the empty node name
    NoPod,             \* no pod under a name; no UID
    Relist,            \* TRUE if the informer's watch may be interrupted
    MaxLag,            \* bound: events of one name the cache handler is behind
    MaxRetryAttempts   \* bind attempts of one task

ASSUME NameOfAssumption == NameOf \in [Uids -> Names]
ASSUME PreemptorsAssumption == Preemptors \subseteq Uids
ASSUME SteadyNodesAssumption == SteadyNodes \subseteq Nodes
ASSUME NoNodeAssumption == NoNode \notin Nodes
ASSUME NoPodAssumption == NoPod \notin Uids \cup [uid : Uids, bound : BOOLEAN]
ASSUME RelistAssumption == Relist \in BOOLEAN
ASSUME BoundsAssumption == MaxLag \in Nat \ {0} /\ MaxRetryAttempts \in Nat \ {0}

VARIABLES
    log,       \* log[m]: what the cache handler saw last of name m, then the events it has yet to handle
    used,      \* the UIDs created so far
    home,      \* home[u]: spec.nodeName of u at the API server, set once
    queued,    \* the UIDs the queue handler knows as assumed by the scheduler and not bound
    nominated, \* nominated[u]: the victim the scheduler chose for u, NoPod if none
    task,      \* task[u]: where the pipeline is with u
    podStates, \* PodStore.PodStates: the node u is accounted on, NoNode if u is not cached
    assumed,   \* PodStore.AssumedPods
    due,       \* the assumed pods whose Deadline has passed
    marker,    \* DeletedMarkerStore.Store: the preemptor a victim is marked for
    nodes,     \* NodeStore: the entry of every node name
    running,   \* UnitStatusStore: the running pods
    live,      \* live[n]: the node objects the informers have delivered for n
    fault      \* the consistency check that ended the process, or "none"

apiVars   == <<log, used, home>>
cacheVars == <<podStates, assumed, due, marker, nodes, running>>
vars == <<apiVars, queued, nominated, task, cacheVars, live, fault>>

----------------------------------------------------------------------------
(* A pod object as the informer delivers it.  The node of a bound pod never
   changes: it is home[uid]. *)
PodObj == [uid : Uids, bound : BOOLEAN]

Kinds == {"Node", "NMNode", "CNR"}
NodeInfo == [stored : BOOLEAN, deleted : BOOLEAN, objs : SUBSET Kinds, pods : SUBSET Uids]
NewNodeInfo == [stored |-> FALSE, deleted |-> FALSE, objs |-> {}, pods |-> {}]
SteadyNodeInfo == [NewNodeInfo EXCEPT !.stored = TRUE, !.objs = {"Node"}]

Stages == {"idle", "init", "checked", "marked", "assumed", "waiting", "failed"}
Task == [stage     : Stages,
         node      : Nodes \cup {NoNode},     \* suggestedNode
         reserved  : BOOLEAN,                 \* NewlyAssumedButStillInHandling
         victim    : PodObj \cup {NoPod},     \* the victim as the lister returned it
         binds     : Nat]                     \* attempts that ended in FinishBinding
Idle == [stage |-> "idle", node |-> NoNode, reserved |-> FALSE, victim |-> NoPod, binds |-> 0]

Faults == {"ForgetPod", "MarkPodToDelete", "CleanupExpiredAssumedPods", "CleanupPodDeletionMarker"}

Up         == fault = "none"            \* the process is running
IsPod(o)   == o # NoPod
Cached(u)  == podStates[u] # NoNode
Lister(m)  == log[m][Len(log[m])]
Present(u) == IsPod(Lister(NameOf[u])) /\ Lister(NameOf[u]).uid = u
Spec_nodeName(o) == IF o.bound THEN home[o.uid] ELSE NoNode
ObjectIsNil(objs) == objs \cap {"Node", "NMNode"} = {}

(* Every variable has its type; the histories are never empty. *)
TypeOK ==
    /\ log \in [Names -> Seq(PodObj \cup {NoPod})]
    /\ \A m \in Names : Len(log[m]) >= 1
    /\ used \in SUBSET Uids
    /\ home \in [Uids -> Nodes \cup {NoNode}]
    /\ queued \in SUBSET Uids
    /\ nominated \in [Uids -> Uids \cup {NoPod}]
    /\ task \in [Uids -> Task]
    /\ podStates \in [Uids -> Nodes \cup {NoNode}]
    /\ assumed \in SUBSET Uids
    /\ due \in SUBSET Uids
    /\ marker \in [Uids -> Uids \cup {NoPod}]
    /\ nodes \in [Nodes -> NodeInfo]
    /\ running \in SUBSET Uids
    /\ live \in [Nodes -> SUBSET Kinds]
    /\ fault \in Faults \cup {"none"}

Init ==
    /\ log = [m \in Names |-> <<NoPod>>]
    /\ used = {}
    /\ home = [u \in Uids |-> NoNode]
    /\ queued = {}
    /\ nominated = [u \in Uids |-> NoPod]
    /\ task = [u \in Uids |-> Idle]
    /\ podStates = [u \in Uids |-> NoNode]
    /\ assumed = {}
    /\ due = {}
    /\ marker = [u \in Uids |-> NoPod]
    /\ nodes = [n \in Nodes |-> IF n \in SteadyNodes THEN SteadyNodeInfo ELSE NewNodeInfo]
    /\ running = {}
    /\ live = [n \in Nodes |-> IF n \in SteadyNodes THEN {"Node"} ELSE {}]
    /\ fault = "none"

----------------------------------------------------------------------------
(* The informer: a change of a pod updates the lister and becomes one event
   for the cache handler and one for the queue handler. *)

Notify(m, obj) ==
    /\ Len(log[m]) <= MaxLag
    /\ log' = [log EXCEPT ![m] = Append(@, obj)]

(* A pod appears, bound to n, or unbound with the node a scheduler assumed and
   the victim, a bound pod, it nominated. *)
Appear(u, b, n) ==
    /\ u \notin used
    /\ used' = used \cup {u}
    /\ home' = [home EXCEPT ![u] = IF b THEN n ELSE NoNode]
    /\ IF u \in Preemptors /\ ~b
       THEN \E v \in Uids : home[v] # NoNode /\ nominated' = [nominated EXCEPT ![u] = v]
       ELSE UNCHANGED nominated
    /\ Notify(NameOf[u], [uid |-> u, bound |-> b])

PodCreated(u, b, n) ==
    /\ Up
    /\ ~IsPod(Lister(NameOf[u]))
    /\ Appear(u, b, n)
    /\ queued' = IF b THEN queued ELSE queued \cup {u}
    /\ UNCHANGED <<task, cacheVars, live, fault>>

(* BinderQueue.Delete: a task that waits in the queue for its victim is gone,
   unless it was popped before. *)
BinderQueueDelete(u) ==
    \/ UNCHANGED task
    \/ task[u].stage = "waiting" /\ task' = [task EXCEPT ![u] = Idle]

(* The watch was interrupted: the relist finds another incarnation under the
   name, and the informer reports old and new as one update.  The queue
   handler drops the old one without forgetting it. *)
PodReplaced(u, b, n) ==
    /\ Up
    /\ Relist
    /\ IsPod(Lister(NameOf[u]))
    /\ Appear(u, b, n)
    /\ BinderQueueDelete(Lister(NameOf[u]).uid)
    /\ queued' = (queued \ {Lister(NameOf[u]).uid}) \cup (IF b THEN {} ELSE {u})
    /\ UNCHANGED <<cacheVars, live, fault>>

BoundAtAPI(u, n) ==
    /\ Present(u)
    /\ ~Lister(NameOf[u]).bound
    /\ home' = [home EXCEPT ![u] = n]
    /\ Notify(NameOf[u], [uid |-> u, bound |-> TRUE])

(* Somebody else binds the pod. *)
PodBound(u, n) ==
    /\ Up
    /\ BoundAtAPI(u, n)
    /\ UNCHANGED <<used, queued, nominated, task, cacheVars, live, fault>>

(* Any other change of the pod: labels, annotations, status. *)
PodTouched(u) ==
    /\ Up
    /\ Present(u)
    /\ Notify(NameOf[u], Lister(NameOf[u]))
    /\ UNCHANGED <<used, home, queued, nominated, task, cacheVars, live, fault>>

PodDeleted(u) ==
    /\ Up
    /\ Present(u)
    /\ Notify(NameOf[u], NoPod)
    /\ UNCHANGED <<used, home, queued, nominated, task, cacheVars, live, fault>>

----------------------------------------------------------------------------
(* The stores, as functions of their state. *)

(* NodeStore.getOrCreateNode and NodeInfo.AddPod: an entry made for a pod is
   not usable for scheduling yet. *)
WithPod(info, u) ==
    [info EXCEPT !.stored  = TRUE,
                 !.deleted = info.deleted \/ ~info.stored,
                 !.pods    = info.pods \cup {u}]
NodeStoreAddPod(ns, n, u) == [ns EXCEPT ![n] = WithPod(ns[n], u)]

(* The entry without the pods us, dropped if the last pod left and unused holds. *)
WithoutPods(info, us, unused) ==
    IF info.pods \cap us = {} THEN info
    ELSE IF info.pods \subseteq us /\ unused THEN NewNodeInfo
    ELSE [info EXCEPT !.pods = info.pods \ us]

(* Mutant: ForgetPod leaves the node store alone. *)
NodeStoreForgetNothing(ns, n, u) == ns

(* NodeStore.DeletePod keeps an entry that holds a CNR, ForgetPod does not. *)
NodeStoreDeletePods(ns, n, us) ==
    [ns EXCEPT ![n] = WithoutPods(ns[n], us, ns[n].objs = {})]
NodeStoreForgetPod(ns, n, u) ==
    [ns EXCEPT ![n] = WithoutPods(ns[n], {u}, ObjectIsNil(ns[n].objs))]

(* Mutant: the old pod is not removed from its node. *)
NodeStoreUpdateAdds(ns, old, new) ==
    IF new.bound THEN NodeStoreAddPod(ns, home[new.uid], new.uid) ELSE ns

(* NodeStore.UpdatePod: the pod cached under the old UID is removed from its
   node, and the new pod is added if it is bound.  A node that does not have
   the old pod makes the update fail before the new pod is added. *)
NodeStoreUpdatePod(ns, old, new) ==
    LET n == podStates[old.uid]
        failed  == Cached(old.uid) /\ ns[n].stored /\ old.uid \notin ns[n].pods
        removed == IF Cached(old.uid) THEN NodeStoreDeletePods(ns, n, {old.uid}) ELSE ns
    IN  IF new.bound /\ ~failed THEN NodeStoreAddPod(removed, home[new.uid], new.uid)
        ELSE removed

(* DeletedMarkerStore.UpdatePod: the marker of the NEW pod goes when the cached
   pod becomes unbound. *)
MarkerStoreUpdatePod(old, new) ==
    IF Cached(old.uid) /\ ~new.bound THEN [marker EXCEPT ![new.uid] = NoPod] ELSE marker

(* Mutant: the store looks the new pod up before it deletes the old one. *)
PodStoreUpdateChecksFirst(old, new) ==
    LET removed == [podStates EXCEPT ![old.uid] = NoNode]
    IN  IF new.bound /\ ~Cached(new.uid)
        THEN [removed EXCEPT ![new.uid] = home[new.uid]] ELSE removed

(* PodStore.UpdatePod: delete what is cached under the old UID, then add the
   new pod if it is bound and not cached. *)
PodStoreUpdatePod(old, new) ==
    LET removed == [podStates EXCEPT ![old.uid] = NoNode]
    IN  IF new.bound /\ removed[new.uid] = NoNode
        THEN [removed EXCEPT ![new.uid] = home[new.uid]] ELSE removed

(* Mutant: a deleted pod keeps its marker. *)
MarkerStoreDeletesNothing(us) == marker

(* DeletedMarkerStore.DeletePod, PodStore.podOp and UnitStatusStore.podOp. *)
MarkerStoreDeletePods(us) == [u \in Uids |-> IF u \in us THEN NoPod ELSE marker[u]]
PodStoreDeletePods(us) ==
    /\ podStates' = [u \in Uids |-> IF u \in us THEN NoNode ELSE podStates[u]]
    /\ assumed' = assumed \ us
    /\ due' = due \ us

----------------------------------------------------------------------------
(* The cache handler: Binder.addPod, updatePod and deletePod handle the next
   event of a name, the oldest two objects of its history. *)

Old(m) == log[m][1]
New(m) == log[m][2]
Pending(m) == Len(log[m]) > 1
Handled(m) ==
    /\ log' = [log EXCEPT ![m] = Tail(@)]
    /\ UNCHANGED <<used, home, queued, nominated, task, live, fault>>

AddPod(m) ==
    /\ Up
    /\ Pending(m) /\ ~IsPod(Old(m)) /\ IsPod(New(m))
    /\ LET u == New(m).uid
       IN  IF New(m).bound
           THEN /\ nodes' = NodeStoreAddPod(nodes, home[u], u)
                /\ running' = running \cup {u}
                /\ podStates' = IF Cached(u) THEN podStates ELSE [podStates EXCEPT ![u] = home[u]]
           ELSE UNCHANGED <<nodes, running, podStates>>
    /\ Handled(m)
    /\ UNCHANGED <<assumed, due, marker>>

(* Mutant: no update is ignored. *)
NothingIgnored(old, new) == FALSE

(* binderCache.UpdatePod ignores an update of a pod that is assumed and was
   and stays unbound. *)
IgnoredUpdate(old, new) == ~old.bound /\ ~new.bound /\ old.uid \in assumed

UpdatePod(m) ==
    /\ Up
    /\ Pending(m) /\ IsPod(Old(m)) /\ IsPod(New(m))
    /\ LET old  == Old(m)
           new  == New(m)
           gone == {u \in {old.uid} : Cached(u)}
       IN  IF IgnoredUpdate(old, new)
           THEN UNCHANGED cacheVars
           ELSE /\ marker' = MarkerStoreUpdatePod(old, new)
                /\ nodes' = NodeStoreUpdatePod(nodes, old, new)
                /\ podStates' = PodStoreUpdatePod(old, new)
                /\ assumed' = assumed \ gone
                /\ due' = due \ gone
                /\ running' = (running \ gone) \cup (IF new.bound THEN {new.uid} ELSE {})
    /\ Handled(m)

(* binderCache.DeletePod prefers the cached pod, with its node, to the object
   of the event.  An unbound pod that is not cached is nowhere. *)
DeletePod(m) ==
    /\ Up
    /\ Pending(m) /\ IsPod(Old(m)) /\ ~IsPod(New(m))
    /\ LET old == Old(m)
           u   == old.uid
           n   == IF Cached(u) THEN podStates[u] ELSE Spec_nodeName(old)
       IN  IF n = NoNode
           THEN UNCHANGED cacheVars
           ELSE /\ marker' = MarkerStoreDeletePods({u})
                /\ nodes' = NodeStoreDeletePods(nodes, n, {u})
                /\ PodStoreDeletePods({u})
                /\ running' = running \ {u}
    /\ Handled(m)

----------------------------------------------------------------------------
(* The queue handler: updatePodInBinderQueue takes a pod that got bound out of
   the queue; deletePodFromBinderQueue also drops the markers its nominated
   victims have from it and forgets it. *)

ForgetPod(u, n) ==
    IF u \notin assumed
    THEN UNCHANGED <<podStates, assumed, due, nodes, running, fault>>
    ELSE /\ nodes' = NodeStoreForgetPod(nodes, n, u)
         /\ running' = running \ {u}
         /\ IF podStates[u] # n
            THEN /\ fault' = "ForgetPod"
                 /\ UNCHANGED <<podStates, assumed, due>>
            ELSE /\ PodStoreDeletePods({u})
                 /\ UNCHANGED fault

DequeueBound(u) ==
    /\ Up
    /\ u \in queued
    /\ home[u] # NoNode
    /\ BinderQueueDelete(u)
    /\ queued' = queued \ {u}
    /\ UNCHANGED <<apiVars, nominated, cacheVars, live, fault>>

DequeueDeleted(u) ==
    /\ Up
    /\ u \in queued
    /\ home[u] = NoNode /\ ~Present(u)
    /\ BinderQueueDelete(u)
    /\ queued' = queued \ {u}
    /\ marker' = [v \in Uids |-> IF v = nominated[u] /\ marker[v] = u THEN NoPod ELSE marker[v]]
    /\ ForgetPod(u, podStates[u])
    /\ UNCHANGED <<apiVars, nominated, live>>

----------------------------------------------------------------------------
(* The binding pipeline.  CheckAndBindUnit works on one unit at a time up to
   the assumption; binding and waiting go on in the background. *)

InMainLoop(u) == task[u].stage \in {"init", "checked", "marked"}
Fails(u) == task' = [task EXCEPT ![u].stage = "failed"]

(* skipCheckingPod and initializeTask: a pod that is assumed is ignored; the
   nominated victim is looked up by name. *)
InitializeTask(u, n) ==
    LET v  == nominated[u]
        vp == IF v = NoPod THEN NoPod ELSE Lister(NameOf[v])
        alreadyMarked == IsPod(vp) /\ marker[vp.uid] # NoPod
    IN  /\ Up
        /\ u \in queued
        /\ task[u].stage = "idle"
        /\ \A w \in Uids : ~InMainLoop(w)
        /\ u \notin assumed
        /\ v # NoPod => n = home[v]
        /\ task' = [task EXCEPT ![u] =
                      [Idle EXCEPT !.stage  = IF alreadyMarked THEN "failed" ELSE "init",
                                   !.node   = n,
                                   !.victim = IF alreadyMarked THEN NoPod ELSE vp]]
        /\ UNCHANGED <<apiVars, queued, nominated, cacheVars, live, fault>>

(* CheckCrossNodePreemptionForUnit and CheckSameNodeConflictsForUnit: the node
   must be known, it must have the victim, and the plugins decide the rest. *)
CheckConflicts(u, pluginsAgree) ==
    LET info == nodes[task[u].node]
    IN  /\ Up
        /\ task[u].stage = "init"
        /\ IF /\ info.stored
              /\ IsPod(task[u].victim) => task[u].victim.uid \in info.pods
              /\ pluginsAgree
           THEN task' = [task EXCEPT ![u].stage = "checked"]
           ELSE Fails(u)
        /\ UNCHANGED <<apiVars, queued, nominated, cacheVars, live, fault>>

(* MarkPodToDelete, for the victim as it was when the task was initialized. *)
MarkVictims(u) ==
    LET vp == task[u].victim
        markable == Cached(vp.uid) /\ vp.uid \notin assumed
    IN  /\ Up
        /\ task[u].stage = "checked"
        /\ IsPod(vp)
        /\ \/ /\ markable
              /\ podStates[vp.uid] # Spec_nodeName(vp)
              /\ fault' = "MarkPodToDelete"
              /\ UNCHANGED <<marker, task>>
           \/ /\ markable
              /\ podStates[vp.uid] = Spec_nodeName(vp)
              /\ marker' = [marker EXCEPT ![vp.uid] = u]
              /\ task' = [task EXCEPT ![u].stage = "marked"]
              /\ UNCHANGED fault
           \/ /\ ~markable
              /\ Fails(u)
              /\ UNCHANGED <<marker, fault>>
        /\ UNCHANGED <<apiVars, queued, nominated, podStates, assumed, due, nodes, running, live>>

(* assumeNewTasks and binderCache.AssumePod; a failure to assume the volumes
   comes before anything has changed. *)
AssumePod(u, volumesAssumed) ==
    LET n == task[u].node
    IN  /\ Up
        /\ task[u].stage = IF IsPod(task[u].victim) THEN "marked" ELSE "checked"
        /\ IF ~volumesAssumed \/ Cached(u)
           THEN /\ Fails(u)
                /\ UNCHANGED <<podStates, assumed, nodes, running>>
           ELSE /\ task' = [task EXCEPT ![u].stage = "assumed", ![u].reserved = TRUE]
                /\ podStates' = [podStates EXCEPT ![u] = n]
                /\ assumed' = assumed \cup {u}
                /\ nodes' = NodeStoreAddPod(nodes, n, u)
                /\ running' = running \cup {u}
        /\ UNCHANGED <<apiVars, queued, nominated, due, marker, live, fault>>

(* deleteVictimsOfNewTasks, and ReEnqueueWaitingTasks when it succeeded: the
   task that comes back no longer knows its victim. *)
DeleteVictims(u, deleted) ==
    /\ Up
    /\ task[u].stage = "assumed"
    /\ IsPod(task[u].victim)
    /\ IF deleted
       THEN task' = [task EXCEPT ![u].stage = "waiting", ![u].victim = NoPod]
       ELSE Fails(u)
    /\ UNCHANGED <<apiVars, queued, nominated, cacheVars, live, fault>>

(* IsPreemptionComplete: the nominated victim is gone. *)
ReadyToBind(u) ==
    \/ task[u].stage = "assumed" /\ ~IsPod(task[u].victim)
    \/ task[u].stage = "waiting" /\ (nominated[u] = NoPod \/ ~Present(nominated[u]))

FinishBinding(u) == due' = due \ {u}

(* One attempt of bindTask: it may take effect at the API server and still be
   reported as failed.  FinishBinding follows in any case. *)
BindTask(u, applied, ok) ==
    /\ Up
    /\ ReadyToBind(u)
    /\ ok => applied
    /\ IF applied
       THEN BoundAtAPI(u, task[u].node) /\ UNCHANGED used
       ELSE UNCHANGED apiVars
    /\ FinishBinding(u)
    /\ task' = [task EXCEPT ![u] =
                  IF ok THEN Idle
                  ELSE [task[u] EXCEPT !.binds = task[u].binds + 1,
                                       !.stage = IF task[u].binds + 1 = MaxRetryAttempts
                                                 THEN "failed" ELSE task[u].stage]]
    /\ UNCHANGED <<queued, nominated, podStates, assumed, marker, nodes, running, live, fault>>

(* The victim of a waiting task is not gone after
   MaxPreemptionBackoffPeriodInSeconds. *)
PreemptionTimeout(u) ==
    /\ Up
    /\ task[u].stage = "waiting"
    /\ ~ReadyToBind(u)
    /\ Fails(u)
    /\ UNCHANGED <<apiVars, queued, nominated, cacheVars, live, fault>>

(* UnitTimeout and RejectTimeOutUnit: the unit is dropped. *)
RejectTimeOutUnit(u) ==
    /\ Up
    /\ task[u].stage = "waiting"
    /\ task' = [task EXCEPT ![u] = Idle]
    /\ UNCHANGED <<apiVars, queued, nominated, cacheVars, live, fault>>

(* RejectFailedTasks: RemoveDeletePodMarker for the victim the task knows of,
   ForgetPod for the reserved pod. *)
RejectFailedTask(u) ==
    LET vp == task[u].victim
    IN  /\ Up
        /\ task[u].stage = "failed"
        /\ marker' = IF IsPod(vp) /\ marker[vp.uid] = u
                     THEN [marker EXCEPT ![vp.uid] = NoPod] ELSE marker
        /\ IF task[u].reserved
           THEN ForgetPod(u, task[u].node)
           ELSE UNCHANGED <<podStates, assumed, due, nodes, running, fault>>
        /\ task' = [task EXCEPT ![u] = Idle]
        /\ UNCHANGED <<apiVars, queued, nominated, live>>

----------------------------------------------------------------------------
(* The periodic workers. *)

(* Mutant: the deadline is set by FinishBinding only. *)
DeadlineOfBoundPods(u) ==
    /\ Up
    /\ u \in assumed \ due
    /\ task[u].binds > 0
    /\ due' = due \cup {u}
    /\ UNCHANGED <<apiVars, queued, nominated, task, podStates, assumed, marker, nodes, running, live, fault>>

DeadlinePasses(u) ==
    /\ Up
    /\ u \in assumed \ due
    /\ due' = due \cup {u}
    /\ UNCHANGED <<apiVars, queued, nominated, task, podStates, assumed, marker, nodes, running, live, fault>>

CleanupExpiredAssumedPods ==
    /\ Up
    /\ \/ /\ \E u \in assumed : ~Cached(u)
          /\ fault' = "CleanupExpiredAssumedPods"
          /\ UNCHANGED cacheVars
       \/ /\ \A u \in assumed : Cached(u)
          /\ due # {}
          /\ marker' = MarkerStoreDeletePods(due)
          /\ nodes' = [n \in Nodes |->
                         NodeStoreDeletePods(nodes, n, {u \in due : podStates[u] = n})[n]]
          /\ PodStoreDeletePods(due)
          /\ running' = running \ due
          /\ UNCHANGED fault
    /\ UNCHANGED <<apiVars, queued, nominated, task, live>>

Marked == {u \in Uids : marker[u] # NoPod}

(* Mutant: only markers of preemptors that are still queued are cleaned up. *)
CleanupMarkersOfQueued(expired) ==
    /\ Up
    /\ \A u \in Marked : Cached(u)
    /\ marker' = MarkerStoreDeletePods({u \in expired : marker[u] \in queued})
    /\ UNCHANGED <<apiVars, queued, nominated, task, podStates, assumed, due, nodes, running, live, fault>>

(* The markers of expired are older than PodMarkerExpirationPeriod. *)
CleanupPodDeletionMarker(expired) ==
    /\ Up
    /\ \/ /\ \E u \in Marked : ~Cached(u)
          /\ fault' = "CleanupPodDeletionMarker"
          /\ UNCHANGED marker
       \/ /\ \A u \in Marked : Cached(u)
          /\ marker' = MarkerStoreDeletePods(expired)
          /\ UNCHANGED fault
    /\ UNCHANGED <<apiVars, queued, nominated, task, podStates, assumed, due, nodes, running, live>>

----------------------------------------------------------------------------
(* The node handlers: Node, NMNode and CNR objects of one name share an entry. *)

NodeUnchanged == UNCHANGED <<apiVars, queued, nominated, task, podStates, assumed, due, marker, running, fault>>

(* AddNode, UpdateNode, AddNMNode, UpdateNMNode, AddCNR and UpdateCNR; only the
   first four make the node usable. *)
WithObject(info, k) ==
    [info EXCEPT !.stored  = TRUE,
                 !.deleted = info.deleted /\ (k = "CNR" \/ ~info.stored),
                 !.objs    = info.objs \cup {k}]
SetNodeObject(n, k) ==
    /\ Up
    /\ live' = [live EXCEPT ![n] = @ \cup {k}]
    /\ nodes' = [nodes EXCEPT ![n] = WithObject(nodes[n], k)]
    /\ NodeUnchanged

(* Mutant: the other node object is not looked at. *)
WithoutNodeAndNMNode(info, k) ==
    IF info.pods # {} \/ "CNR" \in info.objs
    THEN [info EXCEPT !.objs = info.objs \cap {"CNR"}, !.deleted = TRUE]
    ELSE NewNodeInfo

(* DeleteNode and DeleteNMNode: without the other object the entry stays, but
   unusable, for residual pods and a CNR. *)
WithoutNode(info, k) ==
    LET objs == info.objs \ {k}
    IN  IF ~info.stored THEN info
        ELSE IF ~ObjectIsNil(objs) THEN [info EXCEPT !.objs = objs]
        ELSE IF info.pods # {} \/ "CNR" \in objs
             THEN [info EXCEPT !.objs = objs, !.deleted = TRUE]
             ELSE [NewNodeInfo EXCEPT !.deleted = info.deleted]
DeleteNode(n, k) ==
    /\ Up
    /\ k \in live[n] \ {"CNR"}
    /\ live' = [live EXCEPT ![n] = @ \ {k}]
    /\ nodes' = [nodes EXCEPT ![n] = WithoutNode(nodes[n], k)]
    /\ NodeUnchanged

WithoutCNR(info) ==
    IF ~info.stored THEN info
    ELSE IF info.pods = {} /\ ObjectIsNil(info.objs) THEN NewNodeInfo
    ELSE [info EXCEPT !.objs = info.objs \ {"CNR"}]
DeleteCNR(n) ==
    /\ Up
    /\ "CNR" \in live[n]
    /\ live' = [live EXCEPT ![n] = @ \ {"CNR"}]
    /\ nodes' = [nodes EXCEPT ![n] = WithoutCNR(nodes[n])]
    /\ NodeUnchanged

----------------------------------------------------------------------------
InformerStep ==
    \/ \E u \in Uids, b \in BOOLEAN, n \in Nodes : PodCreated(u, b, n) \/ PodReplaced(u, b, n)
    \/ \E u \in Uids, n \in Nodes : PodBound(u, n)
    \/ \E u \in Uids : PodTouched(u) \/ PodDeleted(u)

HandlerStep ==
    \/ \E m \in Names : AddPod(m) \/ UpdatePod(m) \/ DeletePod(m)
    \/ \E u \in Uids : DequeueBound(u) \/ DequeueDeleted(u)

PipelineStep ==
    \/ \E u \in Uids, n \in Nodes : InitializeTask(u, n)
    \/ \E u \in Uids, ok \in BOOLEAN : CheckConflicts(u, ok) \/ AssumePod(u, ok) \/ DeleteVictims(u, ok)
    \/ \E u \in Uids, applied, ok \in BOOLEAN : BindTask(u, applied, ok)
    \/ \E u \in Uids : \/ MarkVictims(u) \/ PreemptionTimeout(u)
                       \/ RejectTimeOutUnit(u) \/ RejectFailedTask(u)

WorkerStep ==
    \/ \E u \in Uids : DeadlinePasses(u)
    \/ CleanupExpiredAssumedPods
    \/ \E expired \in SUBSET Marked : CleanupPodDeletionMarker(expired)

NodeStep ==
    \E n \in Nodes \ SteadyNodes :
        \/ \E k \in Kinds : SetNodeObject(n, k) \/ DeleteNode(n, k)
        \/ DeleteCNR(n)

Next == InformerStep \/ HandlerStep \/ PipelineStep \/ WorkerStep \/ NodeStep

Spec == Init /\ [][Next]_vars

(* Both periodic workers run for ever (wait.Until), and time passes. *)
Fairness ==
    /\ \A u \in Uids : WF_vars(DeadlinePasses(u))
    /\ WF_vars(CleanupExpiredAssumedPods)
    /\ WF_vars(CleanupPodDeletionMarker(Marked))

FairSpec == Spec /\ Fairness

----------------------------------------------------------------------------
(* Safety *)

(* The stores tell the same story after every operation, whatever the order of
   events: a pod is counted on exactly the node the pod store has it on, and it
   is a running pod of its unit exactly while the pod store has it. *)
StoresAgree ==
    /\ \A u \in Uids, n \in Nodes : u \in nodes[n].pods <=> podStates[u] = n
    /\ running = {u \in Uids : Cached(u)}

(* The two checks on assumed pods never fire: an assumed pod is cached, and a
   task forgets a pod on the node it is accounted on. *)
AssumedPodsConsistent ==
    /\ assumed \subseteq {u \in Uids : Cached(u)}
    /\ \A u \in assumed : task[u].reserved => podStates[u] = task[u].node
    /\ fault \notin {"ForgetPod", "CleanupExpiredAssumedPods"}

(* What CleanupPodDeletionMarker asserts before it ends the process: a marked
   victim is in the pod store.  It holds as long as no relist merges a deletion
   with the creation of a pod of the same name. *)
MarkedPodsAreCached == \A u \in Marked : Cached(u)

(* Once the cache handler has caught up with a name, its bound pod is accounted
   on its node and no longer assumed, and no pod of that name but an assumed
   one is cached besides. *)
CacheFollowsInformer ==
    \A u \in Uids : ~Pending(NameOf[u]) =>
        /\ Present(u) /\ Lister(NameOf[u]).bound => podStates[u] = home[u] /\ u \notin assumed
        /\ Cached(u) /\ u \notin assumed => Present(u) /\ Lister(NameOf[u]).bound

(* Deleted only has stored nodes without Node and NMNode, so updateMetrics never
   counts a negative number of nodes or hides a usable one. *)
DeletedIsUnusable ==
    \A n \in Nodes : nodes[n].deleted => nodes[n].stored /\ ObjectIsNil(nodes[n].objs)

(* The entry of a node has exactly the Node and NMNode that were delivered, in
   whatever order they, the CNR and the pods come and go. *)
NodeObjectsKept ==
    \A n \in Nodes : nodes[n].objs \ {"CNR"} = live[n] \ {"CNR"}

(* An entry does not outlive its last object and its last pod. *)
NoLeakedEntries ==
    \A n \in Nodes : nodes[n].stored <=> nodes[n].objs # {} \/ nodes[n].pods # {}

(* What the node store has under a name is what the informers delivered under
   it, in whatever order the four kinds of objects come and go. *)
NodeEntriesAreExact == DeletedIsUnusable /\ NodeObjectsKept /\ NoLeakedEntries

(* An assumption ends only for a cause: the pod got bound, it is gone, its task
   failed, or its deadline passed.  No update of an unbound pod ends it. *)
AssumptionEndsForACause ==
    [][\A u \in assumed \ assumed' :
         \/ home[u] # NoNode
         \/ ~Present(u)
         \/ task[u].stage = "failed"
         \/ u \in due]_vars

----------------------------------------------------------------------------
(* The strengthening that makes StoresAgree, AssumedPodsConsistent and, without
   relists, MarkedPodsAreCached inductive. *)

PodAt(m, i, u) == IsPod(log[m][i]) /\ log[m][i].uid = u

(* A history has pods of its own name that exist, bound ones with their node,
   and the objects of one UID are consecutive. *)
HistoryInv ==
    \A m \in Names : \A j \in 1..Len(log[m]) : \A u \in Uids : PodAt(m, j, u) =>
        /\ NameOf[u] = m
        /\ u \in used
        /\ log[m][j].bound => home[u] # NoNode
        /\ \A i \in 1..Len(log[m]) : i < j /\ PodAt(m, i, u) => PodAt(m, j - 1, u)

(* The cache handler has yet to learn of u, which was created bound. *)
BornBound(u) ==
    \E m \in Names : \E j \in 2..Len(log[m]) :
        PodAt(m, j, u) /\ log[m][j].bound /\ ~PodAt(m, j - 1, u)

(* The pipeline never has a pod that was created bound, nor one that does not
   exist, and the cache does not have it yet. *)
Fresh(u) == u \notin used \/ BornBound(u)
FreshInv ==
    \A u \in Uids : Fresh(u) => u \notin queued /\ task[u].stage = "idle" /\ ~Cached(u)

TaskInv == \A u \in Uids : task[u].stage # "idle" => task[u].node # NoNode

CacheInv ==
    /\ TypeOK
    /\ HistoryInv
    /\ FreshInv
    /\ TaskInv
    /\ StoresAgree
    /\ AssumedPodsConsistent

(* Without relists an update is of one incarnation, and a victim is not assumed. *)
UpdatesKeepUid ==
    \A m \in Names : \A j \in 2..Len(log[m]) : \A u, v \in Uids :
        PodAt(m, j - 1, u) /\ PodAt(m, j, v) => u = v
MarkedNotAssumed == \A u \in Marked : Cached(u) /\ u \notin assumed
WatchInv == CacheInv /\ (~Relist => UpdatesKeepUid /\ MarkedNotAssumed)

(* The objects of one incarnation follow one another, and once bound it stays
   bound. *)
OrderInv ==
    \A m \in Names : \A j \in 1..Len(log[m]) : \A i \in 1..j : \A u \in Uids :
        PodAt(m, i, u) /\ PodAt(m, j, u) =>
            /\ \A k \in i..j : PodAt(m, k, u)
            /\ log[m][i].bound => log[m][j].bound

(* The last event the cache handler saw of u's name was of u, bound. *)
SeenBound(u) == PodAt(NameOf[u], 1, u) /\ log[NameOf[u]][1].bound

(* What the cache has of a name is what the last event the handler saw of the
   name says, but for the pods that are assumed; only assumed pods expire. *)
HandledInv ==
    /\ due \subseteq assumed
    /\ \A u \in Uids : /\ SeenBound(u) => podStates[u] = home[u] /\ u \notin assumed
                       /\ Cached(u) /\ u \notin assumed => SeenBound(u)

(* With these, CacheFollowsInformer is inductive as well. *)
FollowInv == CacheInv /\ OrderInv /\ HandledInv

----------------------------------------------------------------------------
(* Liveness, under FairSpec *)

(* Resources of an assumed pod are not held for ever, however its task ends:
   the TTL of the pod store sees to it. *)
AssumptionsExpire == \A u \in Uids : u \in assumed ~> u \notin assumed

(* A victim is not marked for ever, whatever becomes of its preemptor. *)
MarkersExpire == \A u \in Uids : u \in Marked ~> u \notin Marked

=============================================================================
