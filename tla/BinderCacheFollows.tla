------------------------- MODULE BinderCacheFollows -------------------------
(***************************************************************************)
(* Each store for itself, and the stores against the informer. While the   *)
(* watch is never interrupted, the marker store marks victims the pod      *)
(* store has: WatchInv is inductive. The entries of the node store are     *)
(* what the informers delivered, interrupted or not: NodeEntriesAreExact   *)
(* is inductive. What the cache has of a pod name is what the informer     *)
(* delivered of it (CacheFollowsInformer), and an assumption lasts until   *)
(* there is a cause to end it (AssumptionEndsForACause): FollowInv is      *)
(* inductive.                                                              *)
(***************************************************************************)
EXTENDS BinderCacheProofs

(* Most leaves are first-order; those with arithmetic name SMT. *)
USE Zenon


----------------------------------------------------------------------------
(* The marker store, without relists. *)

LEMMA NotifyKeepsUid ==
    ASSUME TypeOK, UpdatesKeepUid, NEW m \in Names, NEW o \in Object, Notify(m, o),
           IsPod(o) /\ IsPod(Lister(m)) => Lister(m).uid = o.uid
    PROVE  UpdatesKeepUid'
  <1> SUFFICES ASSUME NEW k \in Names, NEW j \in 2..Len(log'[k]), NEW u \in Uids, NEW v \in Uids,
                      PodAt(k, j - 1, u)', PodAt(k, j, v)'
               PROVE  u = v
    BY DEF UpdatesKeepUid
  <1>1. CASE k # m
    <2>1. log'[k] = log[k]
      BY <1>1, NotifyFacts
    <2> QED
      BY SMT, <2>1 DEF UpdatesKeepUid, PodAt
  <1>2. CASE k = m /\ j <= Len(log[m])
    <2>1. j \in 2..Len(log[m]) /\ j \in 1..Len(log[m]) /\ j - 1 \in 1..Len(log[m])
      BY SMT, <1>2, ObjectFacts
    <2>2. log'[m][j] = log[m][j] /\ log'[m][j - 1] = log[m][j - 1]
      BY <2>1, NotifyFacts
    <2> QED
      BY SMT, <1>2, <2>1, <2>2 DEF UpdatesKeepUid, PodAt
  <1>3. CASE k = m /\ j = Len(log[m]) + 1
    <2>1. j - 1 = Len(log[m]) /\ Len(log[m]) \in 1..Len(log[m])
      BY SMT, <1>3, ObjectFacts
    <2>2. log'[m][j] = o /\ log'[m][j - 1] = Lister(m)
      BY <1>3, <2>1, NotifyFacts DEF Lister
    <2> QED
      BY <1>3, <2>2 DEF PodAt
  <1> QED
    BY SMT, <1>1, <1>2, <1>3, NotifyFacts, ObjectFacts

LEMMA HandledKeepsUid ==
    ASSUME TypeOK, UpdatesKeepUid, NEW m \in Names, Pending(m), Handled(m)
    PROVE  UpdatesKeepUid'
  <1> SUFFICES ASSUME NEW k \in Names, NEW j \in 2..Len(log'[k]), NEW u \in Uids, NEW v \in Uids,
                      PodAt(k, j - 1, u)', PodAt(k, j, v)'
               PROVE  u = v
    BY DEF UpdatesKeepUid
  <1>1. CASE k # m
    <2>1. log'[k] = log[k]
      BY <1>1, HandledFacts
    <2> QED
      BY SMT, <2>1 DEF UpdatesKeepUid, PodAt
  <1>2. CASE k = m
    <2>1. /\ j \in 1..Len(log[m]) - 1 /\ j - 1 \in 1..Len(log[m]) - 1
          /\ j + 1 \in 2..Len(log[m]) /\ (j - 1) + 1 = j /\ (j + 1) - 1 = j
      BY SMT, <1>2, HandledFacts, ObjectFacts
    <2>2. log'[m][j] = log[m][j + 1] /\ log'[m][j - 1] = log[m][j]
      BY <2>1, HandledFacts
    <2>3. PodAt(m, (j + 1) - 1, u) /\ PodAt(m, j + 1, v)
      BY <1>2, <2>1, <2>2 DEF PodAt
    <2> QED
      BY <2>1, <2>3 DEF UpdatesKeepUid
  <1> QED
    BY <1>1, <1>2

LEMMA UpdatesKeepUidNext ==
    ASSUME CacheInv, ~Relist, UpdatesKeepUid, Next
    PROVE  UpdatesKeepUid'
  <1> USE DEF CacheInv
  <1>0. CASE UNCHANGED log
    BY SMT, <1>0 DEF UpdatesKeepUid, PodAt
  <1>1. ASSUME NEW u \in Uids, NEW o \in Object, Notify(NameOf[u], o),
               IsPod(o) /\ IsPod(Lister(NameOf[u])) => Lister(NameOf[u]).uid = o.uid
        PROVE  UpdatesKeepUid'
    BY <1>1, NameOfAssumption, NotifyKeepsUid
  <1>2. ASSUME NEW u \in Uids, NEW n \in Nodes, BoundAtAPI(u, n)
        PROVE  UpdatesKeepUid'
    <2>1. [uid |-> u, bound |-> TRUE] \in Object /\ [uid |-> u, bound |-> TRUE].uid = u
      BY DEF Object, PodObj
    <2> QED
      BY <1>1, <1>2, <2>1 DEF BoundAtAPI, Present
  <1>3. CASE InformerStep
    <2>1. ASSUME NEW u \in Uids, NEW b \in BOOLEAN, NEW n \in Nodes, PodCreated(u, b, n)
          PROVE  UpdatesKeepUid'
      <3>1. [uid |-> u, bound |-> b] \in Object
        BY DEF Object, PodObj
      <3> QED
        BY <1>1, <2>1, <3>1 DEF PodCreated, Appear
    <2>2. ASSUME NEW u \in Uids, PodTouched(u) \/ PodDeleted(u)
          PROVE  UpdatesKeepUid'
      <3>1. Lister(NameOf[u]) \in Object /\ NoPod \in Object /\ ~IsPod(NoPod)
        BY <2>2, PresentFacts DEF PodTouched, PodDeleted, Object, IsPod
      <3> QED
        BY <1>1, <2>2, <3>1 DEF PodTouched, PodDeleted
    <2> QED
      BY <1>2, <1>3, <2>1, <2>2 DEF InformerStep, PodReplaced, PodBound
  <1>4. CASE HandlerStep
    BY ZenonT(30), <1>0, <1>4, HandledKeepsUid
       DEF HandlerStep, AddPod, UpdatePod, DeletePod, DequeueBound, DequeueDeleted, apiVars
  <1>5. CASE PipelineStep
    <2>1. ASSUME NEW u \in Uids, NEW applied \in BOOLEAN, NEW ok \in BOOLEAN, BindTask(u, applied, ok)
          PROVE  UpdatesKeepUid'
      <3>1. task[u].node \in Nodes
        BY <2>1 DEF BindTask, ReadyToBind, TaskInv, TypeOK, Task
      <3> QED
        BY <1>0, <1>2, <2>1, <3>1 DEF BindTask, apiVars
    <2> QED
      BY ZenonT(30), <1>0, <1>5, <2>1
         DEF PipelineStep, InitializeTask, CheckConflicts, MarkVictims, AssumePod, DeleteVictims,
             PreemptionTimeout, RejectTimeOutUnit, RejectFailedTask, apiVars
  <1>6. CASE WorkerStep \/ NodeStep
    BY <1>0, <1>6 DEF WorkerStep, DeadlinePasses, CleanupExpiredAssumedPods, CleanupPodDeletionMarker,
                      NodeStep, SetNodeObject, DeleteNode, DeleteCNR, NodeUnchanged, apiVars
  <1> QED
    BY <1>3, <1>4, <1>5, <1>6 DEF Next

(* A step that marks nobody, uncaches nobody and assumes nobody. *)
LEMMA MarkedFrame ==
    ASSUME MarkedNotAssumed,
           \A v \in Uids : v \in Marked' => v \in Marked /\ Cached(v)' /\ (v \in assumed' => v \in assumed)
    PROVE  MarkedNotAssumed'
  BY DEF MarkedNotAssumed, Marked

LEMMA ForgetPodMarked ==
    ASSUME CacheInv, MarkedNotAssumed, NEW u \in Uids, NEW n \in Nodes \cup {NoNode},
           u \in assumed => podStates[u] = n, ForgetPod(u, n),
           \A v \in Uids : v \in Marked' => v \in Marked
    PROVE  MarkedNotAssumed'
  <1>1. /\ assumed' = assumed \ {u}
        /\ \A v \in Uids : v # u \/ u \notin assumed => podStates'[v] = podStates[v]
    BY ForgetPodAgrees DEF CacheInv
  <1> QED
    BY <1>1 DEF MarkedNotAssumed, Marked, Cached

LEMMA HandlerMarked ==
    ASSUME CacheInv, UpdatesKeepUid, MarkedNotAssumed, HandlerStep
    PROVE  MarkedNotAssumed'
  <1> USE DEF CacheInv
  <1>1. ASSUME NEW m \in Names, AddPod(m)
        PROVE  MarkedNotAssumed'
    <2>1. Pending(m) /\ IsPod(New(m)) /\ New(m).uid \in Uids /\ (New(m).bound => home[New(m).uid] # NoNode)
      BY <1>1, EventFacts, NoNodeAssumption DEF AddPod, PodObj
    <2>2. \A v \in Uids : Cached(v) => Cached(v)'
      BY <1>1, <2>1 DEF AddPod, Cached, TypeOK
    <2> QED
      BY <1>1, <2>2, MarkedFrame DEF AddPod, MarkedNotAssumed, Marked
  <1>2. ASSUME NEW m \in Names, UpdatePod(m)
        PROVE  MarkedNotAssumed'
    <2>1. /\ Pending(m) /\ Old(m) \in PodObj /\ New(m) \in PodObj
          /\ PodAt(m, 1, Old(m).uid) /\ PodAt(m, 2, New(m).uid)
          /\ Old(m).uid \in Uids /\ New(m).uid \in Uids
          /\ New(m).bound => home[New(m).uid] # NoNode
      BY <1>2, EventFacts, NoNodeAssumption DEF UpdatePod, PodObj
    <2>2. 2 \in 2..Len(log[m]) /\ 2 - 1 = 1
      BY SMT, <2>1, ObjectFacts DEF Pending
    <2>3. Old(m).uid = New(m).uid
      BY <2>1, <2>2 DEF UpdatesKeepUid
    <2>4. CASE IgnoredUpdate(Old(m), New(m))
      BY <1>2, <2>4, MarkedFrame DEF UpdatePod, cacheVars, MarkedNotAssumed, Marked, Cached
    <2>5. CASE ~IgnoredUpdate(Old(m), New(m))
      <3>1. /\ marker' = MarkerStoreUpdatePod(Old(m), New(m))
            /\ podStates' = PodStoreUpdatePod(Old(m), New(m))
            /\ assumed' \subseteq assumed
        BY <1>2, <2>5 DEF UpdatePod
      <3>2. ASSUME NEW v \in Uids, v \in Marked'
            PROVE  v \in Marked /\ Cached(v)' /\ (v \in assumed' => v \in assumed)
        <4>1. v \in Marked
          BY <2>1, <3>1, <3>2 DEF MarkerStoreUpdatePod, Marked, TypeOK
        <4>2. Cached(v)
          BY <4>1 DEF MarkedNotAssumed
        <4>3. v = New(m).uid => New(m).bound
          BY SMTT(30), <2>1, <2>3, <3>1, <3>2, <4>2 DEF MarkerStoreUpdatePod, Marked, TypeOK
        <4>4. podStates'[v] = IF v = New(m).uid /\ New(m).bound /\ (v = Old(m).uid \/ ~Cached(v)) THEN home[v]
                              ELSE IF v = Old(m).uid THEN NoNode ELSE podStates[v]
          BY <2>1, <3>1, PodStoreUpdateFacts
        <4>5. Cached(v)'
          BY SMTT(30), <2>1, <2>3, <4>2, <4>3, <4>4 DEF Cached
        <4> QED
          BY <3>1, <4>1, <4>5
      <3> QED
        BY <3>2, MarkedFrame
    <2> QED
      BY <2>4, <2>5
  <1>3. ASSUME NEW m \in Names, DeletePod(m)
        PROVE  MarkedNotAssumed'
    BY SMTT(30), <1>3, MarkedFrame DEF DeletePod, MarkerStoreDeletePods, PodStoreDeletePods, cacheVars,
                             MarkedNotAssumed, Marked, Cached, TypeOK
  <1>4. ASSUME NEW u \in Uids, DequeueBound(u)
        PROVE  MarkedNotAssumed'
    BY <1>4, MarkedFrame DEF DequeueBound, cacheVars, MarkedNotAssumed, Marked, Cached
  <1>5. ASSUME NEW u \in Uids, DequeueDeleted(u)
        PROVE  MarkedNotAssumed'
    <2>1. \A v \in Uids : v \in Marked' => v \in Marked
      BY <1>5 DEF DequeueDeleted, Marked
    <2>2. podStates[u] \in Nodes \cup {NoNode} /\ ForgetPod(u, podStates[u])
      BY SMTT(30), <1>5 DEF DequeueDeleted, TypeOK
    <2> QED
      BY <2>1, <2>2, ForgetPodMarked
  <1> QED
    BY <1>1, <1>2, <1>3, <1>4, <1>5 DEF HandlerStep

LEMMA PipelineMarked ==
    ASSUME CacheInv, MarkedNotAssumed, PipelineStep
    PROVE  MarkedNotAssumed'
  <1> USE DEF CacheInv
  <1>1. CASE UNCHANGED <<marker, podStates, assumed>>
    BY <1>1 DEF MarkedNotAssumed, Marked, Cached
  <1>2. ASSUME NEW u \in Uids, MarkVictims(u)
        PROVE  MarkedNotAssumed'
    <2>1. task[u].victim.uid \in Uids
      BY <1>2 DEF MarkVictims, TypeOK, Task, PodObj, IsPod
    <2> QED
      BY <1>1, <1>2, <2>1 DEF MarkVictims, MarkedNotAssumed, Marked, Cached, TypeOK
  <1>3. ASSUME NEW u \in Uids, NEW ok \in BOOLEAN, AssumePod(u, ok)
        PROVE  MarkedNotAssumed'
    <2>1. CASE ~ok \/ Cached(u)
      BY <1>1, <1>3, <2>1 DEF AssumePod
    <2>2. CASE ok /\ ~Cached(u)
      <3>1. /\ podStates' = [podStates EXCEPT ![u] = task[u].node]
            /\ assumed' = assumed \cup {u}
            /\ marker' = marker
        BY <1>3, <2>2 DEF AssumePod
      <3>2. u \notin Marked
        BY <2>2 DEF MarkedNotAssumed
      <3> QED
        BY <3>1, <3>2 DEF MarkedNotAssumed, Marked, Cached, TypeOK
    <2> QED
      BY <2>1, <2>2
  <1>4. ASSUME NEW u \in Uids, RejectFailedTask(u)
        PROVE  MarkedNotAssumed'
    <2>1. \A v \in Uids : v \in Marked' => v \in Marked
      BY <1>4 DEF RejectFailedTask, Marked, TypeOK
    <2>2. CASE task[u].reserved
      <3>1. task[u].node \in Nodes \cup {NoNode} /\ (u \in assumed => podStates[u] = task[u].node)
        BY <2>2 DEF AssumedPodsConsistent, TypeOK, Task
      <3> QED
        BY <1>4, <2>1, <2>2, <3>1, ForgetPodMarked DEF RejectFailedTask
    <2>3. CASE ~task[u].reserved
      BY <1>4, <2>1, <2>3, MarkedFrame DEF RejectFailedTask, MarkedNotAssumed, Marked, Cached
    <2> QED
      BY SMTT(30), <2>2, <2>3
  <1> QED
    BY ZenonT(30), <1>1, <1>2, <1>3, <1>4
       DEF PipelineStep, InitializeTask, CheckConflicts, DeleteVictims, BindTask,
           PreemptionTimeout, RejectTimeOutUnit, cacheVars

LEMMA MarkedNotAssumedNext ==
    ASSUME CacheInv, ~Relist, UpdatesKeepUid, MarkedNotAssumed, Next
    PROVE  MarkedNotAssumed'
  <1>1. CASE UNCHANGED <<marker, podStates, assumed>>
    BY SMTT(30), <1>1 DEF MarkedNotAssumed, Marked, Cached
  <1>2. CASE InformerStep
    BY ZenonT(30), <1>1, <1>2 DEF InformerStep, PodCreated, PodReplaced, PodBound, PodTouched, PodDeleted, cacheVars
  <1>3. CASE NodeStep
    BY ZenonT(30), <1>1, <1>3 DEF NodeStep, SetNodeObject, DeleteNode, DeleteCNR, NodeUnchanged
  <1>4. CASE WorkerStep
    BY SMT, <1>1, <1>4 DEF WorkerStep, DeadlinePasses, CleanupExpiredAssumedPods, CleanupPodDeletionMarker,
                      MarkerStoreDeletePods, PodStoreDeletePods, cacheVars,
                      MarkedNotAssumed, Marked, Cached, CacheInv, TypeOK
  <1> QED
    BY <1>2, <1>3, <1>4, HandlerMarked, PipelineMarked DEF Next

(* While the informer's watch is never interrupted, every marked victim is in
   the pod store, and the check of CleanupPodDeletionMarker never ends the
   process. *)
THEOREM MarkedPodsAlwaysCached == Spec /\ ~Relist => []MarkedPodsAreCached
  <1>1. Init => WatchInv
    <2> SUFFICES ASSUME Init PROVE WatchInv
      OBVIOUS
    <2>1. \A m \in Names : Len(log[m]) = 1
      BY DEF Init
    <2>2. UpdatesKeepUid /\ MarkedNotAssumed
      BY SMT, <2>1 DEF Init, UpdatesKeepUid, MarkedNotAssumed, Marked
    <2> QED
      BY <2>2, CacheInvInit DEF WatchInv
  <1>2. WatchInv /\ [Next]_vars => WatchInv'
    <2> SUFFICES ASSUME WatchInv, [Next]_vars PROVE WatchInv'
      OBVIOUS
    <2>1. CacheInv'
      BY CacheInvNext DEF WatchInv
    <2>2. ASSUME ~Relist PROVE UpdatesKeepUid' /\ MarkedNotAssumed'
      <3>1. CASE UNCHANGED vars
        BY SMT, <2>2, <3>1 DEF WatchInv, vars, apiVars, cacheVars, UpdatesKeepUid, PodAt,
                          MarkedNotAssumed, Marked, Cached
      <3>2. CASE Next
        BY <2>2, <3>2, UpdatesKeepUidNext, MarkedNotAssumedNext DEF WatchInv
      <3> QED
        BY <3>1, <3>2
    <2> QED
      BY <2>1, <2>2 DEF WatchInv
  <1>3. WatchInv /\ ~Relist => MarkedPodsAreCached
    BY DEF WatchInv, MarkedNotAssumed, MarkedPodsAreCached
  <1>4. CASE Relist
    BY <1>4
  <1>5. CASE ~Relist
    <2>1. WatchInv => MarkedPodsAreCached
      BY <1>3, <1>5
    <2> QED
      BY <1>1, <1>2, <2>1, PTL DEF Spec
  <1> QED
    BY <1>4, <1>5

----------------------------------------------------------------------------
(* The node store, one operator at a time. *)

(* The entry of a node whose delivered objects are objs. *)
EntryExact(info, objs) ==
    /\ info.deleted => info.stored /\ ObjectIsNil(info.objs)
    /\ info.objs \ {"CNR"} = objs \ {"CNR"}
    /\ info.stored <=> info.objs # {} \/ info.pods # {}

EntriesExact(ns) == \A n \in Nodes : EntryExact(ns[n], live[n])

LEMMA EntriesExactMeans == NodeEntriesAreExact <=> EntriesExact(nodes)
  BY DEF NodeEntriesAreExact, DeletedIsUnusable, NodeObjectsKept, NoLeakedEntries,
         EntriesExact, EntryExact

LEMMA WithPodExact ==
    ASSUME NEW info \in NodeInfo, NEW objs \in SUBSET Kinds, EntryExact(info, objs), NEW u \in Uids
    PROVE  EntryExact(WithPod(info, u), objs)
  BY DEF EntryExact, WithPod, NodeInfo, ObjectIsNil

LEMMA WithoutPodsExact ==
    ASSUME NEW info \in NodeInfo, NEW objs \in SUBSET Kinds, EntryExact(info, objs),
           NEW us \in SUBSET Uids, NEW unused \in BOOLEAN,
           unused => ObjectIsNil(info.objs), info.objs = {} => unused
    PROVE  EntryExact(WithoutPods(info, us, unused), objs)
  <1>1. CASE info.pods \cap us = {}
    BY <1>1 DEF WithoutPods
  <1>2. CASE info.pods \cap us # {} /\ info.pods \subseteq us /\ unused
    <2>1. WithoutPods(info, us, unused) = NewNodeInfo
      BY <1>2 DEF WithoutPods
    <2>2. info.objs \ {"CNR"} = {}
      BY <1>2 DEF ObjectIsNil, NodeInfo, Kinds
    <2> QED
      BY SMT, <2>1, <2>2 DEF EntryExact, NewNodeInfo
  <1>3. CASE info.pods \cap us # {} /\ ~(info.pods \subseteq us /\ unused)
    <2>1. WithoutPods(info, us, unused) = [info EXCEPT !.pods = info.pods \ us]
      BY <1>3 DEF WithoutPods
    <2> QED
      BY <1>3, <2>1 DEF EntryExact, NodeInfo
  <1> QED
    BY <1>1, <1>2, <1>3

LEMMA NodeObjectExact ==
    ASSUME NEW info \in NodeInfo, NEW objs \in SUBSET Kinds, EntryExact(info, objs), NEW k \in Kinds
    PROVE  /\ EntryExact(WithObject(info, k), objs \cup {k})
           /\ k \in objs \ {"CNR"} => EntryExact(WithoutNode(info, k), objs \ {k})
           /\ EntryExact(WithoutCNR(info), objs \ {"CNR"})
  <1>1. EntryExact(WithObject(info, k), objs \cup {k})
    BY DEF EntryExact, WithObject, NodeInfo, ObjectIsNil, Kinds
  <1>2. ASSUME k \in objs \ {"CNR"}
        PROVE  EntryExact(WithoutNode(info, k), objs \ {k})
    <2>1. info.stored /\ ~info.deleted /\ k \in info.objs
      BY <1>2 DEF EntryExact, ObjectIsNil, Kinds
    <2> QED
      BY <1>2, <2>1 DEF EntryExact, WithoutNode, NewNodeInfo, NodeInfo, ObjectIsNil, Kinds
  <1>3. EntryExact(WithoutCNR(info), objs \ {"CNR"})
    BY DEF EntryExact, WithoutCNR, NewNodeInfo, NodeInfo, ObjectIsNil, Kinds
  <1> QED
    BY <1>1, <1>2, <1>3

LEMMA AddExact ==
    ASSUME TypeOK, NEW ns \in [Nodes -> NodeInfo], EntriesExact(ns),
           NEW n \in Nodes \cup {NoNode}, NEW u \in Uids
    PROVE  EntriesExact(NodeStoreAddPod(ns, n, u))
  BY WithPodExact DEF EntriesExact, NodeStoreAddPod, TypeOK

LEMMA RemoveExact ==
    ASSUME TypeOK, NEW ns \in [Nodes -> NodeInfo], EntriesExact(ns),
           NEW n \in Nodes \cup {NoNode}, NEW us \in SUBSET Uids, NEW u \in Uids
    PROVE  /\ EntriesExact(NodeStoreDeletePods(ns, n, us))
           /\ EntriesExact(NodeStoreForgetPod(ns, n, u))
  <1>1. \A x \in Nodes : ns[x] \in NodeInfo /\ live[x] \in SUBSET Kinds
    BY DEF TypeOK
  <1>2. \A x \in Nodes : ns[x].objs = {} => ObjectIsNil(ns[x].objs)
    BY DEF ObjectIsNil
  <1>3. \A x \in Nodes : /\ EntryExact(WithoutPods(ns[x], us, ns[x].objs = {}), live[x])
                         /\ EntryExact(WithoutPods(ns[x], {u}, ObjectIsNil(ns[x].objs)), live[x])
    BY <1>1, <1>2, WithoutPodsExact DEF EntriesExact, ObjectIsNil
  <1> QED
    BY <1>3 DEF EntriesExact, NodeStoreDeletePods, NodeStoreForgetPod

LEMMA UpdateExact ==
    ASSUME TypeOK, EntriesExact(nodes), NEW old \in PodObj, NEW new \in PodObj
    PROVE  EntriesExact(NodeStoreUpdatePod(nodes, old, new))
  <1> DEFINE n == podStates[old.uid]
             removed == IF Cached(old.uid) THEN NodeStoreDeletePods(nodes, n, {old.uid}) ELSE nodes
  <1>1. /\ old.uid \in Uids /\ new.uid \in Uids
        /\ n \in Nodes \cup {NoNode} /\ home[new.uid] \in Nodes \cup {NoNode}
        /\ nodes \in [Nodes -> NodeInfo]
    BY DEF TypeOK, PodObj
  <1>2. removed \in [Nodes -> NodeInfo] /\ EntriesExact(removed)
    BY <1>1, NodeStoreDeleteType, RemoveExact
  <1>3. EntriesExact(NodeStoreAddPod(removed, home[new.uid], new.uid))
    BY <1>1, <1>2, AddExact
  <1> QED
    BY <1>2, <1>3 DEF NodeStoreUpdatePod

LEMMA ForgetExact ==
    ASSUME TypeOK, EntriesExact(nodes), NEW u \in Uids, NEW n \in Nodes \cup {NoNode}, ForgetPod(u, n)
    PROVE  EntriesExact(nodes')
  <1>1. nodes' = nodes \/ nodes' = NodeStoreForgetPod(nodes, n, u)
    BY DEF ForgetPod
  <1> QED
    BY <1>1, RemoveExact DEF TypeOK

(* A step keeps what it does to the entries in line with the objects delivered. *)
LEMMA EntriesNext ==
    ASSUME CacheInv, EntriesExact(nodes), Next
    PROVE  EntriesExact(nodes)'
  <1> USE DEF CacheInv
  <1>0. ASSUME live' = live, EntriesExact(nodes')
        PROVE  EntriesExact(nodes)'
    BY <1>0 DEF EntriesExact
  <1>1. CASE UNCHANGED <<nodes, live>>
    BY <1>1 DEF EntriesExact
  <1>2. CASE InformerStep
    BY ZenonT(30), <1>1, <1>2 DEF InformerStep, PodCreated, PodReplaced, PodBound, PodTouched, PodDeleted, cacheVars
  <1>3. CASE HandlerStep
    <2>1. ASSUME NEW m \in Names, AddPod(m)
          PROVE  EntriesExact(nodes)'
      <3>1. New(m) \in PodObj /\ New(m).uid \in Uids /\ home[New(m).uid] \in Nodes \cup {NoNode}
        BY <2>1, EventFacts DEF AddPod, PodObj, TypeOK
      <3>2. nodes' = nodes \/ nodes' = NodeStoreAddPod(nodes, home[New(m).uid], New(m).uid)
        BY <2>1 DEF AddPod
      <3>3. live' = live
        BY <2>1 DEF AddPod, Handled
      <3>4. EntriesExact(nodes')
        BY <3>1, <3>2, AddExact DEF TypeOK
      <3> QED
        BY <1>0, <3>3, <3>4
    <2>2. ASSUME NEW m \in Names, UpdatePod(m)
          PROVE  EntriesExact(nodes)'
      <3>1. Old(m) \in PodObj /\ New(m) \in PodObj
        BY <2>2, EventFacts DEF UpdatePod
      <3>2. nodes' = nodes \/ nodes' = NodeStoreUpdatePod(nodes, Old(m), New(m))
        BY <2>2 DEF UpdatePod, cacheVars
      <3>3. EntriesExact(nodes') /\ live' = live
        BY <2>2, <3>1, <3>2, UpdateExact DEF UpdatePod, Handled
      <3> QED
        BY <1>0, <3>3
    <2>3. ASSUME NEW m \in Names, DeletePod(m)
          PROVE  EntriesExact(nodes)'
      <3> DEFINE u == Old(m).uid
                 n == IF Cached(u) THEN podStates[u] ELSE Spec_nodeName(Old(m))
      <3>1. u \in Uids /\ n \in Nodes \cup {NoNode}
        BY <2>3, EventFacts DEF DeletePod, PodObj, TypeOK, Spec_nodeName
      <3>2. nodes' = nodes \/ nodes' = NodeStoreDeletePods(nodes, n, {u})
        BY <2>3 DEF DeletePod, cacheVars
      <3>3. live' = live
        BY <2>3 DEF DeletePod, Handled
      <3> HIDE DEF u, n
      <3>4. EntriesExact(nodes')
        BY <3>1, <3>2, RemoveExact DEF TypeOK
      <3> QED
        BY <1>0, <3>3, <3>4
    <2>4. ASSUME NEW u \in Uids, DequeueBound(u) \/ DequeueDeleted(u)
          PROVE  EntriesExact(nodes)'
      <3>1. live' = live /\ (nodes' = nodes \/ ForgetPod(u, podStates[u]))
        BY <2>4 DEF DequeueBound, DequeueDeleted, cacheVars
      <3>2. podStates[u] \in Nodes \cup {NoNode}
        BY DEF TypeOK
      <3> QED
        BY <1>0, <3>1, <3>2, ForgetExact
    <2> QED
      BY <1>3, <2>1, <2>2, <2>3, <2>4 DEF HandlerStep
  <1>4. CASE PipelineStep
    <2>1. ASSUME NEW u \in Uids, NEW ok \in BOOLEAN, AssumePod(u, ok)
          PROVE  EntriesExact(nodes)'
      <3>1. live' = live /\ (nodes' = nodes \/ nodes' = NodeStoreAddPod(nodes, task[u].node, u))
        BY <2>1 DEF AssumePod
      <3>2. task[u].node \in Nodes \cup {NoNode}
        BY DEF TypeOK, Task
      <3> QED
        BY <1>0, <3>1, <3>2, AddExact DEF TypeOK
    <2>2. ASSUME NEW u \in Uids, RejectFailedTask(u)
          PROVE  EntriesExact(nodes)'
      <3>1. live' = live /\ (nodes' = nodes \/ ForgetPod(u, task[u].node))
        BY <2>2 DEF RejectFailedTask
      <3>2. task[u].node \in Nodes \cup {NoNode}
        BY DEF TypeOK, Task
      <3> QED
        BY <1>0, <3>1, <3>2, ForgetExact
    <2> QED
      BY ZenonT(30), <1>1, <1>4, <2>1, <2>2
         DEF PipelineStep, InitializeTask, CheckConflicts, MarkVictims, DeleteVictims, BindTask,
             PreemptionTimeout, RejectTimeOutUnit, cacheVars
  <1>5. CASE WorkerStep
    <2>1. ASSUME CleanupExpiredAssumedPods
          PROVE  EntriesExact(nodes)'
      <3> DEFINE gone(n) == {u \in due : podStates[u] = n}
      <3>1. \A n \in Nodes : gone(n) \in SUBSET Uids
        BY DEF TypeOK
      <3>2. live' = live
        BY <2>1 DEF CleanupExpiredAssumedPods
      <3>3. \/ nodes' = nodes
            \/ nodes' = [n \in Nodes |-> NodeStoreDeletePods(nodes, n, gone(n))[n]]
        BY <2>1 DEF CleanupExpiredAssumedPods, cacheVars
      <3> HIDE DEF gone
      <3>4. \A n \in Nodes : EntryExact(NodeStoreDeletePods(nodes, n, gone(n))[n], live[n])
        <4> SUFFICES ASSUME NEW n \in Nodes
                     PROVE  EntryExact(NodeStoreDeletePods(nodes, n, gone(n))[n], live[n])
          OBVIOUS
        <4>1. \A u \in Uids : EntriesExact(NodeStoreDeletePods(nodes, n, gone(n)))
          BY <3>1, RemoveExact DEF TypeOK
        <4>2. CASE Uids = {}
          BY <3>1, <4>2 DEF NodeStoreDeletePods, WithoutPods, EntriesExact, TypeOK
        <4> QED
          BY <4>1, <4>2 DEF EntriesExact
      <3>5. EntriesExact(nodes')
        BY <3>3, <3>4 DEF EntriesExact
      <3> QED
        BY <1>0, <3>2, <3>5
    <2> QED
      BY <1>1, <1>5, <2>1 DEF WorkerStep, DeadlinePasses, CleanupPodDeletionMarker
  <1>6. CASE NodeStep
    <2>1. PICK n \in Nodes \ SteadyNodes :
                 (\E k \in Kinds : SetNodeObject(n, k) \/ DeleteNode(n, k)) \/ DeleteCNR(n)
      BY <1>6 DEF NodeStep
    <2>2. /\ \A x \in Nodes : nodes[x] \in NodeInfo /\ live[x] \in SUBSET Kinds /\ EntryExact(nodes[x], live[x])
          /\ nodes \in [Nodes -> NodeInfo] /\ live \in [Nodes -> SUBSET Kinds]
      BY DEF TypeOK, EntriesExact
    <2>3. \A x \in Nodes : (nodes'[x] = nodes[x] /\ live'[x] = live[x]) \/ EntryExact(nodes'[x], live'[x])
      <3>1. ASSUME NEW k \in Kinds, SetNodeObject(n, k)
            PROVE  \A x \in Nodes : (nodes'[x] = nodes[x] /\ live'[x] = live[x]) \/ EntryExact(nodes'[x], live'[x])
        BY <2>2, <3>1, NodeObjectExact DEF SetNodeObject
      <3>2. ASSUME NEW k \in Kinds, DeleteNode(n, k)
            PROVE  \A x \in Nodes : (nodes'[x] = nodes[x] /\ live'[x] = live[x]) \/ EntryExact(nodes'[x], live'[x])
        BY <2>2, <3>2, NodeObjectExact DEF DeleteNode
      <3>3. ASSUME DeleteCNR(n)
            PROVE  \A x \in Nodes : (nodes'[x] = nodes[x] /\ live'[x] = live[x]) \/ EntryExact(nodes'[x], live'[x])
        <4>1. "CNR" \in Kinds
          BY DEF Kinds
        <4> QED
          BY <2>2, <3>3, <4>1, NodeObjectExact DEF DeleteCNR
      <3> QED
        BY <2>1, <3>1, <3>2, <3>3
    <2> QED
      BY <2>2, <2>3 DEF EntriesExact
  <1> QED
    BY <1>2, <1>3, <1>4, <1>5, <1>6 DEF Next

(* In every reachable state an entry of the node store has exactly the Node and
   NMNode objects delivered for its name, lives as long as an object or a pod
   needs it, and is in Deleted only while it cannot be scheduled on. *)
THEOREM NodeEntriesAlwaysExact == Spec => []NodeEntriesAreExact
  <1> DEFINE Inv == CacheInv /\ EntriesExact(nodes)
  <1>1. Init => Inv
    <2> SUFFICES ASSUME Init PROVE Inv
      OBVIOUS
    <2>1. EntriesExact(nodes)
      BY DEF Init, EntriesExact, EntryExact, SteadyNodeInfo, NewNodeInfo, ObjectIsNil
    <2> QED
      BY <2>1, CacheInvInit
  <1>2. Inv /\ [Next]_vars => Inv'
    <2> SUFFICES ASSUME Inv, [Next]_vars PROVE Inv'
      OBVIOUS
    <2>1. CASE UNCHANGED vars
      BY <2>1, CacheInvNext DEF EntriesExact, vars, cacheVars
    <2>2. CASE Next
      BY <2>2, CacheInvNext, EntriesNext
    <2> QED
      BY <2>1, <2>2
  <1>3. Inv => NodeEntriesAreExact
    BY EntriesExactMeans
  <1> QED
    BY <1>1, <1>2, <1>3, PTL DEF Spec



----------------------------------------------------------------------------
(* The order of a history. *)

LEMMA NotifyOrder ==
    ASSUME TypeOK, HistoryInv, OrderInv, NEW m \in Names, NEW o \in Object, Notify(m, o),
           IsPod(o) => \/ o.uid \notin used
                       \/ PodAt(m, Len(log[m]), o.uid) /\ (Lister(m).bound => o.bound)
    PROVE  OrderInv'
  <1> SUFFICES ASSUME NEW k \in Names, NEW j \in 1..Len(log'[k]), NEW i \in 1..j, NEW u \in Uids,
                      PodAt(k, i, u)', PodAt(k, j, u)'
               PROVE  /\ \A l \in i..j : PodAt(k, l, u)'
                      /\ log'[k][i].bound => log'[k][j].bound
    BY DEF OrderInv
  <1>1. CASE k # m
    <2>1. log'[k] = log[k]
      BY <1>1, NotifyFacts
    <2> QED
      BY SMT, <2>1 DEF OrderInv, PodAt
  <1>2. CASE k = m /\ j <= Len(log[m])
    <2>1. j \in 1..Len(log[m]) /\ i \in 1..Len(log[m]) /\ \A l \in i..j : l \in 1..Len(log[m])
      BY SMT, <1>2, ObjectFacts
    <2>2. \A l \in i..j : log'[m][l] = log[m][l]
      BY <2>1, NotifyFacts
    <2>3. log'[m][i] = log[m][i] /\ log'[m][j] = log[m][j]
      BY <2>1, NotifyFacts
    <2>4. PodAt(m, i, u) /\ PodAt(m, j, u)
      BY <1>2, <2>3 DEF PodAt
    <2>5. (\A l \in i..j : PodAt(m, l, u)) /\ (log[m][i].bound => log[m][j].bound)
      BY <2>1, <2>4 DEF OrderInv
    <2> QED
      BY <1>2, <2>2, <2>3, <2>5 DEF PodAt
  <1>3. CASE k = m /\ j = Len(log[m]) + 1 /\ i = j
    <2>1. \A l \in i..j : l = j
      BY SMT, <1>3, ObjectFacts
    <2> QED
      BY <1>3, <2>1
  <1>4. CASE k = m /\ j = Len(log[m]) + 1 /\ i <= Len(log[m])
    <2> DEFINE last == Len(log[m])
    <2>1. last \in 1..last /\ i \in 1..last /\ (\A l \in i..j : l \in i..last \/ l = j)
          /\ \A l \in i..last : l \in 1..last
      BY SMT, <1>4, ObjectFacts
    <2>2. /\ \A l \in 1..last : log'[m][l] = log[m][l]
          /\ log'[m][j] = o
      BY <1>4, NotifyFacts
    <2>3. IsPod(o) /\ o.uid = u /\ PodAt(m, i, u)
      BY <1>4, <2>1, <2>2 DEF PodAt
    <2>4. u \in used
      BY <2>1, <2>3 DEF HistoryInv
    <2>5. PodAt(m, last, u) /\ (log[m][last].bound => o.bound)
      BY <2>3, <2>4 DEF Lister
    <2>6. (\A l \in i..last : PodAt(m, l, u)) /\ (log[m][i].bound => log[m][last].bound)
      BY <2>1, <2>3, <2>5 DEF OrderInv
    <2>7. \A l \in i..last : PodAt(m, l, u)'
      BY <2>1, <2>2, <2>6 DEF PodAt
    <2>8. log'[m][i] = log[m][i]
      BY <2>1, <2>2
    <2> HIDE DEF last
    <2>9. \A l \in i..j : PodAt(m, l, u)'
      BY <1>4, <2>1, <2>7
    <2> QED
      BY <1>4, <2>2, <2>5, <2>6, <2>8, <2>9
  <1> QED
    BY SMT, <1>1, <1>2, <1>3, <1>4, NotifyFacts, ObjectFacts

LEMMA HandledOrder ==
    ASSUME TypeOK, OrderInv, NEW m \in Names, Pending(m), Handled(m)
    PROVE  OrderInv'
  <1> SUFFICES ASSUME NEW k \in Names, NEW j \in 1..Len(log'[k]), NEW i \in 1..j, NEW u \in Uids,
                      PodAt(k, i, u)', PodAt(k, j, u)'
               PROVE  /\ \A l \in i..j : PodAt(k, l, u)'
                      /\ log'[k][i].bound => log'[k][j].bound
    BY DEF OrderInv
  <1>1. CASE k # m
    <2>1. log'[k] = log[k]
      BY <1>1, HandledFacts
    <2> QED
      BY SMT, <2>1 DEF OrderInv, PodAt
  <1>2. CASE k = m
    <2>1. /\ j \in 1..Len(log[m]) - 1 /\ j + 1 \in 1..Len(log[m]) /\ i + 1 \in 1..(j + 1)
          /\ i \in 1..Len(log[m]) - 1
          /\ \A l \in i..j : l \in 1..Len(log[m]) - 1 /\ l + 1 \in (i + 1)..(j + 1)
      BY SMT, <1>2, HandledFacts, ObjectFacts
    <2>2. \A l \in i..j : log'[m][l] = log[m][l + 1]
      BY <2>1, HandledFacts
    <2>3. log'[m][i] = log[m][i + 1] /\ log'[m][j] = log[m][j + 1]
      BY <2>1, HandledFacts
    <2>4. PodAt(m, i + 1, u) /\ PodAt(m, j + 1, u)
      BY <1>2, <2>3 DEF PodAt
    <2>5. /\ \A l \in (i + 1)..(j + 1) : PodAt(m, l, u)
          /\ log[m][i + 1].bound => log[m][j + 1].bound
      BY <2>1, <2>4 DEF OrderInv
    <2>6. \A l \in i..j : PodAt(m, l + 1, u)
      BY <2>1, <2>5
    <2> QED
      BY <1>2, <2>2, <2>3, <2>5, <2>6 DEF PodAt
  <1> QED
    BY <1>1, <1>2

LEMMA OrderNext ==
    ASSUME CacheInv, OrderInv, Next
    PROVE  OrderInv'
  <1> USE DEF CacheInv
  <1>0. CASE UNCHANGED log
    BY SMT, <1>0 DEF OrderInv, PodAt
  <1>1. ASSUME NEW u \in Uids, NEW b \in BOOLEAN, NEW n \in Nodes, Appear(u, b, n)
        PROVE  OrderInv'
    <2> DEFINE o == [uid |-> u, bound |-> b]
    <2>1. o \in Object /\ o.uid = u /\ NameOf[u] \in Names /\ u \notin used /\ Notify(NameOf[u], o)
      BY <1>1, NameOfAssumption DEF Object, PodObj, Appear
    <2> HIDE DEF o
    <2> QED
      BY <2>1, NotifyOrder
  <1>2. ASSUME NEW u \in Uids, NEW n \in Nodes, BoundAtAPI(u, n)
        PROVE  OrderInv'
    <2> DEFINE o == [uid |-> u, bound |-> TRUE]
    <2>1. o \in Object /\ o.uid = u /\ o.bound /\ Present(u) /\ Notify(NameOf[u], o)
      BY <1>2 DEF Object, PodObj, BoundAtAPI
    <2> HIDE DEF o
    <2> QED
      BY <2>1, PresentFacts, NotifyOrder
  <1>3. ASSUME NEW u \in Uids, PodTouched(u) \/ PodDeleted(u)
        PROVE  OrderInv'
    <2>1. Present(u) /\ (Notify(NameOf[u], Lister(NameOf[u])) \/ Notify(NameOf[u], NoPod))
      BY <1>3 DEF PodTouched, PodDeleted
    <2>2. Lister(NameOf[u]) \in Object /\ NoPod \in Object /\ ~IsPod(NoPod)
      BY <2>1, PresentFacts DEF Object, IsPod
    <2> QED
      BY <2>1, <2>2, PresentFacts, NotifyOrder
  <1>4. CASE InformerStep
    BY ZenonT(30), <1>1, <1>2, <1>3, <1>4 DEF InformerStep, PodCreated, PodReplaced, PodBound
  <1>5. CASE HandlerStep
    BY ZenonT(30), <1>0, <1>5, HandledOrder
       DEF HandlerStep, AddPod, UpdatePod, DeletePod, DequeueBound, DequeueDeleted, apiVars
  <1>6. CASE PipelineStep
    <2>1. ASSUME NEW u \in Uids, NEW applied \in BOOLEAN, NEW ok \in BOOLEAN, BindTask(u, applied, ok)
          PROVE  OrderInv'
      <3>1. task[u].node \in Nodes
        BY <2>1 DEF BindTask, ReadyToBind, TaskInv, TypeOK, Task
      <3> QED
        BY <1>0, <1>2, <2>1, <3>1 DEF BindTask, apiVars
    <2> QED
      BY ZenonT(30), <1>0, <1>6, <2>1
         DEF PipelineStep, InitializeTask, CheckConflicts, MarkVictims, AssumePod, DeleteVictims,
             PreemptionTimeout, RejectTimeOutUnit, RejectFailedTask, apiVars
  <1>7. CASE WorkerStep \/ NodeStep
    BY <1>0, <1>7 DEF WorkerStep, DeadlinePasses, CleanupExpiredAssumedPods, CleanupPodDeletionMarker,
                      NodeStep, SetNodeObject, DeleteNode, DeleteCNR, NodeUnchanged, apiVars
  <1> QED
    BY <1>4, <1>5, <1>6, <1>7 DEF Next

----------------------------------------------------------------------------
(* The cache and the last event the handler saw of every name. *)

LEMMA NotifySeen ==
    ASSUME TypeOK, NEW m \in Names, NEW o \in Object, Notify(m, o)
    PROVE  \A v \in Uids : SeenBound(v)' <=> SeenBound(v)
  <1>1. \A k \in Names : log'[k][1] = log[k][1]
    BY SMT, NotifyFacts, ObjectFacts
  <1> QED
    BY <1>1, NameOfAssumption DEF SeenBound, PodAt

(* An event is of the pods of its name, and a pod that appears bound is not
   cached before. *)
LEMMA EventSeen ==
    ASSUME TypeOK, HistoryInv, FreshInv, NEW m \in Names, Pending(m), Handled(m)
    PROVE  /\ home' = home
           /\ IsPod(Old(m)) => Old(m) \in PodObj /\ Old(m).uid \in Uids /\ NameOf[Old(m).uid] = m
           /\ IsPod(New(m)) => New(m) \in PodObj /\ New(m).uid \in Uids /\ NameOf[New(m).uid] = m
           /\ \A v \in Uids : NameOf[v] # m => (SeenBound(v)' <=> SeenBound(v))
           /\ \A v \in Uids : NameOf[v] = m =>
                /\ SeenBound(v)' <=> IsPod(New(m)) /\ New(m).uid = v /\ New(m).bound
                /\ SeenBound(v) <=> IsPod(Old(m)) /\ Old(m).uid = v /\ Old(m).bound
           /\ IsPod(New(m)) /\ New(m).bound /\ ~PodAt(m, 1, New(m).uid) => ~Cached(New(m).uid)
  <1>1. 1 \in 1..Len(log[m]) - 1 /\ 1 \in 1..Len(log[m]) /\ 2 \in 1..Len(log[m])
        /\ 2 \in 2..Len(log[m]) /\ 2 - 1 = 1 /\ 1 + 1 = 2
    BY SMT, ObjectFacts DEF Pending
  <1>2. log'[m][1] = New(m) /\ \A k \in Names \ {m} : log'[k] = log[k]
    BY <1>1, HandledFacts DEF New
  <1>3. /\ IsPod(Old(m)) => Old(m) \in PodObj /\ Old(m).uid \in Uids /\ PodAt(m, 1, Old(m).uid)
        /\ IsPod(New(m)) => New(m) \in PodObj /\ New(m).uid \in Uids /\ PodAt(m, 2, New(m).uid)
    BY EventFacts DEF PodObj
  <1>4. /\ IsPod(Old(m)) => NameOf[Old(m).uid] = m
        /\ IsPod(New(m)) => NameOf[New(m).uid] = m
    BY <1>1, <1>3 DEF HistoryInv
  <1>5. \A v \in Uids : NameOf[v] # m => (SeenBound(v)' <=> SeenBound(v))
    BY <1>2, NameOfAssumption DEF SeenBound, PodAt
  <1>6. \A v \in Uids : NameOf[v] = m =>
           /\ SeenBound(v)' <=> IsPod(New(m)) /\ New(m).uid = v /\ New(m).bound
           /\ SeenBound(v) <=> IsPod(Old(m)) /\ Old(m).uid = v /\ Old(m).bound
    BY <1>2 DEF SeenBound, PodAt, Old
  <1>7. ASSUME IsPod(New(m)), New(m).bound, ~PodAt(m, 1, New(m).uid)
        PROVE  ~Cached(New(m).uid)
    <2>1. PodAt(m, 2, New(m).uid) /\ log[m][2].bound
      BY <1>3, <1>7 DEF New
    <2>2. BornBound(New(m).uid)
      BY <1>1, <1>7, <2>1 DEF BornBound
    <2> QED
      BY <1>3, <1>7, <2>2 DEF FreshInv, Fresh
  <1> QED
    BY <1>3, <1>4, <1>5, <1>6, <1>7 DEF Handled

(* A step that leaves the pod store and the nodes of bound pods alone. *)
LEMMA QuietHandled ==
    ASSUME HandledInv, UNCHANGED <<podStates, assumed>>, due' \subseteq assumed,
           \A v \in Uids : SeenBound(v)' <=> SeenBound(v),
           \A v \in Uids : SeenBound(v) => home'[v] = home[v]
    PROVE  HandledInv'
  BY DEF HandledInv, Cached

LEMMA EventHandled ==
    ASSUME CacheInv, HandledInv, NEW m \in Names, AddPod(m) \/ UpdatePod(m) \/ DeletePod(m)
    PROVE  HandledInv'
  <1> USE DEF CacheInv
  <1>0. Pending(m) /\ Handled(m)
    BY DEF AddPod, UpdatePod, DeletePod
  <1>1. assumed \subseteq {u \in Uids : Cached(u)}
    BY DEF AssumedPodsConsistent
  <1>2. CASE AddPod(m)
    <2>1. /\ UNCHANGED <<assumed, due>> /\ ~IsPod(Old(m)) /\ IsPod(New(m))
          /\ IF New(m).bound /\ ~Cached(New(m).uid)
             THEN podStates' = [podStates EXCEPT ![New(m).uid] = home[New(m).uid]]
             ELSE podStates' = podStates
      BY <1>2 DEF AddPod
    <2>2. New(m).bound => ~Cached(New(m).uid)
      BY <1>0, <2>1, EventSeen DEF PodAt, Old
    <2>3. /\ home' = home /\ New(m).uid \in Uids /\ NameOf[New(m).uid] = m
          /\ \A v \in Uids : NameOf[v] # m => (SeenBound(v)' <=> SeenBound(v))
      BY <1>0, <2>1, EventSeen
    <2>4. \A v \in Uids : NameOf[v] = m =>
            ~SeenBound(v) /\ (SeenBound(v)' <=> New(m).uid = v /\ New(m).bound)
      BY <1>0, <2>1, EventSeen
    <2>5. \A v \in Uids : podStates'[v] = IF v = New(m).uid /\ New(m).bound THEN home[v] ELSE podStates[v]
      BY SMT, <2>1, <2>2, <2>3 DEF TypeOK
    <2>6. ASSUME NEW v \in Uids
          PROVE  /\ SeenBound(v)' => podStates'[v] = home'[v] /\ v \notin assumed'
                 /\ podStates'[v] # NoNode /\ v \notin assumed' => SeenBound(v)'
      <3>1. CASE v = New(m).uid /\ New(m).bound
        <4>1. v \notin assumed
          BY <1>1, <2>2, <3>1
        <4> QED
          BY <2>1, <2>3, <2>4, <2>5, <3>1, <4>1
      <3>2. CASE ~(v = New(m).uid /\ New(m).bound)
        <4>1. podStates'[v] = podStates[v] /\ (SeenBound(v)' <=> SeenBound(v))
          <5>1. podStates'[v] = podStates[v]
            BY <2>5, <3>2
          <5>2. CASE NameOf[v] = m
            BY <2>4, <3>2, <5>1, <5>2 DEF HandledInv
          <5>3. CASE NameOf[v] # m
            BY <2>3, <5>1, <5>3
          <5> QED
            BY <5>2, <5>3
        <4> QED
          BY <2>1, <2>3, <4>1 DEF HandledInv, Cached
      <3> QED
        BY <3>1, <3>2
    <2>7. due' \subseteq assumed'
      BY <2>1 DEF HandledInv
    <2> QED
      BY <2>6, <2>7 DEF HandledInv, Cached
  <1>3. CASE UpdatePod(m) /\ IgnoredUpdate(Old(m), New(m))
    <2>1. UNCHANGED <<podStates, assumed, due>> /\ IsPod(Old(m)) /\ IsPod(New(m)) /\ ~Old(m).bound /\ ~New(m).bound
      BY <1>3 DEF UpdatePod, IgnoredUpdate, cacheVars
    <2> QED
      BY SMT, <1>0, <2>1, EventSeen DEF HandledInv, Cached
  <1>4. CASE UpdatePod(m) /\ ~IgnoredUpdate(Old(m), New(m))
    <2> DEFINE old == Old(m)  new == New(m)  gone == {u \in {old.uid} : Cached(u)}
    <2>1. /\ IsPod(old) /\ IsPod(new) /\ podStates' = PodStoreUpdatePod(old, new)
          /\ assumed' = assumed \ gone /\ due' = due \ gone
      BY <1>4 DEF UpdatePod
    <2>2. old \in PodObj /\ new \in PodObj /\ old.uid \in Uids /\ new.uid \in Uids
          /\ NameOf[old.uid] = m /\ NameOf[new.uid] = m
      BY <1>0, <2>1, EventSeen
    <2>3. \A v \in Uids : podStates'[v] =
             IF v = new.uid /\ new.bound /\ (v = old.uid \/ ~Cached(v)) THEN home[v]
             ELSE IF v = old.uid THEN NoNode ELSE podStates[v]
      BY <2>1, <2>2, PodStoreUpdateFacts
    <2>4. new.bound => new.uid = old.uid \/ ~Cached(new.uid)
      BY <1>0, <2>1, EventSeen DEF PodAt, Old
    <2>5. \A v \in Uids : v \in assumed' <=> v \in assumed /\ v # old.uid
      BY <1>1, <2>1
    <2>6. due' \subseteq assumed'
      BY <2>1 DEF HandledInv
    <2>7. \A v \in Uids : NameOf[v] = m =>
            /\ SeenBound(v)' <=> new.uid = v /\ new.bound
            /\ SeenBound(v) <=> old.uid = v /\ old.bound
      <3>1. /\ home' = home
            /\ \A v \in Uids : NameOf[v] = m =>
                 /\ SeenBound(v)' <=> IsPod(New(m)) /\ New(m).uid = v /\ New(m).bound
                 /\ SeenBound(v) <=> IsPod(Old(m)) /\ Old(m).uid = v /\ Old(m).bound
        BY <1>0, EventSeen
      <3> QED
        BY <2>1, <3>1
    <2>8. home' = home /\ \A v \in Uids : NameOf[v] # m => (SeenBound(v)' <=> SeenBound(v))
      BY <1>0, EventSeen
    <2> HIDE DEF old, new, gone
    <2>9. ASSUME NEW v \in Uids
          PROVE  /\ SeenBound(v)' => podStates'[v] = home'[v] /\ v \notin assumed'
                 /\ podStates'[v] # NoNode /\ v \notin assumed' => SeenBound(v)'
      <3>1. CASE NameOf[v] # m
        BY <2>2, <2>3, <2>5, <2>8, <3>1 DEF HandledInv, Cached
      <3>2. CASE NameOf[v] = m
        BY SMT, <1>1, <2>2, <2>3, <2>4, <2>5, <2>7, <2>8, <3>2 DEF HandledInv, Cached
      <3> QED
        BY <3>1, <3>2
    <2> QED
      BY <2>6, <2>9 DEF HandledInv, Cached
  <1>5. CASE DeletePod(m)
    <2>1. /\ IsPod(Old(m)) /\ ~IsPod(New(m))
          /\ \/ UNCHANGED <<podStates, assumed, due>> /\ ~Cached(Old(m).uid)
             \/ PodStoreDeletePods({Old(m).uid})
      BY <1>5 DEF DeletePod, cacheVars, Cached
    <2>2. \A v \in Uids : NameOf[v] = m => ~SeenBound(v)' /\ (SeenBound(v) <=> Old(m).uid = v /\ Old(m).bound)
      BY <1>0, <2>1, EventSeen
    <2>3. /\ home' = home /\ Old(m).uid \in Uids /\ NameOf[Old(m).uid] = m
          /\ \A v \in Uids : NameOf[v] # m => (SeenBound(v)' <=> SeenBound(v))
      BY <1>0, <2>1, EventSeen
    <2>4. CASE UNCHANGED <<podStates, assumed, due>> /\ ~Cached(Old(m).uid)
      BY <2>2, <2>3, <2>4 DEF HandledInv, Cached
    <2>5. CASE PodStoreDeletePods({Old(m).uid})
      BY <2>2, <2>3, <2>5 DEF HandledInv, Cached, PodStoreDeletePods
    <2> QED
      BY <2>1, <2>4, <2>5
  <1> QED
    BY <1>2, <1>3, <1>4, <1>5

(* A pod that gets bound now was not seen bound before. *)
LEMMA BoundSeen ==
    ASSUME FollowInv, NEW u \in Uids, NEW n \in Nodes, BoundAtAPI(u, n)
    PROVE  /\ \A v \in Uids : SeenBound(v)' <=> SeenBound(v)
           /\ \A v \in Uids : SeenBound(v) => home'[v] = home[v]
  <1> USE DEF FollowInv, CacheInv
  <1> DEFINE m == NameOf[u]
  <1>1. /\ [uid |-> u, bound |-> TRUE] \in Object /\ m \in Names
        /\ Len(log[m]) \in 1..Len(log[m]) /\ 1 \in 1..Len(log[m])
    BY SMT, NameOfAssumption, ObjectFacts DEF Object, PodObj
  <1>2. Present(u) /\ ~log[m][Len(log[m])].bound
    BY DEF BoundAtAPI, Lister
  <1>3. PodAt(m, Len(log[m]), u)
    BY <1>2, PresentFacts
  <1>4. ~SeenBound(u)
    BY <1>1, <1>2, <1>3 DEF SeenBound, OrderInv
  <1>5. \A v \in Uids : SeenBound(v)' <=> SeenBound(v)
    BY <1>1, NotifySeen DEF BoundAtAPI
  <1> QED
    BY <1>4, <1>5 DEF BoundAtAPI, TypeOK

LEMMA InformerHandled ==
    ASSUME FollowInv, InformerStep
    PROVE  HandledInv'
  <1> USE DEF FollowInv, CacheInv
  <1>0. due \subseteq assumed
    BY DEF HandledInv
  <1>1. ASSUME NEW u \in Uids, NEW b \in BOOLEAN, NEW n \in Nodes, PodCreated(u, b, n) \/ PodReplaced(u, b, n)
        PROVE  HandledInv'
    <2>1. Appear(u, b, n) /\ UNCHANGED <<podStates, assumed, due>>
      BY <1>1 DEF PodCreated, PodReplaced, cacheVars
    <2>2. NameOf[u] \in Names /\ [uid |-> u, bound |-> b] \in Object
      BY NameOfAssumption DEF Object, PodObj
    <2>3. 1 \in 1..Len(log[NameOf[u]])
      BY SMT, <2>2, ObjectFacts
    <2>4. \A v \in Uids : SeenBound(v)' <=> SeenBound(v)
      BY <2>1, <2>2, NotifySeen DEF Appear
    <2>5. ~SeenBound(u)
      BY <2>1, <2>2, <2>3 DEF SeenBound, HistoryInv, Appear
    <2>6. \A v \in Uids : SeenBound(v) => home'[v] = home[v]
      BY <2>1, <2>5 DEF Appear, TypeOK
    <2> QED
      BY <1>0, <2>1, <2>4, <2>6, QuietHandled
  <1>2. ASSUME NEW u \in Uids, NEW n \in Nodes, PodBound(u, n)
        PROVE  HandledInv'
    BY <1>0, <1>2, BoundSeen, QuietHandled DEF PodBound, cacheVars
  <1>3. ASSUME NEW u \in Uids, PodTouched(u) \/ PodDeleted(u)
        PROVE  HandledInv'
    <2>1. /\ UNCHANGED <<podStates, assumed, due, home>> /\ Present(u)
          /\ Notify(NameOf[u], Lister(NameOf[u])) \/ Notify(NameOf[u], NoPod)
      BY <1>3 DEF PodTouched, PodDeleted, cacheVars
    <2>2. Lister(NameOf[u]) \in Object /\ NoPod \in Object /\ NameOf[u] \in Names
      BY <2>1, PresentFacts DEF Object
    <2> QED
      BY <1>0, <2>1, <2>2, NotifySeen, QuietHandled
  <1> QED
    BY <1>1, <1>2, <1>3 DEF InformerStep

LEMMA HandledNext ==
    ASSUME FollowInv, Next
    PROVE  HandledInv'
  <1> USE DEF FollowInv, CacheInv
  <1>0. due \subseteq assumed /\ assumed \subseteq {u \in Uids : Cached(u)}
    BY DEF HandledInv, AssumedPodsConsistent
  <1>1. CASE UNCHANGED <<log, home, podStates, assumed>> /\ due' \subseteq assumed
    BY <1>1, QuietHandled DEF SeenBound, PodAt
  <1>2. ASSUME NEW u \in Uids, NEW n \in Nodes \cup {NoNode}, ForgetPod(u, n), UNCHANGED apiVars
        PROVE  HandledInv'
    <2>1. \/ UNCHANGED <<podStates, assumed, due>>
          \/ u \in assumed /\ PodStoreDeletePods({u})
      BY <1>2 DEF ForgetPod
    <2>2. UNCHANGED <<log, home>> /\ \A v \in Uids : SeenBound(v)' <=> SeenBound(v)
      BY <1>2 DEF SeenBound, PodAt, apiVars
    <2>3. CASE UNCHANGED <<podStates, assumed, due>>
      BY <1>0, <1>1, <2>2, <2>3
    <2>4. CASE u \in assumed /\ PodStoreDeletePods({u})
      BY <2>2, <2>4 DEF HandledInv, PodStoreDeletePods, Cached
    <2> QED
      BY <2>1, <2>3, <2>4
  <1>3. CASE HandlerStep
    <2>1. ASSUME NEW u \in Uids, DequeueBound(u) \/ DequeueDeleted(u)
          PROVE  HandledInv'
      <3>1. podStates[u] \in Nodes \cup {NoNode}
        BY DEF TypeOK
      <3> QED
        BY <1>0, <1>1, <1>2, <2>1, <3>1 DEF DequeueBound, DequeueDeleted, cacheVars, apiVars
    <2> QED
      BY <1>3, <2>1, EventHandled DEF HandlerStep
  <1>4. CASE PipelineStep
    <2>1. ASSUME NEW u \in Uids, NEW ok \in BOOLEAN, AssumePod(u, ok)
          PROVE  HandledInv'
      <3>1. CASE ~ok \/ Cached(u)
        BY <1>0, <1>1, <2>1, <3>1 DEF AssumePod, apiVars
      <3>2. CASE ok /\ ~Cached(u)
        <4>1. /\ podStates' = [podStates EXCEPT ![u] = task[u].node]
              /\ assumed' = assumed \cup {u} /\ UNCHANGED <<log, home, due>>
          BY <2>1, <3>2 DEF AssumePod, apiVars
        <4>2. ~SeenBound(u)
          <5>1. NameOf[u] \in Names /\ 1 \in 1..Len(log[NameOf[u]])
            BY SMT, NameOfAssumption, ObjectFacts
          <5>2. SeenBound(u) => home[u] # NoNode
            BY <5>1 DEF SeenBound, HistoryInv
          <5> QED
            BY <3>2, <5>2 DEF HandledInv, Cached
        <4>3. \A v \in Uids : SeenBound(v)' <=> SeenBound(v)
          BY <4>1 DEF SeenBound, PodAt
        <4>4. \A v \in Uids \ {u} : podStates'[v] = podStates[v]
          BY <4>1 DEF TypeOK
        <4> QED
          BY <4>1, <4>2, <4>3, <4>4 DEF HandledInv, Cached
      <3> QED
        BY <3>1, <3>2
    <2>2. ASSUME NEW u \in Uids, NEW applied \in BOOLEAN, NEW ok \in BOOLEAN, BindTask(u, applied, ok)
          PROVE  HandledInv'
      <3>1. task[u].node \in Nodes /\ UNCHANGED <<podStates, assumed>> /\ due' \subseteq assumed
        BY <1>0, <2>2 DEF BindTask, ReadyToBind, FinishBinding, TaskInv, TypeOK, Task
      <3>2. BoundAtAPI(u, task[u].node) \/ UNCHANGED <<log, home>>
        BY <2>2 DEF BindTask, apiVars
      <3> QED
        BY <1>1, <3>1, <3>2, BoundSeen, QuietHandled
    <2>3. ASSUME NEW u \in Uids, RejectFailedTask(u)
          PROVE  HandledInv'
      <3>1. task[u].node \in Nodes \cup {NoNode}
        BY DEF TypeOK, Task
      <3> QED
        BY <1>0, <1>1, <1>2, <2>3, <3>1 DEF RejectFailedTask, apiVars
    <2> QED
      BY ZenonT(30), <1>0, <1>1, <1>4, <2>1, <2>2, <2>3
         DEF PipelineStep, InitializeTask, CheckConflicts, MarkVictims, DeleteVictims,
             PreemptionTimeout, RejectTimeOutUnit, apiVars, cacheVars
  <1>5. CASE WorkerStep
    <2>1. ASSUME CleanupExpiredAssumedPods
          PROVE  HandledInv'
      <3>1. UNCHANGED <<log, home>> /\ (UNCHANGED <<podStates, assumed, due>> \/ PodStoreDeletePods(due))
        BY <2>1 DEF CleanupExpiredAssumedPods, cacheVars, apiVars
      <3>2. home' = home /\ \A v \in Uids : SeenBound(v)' <=> SeenBound(v)
        BY <3>1 DEF SeenBound, PodAt
      <3>3. CASE UNCHANGED <<podStates, assumed, due>>
        BY <3>2, <3>3 DEF HandledInv, Cached
      <3>4. CASE PodStoreDeletePods(due)
        BY <3>2, <3>4 DEF HandledInv, PodStoreDeletePods, Cached
      <3> QED
        BY <3>1, <3>3, <3>4
    <2> QED
      BY <1>0, <1>1, <1>5, <2>1 DEF WorkerStep, DeadlinePasses, CleanupPodDeletionMarker, apiVars
  <1>6. CASE NodeStep
    BY ZenonT(30), <1>0, <1>1, <1>6 DEF NodeStep, SetNodeObject, DeleteNode, DeleteCNR, NodeUnchanged, apiVars
  <1> QED
    BY <1>3, <1>4, <1>5, <1>6, InformerHandled DEF Next

LEMMA FollowInvInit == Init => FollowInv
  <1> SUFFICES ASSUME Init PROVE FollowInv
    OBVIOUS
  <1>1. \A m \in Names : log[m] = <<NoPod>> /\ Len(log[m]) = 1 /\ log[m][1] = NoPod
    BY DEF Init
  <1>2. OrderInv
    BY SMT, <1>1 DEF OrderInv, PodAt, IsPod
  <1>3. HandledInv
    <2>1. \A u \in Uids : ~SeenBound(u)
      BY <1>1, NameOfAssumption DEF SeenBound, PodAt, IsPod
    <2>2. due = {} /\ assumed = {} /\ \A u \in Uids : ~Cached(u)
      BY DEF Init, Cached
    <2> QED
      BY <2>1, <2>2 DEF HandledInv
  <1> QED
    BY <1>2, <1>3, CacheInvInit DEF FollowInv

LEMMA FollowInvNext == FollowInv /\ [Next]_vars => FollowInv'
  <1> SUFFICES ASSUME FollowInv, [Next]_vars PROVE FollowInv'
    OBVIOUS
  <1>1. CacheInv'
    BY CacheInvNext DEF FollowInv
  <1>2. CASE UNCHANGED vars
    <2>1. UNCHANGED <<log, home, podStates, assumed, due>>
      BY <1>2 DEF vars, apiVars, cacheVars
    <2>2. OrderInv'
      BY SMT, <2>1 DEF FollowInv, OrderInv, PodAt
    <2>3. \A u \in Uids : (SeenBound(u)' <=> SeenBound(u)) /\ (Cached(u)' <=> Cached(u))
      BY <2>1 DEF SeenBound, PodAt, Cached
    <2>4. HandledInv'
      BY <2>1, <2>3 DEF FollowInv, HandledInv
    <2> QED
      BY <1>1, <2>2, <2>4 DEF FollowInv
  <1>3. CASE Next
    BY <1>1, <1>3, OrderNext, HandledNext DEF FollowInv
  <1> QED
    BY <1>2, <1>3

(* FollowInv holds in every reachable state, relists or not. *)
THEOREM FollowInvariant == Spec => []FollowInv
  BY FollowInvInit, FollowInvNext, PTL DEF Spec

(* Whenever the cache handler has caught up with a name, its bound pod is
   accounted on the node it is bound to, and of the pods that are not assumed
   it is the only one cached: nothing is lost or left behind by late, merged
   or ignored events. *)
THEOREM CacheAlwaysFollowsInformer == Spec => []CacheFollowsInformer
  <1>1. FollowInv => CacheFollowsInformer
    <2> SUFFICES ASSUME FollowInv, NEW u \in Uids, ~Pending(NameOf[u])
                 PROVE  /\ Present(u) /\ Lister(NameOf[u]).bound => podStates[u] = home[u] /\ u \notin assumed
                        /\ Cached(u) /\ u \notin assumed => Present(u) /\ Lister(NameOf[u]).bound
      BY DEF CacheFollowsInformer
    <2>0. TypeOK /\ NameOf[u] \in Names
      BY NameOfAssumption DEF FollowInv, CacheInv
    <2>1. \A k \in Nat : k >= 1 => k > 1 \/ k = 1
      BY SMT
    <2>2. Len(log[NameOf[u]]) = 1
      BY Zenon, <2>0, <2>1, ObjectFacts DEF Pending
    <2>3. Present(u) /\ Lister(NameOf[u]).bound <=> SeenBound(u)
      BY <2>2 DEF Present, Lister, SeenBound, PodAt
    <2> QED
      BY <2>3 DEF FollowInv, HandledInv
  <1> QED
    BY <1>1, FollowInvariant, PTL

(* The events of a pod that ends an assumption: the pod is bound or gone. *)
LEMMA EventCause ==
    ASSUME FollowInv, NEW m \in Names, UpdatePod(m) \/ DeletePod(m), NEW u \in assumed \ assumed'
    PROVE  home[u] # NoNode \/ ~Present(u)
  <1> USE DEF FollowInv, CacheInv
  <1>1. Pending(m) /\ IsPod(Old(m)) /\ u = Old(m).uid /\ u \in Uids
    BY DEF UpdatePod, DeletePod, PodStoreDeletePods, cacheVars, TypeOK
  <1>2. 1 \in 1..Len(log[m]) /\ 2 \in 1..Len(log[m]) /\ Len(log[m]) \in 1..Len(log[m])
    <2>1. Len(log[m]) \in Nat /\ Len(log[m]) > 1
      BY <1>1, ObjectFacts DEF Pending
    <2> QED
      BY SMT, <2>1
  <1>3. PodAt(m, 1, u) /\ NameOf[u] = m
    <2>1. PodAt(m, 1, u)
      BY <1>1 DEF PodAt, Old
    <2> QED
      BY <1>1, <1>2, <2>1 DEF HistoryInv
  <1>4. Present(u) => PodAt(m, 2, u)
    <2> SUFFICES ASSUME Present(u) PROVE PodAt(m, 2, u)
      OBVIOUS
    <2>1. PodAt(m, Len(log[m]), u)
      BY <1>1, <1>3, PresentFacts
    <2> QED
      BY <1>1, <1>2, <1>3, <2>1 DEF OrderInv
  <1>5. CASE DeletePod(m)
    BY <1>4, <1>5 DEF DeletePod, PodAt, New
  <1>6. CASE UpdatePod(m)
    <2>1. ~IgnoredUpdate(Old(m), New(m))
      BY <1>6 DEF UpdatePod, cacheVars
    <2>2. Old(m).bound \/ New(m).bound
      BY <1>1, <2>1 DEF IgnoredUpdate
    <2>3. \A j \in 1..Len(log[m]) : PodAt(m, j, u) /\ log[m][j].bound => home[u] # NoNode
      BY <1>1 DEF HistoryInv
    <2>4. CASE Old(m).bound
      BY <1>2, <1>3, <2>3, <2>4 DEF Old
    <2>5. CASE New(m).bound /\ Present(u)
      BY <1>2, <1>4, <2>3, <2>5 DEF New
    <2> QED
      BY <2>2, <2>4, <2>5
  <1> QED
    BY <1>5, <1>6

(* No step ends the assumption of a pod unless the pod got bound, is gone, its
   task failed or its deadline passed: in particular no update of a pod that
   stays unbound does, however late it is handled. *)
THEOREM AssumptionsEndForACause == Spec => AssumptionEndsForACause
  <1> DEFINE Cause(u) == \/ home[u] # NoNode
                         \/ ~Present(u)
                         \/ task[u].stage = "failed"
                         \/ u \in due
  <1>1. FollowInv /\ [Next]_vars => [\A u \in assumed \ assumed' : Cause(u)]_vars
    <2> SUFFICES ASSUME FollowInv, Next, NEW u \in assumed \ assumed'
                 PROVE  Cause(u)
      OBVIOUS
    <2>0. u \in Uids
      BY DEF FollowInv, CacheInv, TypeOK
    <2>1. ASSUME NEW v \in Uids, NEW n, ForgetPod(v, n)
          PROVE  u = v
      BY <2>1 DEF ForgetPod, PodStoreDeletePods
    <2>2. CASE InformerStep
      BY ZenonT(30), <2>2 DEF InformerStep, PodCreated, PodReplaced, PodBound, PodTouched, PodDeleted, cacheVars
    <2>3. CASE HandlerStep
      <3>1. ASSUME NEW v \in Uids, DequeueBound(v) \/ DequeueDeleted(v)
            PROVE  Cause(u)
        BY <2>1, <3>1 DEF DequeueBound, DequeueDeleted, cacheVars
      <3>2. ASSUME NEW m \in Names, AddPod(m) \/ UpdatePod(m) \/ DeletePod(m)
            PROVE  Cause(u)
        BY <3>2, EventCause DEF AddPod
      <3> QED
        BY <2>3, <3>1, <3>2 DEF HandlerStep
    <2>4. CASE PipelineStep
      <3>1. ASSUME NEW v \in Uids, RejectFailedTask(v)
            PROVE  Cause(u)
        BY <2>1, <3>1 DEF RejectFailedTask
      <3>2. ASSUME NEW v \in Uids, NEW ok \in BOOLEAN, AssumePod(v, ok)
            PROVE  Cause(u)
        BY <3>2 DEF AssumePod
      <3> QED
        BY ZenonT(30), <2>4, <3>1, <3>2
           DEF PipelineStep, InitializeTask, CheckConflicts, MarkVictims, DeleteVictims, BindTask,
               PreemptionTimeout, RejectTimeOutUnit, cacheVars
    <2>5. CASE WorkerStep
      BY <2>5 DEF WorkerStep, DeadlinePasses, CleanupExpiredAssumedPods, CleanupPodDeletionMarker,
                  PodStoreDeletePods, cacheVars
    <2>6. CASE NodeStep
      BY ZenonT(30), <2>6 DEF NodeStep, SetNodeObject, DeleteNode, DeleteCNR, NodeUnchanged
    <2> QED
      BY <2>2, <2>3, <2>4, <2>5, <2>6 DEF Next
  <1> QED
    BY <1>1, FollowInvariant, PTL DEF Spec, AssumptionEndsForACause

=============================================================================
