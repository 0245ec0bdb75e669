------------------------- MODULE BinderCacheProofs --------------------------
(***************************************************************************)
(* Proofs about BinderCache, for every set of names, UIDs and nodes, every *)
(* lag of the cache handler and with or without relists: the state is      *)
(* typed, no step touches a pod the cache handler has yet to meet          *)
(* (HistoryInv, FreshInv and TaskInv are preserved), and so the stores     *)
(* agree and the assumed pods are consistent in every reachable state      *)
(* (CacheInv is inductive).                                                *)
(***************************************************************************)
EXTENDS BinderCache, TLAPS

(* Most leaves are first-order; those with arithmetic name SMT. *)
USE Zenon


Object == PodObj \cup {NoPod}

(* What Append and Tail make of a history. *)
LEMMA AppendFacts ==
    ASSUME NEW s \in Seq(Object), NEW o \in Object
    PROVE  /\ Append(s, o) \in Seq(Object)
           /\ Len(Append(s, o)) = Len(s) + 1
           /\ \A i \in 1 .. Len(s) : Append(s, o)[i] = s[i]
           /\ Append(s, o)[Len(s) + 1] = o
  BY SMT

LEMMA TailFacts ==
    ASSUME NEW s \in Seq(Object), Len(s) > 1
    PROVE  /\ Tail(s) \in Seq(Object)
           /\ Len(Tail(s)) = Len(s) - 1
           /\ \A i \in 1 .. Len(s) - 1 : Tail(s)[i] = s[i + 1]
  BY SMT

(* The elements of a history are objects; one that is not NoPod is a pod. *)
LEMMA ObjectFacts ==
    ASSUME TypeOK, NEW m \in Names
    PROVE  /\ log[m] \in Seq(Object)
           /\ Len(log[m]) \in Nat /\ Len(log[m]) >= 1
           /\ \A i \in 1 .. Len(log[m]) : log[m][i] \in Object
           /\ \A i \in 1 .. Len(log[m]) : IsPod(log[m][i]) => log[m][i] \in PodObj
           /\ Lister(m) \in Object
           /\ IsPod(Lister(m)) => Lister(m) \in PodObj
  <1>1. log[m] \in Seq(Object) /\ Len(log[m]) >= 1
    BY DEF TypeOK, Object
  <1>2. Len(log[m]) \in Nat /\ \A i \in 1 .. Len(log[m]) : log[m][i] \in Object
    BY SMT, <1>1
  <1>3. Lister(m) \in Object
    BY SMT, <1>1, <1>2 DEF Lister
  <1>4. \A o \in Object : IsPod(o) => o \in PodObj
    BY DEF Object, IsPod
  <1> QED
    BY <1>1, <1>2, <1>3, <1>4

----------------------------------------------------------------------------
(* The stores keep their types. *)

LEMMA WithoutPodsType ==
    ASSUME NEW info \in NodeInfo, NEW us \in SUBSET Uids, NEW x \in BOOLEAN
    PROVE  WithoutPods(info, us, x) \in NodeInfo
  BY DEF WithoutPods, NewNodeInfo, NodeInfo

LEMMA NodeStoreAddType ==
    ASSUME NEW ns \in [Nodes -> NodeInfo], NEW n \in Nodes \cup {NoNode}, NEW u \in Uids
    PROVE  NodeStoreAddPod(ns, n, u) \in [Nodes -> NodeInfo]
  BY ZenonT(30) DEF NodeStoreAddPod, WithPod, NodeInfo

LEMMA NodeStoreDeleteType ==
    ASSUME NEW ns \in [Nodes -> NodeInfo], NEW n \in Nodes \cup {NoNode}, NEW us \in SUBSET Uids
    PROVE  NodeStoreDeletePods(ns, n, us) \in [Nodes -> NodeInfo]
  BY WithoutPodsType DEF NodeStoreDeletePods

LEMMA NodeStoreForgetType ==
    ASSUME NEW ns \in [Nodes -> NodeInfo], NEW n \in Nodes \cup {NoNode}, NEW u \in Uids
    PROVE  NodeStoreForgetPod(ns, n, u) \in [Nodes -> NodeInfo]
  BY WithoutPodsType DEF NodeStoreForgetPod, ObjectIsNil

(* Removing pods from the pod store and from the marker store. *)
LEMMA PodStoreTypes ==
    ASSUME TypeOK, NEW us \in SUBSET Uids, PodStoreDeletePods(us)
    PROVE  /\ podStates' \in [Uids -> Nodes \cup {NoNode}]
           /\ assumed' \in SUBSET Uids
           /\ due' \in SUBSET Uids
  BY DEF TypeOK, PodStoreDeletePods

LEMMA MarkerStoreTypes ==
    ASSUME TypeOK, NEW us \in SUBSET Uids
    PROVE  MarkerStoreDeletePods(us) \in [Uids -> Uids \cup {NoPod}]
  BY DEF TypeOK, MarkerStoreDeletePods

LEMMA ForgetPodTypes ==
    ASSUME TypeOK, NEW u \in Uids, NEW n \in Nodes \cup {NoNode}, ForgetPod(u, n)
    PROVE  /\ podStates' \in [Uids -> Nodes \cup {NoNode}]
           /\ assumed' \in SUBSET Uids
           /\ due' \in SUBSET Uids
           /\ nodes' \in [Nodes -> NodeInfo]
           /\ running' \in SUBSET Uids
           /\ fault' \in Faults \cup {"none"}
  <1>1. CASE u \notin assumed
    BY <1>1 DEF TypeOK, ForgetPod
  <1>2. CASE u \in assumed
    <2>0. NodeStoreForgetPod(nodes, n, u) \in [Nodes -> NodeInfo]
      BY NodeStoreForgetType DEF TypeOK
    <2>1. nodes' \in [Nodes -> NodeInfo]
      BY <1>2, <2>0 DEF ForgetPod
    <2>2. running' \in SUBSET Uids /\ fault' \in Faults \cup {"none"}
      BY <1>2 DEF TypeOK, ForgetPod, Faults
    <2>3. /\ podStates' \in [Uids -> Nodes \cup {NoNode}]
          /\ assumed' \in SUBSET Uids
          /\ due' \in SUBSET Uids
      BY <1>2, PodStoreTypes DEF TypeOK, ForgetPod
    <2> QED
      BY <2>1, <2>2, <2>3
  <1> QED
    BY <1>1, <1>2

(* A history with one more object, or without its oldest one, is a history. *)
LogType == log \in [Names -> Seq(Object)] /\ \A m \in Names : Len(log[m]) >= 1

LEMMA NotifyType ==
    ASSUME TypeOK, NEW m \in Names, NEW o \in Object, Notify(m, o)
    PROVE  LogType'
  <1>1. /\ Append(log[m], o) \in Seq(Object)
        /\ Len(Append(log[m], o)) >= 1
    BY SMT, ObjectFacts, AppendFacts
  <1>2. log \in [Names -> Seq(Object)] /\ \A k \in Names : Len(log[k]) >= 1
    BY DEF TypeOK, Object
  <1>3. log' = [log EXCEPT ![m] = Append(log[m], o)]
    BY DEF Notify
  <1> QED
    BY <1>1, <1>2, <1>3 DEF LogType

LEMMA HandledType ==
    ASSUME TypeOK, NEW m \in Names, Pending(m), Handled(m)
    PROVE  LogType'
  <1>1. /\ Tail(log[m]) \in Seq(Object)
        /\ Len(Tail(log[m])) >= 1
    BY SMT, ObjectFacts, TailFacts DEF Pending
  <1>2. log \in [Names -> Seq(Object)] /\ \A k \in Names : Len(log[k]) >= 1
    BY DEF TypeOK, Object
  <1>3. log' = [log EXCEPT ![m] = Tail(log[m])]
    BY DEF Handled
  <1> QED
    BY <1>1, <1>2, <1>3 DEF LogType

----------------------------------------------------------------------------
(* The type invariant.  The parts the actions treat alike are named. *)

ApiType   == used \in SUBSET Uids /\ home \in [Uids -> Nodes \cup {NoNode}]
QueueType == queued \in SUBSET Uids /\ nominated \in [Uids -> Uids \cup {NoPod}]
TaskType  == task \in [Uids -> Task]
PodStoreType ==
    /\ podStates \in [Uids -> Nodes \cup {NoNode}]
    /\ assumed \in SUBSET Uids
    /\ due \in SUBSET Uids
MarkerType == marker \in [Uids -> Uids \cup {NoPod}]
NodeType   == nodes \in [Nodes -> NodeInfo]
RestType   == running \in SUBSET Uids /\ live \in [Nodes -> SUBSET Kinds] /\ fault \in Faults \cup {"none"}

LEMMA TypeParts ==
    TypeOK <=> /\ LogType /\ ApiType /\ QueueType /\ TaskType
               /\ PodStoreType /\ MarkerType /\ NodeType /\ RestType
  BY DEF TypeOK, LogType, ApiType, QueueType, TaskType, PodStoreType, MarkerType,
         NodeType, RestType, Object

LEMMA TypePartsNext ==
    TypeOK' <=> /\ LogType' /\ ApiType' /\ QueueType' /\ TaskType'
                /\ PodStoreType' /\ MarkerType' /\ NodeType' /\ RestType'
  BY DEF TypeOK, LogType, ApiType, QueueType, TaskType, PodStoreType, MarkerType,
         NodeType, RestType, Object

LEMMA TypeInit == Init => TypeOK
  <1> SUFFICES ASSUME Init PROVE TypeOK
    OBVIOUS
  <1>1. LogType
    <2>1. <<NoPod>> \in Seq(Object) /\ Len(<<NoPod>>) >= 1
      BY SMT DEF Object
    <2> QED
      BY <2>1 DEF Init, LogType
  <1>2. Idle \in Task
    BY DEF Idle, Task, Stages
  <1>3. NewNodeInfo \in NodeInfo /\ SteadyNodeInfo \in NodeInfo
    BY DEF NewNodeInfo, SteadyNodeInfo, NodeInfo, Kinds
  <1>4. ApiType /\ QueueType /\ PodStoreType /\ MarkerType
    BY DEF Init, ApiType, QueueType, PodStoreType, MarkerType
  <1>5. TaskType /\ NodeType
    BY <1>2, <1>3 DEF Init, TaskType, NodeType
  <1>6. RestType
    BY DEF Init, RestType, Kinds
  <1> QED
    BY <1>1, <1>4, <1>5, <1>6, TypeParts

LEMMA InformerTypes ==
    ASSUME TypeOK, InformerStep
    PROVE  TypeOK'
  <1> USE TypeParts, TypePartsNext
  <1> DEFINE Rest == /\ PodStoreType' /\ MarkerType' /\ NodeType' /\ RestType'
  <1>0. Idle \in Task
    BY DEF Idle, Task, Stages
  <1>1. ASSUME NEW u \in Uids, NEW b \in BOOLEAN, NEW n \in Nodes,
               Appear(u, b, n)
        PROVE  LogType' /\ ApiType' /\ nominated' \in [Uids -> Uids \cup {NoPod}]
    <2>1. [uid |-> u, bound |-> b] \in Object /\ NameOf[u] \in Names
      BY NameOfAssumption DEF Object, PodObj
    <2>2. LogType'
      BY <1>1, <2>1, NotifyType DEF Appear
    <2>3. ApiType' /\ nominated' \in [Uids -> Uids \cup {NoPod}]
      BY <1>1 DEF Appear, ApiType, QueueType
    <2> QED
      BY <2>2, <2>3
  <1>2. ASSUME NEW u \in Uids, BinderQueueDelete(u)
        PROVE  TaskType'
    BY <1>2, <1>0 DEF BinderQueueDelete, TaskType
  <1>3. ASSUME NEW u \in Uids, NEW b \in BOOLEAN, NEW n \in Nodes, PodCreated(u, b, n)
        PROVE  TypeOK'
    <2>1. LogType' /\ ApiType' /\ QueueType'
      BY <1>1, <1>3 DEF PodCreated, QueueType
    <2>2. TaskType' /\ Rest
      BY <1>3 DEF PodCreated, cacheVars, TaskType, PodStoreType, MarkerType, NodeType, RestType
    <2> QED
      BY <2>1, <2>2
  <1>4. ASSUME NEW u \in Uids, NEW b \in BOOLEAN, NEW n \in Nodes, PodReplaced(u, b, n)
        PROVE  TypeOK'
    <2>0. Lister(NameOf[u]).uid \in Uids
      BY <1>4, NameOfAssumption, ObjectFacts DEF PodReplaced, PodObj
    <2>1. LogType' /\ ApiType' /\ QueueType'
      BY <1>1, <1>4 DEF PodReplaced, QueueType
    <2>2. TaskType' /\ Rest
      BY <1>2, <1>4, <2>0 DEF PodReplaced, cacheVars, PodStoreType, MarkerType, NodeType, RestType
    <2> QED
      BY <2>1, <2>2
  <1>5. ASSUME NEW u \in Uids, NEW n \in Nodes, PodBound(u, n)
        PROVE  TypeOK'
    <2>1. [uid |-> u, bound |-> TRUE] \in Object /\ NameOf[u] \in Names
      BY NameOfAssumption DEF Object, PodObj
    <2>2. LogType' /\ ApiType'
      BY <1>5, <2>1, NotifyType DEF PodBound, BoundAtAPI, ApiType
    <2>3. QueueType' /\ TaskType' /\ Rest
      BY <1>5 DEF PodBound, cacheVars, QueueType, TaskType, PodStoreType, MarkerType, NodeType, RestType
    <2> QED
      BY <2>2, <2>3
  <1>6. ASSUME NEW u \in Uids, PodTouched(u) \/ PodDeleted(u)
        PROVE  TypeOK'
    <2>1. Lister(NameOf[u]) \in Object /\ NoPod \in Object /\ NameOf[u] \in Names
      BY NameOfAssumption, ObjectFacts DEF Object
    <2>2. LogType'
      BY <1>6, <2>1, NotifyType DEF PodTouched, PodDeleted
    <2>3. ApiType' /\ QueueType' /\ TaskType' /\ Rest
      BY <1>6 DEF PodTouched, PodDeleted, cacheVars, ApiType, QueueType, TaskType,
                  PodStoreType, MarkerType, NodeType, RestType
    <2> QED
      BY <2>2, <2>3
  <1> QED
    BY <1>3, <1>4, <1>5, <1>6 DEF InformerStep

LEMMA HandlerTypes ==
    ASSUME TypeOK, HandlerStep
    PROVE  TypeOK'
  <1> USE TypeParts, TypePartsNext
  <1>0. Idle \in Task
    BY DEF Idle, Task, Stages
  <1>1. ASSUME NEW m \in Names, Pending(m), Handled(m)
        PROVE  /\ LogType' /\ ApiType' /\ QueueType' /\ TaskType'
               /\ live' \in [Nodes -> SUBSET Kinds] /\ fault' \in Faults \cup {"none"}
               /\ Old(m) \in Object /\ New(m) \in Object
               /\ IsPod(Old(m)) => Old(m) \in PodObj
               /\ IsPod(New(m)) => New(m) \in PodObj
    <2>1. LogType'
      BY <1>1, HandledType
    <2>2. /\ ApiType' /\ QueueType' /\ TaskType'
          /\ live' \in [Nodes -> SUBSET Kinds] /\ fault' \in Faults \cup {"none"}
      BY <1>1 DEF Handled, ApiType, QueueType, TaskType, RestType
    <2>3. 1 \in 1 .. Len(log[m]) /\ 2 \in 1 .. Len(log[m])
      BY SMT, <1>1, ObjectFacts DEF Pending
    <2>4. /\ Old(m) \in Object /\ New(m) \in Object
          /\ IsPod(Old(m)) => Old(m) \in PodObj
          /\ IsPod(New(m)) => New(m) \in PodObj
      BY <2>3, ObjectFacts DEF Old, New
    <2> QED
      BY <2>1, <2>2, <2>4
  <1>2. ASSUME NEW m \in Names, AddPod(m)
        PROVE  TypeOK'
    <2>1. Pending(m) /\ Handled(m) /\ IsPod(New(m))
      BY <1>2 DEF AddPod
    <2>2. New(m).uid \in Uids /\ home[New(m).uid] \in Nodes \cup {NoNode}
      BY <2>1, <1>1 DEF PodObj, ApiType
    <2>3. NodeStoreAddPod(nodes, home[New(m).uid], New(m).uid) \in [Nodes -> NodeInfo]
      BY <2>2, NodeStoreAddType DEF NodeType
    <2>4. PodStoreType' /\ MarkerType' /\ NodeType' /\ running' \in SUBSET Uids
      BY <1>2, <2>2, <2>3 DEF AddPod, PodStoreType, MarkerType, NodeType, RestType
    <2> QED
      BY <2>1, <2>4, <1>1 DEF RestType
  <1>3. ASSUME NEW m \in Names, UpdatePod(m)
        PROVE  TypeOK'
    <2>1. Pending(m) /\ Handled(m) /\ IsPod(Old(m)) /\ IsPod(New(m))
      BY <1>3 DEF UpdatePod
    <2>2. /\ Old(m).uid \in Uids /\ New(m).uid \in Uids
          /\ home[New(m).uid] \in Nodes \cup {NoNode}
          /\ podStates[Old(m).uid] \in Nodes \cup {NoNode}
      BY <2>1, <1>1 DEF PodObj, ApiType, PodStoreType
    <2>3. NodeStoreUpdatePod(nodes, Old(m), New(m)) \in [Nodes -> NodeInfo]
      <3>1. NodeStoreDeletePods(nodes, podStates[Old(m).uid], {Old(m).uid}) \in [Nodes -> NodeInfo]
        BY <2>2, NodeStoreDeleteType DEF NodeType
      <3>2. \A ns \in [Nodes -> NodeInfo] :
              NodeStoreAddPod(ns, home[New(m).uid], New(m).uid) \in [Nodes -> NodeInfo]
        BY <2>2, NodeStoreAddType
      <3> QED
        BY <3>1, <3>2 DEF NodeStoreUpdatePod, NodeType
    <2>4. PodStoreUpdatePod(Old(m), New(m)) \in [Uids -> Nodes \cup {NoNode}]
      BY <2>2 DEF PodStoreUpdatePod, PodStoreType
    <2>5. MarkerStoreUpdatePod(Old(m), New(m)) \in [Uids -> Uids \cup {NoPod}]
      BY <2>2 DEF MarkerStoreUpdatePod, MarkerType
    <2>6. PodStoreType' /\ MarkerType' /\ NodeType' /\ running' \in SUBSET Uids
      <3>1. CASE IgnoredUpdate(Old(m), New(m))
        BY <1>3, <3>1 DEF UpdatePod, cacheVars, PodStoreType, MarkerType, NodeType, RestType
      <3>2. CASE ~IgnoredUpdate(Old(m), New(m))
        BY <1>3, <3>2, <2>2, <2>3, <2>4, <2>5
           DEF UpdatePod, PodStoreType, MarkerType, NodeType, RestType
      <3> QED
        BY <3>1, <3>2
    <2> QED
      BY <2>1, <2>6, <1>1 DEF RestType
  <1>4. ASSUME NEW m \in Names, DeletePod(m)
        PROVE  TypeOK'
    <2> DEFINE u == Old(m).uid
               n == IF Cached(u) THEN podStates[u] ELSE Spec_nodeName(Old(m))
    <2>1. Pending(m) /\ Handled(m) /\ IsPod(Old(m))
      BY <1>4 DEF DeletePod
    <2>2. u \in Uids /\ n \in Nodes \cup {NoNode}
      BY <2>1, <1>1 DEF PodObj, ApiType, PodStoreType, Spec_nodeName
    <2>3. NodeStoreDeletePods(nodes, n, {u}) \in [Nodes -> NodeInfo]
      BY <2>2, NodeStoreDeleteType DEF NodeType
    <2>4. MarkerStoreDeletePods({u}) \in [Uids -> Uids \cup {NoPod}]
      BY <2>2, MarkerStoreTypes
    <2>5. PodStoreDeletePods({u}) => PodStoreType'
      BY <2>2, PodStoreTypes DEF PodStoreType
    <2>6. PodStoreType' /\ MarkerType' /\ NodeType' /\ running' \in SUBSET Uids
      <3>1. CASE n = NoNode
        BY <1>4, <3>1 DEF DeletePod, cacheVars, PodStoreType, MarkerType, NodeType, RestType
      <3>2. CASE n # NoNode
        BY <1>4, <3>2, <2>3, <2>4, <2>5 DEF DeletePod, MarkerType, NodeType, RestType
      <3> QED
        BY <3>1, <3>2
    <2> QED
      BY <2>1, <2>6, <1>1 DEF RestType
  <1>5. ASSUME NEW u \in Uids, BinderQueueDelete(u)
        PROVE  TaskType'
    BY <1>5, <1>0 DEF BinderQueueDelete, TaskType
  <1>6. ASSUME NEW u \in Uids, DequeueBound(u)
        PROVE  TypeOK'
    BY <1>5, <1>6 DEF DequeueBound, apiVars, cacheVars, LogType, ApiType, QueueType,
                      PodStoreType, MarkerType, NodeType, RestType
  <1>7. ASSUME NEW u \in Uids, DequeueDeleted(u)
        PROVE  TypeOK'
    <2>1. podStates[u] \in Nodes \cup {NoNode} /\ ForgetPod(u, podStates[u])
      BY <1>7 DEF DequeueDeleted, PodStoreType
    <2>2. PodStoreType' /\ NodeType' /\ running' \in SUBSET Uids /\ fault' \in Faults \cup {"none"}
      BY <2>1, ForgetPodTypes DEF PodStoreType, NodeType
    <2>3. LogType' /\ ApiType' /\ QueueType' /\ TaskType' /\ MarkerType' /\ live' = live
      BY <1>5, <1>7 DEF DequeueDeleted, apiVars, LogType, ApiType, QueueType, MarkerType
    <2> QED
      BY <2>2, <2>3 DEF RestType
  <1> QED
    BY <1>2, <1>3, <1>4, <1>6, <1>7 DEF HandlerStep

LEMMA PipelineTypes ==
    ASSUME TypeOK, PipelineStep
    PROVE  TypeOK'
  <1> USE TypeParts, TypePartsNext
  <1>0. Idle \in Task
    BY DEF Idle, Task, Stages
  <1>1. ASSUME NEW u \in Uids, Fails(u)
        PROVE  TaskType'
    BY SMT, <1>1 DEF Fails, TaskType, Task, Stages
  <1>2. ASSUME NEW u \in Uids
        PROVE  task[u] \in Task /\ task[u].node \in Nodes \cup {NoNode}
    BY DEF TaskType, Task
  <1>3. ASSUME NEW u \in Uids, NEW n \in Nodes, InitializeTask(u, n)
        PROVE  TypeOK'
    <2> DEFINE vp == IF nominated[u] = NoPod THEN NoPod ELSE Lister(NameOf[nominated[u]])
    <2>1. vp \in PodObj \cup {NoPod}
      BY NameOfAssumption, ObjectFacts DEF QueueType, Object
    <2>2. \A s \in Stages, o \in PodObj \cup {NoPod} :
            [Idle EXCEPT !.stage = s, !.node = n, !.victim = o] \in Task
      BY <1>0 DEF Task
    <2>3. TaskType'
      BY <1>3, <2>1, <2>2 DEF InitializeTask, TaskType, Stages
    <2> QED
      BY <1>3, <2>3 DEF InitializeTask, apiVars, cacheVars, LogType, ApiType, QueueType,
                        PodStoreType, MarkerType, NodeType, RestType
  <1>4. ASSUME NEW u \in Uids, NEW ok \in BOOLEAN, CheckConflicts(u, ok)
        PROVE  TypeOK'
    <2>1. TaskType'
      BY SMT, <1>4, <1>1 DEF CheckConflicts, TaskType, Task, Stages
    <2> QED
      BY <1>4, <2>1 DEF CheckConflicts, apiVars, cacheVars, LogType, ApiType, QueueType,
                        PodStoreType, MarkerType, NodeType, RestType
  <1>5. ASSUME NEW u \in Uids, MarkVictims(u)
        PROVE  TypeOK'
    <2>1. task[u].victim.uid \in Uids
      BY <1>5, <1>2 DEF MarkVictims, Task, PodObj, IsPod
    <2>2. [task EXCEPT ![u].stage = "marked"] \in [Uids -> Task]
      BY DEF TaskType, Task, Stages
    <2>3. TaskType'
      BY <1>5, <1>1, <2>2 DEF MarkVictims, TaskType
    <2>4. MarkerType'
      BY <1>5, <2>1 DEF MarkVictims, MarkerType
    <2>5. fault' \in Faults \cup {"none"}
      BY <1>5 DEF MarkVictims, RestType, Faults
    <2> QED
      BY <1>5, <2>3, <2>4, <2>5 DEF MarkVictims, apiVars, LogType, ApiType, QueueType,
                        PodStoreType, NodeType, RestType
  <1>6. ASSUME NEW u \in Uids, NEW ok \in BOOLEAN, AssumePod(u, ok)
        PROVE  TypeOK'
    <2>1. NodeStoreAddPod(nodes, task[u].node, u) \in [Nodes -> NodeInfo]
      BY <1>2, NodeStoreAddType DEF NodeType
    <2>2. TaskType'
      BY SMT, <1>6, <1>1 DEF AssumePod, TaskType, Task, Stages
    <2>3. PodStoreType' /\ NodeType' /\ running' \in SUBSET Uids
      BY <1>6, <1>2, <2>1 DEF AssumePod, PodStoreType, NodeType, RestType
    <2> QED
      BY <1>6, <2>2, <2>3 DEF AssumePod, apiVars, LogType, ApiType, QueueType, MarkerType, RestType
  <1>7. ASSUME NEW u \in Uids, NEW ok \in BOOLEAN, DeleteVictims(u, ok)
        PROVE  TypeOK'
    <2>1. TaskType'
      BY SMT, <1>7, <1>1 DEF DeleteVictims, TaskType, Task, Stages
    <2> QED
      BY <1>7, <2>1 DEF DeleteVictims, apiVars, cacheVars, LogType, ApiType, QueueType,
                        PodStoreType, MarkerType, NodeType, RestType
  <1>8. ASSUME NEW u \in Uids, NEW applied \in BOOLEAN, NEW ok \in BOOLEAN, BindTask(u, applied, ok)
        PROVE  TypeOK'
    <2>1. [uid |-> u, bound |-> TRUE] \in Object /\ NameOf[u] \in Names
      BY NameOfAssumption DEF Object, PodObj
    <2>2. LogType' /\ ApiType'
      <3>1. CASE applied
        BY <1>8, <3>1, <1>2, <2>1, NotifyType DEF BindTask, BoundAtAPI, ApiType
      <3>2. CASE ~applied
        BY <1>8, <3>2 DEF BindTask, apiVars, LogType, ApiType
      <3> QED
        BY <3>1, <3>2
    <2>3. TaskType'
      <3> DEFINE retried == [task[u] EXCEPT !.binds = task[u].binds + 1,
                                            !.stage = IF task[u].binds + 1 = MaxRetryAttempts
                                                      THEN "failed" ELSE task[u].stage]
      <3>1. retried \in Task
        <4>1. task[u].binds + 1 \in Nat /\ task[u].stage \in Stages
          BY SMT, <1>2 DEF Task
        <4>2. "failed" \in Stages
          BY DEF Stages
        <4> QED
          BY <1>2, <4>1, <4>2 DEF Task
      <3>2. task' = [task EXCEPT ![u] = IF ok THEN Idle ELSE retried]
        BY <1>8 DEF BindTask
      <3> HIDE DEF retried
      <3> QED
        BY <1>0, <3>1, <3>2 DEF TaskType
    <2>4. PodStoreType'
      BY <1>8 DEF BindTask, FinishBinding, PodStoreType
    <2> QED
      BY <1>8, <2>2, <2>3, <2>4 DEF BindTask, QueueType, MarkerType, NodeType, RestType
  <1>9. ASSUME NEW u \in Uids, PreemptionTimeout(u) \/ RejectTimeOutUnit(u)
        PROVE  TypeOK'
    <2>1. TaskType'
      BY <1>9, <1>0, <1>1 DEF PreemptionTimeout, RejectTimeOutUnit, TaskType
    <2> QED
      BY <1>9, <2>1 DEF PreemptionTimeout, RejectTimeOutUnit, apiVars, cacheVars, LogType, ApiType,
                        QueueType, PodStoreType, MarkerType, NodeType, RestType
  <1>10. ASSUME NEW u \in Uids, RejectFailedTask(u)
         PROVE  TypeOK'
    <2>1. PodStoreType' /\ NodeType' /\ running' \in SUBSET Uids /\ fault' \in Faults \cup {"none"}
      <3>1. CASE task[u].reserved
        BY <1>10, <3>1, <1>2, ForgetPodTypes DEF RejectFailedTask, PodStoreType, NodeType
      <3>2. CASE ~task[u].reserved
        BY <1>10, <3>2 DEF RejectFailedTask, PodStoreType, NodeType, RestType
      <3> QED
        BY <3>1, <3>2
    <2>2. TaskType'
      BY <1>10, <1>0 DEF RejectFailedTask, TaskType
    <2>3. MarkerType'
      BY <1>10 DEF RejectFailedTask, MarkerType
    <2> QED
      BY <1>10, <2>1, <2>2, <2>3 DEF RejectFailedTask, apiVars, LogType, ApiType, QueueType, RestType
  <1> QED
    BY <1>3, <1>4, <1>5, <1>6, <1>7, <1>8, <1>9, <1>10 DEF PipelineStep

LEMMA WorkerTypes ==
    ASSUME TypeOK, WorkerStep
    PROVE  TypeOK'
  <1> USE TypeParts, TypePartsNext
  <1>1. ASSUME NEW u \in Uids, DeadlinePasses(u)
        PROVE  TypeOK'
    BY <1>1 DEF DeadlinePasses, apiVars, LogType, ApiType, QueueType, TaskType,
                PodStoreType, MarkerType, NodeType, RestType
  <1>2. CASE CleanupExpiredAssumedPods
    <2>0. due \in SUBSET Uids
      BY DEF PodStoreType
    <2>1. \A n \in Nodes :
            NodeStoreDeletePods(nodes, n, {u \in due : podStates[u] = n})[n] \in NodeInfo
      <3> TAKE n \in Nodes
      <3>1. {u \in due : podStates[u] = n} \in SUBSET Uids
        BY <2>0
      <3> QED
        BY SMT, <3>1, NodeStoreDeleteType DEF NodeType
    <2>2. MarkerStoreDeletePods(due) \in [Uids -> Uids \cup {NoPod}]
      BY <2>0, MarkerStoreTypes
    <2>3. PodStoreDeletePods(due) => PodStoreType'
      BY <2>0, PodStoreTypes DEF PodStoreType
    <2>4. /\ PodStoreType' /\ MarkerType' /\ NodeType'
          /\ running' \in SUBSET Uids /\ fault' \in Faults \cup {"none"}
      <3>1. CASE UNCHANGED cacheVars /\ fault' = "CleanupExpiredAssumedPods"
        BY <3>1 DEF cacheVars, PodStoreType, MarkerType, NodeType, RestType, Faults
      <3>2. CASE /\ marker' = MarkerStoreDeletePods(due)
                 /\ nodes' = [n \in Nodes |->
                       NodeStoreDeletePods(nodes, n, {u \in due : podStates[u] = n})[n]]
                 /\ PodStoreDeletePods(due)
                 /\ running' = running \ due
                 /\ UNCHANGED fault
        BY <3>2, <2>1, <2>2, <2>3 DEF MarkerType, NodeType, RestType
      <3> QED
        BY <1>2, <3>1, <3>2 DEF CleanupExpiredAssumedPods
    <2> QED
      BY <1>2, <2>4 DEF CleanupExpiredAssumedPods, apiVars, LogType, ApiType, QueueType, TaskType, RestType
  <1>3. ASSUME NEW expired \in SUBSET Marked, CleanupPodDeletionMarker(expired)
        PROVE  TypeOK'
    <2>1. MarkerStoreDeletePods(expired) \in [Uids -> Uids \cup {NoPod}]
      BY MarkerStoreTypes DEF Marked
    <2>2. MarkerType' /\ fault' \in Faults \cup {"none"}
      BY <1>3, <2>1 DEF CleanupPodDeletionMarker, MarkerType, RestType, Faults
    <2> QED
      BY <1>3, <2>2 DEF CleanupPodDeletionMarker, apiVars, LogType, ApiType, QueueType, TaskType,
                        PodStoreType, NodeType, RestType
  <1> QED
    BY <1>1, <1>2, <1>3 DEF WorkerStep

LEMMA NodeTypes ==
    ASSUME TypeOK, NodeStep
    PROVE  TypeOK'
  <1> USE TypeParts, TypePartsNext
  <1>1. NewNodeInfo \in NodeInfo
    BY DEF NewNodeInfo, NodeInfo
  <1>2. \A info \in NodeInfo, k \in Kinds :
          /\ WithObject(info, k) \in NodeInfo
          /\ WithoutNode(info, k) \in NodeInfo
          /\ WithoutCNR(info) \in NodeInfo
    <2> TAKE info \in NodeInfo, k \in Kinds
    <2>1. WithObject(info, k) \in NodeInfo
      BY DEF WithObject, NodeInfo
    <2>2. /\ [info EXCEPT !.objs = info.objs \ {k}] \in NodeInfo
          /\ [info EXCEPT !.objs = info.objs \ {k}, !.deleted = TRUE] \in NodeInfo
          /\ [NewNodeInfo EXCEPT !.deleted = info.deleted] \in NodeInfo
          /\ [info EXCEPT !.objs = info.objs \ {"CNR"}] \in NodeInfo
      BY DEF NewNodeInfo, NodeInfo
    <2> QED
      BY <1>1, <2>1, <2>2 DEF WithoutNode, WithoutCNR
  <1>3. ASSUME NEW n \in Nodes, NEW k \in Kinds,
               SetNodeObject(n, k) \/ DeleteNode(n, k) \/ DeleteCNR(n)
        PROVE  TypeOK'
    <2>1. NodeType' /\ live' \in [Nodes -> SUBSET Kinds]
      BY SMT, <1>2, <1>3 DEF SetNodeObject, DeleteNode, DeleteCNR, NodeType, RestType
    <2>2. NodeUnchanged
      BY <1>3 DEF SetNodeObject, DeleteNode, DeleteCNR
    <2> QED
      BY <2>1, <2>2 DEF NodeUnchanged, apiVars, LogType, ApiType, QueueType, TaskType,
                        PodStoreType, MarkerType, RestType
  <1>4. "CNR" \in Kinds
    BY DEF Kinds
  <1> QED
    BY <1>3, <1>4 DEF NodeStep

(* Every variable keeps its type, whatever the interleaving. *)
THEOREM TypeCorrectness == Spec => []TypeOK
  <1>1. TypeOK /\ [Next]_vars => TypeOK'
    <2> SUFFICES ASSUME TypeOK, [Next]_vars PROVE TypeOK'
      OBVIOUS
    <2>1. CASE UNCHANGED vars
      BY <2>1 DEF vars, apiVars, cacheVars, TypeOK
    <2> QED
      BY <2>1, InformerTypes, HandlerTypes, PipelineTypes, WorkerTypes, NodeTypes DEF Next
  <1> QED
    BY <1>1, TypeInit, PTL DEF Spec



----------------------------------------------------------------------------
(* The histories. *)

LEMMA NotifyFacts ==
    ASSUME TypeOK, NEW m \in Names, NEW o \in Object, Notify(m, o)
    PROVE  /\ Len(log'[m]) = Len(log[m]) + 1
           /\ \A i \in 1..Len(log[m]) : log'[m][i] = log[m][i]
           /\ log'[m][Len(log[m]) + 1] = o
           /\ \A k \in Names \ {m} : log'[k] = log[k]
  <1>1. log' = [log EXCEPT ![m] = Append(log[m], o)]
    BY DEF Notify
  <1>2. log'[m] = Append(log[m], o) /\ \A k \in Names \ {m} : log'[k] = log[k]
    BY <1>1 DEF TypeOK
  <1> QED
    BY SMT, <1>2, ObjectFacts, AppendFacts

LEMMA HandledFacts ==
    ASSUME TypeOK, NEW m \in Names, Pending(m), Handled(m)
    PROVE  /\ Len(log'[m]) = Len(log[m]) - 1
           /\ \A i \in 1..Len(log[m]) - 1 : log'[m][i] = log[m][i + 1]
           /\ \A k \in Names \ {m} : log'[k] = log[k]
  <1>1. log' = [log EXCEPT ![m] = Tail(log[m])]
    BY DEF Handled
  <1>2. log'[m] = Tail(log[m]) /\ \A k \in Names \ {m} : log'[k] = log[k]
    BY <1>1 DEF TypeOK
  <1> QED
    BY <1>2, ObjectFacts, TailFacts DEF Pending

(* A name that hears of nothing keeps what HistoryInv says of it. *)
LEMMA SameHistory ==
    ASSUME TypeOK, HistoryInv, NEW k \in Names, log'[k] = log[k],
           used \subseteq used',
           \A v \in used : home[v] # NoNode => home'[v] # NoNode,
           NEW j \in 1..Len(log'[k]), NEW u \in Uids, PodAt(k, j, u)'
    PROVE  /\ NameOf[u] = k
           /\ u \in used'
           /\ log'[k][j].bound => home'[u] # NoNode
           /\ \A i \in 1..Len(log'[k]) : i < j /\ PodAt(k, i, u)' => PodAt(k, j - 1, u)'
  <1>1. \A i \in 1..Len(log[k]) : PodAt(k, i, u)' <=> PodAt(k, i, u)
    BY DEF PodAt
  <1>2. j \in 1..Len(log[k]) /\ PodAt(k, j, u)
    BY <1>1
  <1>3. ASSUME NEW i \in 1..Len(log[k]), i < j, PodAt(k, i, u)
        PROVE  PodAt(k, j - 1, u)'
    <2>1. PodAt(k, j - 1, u)
      BY <1>2, <1>3 DEF HistoryInv
    <2>2. j - 1 \in 1..Len(log[k])
      BY SMT, <1>2, <1>3, ObjectFacts
    <2> QED
      BY <1>1, <2>1, <2>2
  <1>4. NameOf[u] = k /\ u \in used /\ (log[k][j].bound => home[u] # NoNode)
    BY <1>2 DEF HistoryInv
  <1> QED
    BY <1>1, <1>3, <1>4

(* One more object: a pod that is new, or another state of the last one. *)
LEMMA NotifyHistory ==
    ASSUME TypeOK, HistoryInv, NEW m \in Names, NEW o \in Object, Notify(m, o),
           used \subseteq used',
           \A v \in used : home[v] # NoNode => home'[v] # NoNode,
           IsPod(o) => /\ NameOf[o.uid] = m
                       /\ o.uid \in used'
                       /\ o.bound => home'[o.uid] # NoNode
                       /\ o.uid \notin used \/ PodAt(m, Len(log[m]), o.uid)
    PROVE  HistoryInv'
  <1> SUFFICES ASSUME NEW k \in Names, NEW j \in 1..Len(log'[k]), NEW u \in Uids,
                      PodAt(k, j, u)'
               PROVE  /\ NameOf[u] = k
                      /\ u \in used'
                      /\ log'[k][j].bound => home'[u] # NoNode
                      /\ \A i \in 1..Len(log'[k]) : i < j /\ PodAt(k, i, u)' => PodAt(k, j - 1, u)'
    BY DEF HistoryInv
  <1>1. CASE k # m
    <2>1. log'[k] = log[k]
      BY SMT, <1>1, NotifyFacts
    <2> QED
      BY <2>1, SameHistory
  <1>2. CASE k = m /\ j <= Len(log[m])
    <2>1. j \in 1..Len(log[m]) /\ PodAt(m, j, u)
      BY SMT, <1>2, NotifyFacts, ObjectFacts DEF PodAt
    <2>2. ASSUME NEW i \in 1..Len(log'[k]), i < j, PodAt(k, i, u)'
          PROVE  PodAt(k, j - 1, u)'
      <3>1. i \in 1..Len(log[m]) /\ j - 1 \in 1..Len(log[m])
        BY SMT, <1>2, <2>1, <2>2, ObjectFacts
      <3>2. PodAt(m, i, u)
        BY <1>2, <2>2, <3>1, NotifyFacts DEF PodAt
      <3>3. PodAt(m, j - 1, u)
        BY <2>1, <2>2, <3>1, <3>2 DEF HistoryInv
      <3> QED
        BY SMTT(30), <1>2, <3>1, <3>3, NotifyFacts DEF PodAt
    <2>3. log'[k][j] = log[m][j]
      BY <1>2, <2>1, NotifyFacts
    <2> QED
      BY <1>2, <2>1, <2>2, <2>3 DEF HistoryInv
  <1>3. CASE k = m /\ j = Len(log[m]) + 1
    <2>1. log'[k][j] = o
      BY <1>3, NotifyFacts
    <2>2. IsPod(o) /\ o.uid = u
      BY <2>1 DEF PodAt
    <2>3. ASSUME NEW i \in 1..Len(log'[k]), i < j, PodAt(k, i, u)'
          PROVE  PodAt(k, j - 1, u)'
      <3>1. i \in 1..Len(log[m]) /\ Len(log[m]) \in 1..Len(log[m])
        BY SMT, <1>3, <2>3, ObjectFacts
      <3>2. PodAt(m, i, u)
        BY <1>3, <2>3, <3>1, NotifyFacts DEF PodAt
      <3>3. u \in used
        BY <3>1, <3>2 DEF HistoryInv
      <3>4. PodAt(m, Len(log[m]), u)
        BY <2>2, <3>3
      <3>5. j - 1 = Len(log[m])
        BY SMT, <1>3, ObjectFacts
      <3> QED
        BY SMT, <1>3, <3>1, <3>4, <3>5, NotifyFacts DEF PodAt
    <2> QED
      BY <1>3, <2>1, <2>2, <2>3
  <1> QED
    BY SMT, <1>1, <1>2, <1>3, NotifyFacts, ObjectFacts

LEMMA HandledHistory ==
    ASSUME TypeOK, HistoryInv, NEW m \in Names, Pending(m), Handled(m)
    PROVE  HistoryInv'
  <1> SUFFICES ASSUME NEW k \in Names, NEW j \in 1..Len(log'[k]), NEW u \in Uids,
                      PodAt(k, j, u)'
               PROVE  /\ NameOf[u] = k
                      /\ u \in used'
                      /\ log'[k][j].bound => home'[u] # NoNode
                      /\ \A i \in 1..Len(log'[k]) : i < j /\ PodAt(k, i, u)' => PodAt(k, j - 1, u)'
    BY DEF HistoryInv
  <1>0. used' = used /\ home' = home
    BY DEF Handled
  <1>1. CASE k # m
    <2>1. log'[k] = log[k]
      BY <1>1, HandledFacts
    <2> QED
      BY <1>0, <2>1, SameHistory
  <1>2. CASE k = m
    <2>1. j \in 1..Len(log[m]) - 1 /\ j + 1 \in 1..Len(log[m])
      BY SMT, <1>2, HandledFacts, ObjectFacts
    <2>2. log'[k][j] = log[m][j + 1]
      BY <1>2, <2>1, HandledFacts
    <2>3. PodAt(m, j + 1, u)
      BY <2>2 DEF PodAt
    <2>4. ASSUME NEW i \in 1..Len(log'[k]), i < j, PodAt(k, i, u)'
          PROVE  PodAt(k, j - 1, u)'
      <3>1. /\ i \in 1..Len(log[m]) - 1 /\ i + 1 \in 1..Len(log[m]) /\ i + 1 < j + 1
            /\ j - 1 \in 1..Len(log[m]) - 1 /\ (j - 1) + 1 = j /\ (j + 1) - 1 = j
        BY SMT, <1>2, <2>1, <2>4, HandledFacts, ObjectFacts
      <3>2. PodAt(m, i + 1, u)
        BY <1>2, <2>4, <3>1, HandledFacts DEF PodAt
      <3>3. PodAt(m, j, u)
        BY SMT, <2>1, <2>3, <3>1, <3>2 DEF HistoryInv
      <3> QED
        BY <1>2, <3>1, <3>3, HandledFacts DEF PodAt
    <2> QED
      BY SMT, <1>0, <1>2, <2>1, <2>2, <2>3, <2>4 DEF HistoryInv
  <1> QED
    BY <1>1, <1>2

(* Whose creation the cache handler has yet to learn of. *)
LEMMA NotifyBorn ==
    ASSUME TypeOK, NEW m \in Names, NEW o \in Object, Notify(m, o),
           NEW u \in Uids, BornBound(u)'
    PROVE  \/ BornBound(u)
           \/ IsPod(o) /\ o.uid = u /\ o.bound /\ ~PodAt(m, Len(log[m]), u)
  <1>0. PICK k \in Names : \E j \in 2..Len(log'[k]) :
               PodAt(k, j, u)' /\ log'[k][j].bound /\ ~PodAt(k, j - 1, u)'
    BY DEF BornBound
  <1>1. PICK j \in 2..Len(log'[k]) :
               PodAt(k, j, u)' /\ log'[k][j].bound /\ ~PodAt(k, j - 1, u)'
    BY <1>0
  <1>2. CASE k # m
    BY SMTT(30), <1>1, <1>2, NotifyFacts DEF BornBound, PodAt
  <1>3. CASE k = m /\ j <= Len(log[m])
    <2>1. j \in 2..Len(log[m]) /\ j \in 1..Len(log[m]) /\ j - 1 \in 1..Len(log[m])
      BY SMT, <1>3, ObjectFacts
    <2>2. log'[m][j] = log[m][j] /\ log'[m][j - 1] = log[m][j - 1]
      BY <2>1, NotifyFacts
    <2> QED
      BY SMT, <1>1, <1>3, <2>1, <2>2 DEF BornBound, PodAt
  <1>4. CASE k = m /\ j = Len(log[m]) + 1
    <2>1. j - 1 = Len(log[m]) /\ Len(log[m]) \in 1..Len(log[m])
      BY SMT, <1>4, ObjectFacts
    <2>2. log'[m][j] = o /\ log'[m][j - 1] = log[m][j - 1]
      BY <1>4, <2>1, NotifyFacts
    <2> QED
      BY <1>1, <1>4, <2>1, <2>2 DEF PodAt
  <1> QED
    BY SMT, <1>2, <1>3, <1>4, NotifyFacts, ObjectFacts

LEMMA HandledBorn ==
    ASSUME TypeOK, HistoryInv, NEW m \in Names, Pending(m), Handled(m),
           NEW u \in Uids, BornBound(u)'
    PROVE  BornBound(u) /\ ~PodAt(m, 2, u)
  <1>0. PICK k \in Names : \E j \in 2..Len(log'[k]) :
               PodAt(k, j, u)' /\ log'[k][j].bound /\ ~PodAt(k, j - 1, u)'
    BY DEF BornBound
  <1>1. PICK j \in 2..Len(log'[k]) :
               PodAt(k, j, u)' /\ log'[k][j].bound /\ ~PodAt(k, j - 1, u)'
    BY <1>0
  <1>2. CASE k # m
    <2>1. log'[k] = log[k]
      BY <1>2, HandledFacts
    <2>2. j \in 2..Len(log[k]) /\ PodAt(k, j, u) /\ log[k][j].bound /\ ~PodAt(k, j - 1, u)
      BY <1>1, <2>1 DEF PodAt
    <2>3. NameOf[u] = k
      BY SMT, <2>2, ObjectFacts DEF HistoryInv
    <2>4. 2 \in 1..Len(log[m])
      BY SMT, ObjectFacts DEF Pending
    <2> QED
      BY ZenonT(30), <1>2, <2>2, <2>3, <2>4 DEF HistoryInv, BornBound
  <1>3. CASE k = m
    <2>1. /\ j \in 1..Len(log[m]) - 1 /\ j - 1 \in 1..Len(log[m]) - 1
          /\ j + 1 \in 2..Len(log[m]) /\ j + 1 \in 1..Len(log[m])
          /\ (j - 1) + 1 = j /\ (j + 1) - 1 = j
          /\ 2 \in 1..Len(log[m]) /\ 2 < j + 1
      BY SMT, <1>3, HandledFacts, ObjectFacts DEF Pending
    <2>2. log'[m][j] = log[m][j + 1] /\ log'[m][j - 1] = log[m][j]
      BY <2>1, HandledFacts
    <2>3. PodAt(m, j + 1, u) /\ log[m][j + 1].bound /\ ~PodAt(m, j, u)
      BY <1>1, <1>3, <2>2 DEF PodAt
    <2>4. BornBound(u)
      BY <2>1, <2>3 DEF BornBound
    <2>5. ~PodAt(m, 2, u)
      BY SMT, <2>1, <2>3 DEF HistoryInv
    <2> QED
      BY <2>4, <2>5
  <1> QED
    BY <1>2, <1>3

----------------------------------------------------------------------------
(* The steps that change a history. *)

LEMMA BornExists ==
    ASSUME TypeOK, HistoryInv, NEW u \in Uids, BornBound(u)
    PROVE  u \in used
  <1>1. PICK m \in Names : \E j \in 2..Len(log[m]) : PodAt(m, j, u)
    BY DEF BornBound
  <1>2. \E j \in 1..Len(log[m]) : PodAt(m, j, u)
    BY SMT, <1>1, ObjectFacts
  <1> QED
    BY <1>2 DEF HistoryInv

(* The lister's object is the last one of the history. *)
LEMMA PresentFacts ==
    ASSUME TypeOK, HistoryInv, NEW u \in Uids, Present(u)
    PROVE  /\ NameOf[u] \in Names
           /\ u \in used
           /\ Lister(NameOf[u]) \in PodObj /\ Lister(NameOf[u]).uid = u
           /\ PodAt(NameOf[u], Len(log[NameOf[u]]), u)
           /\ Lister(NameOf[u]).bound => home[u] # NoNode
  <1>1. NameOf[u] \in Names
    BY NameOfAssumption
  <1>2. Len(log[NameOf[u]]) \in 1..Len(log[NameOf[u]])
    BY SMT, <1>1, ObjectFacts
  <1>3. PodAt(NameOf[u], Len(log[NameOf[u]]), u)
    BY DEF Present, PodAt, Lister
  <1>4. u \in used /\ (log[NameOf[u]][Len(log[NameOf[u]])].bound => home[u] # NoNode)
    BY <1>1, <1>2, <1>3 DEF HistoryInv
  <1>5. Lister(NameOf[u]) \in PodObj
    BY <1>1, ObjectFacts DEF Present
  <1> QED
    BY <1>1, <1>3, <1>4, <1>5 DEF Present, Lister

LEMMA AppearSteps ==
    ASSUME TypeOK, HistoryInv, NEW u \in Uids, NEW b \in BOOLEAN, NEW n \in Nodes, Appear(u, b, n)
    PROVE  /\ HistoryInv'
           /\ \A v \in Uids : Fresh(v)' => Fresh(v) /\ (v = u => b)
  <1> DEFINE o == [uid |-> u, bound |-> b]
  <1>1. o \in Object /\ IsPod(o) /\ o.uid = u /\ o.bound = b
    BY SMT, NoPodAssumption DEF Object, PodObj, IsPod
  <1>2. NameOf[u] \in Names /\ Notify(NameOf[u], o)
    BY NameOfAssumption DEF Appear
  <1> HIDE DEF o
  <1>3. /\ u \notin used /\ used' = used \cup {u}
        /\ home' = [home EXCEPT ![u] = IF b THEN n ELSE NoNode]
    BY DEF Appear
  <1>4. b => home'[u] # NoNode
    BY <1>3, NoNodeAssumption DEF TypeOK
  <1>5. \A v \in used : home'[v] = home[v]
    BY <1>3 DEF TypeOK
  <1>6. HistoryInv'
    BY <1>1, <1>2, <1>3, <1>4, <1>5, NotifyHistory
  <1>7. ASSUME NEW v \in Uids, Fresh(v)'
        PROVE  Fresh(v) /\ (v = u => b)
    <2>1. CASE v = u
      <3>1. BornBound(u)'
        BY <1>3, <1>7, <2>1 DEF Fresh
      <3>2. ~BornBound(u)
        BY <1>3, BornExists
      <3> QED
        BY <1>1, <1>2, <1>3, <2>1, <3>1, <3>2, NotifyBorn DEF Fresh
    <2>2. CASE v # u
      BY <1>1, <1>2, <1>3, <1>7, <2>2, NotifyBorn DEF Fresh
    <2> QED
      BY <2>1, <2>2
  <1> QED
    BY <1>6, <1>7

(* Another state of the pod that is present, or its end. *)
LEMMA ChangeSteps ==
    ASSUME TypeOK, HistoryInv, NEW u \in Uids, Present(u), used' = used,
           NEW o \in Object, Notify(NameOf[u], o),
           IsPod(o) => o.uid = u /\ (o.bound => home'[u] # NoNode),
           \A v \in Uids : home[v] # NoNode => home'[v] # NoNode
    PROVE  HistoryInv' /\ \A v \in Uids : Fresh(v)' => Fresh(v)
  <1>1. NameOf[u] \in Names /\ u \in used /\ PodAt(NameOf[u], Len(log[NameOf[u]]), u)
    BY PresentFacts
  <1>2. used \subseteq Uids
    BY DEF TypeOK
  <1>3. HistoryInv'
    BY <1>1, <1>2, NotifyHistory
  <1>4. \A v \in Uids : Fresh(v)' => Fresh(v)
    BY SMT, <1>1, NotifyBorn DEF Fresh
  <1> QED
    BY <1>3, <1>4

LEMMA BoundSteps ==
    ASSUME TypeOK, HistoryInv, NEW u \in Uids, NEW n \in Nodes, BoundAtAPI(u, n), used' = used
    PROVE  HistoryInv' /\ \A v \in Uids : Fresh(v)' => Fresh(v)
  <1> DEFINE o == [uid |-> u, bound |-> TRUE]
  <1>1. o \in Object /\ o.uid = u
    BY DEF Object, PodObj
  <1>2. Present(u) /\ Notify(NameOf[u], o) /\ home' = [home EXCEPT ![u] = n]
    BY DEF BoundAtAPI
  <1> HIDE DEF o
  <1>3. home'[u] # NoNode /\ \A v \in Uids : home[v] # NoNode => home'[v] # NoNode
    BY <1>2, NoNodeAssumption DEF TypeOK
  <1> QED
    BY <1>1, <1>2, <1>3, ChangeSteps

LEMMA HandledSteps ==
    ASSUME TypeOK, HistoryInv, NEW m \in Names, Pending(m), Handled(m)
    PROVE  /\ HistoryInv'
           /\ \A v \in Uids : Fresh(v)' => Fresh(v) /\ ~PodAt(m, 2, v)
  <1>1. HistoryInv'
    BY HandledHistory
  <1>2. used' = used /\ 2 \in 1..Len(log[m])
    BY SMT, ObjectFacts DEF Handled, Pending
  <1>3. \A v \in Uids : Fresh(v)' => Fresh(v) /\ ~PodAt(m, 2, v)
    BY <1>2, HandledBorn DEF Fresh, HistoryInv
  <1> QED
    BY <1>1, <1>3

LEMMA NoHistorySteps ==
    ASSUME HistoryInv, UNCHANGED apiVars
    PROVE  HistoryInv' /\ \A v \in Uids : Fresh(v)' <=> Fresh(v)
  BY SMT DEF apiVars, HistoryInv, Fresh, BornBound, PodAt

----------------------------------------------------------------------------
(* No step touches a fresh pod: the history, the freshness and the tasks. *)

Kept(v) ==
    /\ v \in queued' => v \in queued
    /\ task'[v].stage # "idle" => task[v].stage # "idle"
    /\ Cached(v)' => Cached(v)

LEMMA FreshKept ==
    ASSUME FreshInv, \A v \in Uids : Fresh(v)' => Fresh(v) /\ Kept(v)
    PROVE  FreshInv'
  BY DEF FreshInv, Kept

(* BinderQueue.Delete only ever ends tasks. *)
LEMMA QueueDeleteTasks ==
    ASSUME TypeOK, TaskInv, NEW u \in Uids, BinderQueueDelete(u)
    PROVE  /\ TaskInv'
           /\ \A v \in Uids : task'[v].stage # "idle" => task[v].stage # "idle"
           /\ \A v \in Uids : task'[v].reserved => task[v].reserved
           /\ \A v \in Uids : task'[v].reserved => task'[v].node = task[v].node
  <1>1. CASE UNCHANGED task
    BY <1>1 DEF TaskInv
  <1>2. CASE task' = [task EXCEPT ![u] = Idle]
    BY <1>2 DEF TaskInv, Idle, TypeOK
  <1> QED
    BY <1>1, <1>2 DEF BinderQueueDelete

LEMMA InformerFresh ==
    ASSUME TypeOK, HistoryInv, FreshInv, TaskInv, InformerStep
    PROVE  HistoryInv' /\ FreshInv' /\ TaskInv'
  <1>1. ASSUME NEW u \in Uids, NEW b \in BOOLEAN, NEW n \in Nodes, PodCreated(u, b, n)
        PROVE  HistoryInv' /\ FreshInv' /\ TaskInv'
    <2>1. HistoryInv' /\ \A v \in Uids : Fresh(v)' => Fresh(v) /\ (v = u => b)
      BY <1>1, AppearSteps DEF PodCreated
    <2>2. \A v \in Uids : Fresh(v)' => Kept(v)
      BY <1>1, <2>1 DEF PodCreated, Kept, Cached, cacheVars
    <2> QED
      BY <1>1, <2>1, <2>2, FreshKept DEF PodCreated, TaskInv
  <1>2. ASSUME NEW u \in Uids, NEW b \in BOOLEAN, NEW n \in Nodes, PodReplaced(u, b, n)
        PROVE  HistoryInv' /\ FreshInv' /\ TaskInv'
    <2>1. HistoryInv' /\ \A v \in Uids : Fresh(v)' => Fresh(v) /\ (v = u => b)
      BY <1>2, AppearSteps DEF PodReplaced
    <2>2. Lister(NameOf[u]).uid \in Uids
      BY <1>2, ObjectFacts, NameOfAssumption DEF PodReplaced, PodObj
    <2>3. TaskInv' /\ \A v \in Uids : task'[v].stage # "idle" => task[v].stage # "idle"
      BY <1>2, <2>2, QueueDeleteTasks DEF PodReplaced
    <2>4. \A v \in Uids : Fresh(v)' => Kept(v)
      BY <1>2, <2>1, <2>3 DEF PodReplaced, Kept, Cached, cacheVars
    <2> QED
      BY <2>1, <2>3, <2>4, FreshKept
  <1>3. ASSUME NEW u \in Uids, NEW n \in Nodes, PodBound(u, n)
        PROVE  HistoryInv' /\ FreshInv' /\ TaskInv'
    <2>1. HistoryInv' /\ \A v \in Uids : Fresh(v)' => Fresh(v)
      BY <1>3, BoundSteps DEF PodBound
    <2>2. \A v \in Uids : Kept(v)
      BY <1>3 DEF PodBound, Kept, Cached, cacheVars
    <2> QED
      BY <1>3, <2>1, <2>2, FreshKept DEF PodBound, TaskInv
  <1>4. ASSUME NEW u \in Uids, PodTouched(u) \/ PodDeleted(u)
        PROVE  HistoryInv' /\ FreshInv' /\ TaskInv'
    <2>1. /\ Lister(NameOf[u]) \in Object /\ NoPod \in Object /\ ~IsPod(NoPod)
          /\ Lister(NameOf[u]).uid = u
          /\ Lister(NameOf[u]).bound => home[u] # NoNode
      BY <1>4, PresentFacts DEF PodTouched, PodDeleted, Object, IsPod
    <2>2. HistoryInv' /\ \A v \in Uids : Fresh(v)' => Fresh(v)
      BY <1>4, <2>1, ChangeSteps DEF PodTouched, PodDeleted
    <2>3. \A v \in Uids : Kept(v)
      BY <1>4 DEF PodTouched, PodDeleted, Kept, Cached, cacheVars
    <2> QED
      BY <1>4, <2>2, <2>3, FreshKept DEF PodTouched, PodDeleted, TaskInv
  <1> QED
    BY <1>1, <1>2, <1>3, <1>4 DEF InformerStep

(* The event at the head of a history is of a pod of that name. *)
LEMMA EventFacts ==
    ASSUME TypeOK, HistoryInv, NEW m \in Names, Pending(m)
    PROVE  /\ IsPod(Old(m)) => /\ Old(m) \in PodObj /\ PodAt(m, 1, Old(m).uid)
                               /\ Old(m).bound => home[Old(m).uid] \in Nodes
           /\ IsPod(New(m)) => /\ New(m) \in PodObj /\ PodAt(m, 2, New(m).uid)
                               /\ New(m).bound => home[New(m).uid] \in Nodes
  <1>1. 1 \in 1..Len(log[m]) /\ 2 \in 1..Len(log[m])
    BY SMT, ObjectFacts DEF Pending
  <1>2. /\ IsPod(Old(m)) => Old(m) \in PodObj
        /\ IsPod(New(m)) => New(m) \in PodObj
    BY <1>1, ObjectFacts DEF Old, New
  <1>3. \A o \in PodObj : o.uid \in Uids /\ home[o.uid] \in Nodes \cup {NoNode}
    BY DEF PodObj, TypeOK
  <1>4. /\ IsPod(Old(m)) => PodAt(m, 1, Old(m).uid)
        /\ IsPod(New(m)) => PodAt(m, 2, New(m).uid)
    BY DEF Old, New, PodAt
  <1>5. /\ IsPod(Old(m)) /\ Old(m).bound => home[Old(m).uid] # NoNode
        /\ IsPod(New(m)) /\ New(m).bound => home[New(m).uid] # NoNode
    BY SMT, <1>1, <1>2, <1>3, <1>4 DEF HistoryInv, Old, New
  <1> QED
    BY <1>2, <1>3, <1>4, <1>5

(* What PodStore.UpdatePod leaves, and that ForgetPod adds nothing. *)
LEMMA PodStoreUpdateFacts ==
    ASSUME TypeOK, NEW old \in PodObj, NEW new \in PodObj, NEW v \in Uids
    PROVE  PodStoreUpdatePod(old, new)[v] =
             IF v = new.uid /\ new.bound /\ (v = old.uid \/ ~Cached(v)) THEN home[v]
             ELSE IF v = old.uid THEN NoNode ELSE podStates[v]
  BY DEF PodStoreUpdatePod, Cached, PodObj, TypeOK

LEMMA ForgetPodCache ==
    ASSUME TypeOK, NEW u \in Uids, NEW n, ForgetPod(u, n)
    PROVE  \A v \in Uids : Cached(v)' => Cached(v)
  BY DEF TypeOK, ForgetPod, PodStoreDeletePods, Cached

LEMMA HandlerFresh ==
    ASSUME TypeOK, HistoryInv, FreshInv, TaskInv, HandlerStep
    PROVE  HistoryInv' /\ FreshInv' /\ TaskInv'
  <1>1. ASSUME NEW m \in Names, AddPod(m) \/ UpdatePod(m) \/ DeletePod(m)
        PROVE  HistoryInv' /\ FreshInv' /\ TaskInv'
    <2>1. Pending(m) /\ Handled(m) /\ task' = task /\ queued' = queued
      BY ZenonT(30), <1>1 DEF AddPod, UpdatePod, DeletePod, Handled
    <2>2. HistoryInv' /\ \A v \in Uids : Fresh(v)' => Fresh(v) /\ ~PodAt(m, 2, v)
      BY <2>1, HandledSteps
    <2>3. ASSUME NEW v \in Uids, ~PodAt(m, 2, v), Cached(v)'
          PROVE  Cached(v)
      <3>1. CASE AddPod(m)
        BY ZenonT(30), <2>1, <2>3, <3>1, EventFacts DEF AddPod, Cached, TypeOK
      <3>2. CASE UpdatePod(m)
        <4>1. Old(m) \in PodObj /\ New(m) \in PodObj /\ v # New(m).uid
          BY ZenonT(30), <2>1, <2>3, <3>2, EventFacts DEF UpdatePod
        <4>2. podStates' \in {podStates, PodStoreUpdatePod(Old(m), New(m))}
          BY SMTT(30), <3>2 DEF UpdatePod, cacheVars
        <4> QED
          BY SMTT(30), <2>3, <4>1, <4>2, PodStoreUpdateFacts DEF Cached
      <3>3. CASE DeletePod(m)
        BY ZenonT(30), <2>3, <3>3 DEF DeletePod, PodStoreDeletePods, cacheVars, Cached, TypeOK
      <3> QED
        BY SMTT(30), <1>1, <3>1, <3>2, <3>3
    <2> QED
      BY ZenonT(30), <2>1, <2>2, <2>3, FreshKept DEF Kept, TaskInv
  <1>2. ASSUME NEW u \in Uids, DequeueBound(u) \/ DequeueDeleted(u)
        PROVE  HistoryInv' /\ FreshInv' /\ TaskInv'
    <2>1. UNCHANGED apiVars /\ BinderQueueDelete(u) /\ queued' = queued \ {u}
      BY <1>2 DEF DequeueBound, DequeueDeleted
    <2>2. \A v \in Uids : Cached(v)' => Cached(v)
      BY <1>2, ForgetPodCache DEF DequeueBound, DequeueDeleted, cacheVars, Cached
    <2>3. TaskInv' /\ \A v \in Uids : Kept(v)
      BY <2>1, <2>2, QueueDeleteTasks DEF Kept
    <2> QED
      BY <2>1, <2>3, NoHistorySteps, FreshKept
  <1> QED
    BY SMTT(30), <1>1, <1>2 DEF HandlerStep

(* A step of the pipeline that changes the task of u alone. *)
LEMMA OneTask ==
    ASSUME TypeOK, FreshInv, TaskInv, NEW u \in Uids, NEW t,
           task[u].stage # "idle" \/ u \in queued,
           task' = [task EXCEPT ![u] = t], t.stage # "idle" => t.node # NoNode
    PROVE  /\ TaskInv'
           /\ ~Fresh(u)
           /\ \A v \in Uids : v # u => task'[v] = task[v]
  BY DEF TypeOK, FreshInv, TaskInv

LEMMA FailsTask ==
    ASSUME TypeOK, NEW u \in Uids, Fails(u)
    PROVE  task' = [task EXCEPT ![u] = [task[u] EXCEPT !.stage = "failed"]]
  BY DEF TypeOK, Fails, Task

LEMMA PipelineFresh ==
    ASSUME TypeOK, HistoryInv, FreshInv, TaskInv, PipelineStep
    PROVE  HistoryInv' /\ FreshInv' /\ TaskInv'
  <1>1. ASSUME NEW u \in Uids, NEW t,
               task[u].stage # "idle" \/ u \in queued,
               task' = [task EXCEPT ![u] = t], t.stage # "idle" => t.node # NoNode,
               queued' = queued, \A v \in Uids : v # u /\ Cached(v)' => Cached(v),
               HistoryInv', \A v \in Uids : Fresh(v)' => Fresh(v)
        PROVE  HistoryInv' /\ FreshInv' /\ TaskInv'
    <2>1. /\ TaskInv' /\ ~Fresh(u)
          /\ \A v \in Uids : v # u => task'[v] = task[v]
      BY ZenonT(30), <1>1, OneTask
    <2>2. \A v \in Uids : Fresh(v)' => Fresh(v) /\ Kept(v)
      BY <1>1, <2>1 DEF Kept
    <2> QED
      BY <1>1, <2>1, <2>2, FreshKept
  <1>2. ASSUME NEW u \in Uids, task[u].stage # "idle"
        PROVE  /\ task[u] \in Task /\ task[u].node # NoNode /\ task[u].node \in Nodes
               /\ \A s \in Stages : /\ [task[u] EXCEPT !.stage = s].node = task[u].node
                                    /\ [task[u] EXCEPT !.stage = s] \in Task
    BY ZenonT(30), <1>2 DEF TypeOK, TaskInv, Task
  <1>3. Idle.stage = "idle" /\ Idle.node = NoNode
    BY DEF Idle
  <1>4. ASSUME NEW u \in Uids, NEW n \in Nodes, InitializeTask(u, n)
        PROVE  HistoryInv' /\ FreshInv' /\ TaskInv'
    <2>1. PICK s, vp : task' = [task EXCEPT ![u] = [Idle EXCEPT !.stage = s, !.node = n, !.victim = vp]]
      BY ZenonT(30), <1>4 DEF InitializeTask
    <2>2. [Idle EXCEPT !.stage = s, !.node = n, !.victim = vp].node = n
      BY DEF Idle
    <2>3. /\ u \in queued /\ queued' = queued /\ UNCHANGED apiVars
          /\ \A v \in Uids : Cached(v)' <=> Cached(v)
      BY <1>4 DEF InitializeTask, cacheVars, Cached
    <2> QED
      BY ZenonT(30), <1>1, <2>1, <2>2, <2>3, NoHistorySteps, NoNodeAssumption
  <1>5. ASSUME NEW u \in Uids, NEW ok \in BOOLEAN, CheckConflicts(u, ok) \/ DeleteVictims(u, ok)
        PROVE  HistoryInv' /\ FreshInv' /\ TaskInv'
    <2>1. /\ task[u].stage # "idle" /\ queued' = queued /\ UNCHANGED apiVars
          /\ \A v \in Uids : Cached(v)' <=> Cached(v)
      BY <1>5 DEF CheckConflicts, DeleteVictims, cacheVars, Cached
    <2>2. \/ Fails(u)
          \/ task' = [task EXCEPT ![u].stage = "checked"]
          \/ task' = [task EXCEPT ![u].stage = "waiting", ![u].victim = NoPod]
      BY <1>5 DEF CheckConflicts, DeleteVictims
    <2>3. \E t : task' = [task EXCEPT ![u] = t] /\ t.node # NoNode
      <3>1. CASE Fails(u)
        BY ZenonT(30), <1>2, <2>1, <3>1, FailsTask DEF Stages
      <3>2. CASE task' = [task EXCEPT ![u].stage = "checked"]
        <4>1. task' = [task EXCEPT ![u] = [task[u] EXCEPT !.stage = "checked"]]
          BY <3>2 DEF TypeOK
        <4> QED
          BY ZenonT(30), <1>2, <2>1, <4>1 DEF Stages
      <3>3. CASE task' = [task EXCEPT ![u].stage = "waiting", ![u].victim = NoPod]
        <4>1. task' = [task EXCEPT ![u] = [task[u] EXCEPT !.stage = "waiting", !.victim = NoPod]]
          BY ZenonT(30), <3>3 DEF TypeOK
        <4>2. [task[u] EXCEPT !.stage = "waiting", !.victim = NoPod].node = task[u].node
          BY <1>2, <2>1 DEF Task
        <4> QED
          BY ZenonT(30), <1>2, <2>1, <4>1, <4>2
      <3> QED
        BY <2>2, <3>1, <3>2, <3>3
    <2> QED
      BY ZenonT(30), <1>1, <2>1, <2>3, NoHistorySteps
  <1>6. ASSUME NEW u \in Uids, MarkVictims(u)
        PROVE  HistoryInv' /\ FreshInv' /\ TaskInv'
    <2>1. /\ task[u].stage # "idle" /\ queued' = queued /\ UNCHANGED apiVars
          /\ \A v \in Uids : Cached(v)' <=> Cached(v)
      BY <1>6 DEF MarkVictims, Cached
    <2>2. \/ Fails(u) \/ UNCHANGED task
          \/ task' = [task EXCEPT ![u].stage = "marked"]
      BY <1>6 DEF MarkVictims
    <2>3. \E t : task' = [task EXCEPT ![u] = t] /\ t.node # NoNode
      <3>1. CASE Fails(u)
        BY ZenonT(30), <1>2, <2>1, <3>1, FailsTask DEF Stages
      <3>2. CASE UNCHANGED task
        <4>1. task' = [task EXCEPT ![u] = task[u]]
          BY <3>2 DEF TypeOK
        <4> QED
          BY ZenonT(30), <1>2, <2>1, <4>1
      <3>3. CASE task' = [task EXCEPT ![u].stage = "marked"]
        <4>1. task' = [task EXCEPT ![u] = [task[u] EXCEPT !.stage = "marked"]]
          BY <3>3 DEF TypeOK
        <4> QED
          BY ZenonT(30), <1>2, <2>1, <4>1 DEF Stages
      <3> QED
        BY <2>2, <3>1, <3>2, <3>3
    <2> QED
      BY ZenonT(30), <1>1, <2>1, <2>3, NoHistorySteps
  <1>7. ASSUME NEW u \in Uids, NEW ok \in BOOLEAN, AssumePod(u, ok)
        PROVE  HistoryInv' /\ FreshInv' /\ TaskInv'
    <2>1. /\ task[u].stage # "idle" /\ queued' = queued /\ UNCHANGED apiVars
      BY <1>7 DEF AssumePod
    <2>2. \A v \in Uids : v # u => (Cached(v)' <=> Cached(v))
      BY <1>7 DEF AssumePod, Cached, TypeOK
    <2>3. \E t : task' = [task EXCEPT ![u] = t] /\ t.node # NoNode
      <3>1. CASE Fails(u)
        BY ZenonT(30), <1>2, <2>1, <3>1, FailsTask DEF Stages
      <3>2. CASE task' = [task EXCEPT ![u].stage = "assumed", ![u].reserved = TRUE]
        <4>1. task' = [task EXCEPT ![u] = [task[u] EXCEPT !.stage = "assumed", !.reserved = TRUE]]
          BY ZenonT(30), <3>2 DEF TypeOK
        <4>2. [task[u] EXCEPT !.stage = "assumed", !.reserved = TRUE].node = task[u].node
          BY <1>2, <2>1 DEF Task
        <4> QED
          BY ZenonT(30), <1>2, <2>1, <4>1, <4>2
      <3> QED
        BY <1>7, <3>1, <3>2 DEF AssumePod
    <2> QED
      BY ZenonT(30), <1>1, <2>1, <2>2, <2>3, NoHistorySteps
  <1>8. ASSUME NEW u \in Uids, NEW applied \in BOOLEAN, NEW ok \in BOOLEAN, BindTask(u, applied, ok)
        PROVE  HistoryInv' /\ FreshInv' /\ TaskInv'
    <2>1. /\ task[u].stage # "idle" /\ queued' = queued
          /\ \A v \in Uids : Cached(v)' <=> Cached(v)
      BY <1>8 DEF BindTask, ReadyToBind, Cached
    <2>2. HistoryInv' /\ \A v \in Uids : Fresh(v)' => Fresh(v)
      BY <1>2, <1>8, <2>1, BoundSteps, NoHistorySteps DEF BindTask
    <2>3. \E t : task' = [task EXCEPT ![u] = t] /\ (t.stage # "idle" => t.node # NoNode)
      <3>1. CASE ok
        BY ZenonT(30), <1>3, <1>8, <3>1 DEF BindTask
      <3>2. CASE ~ok
        <4>1. PICK k, s : task' = [task EXCEPT ![u] = [task[u] EXCEPT !.binds = k, !.stage = s]]
          BY ZenonT(30), <1>8, <3>2 DEF BindTask
        <4>2. [task[u] EXCEPT !.binds = k, !.stage = s].node = task[u].node
          BY <1>2, <2>1 DEF Task
        <4> QED
          BY ZenonT(30), <1>2, <2>1, <4>1, <4>2
      <3> QED
        BY <3>1, <3>2
    <2> QED
      BY ZenonT(30), <1>1, <2>1, <2>2, <2>3
  <1>9. ASSUME NEW u \in Uids, PreemptionTimeout(u) \/ RejectTimeOutUnit(u) \/ RejectFailedTask(u)
        PROVE  HistoryInv' /\ FreshInv' /\ TaskInv'
    <2>1. /\ task[u].stage # "idle" /\ queued' = queued /\ UNCHANGED apiVars
      BY <1>9 DEF PreemptionTimeout, RejectTimeOutUnit, RejectFailedTask
    <2>2. \A v \in Uids : Cached(v)' => Cached(v)
      BY ZenonT(30), <1>9, ForgetPodCache DEF PreemptionTimeout, RejectTimeOutUnit, RejectFailedTask, cacheVars, Cached
    <2>3. Fails(u) \/ task' = [task EXCEPT ![u] = Idle]
      BY <1>9 DEF PreemptionTimeout, RejectTimeOutUnit, RejectFailedTask
    <2>4. \E t : task' = [task EXCEPT ![u] = t] /\ (t.stage # "idle" => t.node # NoNode)
      <3>1. CASE Fails(u)
        BY ZenonT(30), <1>2, <2>1, <3>1, FailsTask DEF Stages
      <3>2. CASE task' = [task EXCEPT ![u] = Idle]
        BY ZenonT(30), <1>3, <3>2
      <3> QED
        BY <2>3, <3>1, <3>2
    <2> QED
      BY ZenonT(30), <1>1, <2>1, <2>2, <2>4, NoHistorySteps
  <1> QED
    BY <1>4, <1>5, <1>6, <1>7, <1>8, <1>9 DEF PipelineStep

LEMMA WorkerFresh ==
    ASSUME TypeOK, HistoryInv, FreshInv, TaskInv, WorkerStep \/ NodeStep
    PROVE  HistoryInv' /\ FreshInv' /\ TaskInv'
  <1>1. UNCHANGED apiVars /\ task' = task /\ queued' = queued
    BY SMTT(30) DEF WorkerStep, DeadlinePasses, CleanupExpiredAssumedPods, CleanupPodDeletionMarker,
           NodeStep, SetNodeObject, DeleteNode, DeleteCNR, NodeUnchanged
  <1>2. \A v \in Uids : Cached(v)' => Cached(v)
    BY DEF WorkerStep, DeadlinePasses, CleanupExpiredAssumedPods, CleanupPodDeletionMarker,
           NodeStep, SetNodeObject, DeleteNode, DeleteCNR, NodeUnchanged,
           PodStoreDeletePods, cacheVars, Cached, TypeOK
  <1> QED
    BY SMTT(30), <1>1, <1>2, NoHistorySteps, FreshKept DEF Kept, TaskInv



----------------------------------------------------------------------------
(* The stores: which pods the operations of the node store leave on a node. *)

LEMMA WithoutPodsPods ==
    ASSUME NEW info \in NodeInfo, NEW us \in SUBSET Uids, NEW unused
    PROVE  WithoutPods(info, us, unused).pods = info.pods \ us
  <1>1. CASE info.pods \cap us = {}
    BY <1>1 DEF WithoutPods, NodeInfo
  <1>2. CASE info.pods \cap us # {} /\ info.pods \subseteq us /\ unused
    BY <1>2 DEF WithoutPods, NewNodeInfo
  <1>3. CASE info.pods \cap us # {} /\ ~(info.pods \subseteq us /\ unused)
    BY <1>3 DEF WithoutPods, NodeInfo
  <1> QED
    BY <1>1, <1>2, <1>3

LEMMA AddPodPods ==
    ASSUME NEW ns \in [Nodes -> NodeInfo], NEW n \in Nodes, NEW u \in Uids, NEW x \in Nodes
    PROVE  \A v \in Uids : v \in NodeStoreAddPod(ns, n, u)[x].pods <=>
                            v \in ns[x].pods \/ (x = n /\ v = u)
  <1>1. NodeStoreAddPod(ns, n, u)[x] = IF x = n THEN WithPod(ns[n], u) ELSE ns[x]
    BY DEF NodeStoreAddPod
  <1>2. WithPod(ns[n], u).pods = ns[n].pods \cup {u}
    BY DEF WithPod, NodeInfo
  <1> QED
    BY <1>1, <1>2

LEMMA DeletePodsPods ==
    ASSUME NEW ns \in [Nodes -> NodeInfo], NEW n \in Nodes \cup {NoNode}, NEW us \in SUBSET Uids, NEW x \in Nodes
    PROVE  \A v \in Uids : v \in NodeStoreDeletePods(ns, n, us)[x].pods <=>
                            v \in ns[x].pods /\ ~(x = n /\ v \in us)
  <1>1. NodeStoreDeletePods(ns, n, us)[x] =
          IF x = n THEN WithoutPods(ns[x], us, ns[x].objs = {}) ELSE ns[x]
    BY DEF NodeStoreDeletePods
  <1>2. WithoutPods(ns[x], us, ns[x].objs = {}).pods = ns[x].pods \ us
    BY SMT, WithoutPodsPods
  <1> QED
    BY <1>1, <1>2

LEMMA DeletePodPods ==
    ASSUME NEW ns \in [Nodes -> NodeInfo], NEW n \in Nodes \cup {NoNode}, NEW u \in Uids, NEW x \in Nodes
    PROVE  \A v \in Uids : v \in NodeStoreDeletePods(ns, n, {u})[x].pods <=>
                            v \in ns[x].pods /\ ~(x = n /\ v = u)
  <1>1. PICK us \in SUBSET Uids : us = {u}
    BY ZenonT(30)
  <1>2. \A v \in Uids : v \in NodeStoreDeletePods(ns, n, us)[x].pods <=>
                         v \in ns[x].pods /\ ~(x = n /\ v \in us)
    BY SMT, DeletePodsPods
  <1> QED
    BY <1>1, <1>2

LEMMA ForgetPodPods ==
    ASSUME NEW ns \in [Nodes -> NodeInfo], NEW n \in Nodes \cup {NoNode}, NEW u \in Uids, NEW x \in Nodes
    PROVE  \A v \in Uids : v \in NodeStoreForgetPod(ns, n, u)[x].pods <=>
                            v \in ns[x].pods /\ ~(x = n /\ v = u)
  <1>1. NodeStoreForgetPod(ns, n, u)[x] =
          IF x = n THEN WithoutPods(ns[x], {u}, ObjectIsNil(ns[x].objs)) ELSE ns[x]
    BY DEF NodeStoreForgetPod
  <1>2. WithoutPods(ns[x], {u}, ObjectIsNil(ns[x].objs)).pods = ns[x].pods \ {u}
    BY WithoutPodsPods
  <1> QED
    BY <1>1, <1>2

(* An assumed pod that is forgotten leaves all the stores; the check of
   PodStore.ForgetPod passes when the node is the one it is accounted on. *)
LEMMA ForgetPodAgrees ==
    ASSUME TypeOK, StoresAgree, AssumedPodsConsistent,
           NEW u \in Uids, NEW n \in Nodes \cup {NoNode}, u \in assumed => podStates[u] = n,
           ForgetPod(u, n)
    PROVE  /\ StoresAgree'
           /\ fault' = fault
           /\ assumed' = assumed \ {u}
           /\ \A v \in Uids : v # u \/ u \notin assumed => podStates'[v] = podStates[v]
           /\ assumed' \subseteq {v \in Uids : Cached(v)'}
  <1>1. CASE u \notin assumed
    BY SMT, <1>1 DEF ForgetPod, StoresAgree, AssumedPodsConsistent, Cached, TypeOK
  <1>2. CASE u \in assumed
    <2>1. /\ nodes' = NodeStoreForgetPod(nodes, n, u) /\ running' = running \ {u}
          /\ PodStoreDeletePods({u}) /\ UNCHANGED fault
      BY <1>2 DEF ForgetPod
    <2>2. podStates' = [v \in Uids |-> IF v = u THEN NoNode ELSE podStates[v]]
      BY <2>1 DEF PodStoreDeletePods
    <2>0. nodes \in [Nodes -> NodeInfo] /\ podStates[u] = n
      BY <1>2 DEF TypeOK
    <2>4. ASSUME NEW v \in Uids, NEW x \in Nodes
          PROVE  v \in nodes'[x].pods <=> podStates'[v] = x
      <3>1. v \in nodes[x].pods <=> podStates[v] = x
        BY DEF StoresAgree
      <3>2. v \in NodeStoreForgetPod(nodes, n, u)[x].pods <=> v \in nodes[x].pods /\ ~(x = n /\ v = u)
        BY SMT, <2>0, ForgetPodPods
      <3> QED
        BY <2>0, <2>1, <2>2, <3>1, <3>2, NoNodeAssumption
    <2>5. running' = {v \in Uids : Cached(v)'}
      BY <2>1, <2>2 DEF StoresAgree, Cached
    <2>6. assumed' = assumed \ {u} /\ assumed' \subseteq {v \in Uids : Cached(v)'}
      BY <2>1, <2>2 DEF PodStoreDeletePods, AssumedPodsConsistent, Cached
    <2>7. StoresAgree'
      BY <2>4, <2>5 DEF StoresAgree
    <2> QED
      BY <1>2, <2>1, <2>2, <2>6, <2>7
  <1> QED
    BY <1>1, <1>2

(* A step that moves no pod, assumes none and reserves none. *)
LEMMA StoresFrame ==
    ASSUME StoresAgree, podStates' = podStates, running' = running,
           \A x \in Nodes : nodes'[x].pods = nodes[x].pods
    PROVE  StoresAgree'
  BY DEF StoresAgree, Cached

LEMMA AssumedFrame ==
    ASSUME AssumedPodsConsistent, podStates' = podStates, assumed' = assumed,
           \A v \in Uids : task'[v].reserved => task[v].reserved /\ task'[v].node = task[v].node,
           fault' \notin {"ForgetPod", "CleanupExpiredAssumedPods"}, assumed \in SUBSET Uids
    PROVE  AssumedPodsConsistent'
  BY DEF AssumedPodsConsistent, Cached

LEMMA InformerStores ==
    ASSUME CacheInv, InformerStep
    PROVE  StoresAgree' /\ AssumedPodsConsistent'
  <1> USE DEF CacheInv
  <1>1. UNCHANGED cacheVars /\ fault' = "none"
    BY DEF InformerStep, PodCreated, PodReplaced, PodBound, PodTouched, PodDeleted, Up
  <1>2. \A v \in Uids : task'[v].reserved => task[v].reserved /\ task'[v].node = task[v].node
    <2>1. CASE UNCHANGED task
      BY <2>1
    <2>2. ASSUME NEW u \in Uids, NEW b \in BOOLEAN, NEW n \in Nodes, PodReplaced(u, b, n)
          PROVE  \A v \in Uids : task'[v].reserved => task[v].reserved /\ task'[v].node = task[v].node
      <3>1. Lister(NameOf[u]).uid \in Uids
        BY <2>2, ObjectFacts, NameOfAssumption DEF PodReplaced, PodObj
      <3> QED
        BY <2>2, <3>1, QueueDeleteTasks DEF PodReplaced
    <2> QED
      BY <2>1, <2>2 DEF InformerStep, PodCreated, PodBound, PodTouched, PodDeleted
  <1>3. StoresAgree'
    BY <1>1, StoresFrame DEF cacheVars
  <1>4. AssumedPodsConsistent'
    BY <1>1, <1>2, AssumedFrame DEF cacheVars, TypeOK
  <1> QED
    BY <1>3, <1>4

(* A bound pod that the handler meets for the first time is not cached. *)
LEMMA FirstMet ==
    ASSUME TypeOK, FreshInv, NEW m \in Names, Pending(m), NEW u \in Uids,
           PodAt(m, 2, u), log[m][2].bound, ~PodAt(m, 1, u)
    PROVE  ~Cached(u)
  <1>1. 2 \in 2..Len(log[m]) /\ 2 - 1 = 1
    BY SMT, ObjectFacts DEF Pending
  <1>2. BornBound(u)
    BY <1>1 DEF BornBound
  <1> QED
    BY <1>2 DEF FreshInv, Fresh

LEMMA AddPodStores ==
    ASSUME CacheInv, NEW m \in Names, AddPod(m)
    PROVE  StoresAgree' /\ AssumedPodsConsistent'
  <1> USE DEF CacheInv
  <1>0. /\ Pending(m) /\ ~IsPod(Old(m)) /\ IsPod(New(m)) /\ Handled(m)
        /\ UNCHANGED <<assumed, task, fault>> /\ fault = "none"
    BY DEF AddPod, Handled, Up
  <1>1. CASE ~New(m).bound
    <2>1. UNCHANGED <<nodes, running, podStates>>
      BY <1>1 DEF AddPod
    <2> QED
      BY SMTT(30), <1>0, <2>1, StoresFrame, AssumedFrame DEF TypeOK
  <1>2. CASE New(m).bound
    <2> DEFINE u == New(m).uid
    <2>1. u \in Uids /\ PodAt(m, 2, u) /\ ~PodAt(m, 1, u) /\ log[m][2].bound /\ home[u] \in Nodes
      BY <1>0, <1>2, EventFacts DEF PodObj, PodAt, Old, New
    <2>2. ~Cached(u)
      BY <1>0, <2>1, FirstMet
    <2>3. /\ nodes' = NodeStoreAddPod(nodes, home[u], u)
          /\ running' = running \cup {u}
          /\ podStates' = [podStates EXCEPT ![u] = home[u]]
      BY <1>2, <2>2 DEF AddPod
    <2> HIDE DEF u
    <2>4. ASSUME NEW v \in Uids, NEW x \in Nodes
          PROVE  v \in nodes'[x].pods <=> podStates'[v] = x
      <3>1. v \in NodeStoreAddPod(nodes, home[u], u)[x].pods <=>
              v \in nodes[x].pods \/ (x = home[u] /\ v = u)
        <4>1. nodes \in [Nodes -> NodeInfo]
          BY DEF TypeOK
        <4> QED
          BY SMT, <2>1, <4>1, AddPodPods
      <3>2. v \in nodes[x].pods <=> podStates[v] = x
        BY DEF StoresAgree
      <3>3. podStates'[v] = IF v = u THEN home[u] ELSE podStates[v]
        BY <2>1, <2>3 DEF TypeOK
      <3> QED
        BY <2>2, <2>3, <3>1, <3>2, <3>3, NoNodeAssumption DEF Cached
    <2>5. running' = {v \in Uids : Cached(v)'}
      BY SMT, <2>1, <2>3, NoNodeAssumption DEF StoresAgree, Cached, TypeOK
    <2>6. StoresAgree'
      BY <2>4, <2>5 DEF StoresAgree
    <2>7. AssumedPodsConsistent'
      BY SMTT(30), <1>0, <2>1, <2>2, <2>3, NoNodeAssumption DEF AssumedPodsConsistent, Cached, TypeOK
    <2> QED
      BY <2>6, <2>7
  <1> QED
    BY <1>1, <1>2

LEMMA UpdatePodStores ==
    ASSUME CacheInv, NEW m \in Names, UpdatePod(m)
    PROVE  StoresAgree' /\ AssumedPodsConsistent'
  <1> USE DEF CacheInv
  <1> DEFINE old == Old(m)
             new == New(m)
  <1>0. /\ Pending(m) /\ IsPod(old) /\ IsPod(new) /\ Handled(m)
        /\ UNCHANGED <<task, fault>> /\ fault = "none"
    BY DEF UpdatePod, Handled, Up
  <1>1. CASE IgnoredUpdate(old, new)
    <2>1. UNCHANGED cacheVars
      BY <1>1 DEF UpdatePod
    <2> QED
      BY SMTT(30), <1>0, <2>1, StoresFrame, AssumedFrame DEF TypeOK, cacheVars
  <1>2. CASE ~IgnoredUpdate(old, new)
    <2> DEFINE o == old.uid
               w == new.uid
               gone == {u \in {o} : Cached(u)}
    <2>1. /\ old \in PodObj /\ new \in PodObj /\ o \in Uids /\ w \in Uids
          /\ new.bound => home[w] \in Nodes
      BY <1>0, EventFacts DEF PodObj
    <2>2. new.bound /\ w # o => ~Cached(w)
      <3>1. PodAt(m, 2, w) /\ (w # o => ~PodAt(m, 1, w)) /\ new = log[m][2]
        BY <1>0, EventFacts DEF PodAt, Old, New
      <3> QED
        BY <1>0, <2>1, <3>1, FirstMet
    <2>3. /\ nodes' = NodeStoreUpdatePod(nodes, old, new)
          /\ podStates' = PodStoreUpdatePod(old, new)
          /\ assumed' = assumed \ gone
          /\ running' = (running \ gone) \cup (IF new.bound THEN {w} ELSE {})
      BY <1>2 DEF UpdatePod
    <2>4. ASSUME NEW v \in Uids
          PROVE  podStates'[v] = IF new.bound /\ v = w THEN home[w]
                                 ELSE IF v = o THEN NoNode ELSE podStates[v]
      BY SMTT(30), <2>1, <2>2, <2>3, PodStoreUpdateFacts
    <2>a. /\ Cached(o) => o \in nodes[podStates[o]].pods
          /\ podStates[o] \in Nodes \cup {NoNode} /\ nodes \in [Nodes -> NodeInfo] /\ {o} \in SUBSET Uids
      BY SMTT(30), <2>1 DEF StoresAgree, Cached, TypeOK
    <2>b. nodes' = LET removed == IF Cached(o) THEN NodeStoreDeletePods(nodes, podStates[o], {o}) ELSE nodes
                   IN  IF new.bound THEN NodeStoreAddPod(removed, home[w], w) ELSE removed
      BY <2>3, <2>a DEF NodeStoreUpdatePod
    <2> HIDE DEF old, new, o, w
    <2>5. ASSUME NEW v \in Uids, NEW x \in Nodes
          PROVE  v \in nodes'[x].pods <=>
                   \/ podStates[v] = x /\ v # o
                   \/ new.bound /\ x = home[w] /\ v = w
      <3> DEFINE removed == IF Cached(o) THEN NodeStoreDeletePods(nodes, podStates[o], {o}) ELSE nodes
      <3>2. removed \in [Nodes -> NodeInfo]
        BY <2>a, NodeStoreDeleteType
      <3>3. v \in NodeStoreDeletePods(nodes, podStates[o], {o})[x].pods <=>
              v \in nodes[x].pods /\ ~(x = podStates[o] /\ v = o)
        <4>1. PICK n \in Nodes \cup {NoNode} : n = podStates[o]
          BY <2>a
        <4>2. v \in NodeStoreDeletePods(nodes, n, {o})[x].pods <=> v \in nodes[x].pods /\ ~(x = n /\ v = o)
          BY SMT, <2>1, <2>a, DeletePodPods
        <4> QED
          BY <4>1, <4>2
      <3>4. v \in removed[x].pods <=> podStates[v] = x /\ v # o
        BY <3>3, NoNodeAssumption DEF StoresAgree, Cached
      <3>6. nodes' = IF new.bound THEN NodeStoreAddPod(removed, home[w], w) ELSE removed
        BY <2>b
      <3> HIDE DEF removed
      <3>7. CASE new.bound
        <4>1. v \in NodeStoreAddPod(removed, home[w], w)[x].pods <=>
                v \in removed[x].pods \/ (x = home[w] /\ v = w)
          BY SMT, <2>1, <3>2, <3>7, AddPodPods
        <4> QED
          BY <3>4, <3>6, <3>7, <4>1
      <3> QED
        BY <3>4, <3>6, <3>7
    <2>6. \A v \in Uids, x \in Nodes : v \in nodes'[x].pods <=> podStates'[v] = x
      BY SMT, <2>2, <2>4, <2>5, NoNodeAssumption DEF Cached
    <2>7. running' = {v \in Uids : Cached(v)'}
      BY SMT, <2>1, <2>3, <2>4, NoNodeAssumption DEF StoresAgree, Cached
    <2>8. StoresAgree'
      BY <2>6, <2>7 DEF StoresAgree
    <2>9. ASSUME NEW v \in assumed'
          PROVE  v \in Uids /\ v \in assumed /\ podStates'[v] = podStates[v] /\ Cached(v)
      <3>1. v \in assumed /\ v \in Uids /\ Cached(v) /\ v # o
        BY SMTT(30), <2>3 DEF AssumedPodsConsistent, TypeOK
      <3> QED
        BY <2>2, <2>4, <3>1
    <2>10. AssumedPodsConsistent'
      BY <1>0, <2>9 DEF AssumedPodsConsistent, Cached
    <2> QED
      BY <2>8, <2>10
  <1> QED
    BY <1>1, <1>2

LEMMA DeletePodStores ==
    ASSUME CacheInv, NEW m \in Names, DeletePod(m)
    PROVE  StoresAgree' /\ AssumedPodsConsistent'
  <1> USE DEF CacheInv
  <1> DEFINE u == Old(m).uid
             n == IF Cached(u) THEN podStates[u] ELSE Spec_nodeName(Old(m))
  <1>0. /\ Pending(m) /\ IsPod(Old(m)) /\ UNCHANGED <<task, fault>> /\ fault = "none"
    BY DEF DeletePod, Handled, Up
  <1>1. u \in Uids /\ n \in Nodes \cup {NoNode} /\ nodes \in [Nodes -> NodeInfo]
    BY <1>0, EventFacts DEF PodObj, Spec_nodeName, TypeOK
  <1>2. CASE n = NoNode
    <2>1. UNCHANGED cacheVars
      BY <1>2 DEF DeletePod
    <2> QED
      BY SMTT(30), <1>0, <2>1, StoresFrame, AssumedFrame DEF TypeOK, cacheVars
  <1>3. CASE n # NoNode
    <2>1. /\ nodes' = NodeStoreDeletePods(nodes, n, {u})
          /\ podStates' = [v \in Uids |-> IF v \in {u} THEN NoNode ELSE podStates[v]]
          /\ assumed' = assumed \ {u}
          /\ running' = running \ {u}
      BY <1>3 DEF DeletePod, PodStoreDeletePods
    <2>2. Cached(u) => n = podStates[u]
      OBVIOUS
    <2> HIDE DEF u, n
    <2>3. ASSUME NEW v \in Uids, NEW x \in Nodes
          PROVE  v \in nodes'[x].pods <=> podStates'[v] = x
      <3>1. v \in nodes[x].pods <=> podStates[v] = x
        BY DEF StoresAgree
      <3>2. v \in NodeStoreDeletePods(nodes, n, {u})[x].pods <=> v \in nodes[x].pods /\ ~(x = n /\ v = u)
        BY ZenonT(30), <1>1, DeletePodPods
      <3> QED
        BY <2>1, <2>2, <3>1, <3>2, NoNodeAssumption DEF Cached
    <2>4. running' = {v \in Uids : Cached(v)'}
      BY <2>1 DEF StoresAgree, Cached
    <2>5. StoresAgree'
      BY <2>3, <2>4 DEF StoresAgree
    <2>6. AssumedPodsConsistent'
      BY <1>0, <2>1 DEF AssumedPodsConsistent, Cached, TypeOK
    <2> QED
      BY <2>5, <2>6
  <1> QED
    BY <1>2, <1>3

(* ForgetPod, together with what the step does to the tasks. *)
LEMMA ForgetPodStores ==
    ASSUME CacheInv, fault = "none", NEW u \in Uids, NEW n \in Nodes \cup {NoNode},
           u \in assumed => podStates[u] = n, ForgetPod(u, n),
           \A v \in Uids : task'[v].reserved => task[v].reserved /\ task'[v].node = task[v].node
    PROVE  StoresAgree' /\ AssumedPodsConsistent' /\ fault' = "none"
  <1> USE DEF CacheInv
  <1>1. /\ StoresAgree' /\ fault' = fault /\ assumed' = assumed \ {u}
        /\ \A v \in Uids : v # u \/ u \notin assumed => podStates'[v] = podStates[v]
        /\ assumed' \subseteq {v \in Uids : Cached(v)'}
    BY ForgetPodAgrees
  <1>2. \A v \in assumed' : v \in assumed /\ v \in Uids /\ podStates'[v] = podStates[v]
    BY <1>1 DEF TypeOK
  <1> QED
    BY <1>1, <1>2 DEF AssumedPodsConsistent

LEMMA HandlerStores ==
    ASSUME CacheInv, HandlerStep
    PROVE  StoresAgree' /\ AssumedPodsConsistent'
  <1> USE DEF CacheInv
  <1>1. ASSUME NEW u \in Uids, DequeueBound(u)
        PROVE  StoresAgree' /\ AssumedPodsConsistent'
    <2>1. UNCHANGED cacheVars /\ fault' = "none"
      BY <1>1 DEF DequeueBound, Up
    <2>2. \A v \in Uids : task'[v].reserved => task[v].reserved /\ task'[v].node = task[v].node
      BY <1>1, QueueDeleteTasks DEF DequeueBound
    <2> QED
      BY <2>1, <2>2, StoresFrame, AssumedFrame DEF cacheVars, TypeOK
  <1>2. ASSUME NEW u \in Uids, DequeueDeleted(u)
        PROVE  StoresAgree' /\ AssumedPodsConsistent'
    <2>1. \A v \in Uids : task'[v].reserved => task[v].reserved /\ task'[v].node = task[v].node
      BY <1>2, QueueDeleteTasks DEF DequeueDeleted
    <2>2. podStates[u] \in Nodes \cup {NoNode} /\ fault = "none" /\ ForgetPod(u, podStates[u])
      BY <1>2 DEF DequeueDeleted, Up, TypeOK
    <2> QED
      BY <2>1, <2>2, ForgetPodStores
  <1> QED
    BY <1>1, <1>2, AddPodStores, UpdatePodStores, DeletePodStores DEF HandlerStep

LEMMA AssumePodStores ==
    ASSUME CacheInv, NEW u \in Uids, NEW ok \in BOOLEAN, AssumePod(u, ok)
    PROVE  StoresAgree' /\ AssumedPodsConsistent'
  <1> USE DEF CacheInv
  <1> DEFINE n == task[u].node
  <1>0. fault' = "none" /\ task[u] \in Task /\ n \in Nodes /\ nodes \in [Nodes -> NodeInfo]
    BY SMTT(30) DEF AssumePod, Up, TaskInv, TypeOK, Task
  <1>1. CASE ~ok \/ Cached(u)
    <2>1. Fails(u) /\ UNCHANGED <<podStates, assumed, nodes, running>>
      BY <1>1 DEF AssumePod
    <2>2. \A v \in Uids : task'[v].reserved => task[v].reserved /\ task'[v].node = task[v].node
      BY SMT, <2>1 DEF Fails, TypeOK, Task
    <2> QED
      BY <1>0, <2>1, <2>2, StoresFrame, AssumedFrame DEF TypeOK
  <1>2. CASE ok /\ ~Cached(u)
    <2>1. /\ task' = [task EXCEPT ![u].stage = "assumed", ![u].reserved = TRUE]
          /\ podStates' = [podStates EXCEPT ![u] = n]
          /\ assumed' = assumed \cup {u}
          /\ nodes' = NodeStoreAddPod(nodes, n, u)
          /\ running' = running \cup {u}
      BY <1>2 DEF AssumePod
    <2>2. task'[u].node = n /\ \A v \in Uids : v # u => task'[v] = task[v]
      BY <1>0, <2>1 DEF TypeOK, Task
    <2> HIDE DEF n
    <2>3. ASSUME NEW v \in Uids, NEW x \in Nodes
          PROVE  v \in nodes'[x].pods <=> podStates'[v] = x
      <3>1. v \in NodeStoreAddPod(nodes, n, u)[x].pods <=> v \in nodes[x].pods \/ (x = n /\ v = u)
        BY <1>0, AddPodPods
      <3>2. v \in nodes[x].pods <=> podStates[v] = x
        BY DEF StoresAgree
      <3>3. podStates'[v] = IF v = u THEN n ELSE podStates[v]
        BY <2>1 DEF TypeOK
      <3> QED
        BY <1>2, <2>1, <3>1, <3>2, <3>3, NoNodeAssumption DEF Cached
    <2>4. running' = {v \in Uids : Cached(v)'}
      BY SMT, <1>0, <2>1, NoNodeAssumption DEF StoresAgree, Cached, TypeOK
    <2>5. StoresAgree'
      BY <2>3, <2>4 DEF StoresAgree
    <2>6. AssumedPodsConsistent'
      BY SMT, <1>0, <2>1, <2>2, NoNodeAssumption DEF AssumedPodsConsistent, Cached, TypeOK
    <2> QED
      BY <2>5, <2>6
  <1> QED
    BY <1>1, <1>2

(* Moving a task to another stage reserves nothing. *)
LEMMA StageReserves ==
    ASSUME TypeOK, NEW u \in Uids,
           \/ Fails(u)
           \/ UNCHANGED task
           \/ \E s \in Stages : task' = [task EXCEPT ![u].stage = s]
           \/ task' = [task EXCEPT ![u].stage = "waiting", ![u].victim = NoPod]
           \/ task' = [task EXCEPT ![u] = Idle]
    PROVE  \A v \in Uids : task'[v].reserved => task[v].reserved /\ task'[v].node = task[v].node
  <1> USE DEF TypeOK, Task
  <1>1. CASE Fails(u)
    BY SMT, <1>1 DEF Fails
  <1>2. CASE UNCHANGED task
    BY <1>2
  <1>3. ASSUME NEW s \in Stages, task' = [task EXCEPT ![u].stage = s]
        PROVE  \A v \in Uids : task'[v].reserved => task[v].reserved /\ task'[v].node = task[v].node
    BY SMT, <1>3
  <1>4. CASE task' = [task EXCEPT ![u].stage = "waiting", ![u].victim = NoPod]
    BY SMT, <1>4
  <1>5. CASE task' = [task EXCEPT ![u] = Idle]
    BY <1>5 DEF Idle
  <1> QED
    BY ZenonT(30), <1>1, <1>2, <1>3, <1>4, <1>5

LEMMA PipelineStores ==
    ASSUME CacheInv, PipelineStep
    PROVE  StoresAgree' /\ AssumedPodsConsistent'
  <1> USE DEF CacheInv
  <1>0. Idle.reserved = FALSE
    BY DEF Idle
  <1>1. ASSUME UNCHANGED <<podStates, assumed, nodes, running>>,
               \A v \in Uids : task'[v].reserved => task[v].reserved /\ task'[v].node = task[v].node,
               fault' \in {"none", "MarkPodToDelete"}
        PROVE  StoresAgree' /\ AssumedPodsConsistent'
    BY SMTT(30), <1>1, StoresFrame, AssumedFrame DEF TypeOK
  <1>2. ASSUME NEW u \in Uids, NEW n \in Nodes, InitializeTask(u, n)
        PROVE  StoresAgree' /\ AssumedPodsConsistent'
    <2>1. PICK s, vp : task' = [task EXCEPT ![u] = [Idle EXCEPT !.stage = s, !.node = n, !.victim = vp]]
      BY ZenonT(30), <1>2 DEF InitializeTask
    <2>2. ~[Idle EXCEPT !.stage = s, !.node = n, !.victim = vp].reserved
      BY DEF Idle
    <2>3. \A v \in Uids : task'[v].reserved => task[v].reserved /\ task'[v].node = task[v].node
      BY <2>1, <2>2 DEF TypeOK
    <2> QED
      BY SMTT(30), <1>1, <1>2, <2>3 DEF InitializeTask, Up, cacheVars
  <1>3. ASSUME NEW u \in Uids, NEW ok \in BOOLEAN, CheckConflicts(u, ok) \/ DeleteVictims(u, ok)
        PROVE  StoresAgree' /\ AssumedPodsConsistent'
    <2>1. \A v \in Uids : task'[v].reserved => task[v].reserved /\ task'[v].node = task[v].node
      BY <1>3, StageReserves DEF CheckConflicts, DeleteVictims, Stages
    <2> QED
      BY <1>1, <1>3, <2>1 DEF CheckConflicts, DeleteVictims, Up, cacheVars
  <1>4. ASSUME NEW u \in Uids, MarkVictims(u)
        PROVE  StoresAgree' /\ AssumedPodsConsistent'
    <2>1. \A v \in Uids : task'[v].reserved => task[v].reserved /\ task'[v].node = task[v].node
      BY ZenonT(30), <1>4, StageReserves DEF MarkVictims, Stages
    <2> QED
      BY SMTT(30), <1>1, <1>4, <2>1 DEF MarkVictims, Up
  <1>5. ASSUME NEW u \in Uids, NEW applied \in BOOLEAN, NEW ok \in BOOLEAN, BindTask(u, applied, ok)
        PROVE  StoresAgree' /\ AssumedPodsConsistent'
    <2>1. PICK k, s : task' = [task EXCEPT ![u] = IF ok THEN Idle
                                                  ELSE [task[u] EXCEPT !.binds = k, !.stage = s]]
      BY ZenonT(30), <1>5 DEF BindTask
    <2>2. \A v \in Uids : task'[v].reserved => task[v].reserved /\ task'[v].node = task[v].node
      BY SMTT(30), <1>0, <2>1 DEF TypeOK, Task
    <2> QED
      BY <1>1, <1>5, <2>2 DEF BindTask, Up
  <1>6. ASSUME NEW u \in Uids, PreemptionTimeout(u) \/ RejectTimeOutUnit(u)
        PROVE  StoresAgree' /\ AssumedPodsConsistent'
    <2>1. \A v \in Uids : task'[v].reserved => task[v].reserved /\ task'[v].node = task[v].node
      BY ZenonT(30), <1>6, StageReserves DEF PreemptionTimeout, RejectTimeOutUnit
    <2> QED
      BY <1>1, <1>6, <2>1 DEF PreemptionTimeout, RejectTimeOutUnit, Up, cacheVars
  <1>7. ASSUME NEW u \in Uids, RejectFailedTask(u)
        PROVE  StoresAgree' /\ AssumedPodsConsistent'
    <2>1. \A v \in Uids : task'[v].reserved => task[v].reserved /\ task'[v].node = task[v].node
      BY <1>0, <1>7 DEF RejectFailedTask, TypeOK
    <2>2. CASE task[u].reserved
      <3>1. task[u].node \in Nodes \cup {NoNode} /\ (u \in assumed => podStates[u] = task[u].node)
        BY SMTT(30), <2>2 DEF AssumedPodsConsistent, TypeOK, Task
      <3> QED
        BY SMTT(30), <1>7, <2>1, <2>2, <3>1, ForgetPodStores DEF RejectFailedTask, Up
    <2>3. CASE ~task[u].reserved
      BY <1>1, <1>7, <2>1, <2>3 DEF RejectFailedTask, Up
    <2> QED
      BY <2>2, <2>3
  <1> QED
    BY <1>2, <1>3, <1>4, <1>5, <1>6, <1>7, AssumePodStores DEF PipelineStep

LEMMA WorkerStores ==
    ASSUME CacheInv, WorkerStep
    PROVE  StoresAgree' /\ AssumedPodsConsistent'
  <1> USE DEF CacheInv
  <1>1. ASSUME NEW u \in Uids, DeadlinePasses(u)
        PROVE  StoresAgree' /\ AssumedPodsConsistent'
    BY SMTT(30), <1>1, StoresFrame, AssumedFrame DEF DeadlinePasses, Up, TypeOK
  <1>2. ASSUME NEW expired \in SUBSET Marked, CleanupPodDeletionMarker(expired)
        PROVE  StoresAgree' /\ AssumedPodsConsistent'
    BY SMTT(30), <1>2, StoresFrame, AssumedFrame DEF CleanupPodDeletionMarker, Up, TypeOK
  <1>3. CASE CleanupExpiredAssumedPods
    <2>1. /\ nodes' = [n \in Nodes |->
                NodeStoreDeletePods(nodes, n, {u \in due : podStates[u] = n})[n]]
          /\ podStates' = [u \in Uids |-> IF u \in due THEN NoNode ELSE podStates[u]]
          /\ assumed' = assumed \ due
          /\ running' = running \ due
          /\ UNCHANGED <<task, fault>> /\ fault = "none"
      BY <1>3 DEF CleanupExpiredAssumedPods, PodStoreDeletePods, AssumedPodsConsistent, Up
    <2>2. ASSUME NEW v \in Uids, NEW x \in Nodes
          PROVE  v \in nodes'[x].pods <=> podStates'[v] = x
      <3>1. PICK us \in SUBSET Uids : us = {u \in due : podStates[u] = x}
        BY ZenonT(30) DEF TypeOK
      <3>2. nodes \in [Nodes -> NodeInfo]
        BY DEF TypeOK
      <3>3. v \in NodeStoreDeletePods(nodes, x, us)[x].pods <=> v \in nodes[x].pods /\ ~(x = x /\ v \in us)
        BY <3>2, DeletePodsPods
      <3>4. nodes'[x] = NodeStoreDeletePods(nodes, x, us)[x]
        BY <2>1, <3>1
      <3>5. v \in nodes[x].pods <=> podStates[v] = x
        BY DEF StoresAgree
      <3> QED
        BY SMTT(30), <2>1, <3>1, <3>3, <3>4, <3>5, NoNodeAssumption
    <2>3. running' = {v \in Uids : Cached(v)'}
      BY <2>1 DEF StoresAgree, Cached
    <2>4. StoresAgree'
      BY SMTT(30), <2>2, <2>3 DEF StoresAgree
    <2>5. AssumedPodsConsistent'
      BY SMTT(30), <2>1 DEF AssumedPodsConsistent, Cached, TypeOK
    <2> QED
      BY <2>4, <2>5
  <1> QED
    BY <1>1, <1>2, <1>3 DEF WorkerStep

(* Node objects come and go without their pods. *)
LEMMA NodeStores ==
    ASSUME CacheInv, NodeStep
    PROVE  StoresAgree' /\ AssumedPodsConsistent'
  <1> USE DEF CacheInv
  <1>1. \A info \in NodeInfo, k \in Kinds :
          /\ WithObject(info, k).pods = info.pods
          /\ WithoutNode(info, k).pods = info.pods
          /\ WithoutCNR(info).pods = info.pods
    BY DEF WithObject, WithoutNode, WithoutCNR, NewNodeInfo, NodeInfo
  <1>2. ASSUME NEW n \in Nodes, NEW k \in Kinds,
               SetNodeObject(n, k) \/ DeleteNode(n, k) \/ DeleteCNR(n)
        PROVE  \A x \in Nodes : nodes'[x].pods = nodes[x].pods
    BY SMT, <1>1, <1>2 DEF SetNodeObject, DeleteNode, DeleteCNR, TypeOK
  <1>3. \A x \in Nodes : nodes'[x].pods = nodes[x].pods
    BY <1>2 DEF NodeStep, Kinds
  <1>4. UNCHANGED <<podStates, assumed, running, task, fault>> /\ fault = "none"
    BY DEF NodeStep, SetNodeObject, DeleteNode, DeleteCNR, NodeUnchanged, Up
  <1> QED
    BY <1>3, <1>4, StoresFrame, AssumedFrame DEF TypeOK

----------------------------------------------------------------------------
LEMMA CacheInvInit == Init => CacheInv
  <1> SUFFICES ASSUME Init PROVE CacheInv
    OBVIOUS
  <1>1. TypeOK
    BY TypeInit
  <1>2. \A m \in Names : log[m] = <<NoPod>> /\ Len(log[m]) = 1 /\ log[m][1] = NoPod
    BY DEF Init
  <1>3. HistoryInv /\ \A u \in Uids : ~BornBound(u)
    BY SMT, <1>2 DEF HistoryInv, BornBound, PodAt, IsPod
  <1>4. FreshInv /\ TaskInv
    BY DEF Init, FreshInv, TaskInv, Idle, Cached
  <1>5. \A n \in Nodes : nodes[n].pods = {}
    BY DEF Init, SteadyNodeInfo, NewNodeInfo
  <1>6. StoresAgree /\ AssumedPodsConsistent
    BY <1>5, NoNodeAssumption DEF Init, StoresAgree, AssumedPodsConsistent, Cached
  <1> QED
    BY <1>1, <1>3, <1>4, <1>6 DEF CacheInv

LEMMA CacheInvNext == CacheInv /\ [Next]_vars => CacheInv'
  <1> SUFFICES ASSUME CacheInv, [Next]_vars PROVE CacheInv'
    OBVIOUS
  <1>1. CASE UNCHANGED vars
    <2>1. UNCHANGED apiVars /\ UNCHANGED <<queued, task, podStates, assumed, due, marker, nodes, running, fault>>
      BY <1>1 DEF vars, cacheVars
    <2>2. TypeOK'
      BY SMTT(30), <1>1 DEF CacheInv, TypeOK, vars, apiVars, cacheVars
    <2>3. HistoryInv' /\ FreshInv' /\ TaskInv'
      BY ZenonT(30), <2>1, NoHistorySteps, FreshKept DEF CacheInv, Kept, Cached, TaskInv
    <2>4. StoresAgree' /\ AssumedPodsConsistent'
      BY <2>1 DEF CacheInv, StoresAgree, AssumedPodsConsistent, Cached
    <2> QED
      BY <2>2, <2>3, <2>4 DEF CacheInv
  <1>2. CASE InformerStep
    BY <1>2, InformerTypes, InformerFresh, InformerStores DEF CacheInv
  <1>3. CASE HandlerStep
    BY <1>3, HandlerTypes, HandlerFresh, HandlerStores DEF CacheInv
  <1>4. CASE PipelineStep
    BY <1>4, PipelineTypes, PipelineFresh, PipelineStores DEF CacheInv
  <1>5. CASE WorkerStep
    BY <1>5, WorkerTypes, WorkerFresh, WorkerStores DEF CacheInv
  <1>6. CASE NodeStep
    BY <1>6, NodeTypes, WorkerFresh, NodeStores DEF CacheInv
  <1> QED
    BY <1>1, <1>2, <1>3, <1>4, <1>5, <1>6 DEF Next

(* CacheInv holds in every reachable state, relists or not. *)
THEOREM CacheInvariant == Spec => []CacheInv
  BY CacheInvInit, CacheInvNext, PTL DEF Spec

(* The pod store, the node store and the unit status store agree on every pod
   in every reachable state: the bookkeeping of podOp never drifts. *)
THEOREM StoresAlwaysAgree == Spec => []StoresAgree
  <1>1. CacheInv => StoresAgree
    BY DEF CacheInv
  <1> QED
    BY <1>1, CacheInvariant, PTL

(* The checks of PodStore.ForgetPod and of CleanupExpiredAssumedPods never end
   the process. *)
THEOREM AssumedPodsAlwaysConsistent == Spec => []AssumedPodsConsistent
  <1>1. CacheInv => AssumedPodsConsistent
    BY DEF CacheInv
  <1> QED
    BY <1>1, CacheInvariant, PTL

=============================================================================
