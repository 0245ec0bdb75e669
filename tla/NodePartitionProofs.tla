------------------------ MODULE NodePartitionProofs ------------------------
(***************************************************************************)
(* The proof that the partitions follow the annotations of the machines,   *)
(* for any machines, schedulers and lag.  PartitionInv is inductive.  Its  *)
(* parts change in different hands: the annotations at the API server and  *)
(* the versions under way with the writes, the partitions and the          *)
(* maintainer's book with the handlers, and the book alone with the        *)
(* schedulers that come and go.                                            *)
(***************************************************************************)
EXTENDS NodePartition, TLAPS

\* The facts about annotations that writes and handlers keep: the last
\* version under way is the one at the API server.
LEMMA WriteKeepsObjects ==
  ASSUME ObjectsOK, NEW k \in Kinds, NEW n \in Nodes, NEW a \in Annotations, Write(k, n, a)
  PROVE  ObjectsOK'
<1>1. /\ owner' \in [Kinds -> [Nodes -> Annotations]]
      /\ watch' \in [Kinds -> [Nodes -> Seq(Annotations)]]
      /\ seen' \in [Kinds -> [Nodes -> Annotations]]
  BY DEF ObjectsOK, Write
<1>2. ASSUME NEW j \in Kinds, NEW m \in Nodes
      PROVE  owner'[j][m] = Latest(j, m)'
  <2>1. CASE j = k /\ m = n
    <3>1. owner'[j][m] = a /\ watch'[j][m] = Append(watch[j][m], a)
      BY <2>1 DEF ObjectsOK, Write
    <3>2. watch[j][m] \in Seq(Annotations)
      BY DEF ObjectsOK
    <3>3. watch'[j][m] # <<>> /\ watch'[j][m][Len(watch'[j][m])] = a
      BY <3>1, <3>2
    <3> QED
      BY <3>1, <3>3 DEF Latest
  <2>2. CASE ~(j = k /\ m = n)
    <3>1. owner'[j][m] = owner[j][m] /\ watch'[j][m] = watch[j][m] /\ seen' = seen
      BY <2>2 DEF ObjectsOK, Write
    <3> QED
      BY <3>1 DEF Latest, ObjectsOK
  <2> QED
    BY <2>1, <2>2
<1> QED
  BY <1>1, <1>2 DEF ObjectsOK

\* HandleNode takes the first version under way into the lister.
LEMMA HandleKeepsObjects ==
  ASSUME ObjectsOK, NEW k \in Kinds, NEW n \in Nodes, HandleNode(k, n)
  PROVE  ObjectsOK' /\ Head(watch[k][n]) \in Annotations
<1>1. /\ watch[k][n] \in Seq(Annotations) /\ watch[k][n] # <<>>
      /\ watch' = [watch EXCEPT ![k][n] = Tail(watch[k][n])]
      /\ seen' = [seen EXCEPT ![k][n] = Head(watch[k][n])]
      /\ owner' = owner
  BY DEF ObjectsOK, HandleNode
<1>2. Head(watch[k][n]) \in Annotations /\ Tail(watch[k][n]) \in Seq(Annotations)
  BY <1>1
<1>3. /\ owner' \in [Kinds -> [Nodes -> Annotations]]
      /\ watch' \in [Kinds -> [Nodes -> Seq(Annotations)]]
      /\ seen' \in [Kinds -> [Nodes -> Annotations]]
  BY <1>1, <1>2 DEF ObjectsOK
<1>4. ASSUME NEW j \in Kinds, NEW m \in Nodes
      PROVE  owner'[j][m] = Latest(j, m)'
  <2>0. owner[j][m] = Latest(j, m)
    BY DEF ObjectsOK
  <2>1. CASE j = k /\ m = n
    <3>1. watch'[j][m] = Tail(watch[k][n]) /\ seen'[j][m] = Head(watch[k][n])
      BY <1>1, <2>1 DEF ObjectsOK
    <3>2. owner[j][m] = watch[k][n][Len(watch[k][n])]
      BY <1>1, <2>0, <2>1 DEF Latest
    <3>3. \A w \in Seq(Annotations) : w # <<>> =>
            IF Tail(w) = <<>> THEN w[Len(w)] = Head(w) ELSE Tail(w)[Len(Tail(w))] = w[Len(w)]
      <4> TAKE w \in Seq(Annotations)
      <4> HAVE w # <<>>
      <4>1. Len(w) \in Nat /\ Len(w) > 0 /\ Len(Tail(w)) = Len(w) - 1
            /\ \A i \in 1 .. Len(w) - 1 : Tail(w)[i] = w[i + 1]
        OBVIOUS
      <4>2. CASE Len(w) = 1
        <5>1. Tail(w) \in Seq(Annotations) /\ Len(Tail(w)) = 0
          BY <4>1, <4>2
        <5>2. \A v \in Seq(Annotations) : Len(v) = 0 => v = <<>>
          OBVIOUS
        <5>3. w[Len(w)] = Head(w)
          BY <4>2
        <5> QED
          BY <5>1, <5>2, <5>3, Zenon
      <4>3. CASE Len(w) > 1
        <5>1. Tail(w) # <<>>
          BY <4>1, <4>3
        <5> QED
          BY <4>1, <4>3, <5>1
      <4> QED
        BY <4>1, <4>2, <4>3
    <3> QED
      BY <1>1, <3>1, <3>2, <3>3 DEF Latest
  <2>2. CASE ~(j = k /\ m = n)
    <3>1. watch'[j][m] = watch[j][m] /\ seen'[j][m] = seen[j][m]
      BY <1>1, <2>2 DEF ObjectsOK
    <3> QED
      BY <1>1, <2>0, <3>1 DEF Latest
  <2> QED
    BY <2>1, <2>2
<1> QED
  BY <1>2, <1>3, <1>4 DEF ObjectsOK

\* The facts about the partitions that do not look at the worker.
BookOK ==
  /\ gs \in [Schedulers -> {"absent", "active", "inactive"}]
  /\ nodes \in [Schedulers -> SUBSET Nodes]
  /\ PartitionsAreNamed
  /\ NamedPartitionsHold

\* The worker holds a machine and annotations it may write.
WorkerOK ==
  /\ worker \in Workers
  /\ worker.pc # "get" => worker.node \in Nodes

\* A handler's step: the machine leaves the partition its object named and
\* enters the one it names now; with a second object of another opinion it
\* may leave a partition that object still names, so NamedPartitionsHold
\* speaks of machines with one object.
LEMMA RepartitionKeepsBook ==
  ASSUME seen \in [Kinds -> [Nodes -> Annotations]], BookOK,
         NEW k \in Kinds, NEW n \in Nodes, NEW a \in Annotations,
         Repartition(n, seen[k][n], a), seen' = [seen EXCEPT ![k][n] = a]
  PROVE  BookOK'
<1>1. /\ gs \in [Schedulers -> {"absent", "active", "inactive"}]
      /\ nodes \in [Schedulers -> SUBSET Nodes]
  BY DEF BookOK
<1>2. gs' \in [Schedulers -> {"absent", "active", "inactive"}]
  BY <1>1 DEF Repartition, IsOwner
<1>3. nodes' \in [Schedulers -> SUBSET Nodes]
  BY <1>1 DEF Repartition
<1>4. PartitionsAreNamed'
  <2> SUFFICES ASSUME NEW s \in Schedulers, NEW m \in nodes'[s]
               PROVE  gs'[s] # "absent" /\ m \in Nodes /\ \E j \in Kinds : seen'[j][m] = s
    BY DEF PartitionsAreNamed
  <2>1. CASE s = a /\ m = n
    BY <1>1, <2>1 DEF Repartition, IsOwner
  <2>2. CASE ~(s = a /\ m = n)
    <3>1. m \in nodes[s] /\ ~(s = seen[k][n] /\ m = n)
      BY <1>1, <2>2 DEF Repartition
    <3>2. gs[s] # "absent" /\ m \in Nodes
      BY <3>1 DEF BookOK, PartitionsAreNamed
    <3>3. PICK j \in Kinds : seen[j][m] = s
      BY <3>1 DEF BookOK, PartitionsAreNamed
    <3>4. gs'[s] # "absent"
      BY <1>1, <3>2 DEF Repartition, IsOwner
    <3>5. seen'[j][m] = s
      BY <3>1, <3>2, <3>3
    <3> QED
      BY <3>2, <3>4, <3>5
  <2> QED
    BY <2>1, <2>2
<1>5. NamedPartitionsHold'
  <2> SUFFICES ASSUME OneObject, NEW j \in Kinds, NEW m \in Nodes, seen'[j][m] \in Schedulers
               PROVE  m \in nodes'[seen'[j][m]]
    BY DEF NamedPartitionsHold, IsOwner, OneObject
  <2>1. j = k
    BY DEF OneObject
  <2>2. CASE m = n
    BY <1>1, <2>1, <2>2 DEF Repartition
  <2>3. CASE m # n
    <3>1. seen'[j][m] = seen[j][m] /\ m \in nodes[seen[j][m]]
      BY <2>3 DEF BookOK, NamedPartitionsHold, IsOwner
    <3> QED
      BY <1>1, <2>3, <3>1 DEF Repartition
  <2> QED
    BY <2>2, <2>3
<1> QED
  BY <1>2, <1>3, <1>4, <1>5 DEF BookOK

\* A step that leaves the handlers' state alone keeps the book as long as a
\* scheduler with machines is not forgotten.
LEMMA BookFollowsSchedulers ==
  ASSUME BookOK, UNCHANGED <<seen, nodes>>,
         gs' \in [Schedulers -> {"absent", "active", "inactive"}],
         \A s \in Schedulers : gs[s] # "absent" /\ nodes[s] # {} => gs'[s] # "absent"
  PROVE  BookOK'
<1>1. PartitionsAreNamed'
  BY DEF BookOK, PartitionsAreNamed
<1>2. NamedPartitionsHold'
  BY DEF BookOK, NamedPartitionsHold, OneObject, IsOwner
<1> QED
  BY <1>1, <1>2 DEF BookOK

\* The worker between two machines.
LEMMA RestingIsWorker == Resting \in Workers /\ Resting.pc = "get"
<1>1. [k \in Kinds |-> Gone] \in [Kinds -> Annotations] /\ None \in Annotations
  BY DEF Annotations
<1> QED
  BY <1>1 DEF Resting, Workers

\* UpdateAnnotation writes the worker's choice into the machine it holds.
LEMMA UpdateKeepsInvariant ==
  ASSUME ObjectsOK, BookOK, WorkerOK, NEW k \in {"Node", "NMNode"}, 
         NEW next \in Workers,
         next.pc # "get" => next.node \in Nodes,
         UpdateAnnotation(k, next)
  PROVE  ObjectsOK' /\ BookOK' /\ WorkerOK'
<1>0. Resting \in Workers /\ Resting.pc = "get"
  BY RestingIsWorker
<1>1. worker' \in {next, Resting}
  BY DEF UpdateAnnotation
<1>2. WorkerOK'
  BY <1>0, <1>1 DEF WorkerOK
<1>3. gs' = gs /\ nodes' = nodes
  BY DEF UpdateAnnotation, workerUnchanged
<1>4. CASE UNCHANGED objects
  BY <1>2, <1>3, <1>4, BookFollowsSchedulers DEF objects, ObjectsOK, Latest, BookOK
<1>5. CASE k \in Kinds /\ Write(k, worker.node, worker.sched)
  <2>1. worker.node \in Nodes /\ worker.sched \in Annotations
    BY DEF WorkerOK, Workers, UpdateAnnotation
  <2>2. ObjectsOK'
    BY <1>5, <2>1, WriteKeepsObjects
  <2>3. seen' = seen
    BY <1>5 DEF Write
  <2> QED
    BY <1>2, <1>3, <2>2, <2>3, BookFollowsSchedulers DEF BookOK
<1> QED
  BY <1>4, <1>5 DEF UpdateAnnotation

\* PartitionInv is inductive: one step per handler, scheduler event and step
\* of the shuffler.
THEOREM PartitionInvariant == Spec => []PartitionInv
<1>0. PartitionInv <=> ObjectsOK /\ BookOK /\ WorkerOK
  BY DEF PartitionInv, BookOK, WorkerOK
<1>1. Init => PartitionInv
  <2> SUFFICES ASSUME Init PROVE PartitionInv
    OBVIOUS
  <2>1. None \in Annotations /\ Gone \in Annotations
    BY DEF Annotations
  <2>2. /\ owner \in [Kinds -> [Nodes -> Annotations]]
        /\ watch \in [Kinds -> [Nodes -> Seq(Annotations)]]
        /\ seen \in [Kinds -> [Nodes -> Annotations]]
    BY <2>1 DEF Init
  <2>3. \A k \in Kinds, n \in Nodes : owner[k][n] = Latest(k, n)
    BY DEF Init, Latest
  <2>4. WorkerOK
    BY RestingIsWorker DEF Init, WorkerOK
  <2>5. BookOK
    <3>1. PartitionsAreNamed
      BY DEF Init, PartitionsAreNamed
    <3>2. NamedPartitionsHold
      BY ConstantsAssumption DEF Init, NamedPartitionsHold, IsOwner
    <3> QED
      BY <3>1, <3>2 DEF Init, BookOK
  <2> QED
    BY <1>0, <2>2, <2>3, <2>4, <2>5 DEF ObjectsOK
<1>2. PartitionInv /\ [Next]_vars => PartitionInv'
  <2> SUFFICES ASSUME ObjectsOK, BookOK, WorkerOK, [Next]_vars
               PROVE  ObjectsOK' /\ BookOK' /\ WorkerOK'
    BY <1>0 DEF PartitionInv, BookOK, WorkerOK
  <2>0. \A k \in Kinds, n \in Nodes : seen[k][n] \in Annotations
    BY DEF ObjectsOK
  <2>1. ASSUME NEW k \in Kinds, NEW n \in Nodes, HandleNode(k, n)
        PROVE  ObjectsOK' /\ BookOK' /\ WorkerOK'
    <3>1. ObjectsOK' /\ Head(watch[k][n]) \in Annotations
      BY <2>1, HandleKeepsObjects
    <3>2. BookOK'
      BY <2>1, <3>1, RepartitionKeepsBook DEF HandleNode, ObjectsOK
    <3> QED
      BY <2>1, <3>1, <3>2 DEF HandleNode, WorkerOK
  <2>2. ASSUME NEW k \in Kinds, NEW n \in Nodes, ReportStatus(k, n)
        PROVE  ObjectsOK' /\ BookOK' /\ WorkerOK'
    <3>1. seen' = [seen EXCEPT ![k][n] = seen[k][n]]
      BY <2>2 DEF ReportStatus, objects, ObjectsOK
    <3>2. BookOK'
      BY <2>0, <2>2, <3>1, RepartitionKeepsBook DEF ReportStatus, ObjectsOK
    <3> QED
      BY <2>2, <3>2 DEF ReportStatus, objects, ObjectsOK, Latest, WorkerOK
  <2>3. ASSUME NEW k \in Kinds, NEW n \in Nodes, DeleteNode(k, n) \/ CreateNode(k, n)
        PROVE  ObjectsOK' /\ BookOK' /\ WorkerOK'
    <3>1. PICK a \in {None, Gone} : Write(k, n, a)
      BY <2>3 DEF DeleteNode, CreateNode
    <3>2. ObjectsOK' /\ seen' = seen
      BY <3>1, WriteKeepsObjects DEF Annotations, Write
    <3> QED
      BY <2>3, <3>2, BookFollowsSchedulers DEF DeleteNode, CreateNode, WorkerOK, BookOK
  <2>4. ASSUME NEW s \in Schedulers,
               FallSilent(s) \/ Heartbeat(s) \/ SyncUpSchedulersStatus(s) \/ DeleteScheduler(s)
        PROVE  ObjectsOK' /\ BookOK' /\ WorkerOK'
    <3>1. UNCHANGED <<owner, watch, seen, nodes, worker>>
      BY <2>4 DEF FallSilent, Heartbeat, SyncUpSchedulersStatus, DeleteScheduler, rest, objects
    <3>2. gs' \in [Schedulers -> {"absent", "active", "inactive"}]
      BY <2>4 DEF FallSilent, Heartbeat, SyncUpSchedulersStatus, DeleteScheduler, BookOK
    <3>3. ASSUME NEW t \in Schedulers, gs[t] # "absent", nodes[t] # {}
          PROVE  gs'[t] # "absent"
      BY <2>4, <3>3 DEF FallSilent, Heartbeat, SyncUpSchedulersStatus, DeleteScheduler, BookOK
    <3>4. BookOK'
      BY <3>1, <3>2, <3>3, BookFollowsSchedulers
    <3> QED
      BY <3>1, <3>4 DEF ObjectsOK, Latest, WorkerOK
  <2>5. ASSUME NEW n \in Nodes, WorkerGet(n)
        PROVE  ObjectsOK' /\ BookOK' /\ WorkerOK'
    <3>1. [k \in Kinds |-> seen[k][n]] \in [Kinds -> Annotations]
      BY <2>0
    <3>2. WorkerOK'
      BY <2>5, <3>1, RestingIsWorker DEF WorkerGet, WorkerOK, Workers
    <3> QED
      BY <2>5, <3>2, BookFollowsSchedulers
         DEF WorkerGet, workerUnchanged, objects, ObjectsOK, Latest, BookOK
  <2>6. CASE WorkerChoose
    <3>1. LeastNodes \subseteq Annotations
      BY DEF LeastNodes, Annotations
    <3>2. WorkerOK'
      BY <2>6, <3>1, RestingIsWorker DEF WorkerChoose, WorkerOK, Workers
    <3>3. UNCHANGED <<owner, watch, seen, crd, known, gs, nodes>>
      BY <2>6 DEF WorkerChoose, workerUnchanged, objects
    <3>4. ObjectsOK'
      BY <3>3 DEF ObjectsOK, Latest
    <3>5. BookOK'
      BY <3>3, BookFollowsSchedulers DEF BookOK
    <3> QED
      BY <3>2, <3>4, <3>5
  <2>7. CASE UpdateNode
    <3> DEFINE next == [worker EXCEPT !.pc = "NMNode"]
    <3>1. next \in Workers /\ next.node \in Nodes
      BY <2>7 DEF UpdateNode, UpdateAnnotation, WorkerOK, Workers
    <3> QED
      BY <2>7, <3>1, UpdateKeepsInvariant DEF UpdateNode
  <2>8. CASE UpdateNMNode
    BY <2>8, RestingIsWorker, UpdateKeepsInvariant DEF UpdateNMNode
  <2>9. CASE ReBalanceSchedulerNodes
    BY <2>9, BookFollowsSchedulers
       DEF ReBalanceSchedulerNodes, workerUnchanged, objects, ObjectsOK, Latest, BookOK, WorkerOK
  <2>10. CASE UNCHANGED vars
    BY <2>10, BookFollowsSchedulers DEF vars, ObjectsOK, Latest, BookOK, WorkerOK
  <2> QED
    BY <2>1, <2>2, <2>3, <2>4, <2>5, <2>6, <2>7, <2>8, <2>9, <2>10 DEF Next
<1> QED
  BY <1>1, <1>2, PTL DEF Spec

\* A machine is in no partition that neither of its objects names, and no
\* scheduler that has machines is forgotten, with one kind of objects or two
\* and whatever the shuffler, the maintainer and the schedulers do.
THEOREM PartitionsAlwaysNamed == Spec => []PartitionsAreNamed
<1>1. PartitionInv => PartitionsAreNamed
  BY DEF PartitionInv
<1> QED
  BY <1>1, PartitionInvariant, PTL

\* Where machines have one object, a machine whose events are handled is in
\* the partition its annotation names and in no other.
THEOREM PartitionAlwaysFollows ==
  ASSUME OneObject
  PROVE  Spec => []PartitionFollowsAnnotation
<1>1. PartitionInv => PartitionFollowsAnnotation
  <2> SUFFICES ASSUME PartitionInv, NEW n \in Nodes, NEW k \in Kinds, Quiet(n)
               PROVE  /\ {s \in Schedulers : n \in nodes[s]} = {owner[k][n]} \intersect Schedulers
                      /\ IsOwner(owner[k][n]) => gs[owner[k][n]] # "absent"
    BY DEF PartitionFollowsAnnotation
  <2>1. owner[k][n] = seen[k][n]
    BY DEF PartitionInv, ObjectsOK, Latest, Quiet
  <2>2. ASSUME NEW s \in Schedulers
        PROVE  n \in nodes[s] <=> seen[k][n] = s
    BY OneObject DEF PartitionInv, PartitionsAreNamed, NamedPartitionsHold, OneObject, IsOwner
  <2>3. \A s \in Schedulers : n \in nodes[s] => gs[s] # "absent"
    BY DEF PartitionInv, PartitionsAreNamed
  <2> QED
    BY <2>1, <2>2, <2>3 DEF IsOwner
<1> QED
  BY <1>1, PartitionInvariant, PTL
=============================================================================
