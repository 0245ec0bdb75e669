------------------------------ MODULE NodeSnapshot ------------------------------
(***************************************************************************)
(* The node store of the scheduler: the copy the cache keeps under its      *)
(* lock, fed by the informers, and the copy of the scheduling cycle (the    *)
(* snapshot), which is refreshed incrementally.  The cache's store          *)
(* (generationstore.ListStore) stamps what it sets with a growing           *)
(* generation; the snapshot's store (RawStore) remembers the generation it  *)
(* has seen and the keys it changed itself since.  A machine is described   *)
(* by up to three objects, and its NodeInfo outlives them while pods are    *)
(* left on it.                                                              *)
(***************************************************************************)
EXTENDS Naturals, FiniteSets, Functions

CONSTANTS
  Nodes,       \* names of machines
  Pods,        \* pods with a node
  Launchers,   \* the kinds of node objects: "Node" and "NMNode"
  NoName,      \* what GetNodeName returns for a NodeInfo without objects
  MaxChanges   \* bound on the events of the informers

VARIABLES
  cache,       \* the cache's store: machine -> NodeInfo
  generation,  \* its latest generation
  snap,        \* the snapshot's store
  seen,        \* the generation the snapshot has seen
  updated,     \* the keys the snapshot's store changed itself
  listed,      \* the snapshot's lists of nodes in and out of the partition
  reserved,    \* what the current cycle placed: pod -> node and victims
  changes      \* events so far

vars == <<cache, generation, snap, seen, updated, listed, reserved, changes>>

Kinds == Launchers \cup {"CNR"}
Sides == {"in", "out"}

NodeInfo == [objects : SUBSET Kinds, mine : SUBSET Launchers, pods : SUBSET Pods, gen : Nat]

NewNodeInfo == [objects |-> {}, mine |-> {}, pods |-> {}, gen |-> 0]

Get(store, n) == IF n \in DOMAIN store THEN store[n] ELSE NewNodeInfo

Put(store, n, info) == [m \in DOMAIN store \cup {n} |-> IF m = n THEN info ELSE store[m]]

Drop(store, n) == Restrict(store, DOMAIN store \ {n})

(* NodeInfoImpl.ObjectIsNil: a CustomNodeResource alone is no node.         *)
ObjectIsNil(info) == info.objects \cap Launchers = {}

GetNodeName(n, info) == IF ObjectIsNil(info) THEN NoName ELSE n

Side(info) == IF info.mine = {} THEN "out" ELSE "in"

-----------------------------------------------------------------------------
(* The cache: ListStoreImpl.Set stamps the object and moves it to the head. *)
SetInCache(n, info) ==
  /\ generation' = generation + 1
  /\ cache' = Put(cache, n, [info EXCEPT !.gen = generation + 1])

DeleteFromCache(n) ==
  /\ cache' = Drop(cache, n)
  /\ UNCHANGED generation

Event ==
  /\ changes < MaxChanges
  /\ changes' = changes + 1
  /\ UNCHANGED <<snap, seen, updated, listed, reserved>>

(* AddNode, UpdateNode, AddNMNode and UpdateNMNode.                         *)
AddNode(n, k, mine) ==
  LET info == Get(cache, n)
  IN  SetInCache(n, [info EXCEPT !.objects = info.objects \cup {k},
                                 !.mine = IF mine THEN info.mine \cup {k} ELSE info.mine \ {k}])

(* AddCNR and UpdateCNR.                                                    *)
AddCNR(n) == SetInCache(n, [Get(cache, n) EXCEPT !.objects = @ \cup {"CNR"}])

(* DeleteNode and DeleteNMNode: the NodeInfo stays while the other object,  *)
(* a pod or a CustomNodeResource is left.                                   *)
DeleteNode(n, k) ==
  LET info == [cache[n] EXCEPT !.objects = @ \ {k}]
  IN  /\ n \in DOMAIN cache
      /\ IF info.objects = {} /\ info.pods = {}
           THEN DeleteFromCache(n) ELSE SetInCache(n, info)

DeleteCNR(n) ==
  LET info == [cache[n] EXCEPT !.objects = @ \ {"CNR"}]
  IN  /\ n \in DOMAIN cache
      /\ IF ObjectIsNil(info) /\ info.pods = {}
           THEN DeleteFromCache(n) ELSE SetInCache(n, info)

(* AddPod and the cache's AssumePod: getOrCreateNode sets the NodeInfo.     *)
AddPod(p, n) ==
  /\ \A m \in DOMAIN cache : p \notin cache[m].pods
  /\ SetInCache(n, [Get(cache, n) EXCEPT !.pods = @ \cup {p}])

(* DeletePod and the cache's ForgetPod.                                     *)
DeletePod(p, n) ==
  LET info == [cache[n] EXCEPT !.pods = @ \ {p}]
  IN  /\ n \in DOMAIN cache
      /\ p \in cache[n].pods
      /\ IF ObjectIsNil(info) /\ info.pods = {}
           THEN DeleteFromCache(n) ELSE SetInCache(n, info)

(* SetNodeInPartition and SetNodeOutOfPartition.                            *)
SetNodePartition(n, mine) ==
  /\ n \in DOMAIN cache
  /\ SetInCache(n, [cache[n] EXCEPT !.mine = IF mine THEN Launchers ELSE {}])

InformerEvent ==
  /\ Event
  /\ \E n \in Nodes :
       \/ \E k \in Launchers : DeleteNode(n, k) \/ \E mine \in BOOLEAN : AddNode(n, k, mine)
       \/ AddCNR(n) \/ DeleteCNR(n)
       \/ \E p \in Pods : AddPod(p, n) \/ DeletePod(p, n)
       \/ \E mine \in BOOLEAN : SetNodePartition(n, mine)

-----------------------------------------------------------------------------
(* nodeSlices.update: a NodeHashSlice holds one entry per node name.        *)
SliceAdd(lists, n, info) ==
  [lists EXCEPT ![Side(info)] = Put(@, GetNodeName(n, info), n)]

SliceDel(lists, n, info) ==
  [lists EXCEPT ![Side(info)] = Drop(@, GetNodeName(n, info))]

(* The clone function of UpdateSnapshot, applied to one key of the cache.   *)
CloneNode(store, lists, n) ==
  LET cleared == IF n \in DOMAIN store THEN SliceDel(lists, n, store[n]) ELSE lists
  IN  [store |-> Put(store, n, cache[n]), lists |-> SliceAdd(cleared, n, cache[n])]

(* UpdateRawStore: the keys stamped after the generation the snapshot has   *)
(* seen, then the keys the snapshot touched itself.                         *)
StaleKeys ==
  {n \in DOMAIN cache : cache[n].gen > seen} \cup (updated \cap DOMAIN cache)

CloneAll(store, lists) ==
  FoldFunctionOnSet(LAMBDA n, acc : CloneNode(acc.store, acc.lists, n),
                    [store |-> store, lists |-> lists], [n \in Nodes |-> n], StaleKeys)

(* The clean function: as many nodes as the snapshot has too many, taken    *)
(* in map order from those the cache lacks or knows no object for.          *)
Surplus(store) == Cardinality(DOMAIN store) - Cardinality(DOMAIN cache)

Removable(store) ==
  {n \in DOMAIN store : n \notin DOMAIN cache \/ ObjectIsNil(cache[n])}

RemoveAll(state, gone) ==
  [store |-> Restrict(state.store, DOMAIN state.store \ gone),
   lists |-> FoldFunctionOnSet(LAMBDA n, lists : SliceDel(lists, n, state.store[n]),
                               state.lists, [n \in Nodes |-> n], gone)]

UpdateSnapshot ==
  LET cloned == CloneAll(snap, listed)
      size == IF Cardinality(DOMAIN cloned.store) > Cardinality(DOMAIN cache)
                THEN Surplus(cloned.store) ELSE 0
  IN  /\ \E gone \in SUBSET Removable(cloned.store) :
           /\ Cardinality(gone) = IF size > Cardinality(Removable(cloned.store))
                                    THEN Cardinality(Removable(cloned.store)) ELSE size
           /\ snap' = RemoveAll(cloned, gone).store
           /\ listed' = RemoveAll(cloned, gone).lists
           /\ updated' = gone
      /\ seen' = generation
      /\ reserved' = [p \in {} |-> {}]
      /\ UNCHANGED <<cache, generation, changes>>

-----------------------------------------------------------------------------
AssumePodUnmarked(p, n, victims) ==
  /\ \A m \in DOMAIN cache : p \notin cache[m].pods
  /\ p \notin DOMAIN reserved
  /\ \A m \in DOMAIN snap : p \notin snap[m].pods
  /\ n \in Range(listed.in) \cup Range(listed.out)
  /\ n \in DOMAIN snap
  /\ victims \subseteq snap[n].pods \ DOMAIN reserved
  /\ snap' = [snap EXCEPT ![n].pods = (@ \cup {p}) \ victims]
  /\ reserved' = Put(reserved, p, [node |-> n, victims |-> victims])
  /\ UNCHANGED <<cache, generation, seen, listed, changes, updated>>

(* The cycle places a pod.  A pod the cache knows is skipped                *)
(* (skipPodSchedule); Snapshot.AssumePod adds the pod to a listed node and  *)
(* takes its victims away.                                                  *)
AssumePod(p, n, victims) ==
  /\ \A m \in DOMAIN cache : p \notin cache[m].pods
  /\ p \notin DOMAIN reserved
  /\ \A m \in DOMAIN snap : p \notin snap[m].pods
  /\ n \in Range(listed.in) \cup Range(listed.out)
  /\ n \in DOMAIN snap
  /\ victims \subseteq snap[n].pods \ DOMAIN reserved
  /\ snap' = [snap EXCEPT ![n].pods = (@ \cup {p}) \ victims]
  /\ updated' = updated \cup {n}
  /\ reserved' = Put(reserved, p, [node |-> n, victims |-> victims])
  /\ UNCHANGED <<cache, generation, seen, listed, changes>>

(* The cycle takes a placement back: Snapshot.ForgetPod.                    *)
ForgetPod(p) ==
  LET n == reserved[p].node
      info == [snap[n] EXCEPT !.pods = (@ \ {p}) \cup reserved[p].victims]
  IN  /\ p \in DOMAIN reserved
      /\ snap' = IF ObjectIsNil(info) /\ info.pods = {} THEN Drop(snap, n) ELSE Put(snap, n, info)
      /\ updated' = updated \cup {n}
      /\ reserved' = Drop(reserved, p)
      /\ UNCHANGED <<cache, generation, seen, listed, changes>>

SchedulingCycle ==
  \E p \in Pods :
    \/ \E n \in Nodes, victims \in SUBSET Pods : AssumePod(p, n, victims)
    \/ ForgetPod(p)

Init ==
  /\ cache = [n \in {} |-> NewNodeInfo]
  /\ generation = 0
  /\ snap = [n \in {} |-> NewNodeInfo]
  /\ seen = 0
  /\ updated = {}
  /\ listed = [s \in Sides |-> [n \in {} |-> n]]
  /\ reserved = [p \in {} |-> {}]
  /\ changes = 0

Next == InformerEvent \/ UpdateSnapshot \/ SchedulingCycle

Spec == Init /\ [][Next]_vars

-----------------------------------------------------------------------------
TypeOK ==
  /\ DOMAIN cache \subseteq Nodes /\ \A n \in DOMAIN cache : cache[n] \in NodeInfo
  /\ DOMAIN snap \subseteq Nodes /\ \A n \in DOMAIN snap : snap[n] \in NodeInfo
  /\ generation \in Nat /\ seen \in 0 .. generation
  /\ updated \subseteq Nodes
  /\ \A s \in Sides : DOMAIN listed[s] \subseteq Nodes \cup {NoName}

(* Outside a cycle the snapshot differs from the cache only where the next  *)
(* refresh looks: a node whose content differs has a newer generation or    *)
(* is marked as touched.  This is what makes the incremental refresh        *)
(* complete (UpdateRawStore reads nothing else).                            *)
DifferencesAreMarked ==
  \A n \in DOMAIN cache :
    (n \in DOMAIN snap /\ snap[n] = cache[n]) \/ n \in StaleKeys

(* Every node the snapshot can be asked for by name (one with a Node or an  *)
(* NMNode) is in exactly one of the two lists the cycle walks, the one of   *)
(* its partition flag, and the lists hold no other named node.              *)
ListsFollowSnapshot ==
  \A n \in Nodes, s \in Sides :
    n \in DOMAIN listed[s] <=>
      n \in DOMAIN snap /\ ~ObjectIsNil(snap[n]) /\ Side(snap[n]) = s

(* Taking a placement back restores the node: with no placement left the    *)
(* pods of a snapshot node the cache has not changed since are the cache's  *)
(* (ForgetPod puts the victims back, unReservePods relies on it).           *)
ForgettingRestores ==
  DOMAIN reserved = {} =>
    \A n \in DOMAIN snap \cap DOMAIN cache :
      cache[n].gen <= seen => snap[n].pods = cache[n].pods

(* Between two refreshes the snapshot is what a full copy of the cache and  *)
(* the placements of the cycle would give, or the next refresh sees to it.  *)
SnapshotIsSound == TypeOK /\ DifferencesAreMarked /\ ListsFollowSnapshot /\ ForgettingRestores
=============================================================================
