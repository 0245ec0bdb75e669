------------------------ MODULE ReservationSnapshot -------------------------
(***************************************************************************)
(* Where the scheduler looks for reserved room.  The ReservationInfos of   *)
(* the cache are grouped by node and by placeholder, in list stores two    *)
(* levels deep; the snapshot keeps raw copies and an index from a          *)
(* placeholder to the nodes that have a group of it.  The Reservation      *)
(* plugin offers a unit the placeholders that the index leads to.          *)
(***************************************************************************)
EXTENDS GenerationStore

CONSTANTS
  Infos,          \* identifiers of reservations
  NodeOf,         \* nodeName of an identifier
  PlaceholderOf,  \* placeholder of an identifier
  MaxChanges      \* bound: changes of the cache

VARIABLES
  cache,      \* the cache's NodeReservationStore
  snap,       \* the snapshot's
  index,      \* placeholderTable of the snapshot
  used,       \* identifiers a pod reserved in the snapshot has matched
  steady,     \* nodes whose cached info is the one the snapshot has copied
  changes

vars == <<cache, snap, index, used, steady, changes>>

NodeNames == {NodeOf[i] : i \in Infos}
Placeholders == {PlaceholderOf[i] : i \in Infos}

(* A group maps the identifiers it holds to whether a pod has matched them. *)
NoGroup == [i \in {} |-> FALSE]
With(group, i, matched) ==
  [x \in DOMAIN group \cup {i} |-> IF x = i THEN matched ELSE group[x]]
Without(group, i) == [x \in DOMAIN group \ {i} |-> group[x]]

-----------------------------------------------------------------------------
(* NodeReservationStore.  AddReservationInfo also replaces an info, which   *)
(* is how SetMatchedPodForReservation ends.                                 *)
CachedNode(n) == ListGet(cache, n, NewListStore)
CachedGroup(n, ph) == ListGet(CachedNode(n), ph, NoGroup)

AddQuietly(store, i, matched) ==
  LET node == ListGet(store, NodeOf[i], NewListStore)
      group == With(ListGet(node, PlaceholderOf[i], NoGroup), i, matched)
      more == ListSet(node, PlaceholderOf[i], group)
  IN  IF NodeOf[i] \in ListKeys(store)
      THEN [store EXCEPT !.items = [x \in DOMAIN @ |->
              IF @[x].key = NodeOf[i] THEN [@[x] EXCEPT !.obj = more] ELSE @[x]]]
      ELSE ListSet(store, NodeOf[i], more)
AddReservationInfo(store, i, matched) ==
  LET node == ListGet(store, NodeOf[i], NewListStore)
      group == With(ListGet(node, PlaceholderOf[i], NoGroup), i, matched)
  IN  ListSet(store, NodeOf[i], ListSet(node, PlaceholderOf[i], group))

(* DeleteReservationInfo: an empty group goes, and so does an empty node.   *)
DeleteReservationInfo(store, i) ==
  LET node == ListGet(store, NodeOf[i], NewListStore)
      group == Without(ListGet(node, PlaceholderOf[i], NoGroup), i)
      left == IF DOMAIN group = {} THEN ListDelete(node, PlaceholderOf[i])
              ELSE ListSet(node, PlaceholderOf[i], group)
  IN  IF left.items = <<>> THEN ListDelete(store, NodeOf[i])
      ELSE ListSet(store, NodeOf[i], left)

Held(i) == i \in DOMAIN CachedGroup(NodeOf[i], PlaceholderOf[i])
Change == changes < MaxChanges /\ changes' = changes + 1

(* addPlaceholderPod, setMatchedPod and resetMatchedPod of the cache.       *)
SetInfo(i, matched) ==
  /\ Change
  /\ Held(i) \/ ~matched
  /\ cache' = AddReservationInfo(cache, i, matched)
  /\ steady' = IF NodeOf[i] \notin ListKeys(cache) /\ NodeOf[i] \in DOMAIN snap.store
               THEN steady \ {NodeOf[i]} ELSE steady
  /\ UNCHANGED <<snap, index, used>>

(* deletePlaceholderPod of the cache.                                       *)
DropInfo(i) ==
  /\ Change
  /\ Held(i)
  /\ cache' = DeleteReservationInfo(cache, i)
  /\ UNCHANGED <<snap, index, used, steady>>

-----------------------------------------------------------------------------
(* The snapshot's copies, its index, and what the plugin is given.          *)
CopiedNode(n) == RawGet(snap, n, NewRawStore)
CopiedGroup(n, ph) == RawGet(CopiedNode(n), ph, NoGroup)

(* setMatchedPod and resetMatchedPod of the snapshot.                       *)
SetRawInfo(i, matched) ==
  snap' = RawSet(snap, NodeOf[i],
            RawSet(CopiedNode(NodeOf[i]), PlaceholderOf[i],
              With(CopiedGroup(NodeOf[i], PlaceholderOf[i]), i, matched)))

(* getAvailablePlaceholderPods: an entry of the index without its group is  *)
(* an error for the whole unit.                                             *)
GetNodeList(ph) == {n \in NodeNames : <<ph, n>> \in index}
GetAvailablePlaceholderPodsOnNode(n, ph) ==
  {i \in DOMAIN CopiedGroup(n, ph) : ~CopiedGroup(n, ph)[i]}
GetAvailableNodesAndPlaceholders(ph) ==
  UNION {GetAvailablePlaceholderPodsOnNode(n, ph) : n \in GetNodeList(ph)}

(* The snapshot's AssumePod of a pod that PrePreferNode gave a placeholder. *)
AssumePod(i) ==
  /\ i \in GetAvailableNodesAndPlaceholders(PlaceholderOf[i])
  /\ SetRawInfo(i, TRUE)
  /\ used' = used \cup {i}
  /\ UNCHANGED <<cache, index, steady, changes>>

ForgetPod(i) ==
  /\ i \in used
  /\ SetRawInfo(i, FALSE)
  /\ used' = used \ {i}
  /\ UNCHANGED <<cache, index, steady, changes>>

(* cloneNodeInfo: the groups of one node, with cleanRIGroup.                *)
CloneNodeInfo(n) ==
  UpdateRawStore(CachedNode(n), CopiedNode(n),
                 [ph \in StaleKeys(CachedNode(n), CopiedNode(n)) |-> CachedGroup(n, ph)])

(* What cloneRIGroup adds to the index, and what the clean functions delete *)
(* from it: the groups they delete, and all groups of a deleted node.       *)
Indexed(stale) ==
  {<<ph, n>> \in Placeholders \X stale : ph \in StaleKeys(CachedNode(n), CopiedNode(n))}
Unindexed(stale, cloned, after) ==
  {<<ph, n>> \in Placeholders \X stale : ph \notin DOMAIN cloned[n].store}
    \cup {<<ph, n>> \in Placeholders \X NodeNames :
            n \notin DOMAIN after.store /\ ph \in DOMAIN CopiedNode(n).store}

UpdateSnapshot ==
  LET stale == StaleKeys(cache, snap)
  IN  /\ \E cloned \in [stale -> UNION {CloneNodeInfo(n) : n \in stale}] :
           /\ \A n \in stale : cloned[n] \in CloneNodeInfo(n)
           /\ \E after \in UpdateRawStore(cache, snap, cloned) :
                /\ snap' = after
                /\ index' = (index \cup Indexed(stale)) \ Unindexed(stale, cloned, after)
                /\ steady' = steady \cup (NodeNames \ DOMAIN after.store)
      /\ used' = {}
      /\ UNCHANGED <<cache, changes>>

Init ==
  /\ cache = NewListStore
  /\ snap = NewRawStore
  /\ index = {} /\ used = {}
  /\ steady = NodeNames
  /\ changes = 0

Next ==
  \/ \E i \in Infos, matched \in BOOLEAN : SetInfo(i, matched)
  \/ \E i \in Infos : DropInfo(i) \/ AssumePod(i) \/ ForgetPod(i)
  \/ UpdateSnapshot

Spec == Init /\ [][Next]_vars

-----------------------------------------------------------------------------
TypeOK ==
  /\ ListKeys(cache) \cup DOMAIN snap.store \subseteq NodeNames
  /\ index \subseteq Placeholders \X NodeNames
  /\ snap.generation <= cache.generation
  /\ \A n \in ListKeys(cache) : CachedNode(n).items # <<>>

(* The index leads to exactly the groups the snapshot has, so that looking  *)
(* for room never fails on a node that has lost its reservations.           *)
IndexIsExact ==
  index = {<<ph, n>> \in Placeholders \X NodeNames : ph \in DOMAIN CopiedNode(n).store}

(* After a refresh the plugin offers exactly the placeholders that are free *)
(* in the cache, on every node whose info was not created anew: neither one *)
(* that a pod has taken nor one that a unit only tried is left out or in.   *)
OffersFollowCache ==
  /\ TypeOK /\ IndexIsExact
  /\ UpdateSnapshot =>
    \A i \in Infos : NodeOf[i] \in steady =>
      (i \in GetAvailableNodesAndPlaceholders(PlaceholderOf[i])')
        <=> Held(i) /\ ~CachedGroup(NodeOf[i], PlaceholderOf[i])[i]
=============================================================================
