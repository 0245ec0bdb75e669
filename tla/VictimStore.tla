------------------------------ MODULE VictimStore ------------------------------
(***************************************************************************)
(* The preemption store: for every node the pods that are to be evicted     *)
(* there, and for whom.  The cache keeps a list store of nodes, each with a *)
(* list store of victims; the snapshot keeps raw copies of both levels.     *)
(* Preemptors come and go with the pod events and with the cycles that      *)
(* reserve and release them in the snapshot.                                *)
(***************************************************************************)
EXTENDS GenerationStore

CONSTANTS
  Preemptors,    \* pods with a nominated node
  NodeFor,       \* the nominated node of each
  VictimsOf,     \* its victims there
  MaxChanges     \* bound on changes of the cache

VARIABLES
  cache,      \* the cache's PreemptionDetails
  snap,       \* the snapshot's
  recorded,   \* preemptors the cache has been told of
  gone,       \* recorded preemptors the API server has deleted
  reserved,   \* preemptors the cycle under way has reserved in the snapshot
  steady,     \* nodes whose cached detail is the one the snapshot has copied
  changes

vars == <<cache, snap, recorded, gone, reserved, steady, changes>>

Targets == {NodeFor[p] : p \in Preemptors}

-----------------------------------------------------------------------------
RemovePreemptItemWhole(store, n, v, p) ==
  LET detail == ListGet(store, n, NewListStore)
      left == ListDelete(detail, v)
  IN  IF n \notin ListKeys(store) THEN store
      ELSE IF left.items = <<>> THEN ListDelete(store, n) ELSE ListSet(store, n, left)

(* RemovePreemptItem: a victim without preemptors is deleted, and so is a   *)
(* node without victims.                                                    *)
RemovePreemptItem(store, n, v, p) ==
  LET detail == ListGet(store, n, NewListStore)
      rest == ListGet(detail, v, {}) \ {p}
      left == IF v \notin ListKeys(detail) THEN detail
              ELSE IF rest = {} THEN ListDelete(detail, v) ELSE ListSet(detail, v, rest)
  IN  IF n \notin ListKeys(store) THEN store
      ELSE IF left.items = <<>> THEN ListDelete(store, n) ELSE ListSet(store, n, left)

AddPreemptItemUnset(store, n, v, p) ==
  LET detail == ListGet(store, n, NewListStore)
      more == ListSet(detail, v, ListGet(detail, v, {}) \cup {p})
  IN  IF n \in ListKeys(store)
        THEN [store EXCEPT !.items = [i \in DOMAIN @ |->
                IF @[i].key = n THEN [@[i] EXCEPT !.obj = more] ELSE @[i]]]
        ELSE ListSet(store, n, more)

(* AddPreemptItem: a node without a detail gets a new one.                  *)
AddPreemptItem(store, n, v, p) ==
  LET detail == ListGet(store, n, NewListStore)
  IN  ListSet(store, n, ListSet(detail, v, ListGet(detail, v, {}) \cup {p}))

(* The same two on the snapshot's stores.                                   *)
AddRawItem(store, n, v, p) ==
  LET detail == RawGet(store, n, NewRawStore)
  IN  RawSet(store, n, RawSet(detail, v, RawGet(detail, v, {}) \cup {p}))

RemoveRawItem(store, n, v, p) ==
  LET detail == RawGet(store, n, NewRawStore)
      rest == RawGet(detail, v, {}) \ {p}
      left == IF v \notin DOMAIN detail.store THEN detail
              ELSE IF rest = {} THEN RawDelete(detail, v) ELSE RawSet(detail, v, rest)
  IN  IF n \notin DOMAIN store.store THEN store
      ELSE IF DOMAIN left.store = {} THEN RawDelete(store, n) ELSE RawSet(store, n, left)

(* podOp: one item per victim of the nominated node.                        *)
podOp(store, p, Op(_, _, _, _)) ==
  FoldSet(LAMBDA v, s : Op(s, NodeFor[p], v, p), store, VictimsOf[p])

(* Nodes that get a new detail while the snapshot has a copy of an old one. *)
Replaced(before, after) ==
  {n \in ListKeys(after) \ ListKeys(before) : RawGet(snap, n, NewRawStore).generation > 0}

Change == changes < MaxChanges /\ changes' = changes + 1

(* AddPod, the second half of UpdatePod and the cache's AssumePod.          *)
AddPod(p) ==
  /\ Change
  /\ p \notin recorded
  /\ cache' = podOp(cache, p, AddPreemptItem)
  /\ recorded' = recorded \cup {p}
  /\ steady' = steady \ Replaced(cache, cache')
  /\ UNCHANGED <<snap, gone, reserved>>

(* DeletePod, the first half of UpdatePod and the cache's ForgetPod.        *)
DeletePod(p) ==
  /\ Change
  /\ p \in recorded
  /\ cache' = podOp(cache, p, RemovePreemptItem)
  /\ recorded' = recorded \ {p}
  /\ gone' = gone \ {p}
  /\ UNCHANGED <<snap, reserved, steady>>

(* The API server deletes a preemptor; its event is still to come.          *)
Vanish(p) ==
  /\ Change
  /\ p \in recorded \ gone
  /\ gone' = gone \cup {p}
  /\ UNCHANGED <<cache, snap, recorded, reserved, steady>>

(* CleanUpResidualPreemptionItems: in place, with no Set.                   *)
WithoutResidual(detail) ==
  [detail EXCEPT !.items = SelectSeq([i \in DOMAIN @ |-> [@[i] EXCEPT !.obj = @ \ gone]],
                                     LAMBDA e : e.obj # {})]

CleanUpResidualPreemptionItems ==
  LET cleaned == [i \in DOMAIN cache.items |->
                    [cache.items[i] EXCEPT !.obj = WithoutResidual(cache.items[i].obj)]]
  IN  /\ gone # {}
      /\ cache' = [cache EXCEPT !.items = SelectSeq(cleaned, LAMBDA e : e.obj.items # <<>>)]
      /\ cache' # cache
      /\ steady' = {n \in steady : ListGet(cache, n, <<>>) = ListGet(cache', n, <<>>)}
      /\ UNCHANGED <<snap, recorded, gone, reserved, changes>>

-----------------------------------------------------------------------------
(* The snapshot's AssumePod and ForgetPod, within a cycle.                  *)
AssumePod(p) ==
  /\ p \notin recorded \cup reserved
  /\ snap' = podOp(snap, p, AddRawItem)
  /\ reserved' = reserved \cup {p}
  /\ UNCHANGED <<cache, recorded, gone, steady, changes>>

ForgetPod(p) ==
  /\ p \in reserved
  /\ snap' = podOp(snap, p, RemoveRawItem)
  /\ reserved' = reserved \ {p}
  /\ UNCHANGED <<cache, recorded, gone, steady, changes>>

(* updatePreemptionDetailForNodeItems: the victims of one node.             *)
CloneDetail(detail, existing) ==
  UpdateRawStore(detail, existing,
                 [v \in StaleKeys(detail, existing) |-> ListObj(detail, v)])

(* UpdateSnapshot.                                                          *)
UpdateSnapshot ==
  LET stale == StaleKeys(cache, snap)
      Clones(n) == CloneDetail(ListObj(cache, n), RawGet(snap, n, NewRawStore))
  IN  /\ \E cloned \in [stale -> UNION {Clones(n) : n \in stale}] :
           /\ \A n \in stale : cloned[n] \in Clones(n)
           /\ snap' \in UpdateRawStore(cache, snap, cloned)
      /\ reserved' = {}
      /\ steady' = steady \cup (Targets \ DOMAIN snap'.store)
      /\ UNCHANGED <<cache, recorded, gone, changes>>

Init ==
  /\ cache = NewListStore
  /\ snap = NewRawStore
  /\ recorded = {} /\ gone = {} /\ reserved = {}
  /\ steady = Targets
  /\ changes = 0

Next ==
  \/ \E p \in Preemptors : AddPod(p) \/ DeletePod(p) \/ Vanish(p) \/ AssumePod(p) \/ ForgetPod(p)
  \/ CleanUpResidualPreemptionItems
  \/ UpdateSnapshot

Spec == Init /\ [][Next]_vars

-----------------------------------------------------------------------------
Cached(n, v) == ListGet(ListGet(cache, n, NewListStore), v, {})
Copied(n, v) == RawGet(RawGet(snap, n, NewRawStore), v, {})
AllVictims == UNION {VictimsOf[p] : p \in Preemptors}
Claims(pods, n, v) == {p \in pods : NodeFor[p] = n /\ v \in VictimsOf[p]}

TypeOK ==
  /\ ListKeys(cache) \cup DOMAIN snap.store \subseteq Targets
  /\ gone \subseteq recorded /\ recorded \subseteq Preemptors
  /\ reserved \subseteq Preemptors
  /\ snap.generation <= cache.generation

(* The cache names, for every victim, exactly the preemptors that claim it, *)
(* but for deleted ones the daily clean-up may have taken out early; no     *)
(* node and no victim is kept without them (podOp, RemovePreemptItem).      *)
CacheHoldsTheClaims ==
  /\ TypeOK
  /\ \A n \in Targets, v \in AllVictims :
       Claims(recorded \ gone, n, v) \subseteq Cached(n, v) /\ Cached(n, v) \subseteq Claims(recorded, n, v)
  /\ \A n \in ListKeys(cache) :
       ListObj(cache, n).items # <<>> /\ \A v \in ListKeys(ListObj(cache, n)) : Cached(n, v) # {}

(* A refresh gives the snapshot the victims of every node whose detail was  *)
(* not created anew or cleaned behind its back, and takes back what a cycle *)
(* reserved: the generations of both levels and the touched keys miss       *)
(* nothing (UpdateSnapshot).                                                *)
RefreshCopiesNodes ==
  UpdateSnapshot =>
    \A n \in steady, v \in AllVictims : Copied(n, v)' = Cached(n, v)

=============================================================================
