----------------------------- MODULE BinderQueue -----------------------------
(***************************************************************************)
(* The queue of the binder (pkg/binder/queue/binder_queue.go) as operators *)
(* on a record: three heaps of units and the list of pods whose unit could *)
(* not be created.  A unit is kept as its pods and those among them whose  *)
(* info carries NewlyAssumedButStillInHandling; no pods: not in the heap.  *)
(* The heaps' order is left open: any unit of readyUnitQ may be popped.    *)
(*                                                                         *)
(* env gives what the queue reads elsewhere: the units whose PodGroup the  *)
(* lister has, and the units the cache reports as Scheduled.               *)
(***************************************************************************)
EXTENDS Naturals, FiniteSets

CONSTANTS
  UnitOf,       \* the unit key of every pod
  Gangs,        \* the keys of PodGroup units, the others wrap a single pod
  MinMember     \* spec.minMember of every gang

Units == {UnitOf[p] : p \in DOMAIN UnitOf}
Heaps == {"waiting", "backoff", "ready"}

NoUnit == [pods |-> {}, flagged |-> {}]

NewPriorityQueue ==
  [waiting |-> [k \in Units |-> NoUnit], backoff |-> [k \in Units |-> NoUnit],
   ready |-> [k \in Units |-> NoUnit], parked |-> {}]

(* getUnit: the heap a unit is found in, "none" if there is none.           *)
getUnit(q, k) ==
  IF q.waiting[k] # NoUnit THEN "waiting"
  ELSE IF q.backoff[k] # NoUnit THEN "backoff"
  ELSE IF q.ready[k] # NoUnit THEN "ready" ELSE "none"

Found(q, k) == CASE getUnit(q, k) = "waiting" -> q.waiting[k]
                 [] getUnit(q, k) = "backoff" -> q.backoff[k]
                 [] getUnit(q, k) = "ready" -> q.ready[k]
                 [] OTHER -> NoUnit

HeapSet(q, h, k, unit) ==
  CASE h = "waiting" -> [q EXCEPT !.waiting[k] = unit]
    [] h = "backoff" -> [q EXCEPT !.backoff[k] = unit]
    [] h = "ready" -> [q EXCEPT !.ready[k] = unit]

deleteUnit(q, h, k) == HeapSet(q, h, k, NoUnit)
MoveUnit(q, from, to, k, unit) == HeapSet(deleteUnit(q, from, k), to, k, unit)

ReadyToBePopulated(k, unit) == k \in Gangs => Cardinality(unit.pods) >= MinMember[k]
CanBeTried(k, unit, env) == ReadyToBePopulated(k, unit) \/ k \in env.scheduled

(* AddPod with a fresh info: the flag of an older one is lost.              *)
WithPods(unit, P) == [pods |-> unit.pods \cup P, flagged |-> unit.flagged \ P]
WithPod(unit, p) == WithPods(unit, {p})
WithoutPod(unit, p) == [pods |-> unit.pods \ {p}, flagged |-> unit.flagged \ {p}]

CreateScheduleUnitFails(k, env) == k \in Gangs /\ k \notin env.listed

addPodUsingAnnotations(q, p, env) ==
  LET k == UnitOf[p]
      h == getUnit(q, k)
      unit == WithPod(Found(q, k), p)
  IN  CASE h = "none" /\ CreateScheduleUnitFails(k, env) -> [q EXCEPT !.parked = @ \cup {p}]
        [] h = "none" /\ ~CreateScheduleUnitFails(k, env) ->
             HeapSet(q, IF CanBeTried(k, unit, env) THEN "ready" ELSE "waiting", k, unit)
        [] h = "waiting" ->
             MoveUnit(q, h, IF CanBeTried(k, unit, env) THEN "ready" ELSE "waiting", k, unit)
        [] h \in {"backoff", "ready"} -> HeapSet(q, h, k, unit)

Add(q, p, env) == addPodUsingAnnotations(q, p, env)

(* updateUnit: in readyUnitQ a Scheduled unit with too few pods goes back.  *)
updateUnit(q, h, k, unit, env) ==
  IF h = "ready" /\ ~ReadyToBePopulated(k, unit) /\ k \in env.scheduled
  THEN MoveUnit(q, h, "waiting", k, unit) ELSE HeapSet(q, h, k, unit)

Update(q, p, env) ==
  LET k == UnitOf[p]
  IN  IF p \in Found(q, k).pods THEN updateUnit(q, getUnit(q, k), k, Found(q, k), env)
      ELSE IF p \in q.parked THEN q
      ELSE addPodUsingAnnotations(q, p, env)

(* Delete: a parked pod is taken out only while its unit is in no heap.     *)
Delete(q, p, env) ==
  LET k == UnitOf[p]
      h == getUnit(q, k)
      unit == Found(q, k)
  IN  IF h = "none" THEN [q EXCEPT !.parked = @ \ {p}]
      ELSE IF unit.pods = {p} THEN deleteUnit(q, h, k)
      ELSE IF Cardinality(unit.pods) = 1 THEN q
      ELSE updateUnit(q, h, k, WithoutPod(unit, p), env)

Pop(q, k) == deleteUnit(q, "ready", k)

(* moveToReadyQueue: the units whose backoff is over.                       *)
moveToReadyQueue(q, over) ==
  [q EXCEPT !.backoff = [k \in Units |-> IF k \in over THEN NoUnit ELSE @[k]],
            !.ready = [k \in Units |-> IF k \in over THEN q.backoff[k] ELSE @[k]]]

(* addPodUsingAnnotations for every parked pod of P.  Their order does not  *)
(* matter: a unit that can be tried with some of its pods can with more.    *)
addParkedPods(q, P, env) ==
  LET Parked(k) == {p \in P : UnitOf[p] = k}
      stay == {k \in Units : getUnit(q, k) = "none" /\ CreateScheduleUnitFails(k, env)}
      Grown(k) == WithPods(Found(q, k), Parked(k))
      HeapOf(k) == IF getUnit(q, k) \in {"backoff", "ready"} THEN getUnit(q, k)
                   ELSE IF CanBeTried(k, Grown(k), env) THEN "ready" ELSE "waiting"
      After(h) == [k \in Units |-> IF Parked(k) = {} \/ k \in stay THEN q[h][k]
                                   ELSE IF HeapOf(k) = h THEN Grown(k) ELSE NoUnit]
  IN  [waiting |-> After("waiting"), backoff |-> After("backoff"), ready |-> After("ready"),
       parked |-> (q.parked \ P) \cup {p \in P : UnitOf[p] \in stay}]

checkWaitingPodOfKnown(q, env) ==
  addParkedPods(q, {p \in q.parked : getUnit(q, UnitOf[p]) # "none"}, env)

checkWaitingPod(q, env) == addParkedPods(q, q.parked, env)

AddUnitPreemptorInstead(q, k, unit) ==
  HeapSet(IF getUnit(q, k) = "none" THEN q ELSE deleteUnit(q, getUnit(q, k), k), "backoff", k, unit)

(* AddUnitPreemptor: a unit that meanwhile formed under the key is merged.  *)
AddUnitPreemptor(q, k, unit) ==
  LET h == getUnit(q, k)
      pre == Found(q, k)
      merged == [pods |-> unit.pods \cup pre.pods,
                 flagged |-> unit.flagged \cup (pre.flagged \ unit.pods)]
  IN  HeapSet(IF h = "none" THEN q ELSE deleteUnit(q, h, k), "backoff", k, merged)

ActiveWaitingUnit(q, k, env) ==
  IF getUnit(q, k) = "waiting" /\ CanBeTried(k, q.waiting[k], env)
  THEN MoveUnit(q, "waiting", "ready", k, q.waiting[k]) ELSE q

PendingPods(q) == UNION {q.waiting[k].pods \cup q.backoff[k].pods \cup q.ready[k].pods : k \in Units}
==============================================================================
