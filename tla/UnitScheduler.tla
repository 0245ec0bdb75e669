---------------------------- MODULE UnitScheduler ----------------------------
(***************************************************************************)
(* One scheduling cycle of a unit after another                            *)
(* (pkg/scheduler/core/unit_scheduler/unit_scheduler.go, with the unit     *)
(* framework of pkg/scheduler/framework/unit_runtime).  A cycle refreshes  *)
(* the snapshot, tries the unit in one node group after the other, copies  *)
(* a success into the cache pod by pod, re-enqueues what is left and hands *)
(* the successful pods to a goroutine that persists them while the next    *)
(* cycle runs.                                                             *)
(*                                                                         *)
(* Which pods fit is decided by the plugins and is arbitrary here.  Pods   *)
(* of a template are tried in the order of a Go map and the first failure  *)
(* fails the rest, so any subset of a template may be the one that fits.   *)
(***************************************************************************)
EXTENDS Naturals, Sequences, FiniteSets, SequencesExt

CONSTANTS
  Pods,        \* the members of the unit that are still to be placed
  TemplateOf,  \* the owner of each pod (OwnerReferenceKey)
  MaxGroups,   \* the most node groups the grouping plugin returns
  Refusals,    \* the positions at which the cache may refuse to assume a pod
  MaxCycles

VARIABLES
  gone,        \* pods deleted at the API server, as the pod lister shows it
  away,        \* pods handed back to the dispatcher
  queued,      \* the pods of the unit in the scheduling queue
  unit,        \* SchedulingUnitInfo of the cycle
  pc,          \* where the scheduling goroutine is
  group,       \* the node group under trial
  result,      \* its UnitResult
  applied,     \* how many successful pods applyToCache has assumed
  final,       \* finalUnitResult
  snap,        \* pods that take up room in the snapshot
  cache,       \* what the cache holds of a pod
  persisting,  \* pods that PersistSuccessfulPods has still to write
  failedTasks, \* pods handed to the reconciler
  cycles

vars == <<gone, away, queued, unit, pc, group, result, applied, final, snap,
          cache, persisting, failedTasks, cycles>>

NewUnitResult == [succ |-> <<>>, failed |-> {}, ok |-> FALSE]

NoUnit == [pods |-> {}, min |-> 0, ever |-> FALSE, preempt |-> FALSE, groups |-> 0]

Cached == {p \in Pods : cache[p] # "none"}

\* skipPodSchedule of the unit framework: a pod already in the cache is not
\* scheduled.  The unit holds copies of its pods, so a deletion goes unnoticed.
Schedulable(S) == S \ Cached

\* The pods the lister still has and skipPodSchedule of the scheduler lets
\* through.
Refreshed(S) == S \ (gone \union Cached)

Init ==
  /\ gone = {} /\ away = {} /\ queued = Pods /\ unit = NoUnit
  /\ pc = "idle" /\ group = 0 /\ applied = 0 /\ cycles = 0
  /\ result = NewUnitResult /\ final = NewUnitResult
  /\ snap = {} /\ cache = [p \in Pods |-> "none"]
  /\ persisting = {} /\ failedTasks = {}

-----------------------------------------------------------------------------
\* handleSchedulingUnitFailure: successful pods leave the unit, the others go
\* back to the queue, or to the dispatcher when this scheduler cannot preempt.
handleSchedulingUnitFailure(u, r) ==
  LET left == Refreshed(IF r.ok THEN u.pods \ ToSet(r.succ) ELSE u.pods)
  IN  /\ queued' = IF u.preempt THEN queued \union left ELSE queued
      /\ away' = IF u.preempt THEN away ELSE away \union left

\* Schedule up to the loop over node groups.  MinMember and EverScheduled are
\* facts of the unit and do not change between its cycles here.
StartCycle(min, ever, preempt, groups) ==
  LET u == [pods |-> queued, min |-> min, ever |-> ever, preempt |-> preempt,
            groups |-> groups]
  IN  /\ pc = "idle" /\ queued # {} /\ cycles < MaxCycles
      /\ cycles > 0 => /\ min = unit.min /\ ever = unit.ever
                       /\ preempt = unit.preempt
      /\ unit' = u
      /\ cycles' = cycles + 1
      /\ queued' = {}
      /\ snap' = Cached
      /\ pc' = "group" /\ group' = 1
      /\ result' = NewUnitResult /\ final' = NewUnitResult /\ applied' = 0
      /\ UNCHANGED <<gone, away, cache, persisting, failedTasks>>

\* constructSchedulingUnitInfo refuses a unit with fewer members than it needs.
TooFewMembers == ~unit.ever /\ unit.min > Cardinality(unit.pods)

\* RunGroupingPlugin drops invalid node groups and fails when none is left.
NoNodeGroup == unit.groups = 0

\* Nothing is tried and every pod goes back.
RejectUnit ==
  /\ pc = "group" /\ group = 1
  /\ TooFewMembers \/ NoNodeGroup
  /\ handleSchedulingUnitFailure(unit, NewUnitResult)
  /\ pc' = "idle" /\ group' = 0
  /\ UNCHANGED <<gone, unit, result, applied, final, snap, cache, persisting,
                 failedTasks, cycles>>

\* scheduleOneUnitInstance finds a node, and reserves it, for these pods.
Scheduled == SUBSET Schedulable(unit.pods)

\* preemptOneUnitInstance does for these pods of the rest.
Preempted(left) == SUBSET Schedulable(left)

\* What Scheduling may return: every template is tried.
Scheduling == {[succ |-> s, failed |-> unit.pods \ ToSet(s)] :
                 s \in UNION {SetToSeqs(fit) : fit \in Scheduled}}

\* What Preempting may return for the pods that are left: it stops after the
\* template with which more pods have failed than the unit can spare.
Preempting(left) ==
  LET all == {TemplateOf[p] : p \in left}
      spare == Cardinality(unit.pods) - unit.min
      failed(freed, V) == {p \in left \ freed : TemplateOf[p] \in V}
      goesOn(freed, V) == unit.ever \/ Cardinality(failed(freed, V)) <= spare
      visited(freed, V) ==
        /\ \A p \in freed : TemplateOf[p] \in V
        /\ V = {} \/ \E t \in V : goesOn(freed, V \ {t})
        /\ V = all \/ ~goesOn(freed, V)
      outcome(freed, V) ==
        {[succ |-> s, failed |-> failed(freed, V)] : s \in SetToSeqs(freed)}
  IN  UNION {outcome(freed, V) : <<freed, V>> \in
              {fv \in Preempted(left) \X SUBSET all : visited(fv[1], fv[2])}}

\* scheduleUnitInNodeGroup: what does not fit tries to preempt, unless this
\* scheduler may not.  The pods that fit are reserved in the snapshot.
scheduleUnitInNodeGroup ==
  /\ pc = "group" /\ ~TooFewMembers /\ ~NoNodeGroup
  /\ \E s \in Scheduling :
       \E t \in IF unit.preempt THEN Preempting(s.failed)
                ELSE {[succ |-> <<>>, failed |-> s.failed]} :
         /\ result' = [succ |-> s.succ \o t.succ, failed |-> t.failed, ok |-> FALSE]
         /\ snap' = snap \union ToSet(s.succ) \union ToSet(t.succ)
  /\ pc' = "decide"
  /\ UNCHANGED <<gone, away, queued, unit, group, applied, final, cache,
                 persisting, failedTasks, cycles>>

SufficesForAny(r) ==
  /\ Len(r.succ) > 0 \/ unit.min = 0
  /\ unit.groups > 1 => r.failed = {}

\* The decision on a node group: enough pods fit, and with several node groups
\* all of them do.
Suffices(r) ==
  /\ (unit.ever /\ Len(r.succ) > 0) \/ Len(r.succ) >= unit.min
  /\ unit.groups > 1 => r.failed = {}

\* "keep the scheduling result with most successful Pods".
KeepBest(r) == final' = IF Len(r.succ) >= Len(final.succ) THEN r ELSE final

\* unReservePods takes the successful pods of a result out of the snapshot.
unReservePods(r) == snap' = snap \ ToSet(r.succ)

\* A node group did not make it: resetRunningUnitInfo and the next one.
NextGroup(r) ==
  /\ unReservePods(r)
  /\ KeepBest(r)
  /\ result' = NewUnitResult /\ applied' = 0
  /\ IF group < unit.groups
       THEN group' = group + 1 /\ pc' = "group"
       ELSE group' = 0 /\ pc' = "conclude"

Reject ==
  /\ pc = "decide" /\ ~Suffices(result)
  /\ NextGroup(result)
  /\ UNCHANGED <<gone, away, queued, unit, cache, persisting, failedTasks, cycles>>

Accept ==
  /\ pc = "decide" /\ Suffices(result)
  /\ pc' = "apply" /\ applied' = 0
  /\ UNCHANGED <<gone, away, queued, unit, group, result, final, snap, cache,
                 persisting, failedTasks, cycles>>

\* applyToCache, one AssumePod: the cache refuses a pod it already knows, and
\* may refuse one for a store of its own.
AssumePod ==
  /\ pc = "apply" /\ applied < Len(result.succ)
  /\ LET p == result.succ[applied + 1]
     IN  p \notin Cached /\ cache' = [cache EXCEPT ![p] = "assumed"]
  /\ applied' = applied + 1
  /\ UNCHANGED <<gone, away, queued, unit, pc, group, result, final, snap,
                 persisting, failedTasks, cycles>>

\* The loop ends with a result that is in the cache.
Succeed(r) ==
  /\ KeepBest(r)
  /\ result' = r
  /\ pc' = "conclude" /\ group' = 0 /\ applied' = 0

\* The cache refuses the pod at position applied and forgets it.  A unit that
\* can do without the rest keeps what is assumed; for another one the code
\* forgets the refused pod again, once for every pod assumed before it, and
\* none of these.
RefusePod ==
  /\ pc = "apply" /\ applied < Len(result.succ)
  /\ applied \in Refusals \/ result.succ[applied + 1] \in Cached
  /\ IF ~unit.ever /\ applied < unit.min
       THEN NextGroup([result EXCEPT !.succ = <<>>,
                                     !.failed = @ \union ToSet(result.succ)])
       ELSE /\ Succeed([succ |-> SubSeq(result.succ, 1, applied), ok |-> TRUE,
                        failed |-> result.failed \union
                          ToSet(SubSeq(result.succ, applied + 1, Len(result.succ)))])
            /\ UNCHANGED snap
  /\ UNCHANGED <<gone, away, queued, unit, cache, persisting, failedTasks, cycles>>

ApplyDone ==
  /\ pc = "apply" /\ applied = Len(result.succ)
  /\ Succeed([result EXCEPT !.ok = TRUE])
  /\ UNCHANGED <<gone, away, queued, unit, snap, cache, persisting, failedTasks, cycles>>

\* The rest of Schedule.
Conclude ==
  /\ pc = "conclude"
  /\ handleSchedulingUnitFailure(unit, final)
  /\ persisting' = IF final.ok THEN persisting \union ToSet(final.succ) ELSE persisting
  /\ pc' = "idle"
  /\ result' = NewUnitResult /\ final' = NewUnitResult
  /\ UNCHANGED <<gone, unit, group, applied, snap, cache, failedTasks, cycles>>

-----------------------------------------------------------------------------
PersistPodForgetful(p) ==
  /\ p \in persisting
  /\ persisting' = persisting \ {p}
  /\ \/ /\ p \notin gone
        /\ cache' = IF cache[p] = "assumed" THEN [cache EXCEPT ![p] = "reserved"] ELSE cache
        /\ UNCHANGED failedTasks
     \/ UNCHANGED <<cache, failedTasks>>
  /\ UNCHANGED <<gone, away, queued, unit, pc, group, result, applied, final, snap, cycles>>

\* persistViaPatchPod: the patch of one pod is accepted, finds the pod deleted
\* or fails; persistViaEmbeddedBinder likewise hands failures to the reconciler.
PersistPod(p) ==
  /\ p \in persisting
  /\ persisting' = persisting \ {p}
  /\ \/ /\ p \notin gone
        /\ cache' = IF cache[p] = "assumed" THEN [cache EXCEPT ![p] = "reserved"] ELSE cache
        /\ UNCHANGED failedTasks
     \/ /\ p \in gone
        /\ cache' = IF cache[p] = "assumed" THEN [cache EXCEPT ![p] = "none"] ELSE cache
        /\ UNCHANGED failedTasks
     \/ failedTasks' = failedTasks \union {p} /\ UNCHANGED cache
  /\ UNCHANGED <<gone, away, queued, unit, pc, group, result, applied, final, snap, cycles>>

\* A user deletes a pod that is not persisted yet: the queue drops it, the
\* cache keeps what it has assumed.
DeletePod(p) ==
  /\ p \notin gone /\ cache[p] # "reserved"
  /\ gone' = gone \union {p}
  /\ queued' = queued \ {p}
  /\ away' = away \ {p}
  /\ UNCHANGED <<unit, pc, group, result, applied, final, snap, cache, persisting,
                 failedTasks, cycles>>

Next ==
  \/ \E min \in 0..Cardinality(Pods), ever, preempt \in BOOLEAN, groups \in 0..MaxGroups :
       StartCycle(min, ever, preempt, groups)
  \/ RejectUnit
  \/ scheduleUnitInNodeGroup
  \/ Reject
  \/ Accept
  \/ AssumePod
  \/ RefusePod
  \/ ApplyDone
  \/ Conclude
  \/ \E p \in Pods : PersistPod(p) \/ DeletePod(p)

Spec == Init /\ [][Next]_vars

-----------------------------------------------------------------------------
\* The state is what the code can build.
TypeOK ==
  /\ {gone, away, queued, snap, persisting, failedTasks} \subseteq SUBSET Pods
  /\ cache \in [Pods -> {"none", "assumed", "reserved"}]
  /\ pc \in {"idle", "group", "decide", "apply", "conclude"}
  /\ group \in 0..MaxGroups /\ applied \in 0..Cardinality(Pods)
  /\ \A r \in {result, final} :
       /\ ToSet(r.succ) \subseteq Pods \ r.failed
       /\ Len(r.succ) = Cardinality(ToSet(r.succ))

\* Room taken in the cache has an owner: a pod that is assumed belongs to the
\* cycle that is under way, is about to be persisted, or is with the
\* reconciler.  applyToCache says "For min-fail, we revert the operations and
\* return false".
ReservationsAreOwned ==
  \A p \in Pods : cache[p] = "assumed" =>
    \/ pc \in {"apply", "conclude"} /\ p \in ToSet(result.succ)
    \/ p \in persisting \union failedTasks

\* A pod is never forgotten: between cycles, a pod that exists is queued, is
\* in the cache, or was handed back to the dispatcher.
NoPodDropped ==
  pc = "idle" => Pods \ gone \subseteq queued \union Cached \union away

\* A pod that waits in the queue, or was handed back, takes up no room and is
\* not being persisted.
WaitingPodsHoldNothing ==
  pc = "idle" => (queued \union away) \intersect (persisting \union failedTasks \union Cached) = {}

\* Every pod has one home at every time: the queue, the cycle, the cache with
\* somebody who answers for it, or the dispatcher.
PodsAreAccounted == TypeOK /\ ReservationsAreOwned /\ NoPodDropped /\ WaitingPodsHoldNothing

\* All or nothing: pods of a unit that never ran are persisted only together
\* with enough others, every one of them is in the cache or deleted, and with
\* several node groups a unit goes to one of them as a whole: "Partial success
\* (some pods succeed, some fail) must be rejected".
GangIsPersistedTogether ==
  LET new == persisting' \ persisting
  IN  new # {} => /\ unit.ever \/ Cardinality(new) >= unit.min
                  /\ \A p \in new : p \in gone \/ cache[p] = "assumed"
                  /\ unit.groups > 1 => new = unit.pods
=============================================================================
