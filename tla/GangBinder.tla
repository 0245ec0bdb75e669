----------------------------- MODULE GangBinder -----------------------------
(***************************************************************************)
(* The binding of units (pkg/binder/godel_binder.go): the queue handlers   *)
(* feed the queue of the binder, the main loop takes one unit at a time    *)
(* through the checks and hands it to a goroutine that evicts victims,     *)
(* locks the PodGroup, binds what is ready and puts back or rejects the    *)
(* rest.  Several such goroutines may be under way, also for one unit key: *)
(* pods that arrive or change meanwhile form a new unit under it.          *)
(*                                                                         *)
(* Of the cache, whose stores BinderCache models, only this much is kept:  *)
(* whether a pod is in it, assumed or added, the victims' markers and the  *)
(* unit status.  Its handler of a pod event runs with the queue's.         *)
(***************************************************************************)
EXTENDS BindingUnit, BinderQueue, Sequences, SequencesExt

CONSTANTS
  Victims,        \* running pods that preemptors want to evict
  VictimsOf,      \* the victims nominated for every pod
  Nobody,         \* no preemptor
  MaxJobs,        \* bound: binding goroutines under way
  MaxTrouble,     \* bound: changes and faults together
  MaxLag,         \* bound: events of one pod that are not handled yet
  MaxGroupLag     \* bound: events of one PodGroup that are not handled yet

VARIABLES
  events,         \* what the handlers saw last of a pod, then what they have yet to see
  q,              \* the binder's queue
  cache,          \* the pods' state in the binder's cache
  scheduled,      \* the units whose status in the cache is Scheduled
  victim,         \* the victims' life
  marks,          \* the preemptor a victim is marked for in the cache
  pass,           \* the pass of the main loop
  jobs,           \* the goroutines of DeleteVictimsAndBindTasks
  reconciler,     \* the pods whose annotations the reconciler has yet to reset
  changes,        \* updates, deletions and repeated hand-overs of pods so far
  faults,         \* failed API calls, failed checks, elapsed deadlines so far
  pgLog, expired, pgQueue, sync

PG == INSTANCE PodGroupController WITH Groups <- Gangs, MinMembers <- MinMember, MaxLag <- MaxGroupLag

binderVars == <<q, cache, scheduled, marks, pass, jobs, reconciler>>
worldVars == <<events, victim, changes, faults>>
pgVars == <<pgLog, expired, pgQueue, sync>>
vars == <<worldVars, binderVars, pgVars>>

Pods == DOMAIN UnitOf
Members(k) == {p \in Pods : UnitOf[p] = k}
AtServer(p) == Last(events[p])
Bound(k) == {p \in Members(k) : AtServer(p) = "bound"}

NoPass == [pc |-> "idle"]
Slots == 1 .. MaxJobs

Env == [listed |-> {g \in Gangs : PG!Listed(g) # PG!Absent}, scheduled |-> scheduled]

Init ==
  /\ events = [p \in Pods |-> <<"none">>]
  /\ q = NewPriorityQueue
  /\ cache = [p \in Pods |-> "no"]
  /\ scheduled = {}
  /\ victim = [v \in Victims |-> "running"]
  /\ marks = [v \in Victims |-> Nobody]
  /\ pass = NoPass
  /\ jobs = [j \in Slots |-> NoPass]
  /\ reconciler = {}
  /\ changes = 0
  /\ faults = 0
  /\ PG!PgInit

-----------------------------------------------------------------------------
(* The scheduler and the users.                                             *)
CanChange(p) == Len(events[p]) <= MaxLag
Becomes(p, state) == events' = [events EXCEPT ![p] = Append(@, state)]

HandOver(p) ==
  /\ AtServer(p) \in {"none", "dispatched"} /\ CanChange(p)
  /\ changes' = IF AtServer(p) = "none" THEN changes ELSE changes + 1
  /\ changes' + faults <= MaxTrouble
  /\ Becomes(p, "assumed")
  /\ UNCHANGED <<victim, faults, binderVars, pgVars>>

(* An update that leaves the scheduler's decision as it is.                 *)
Touch(p) ==
  /\ AtServer(p) = "assumed" /\ CanChange(p) /\ changes + faults < MaxTrouble
  /\ Becomes(p, "assumed")
  /\ changes' = changes + 1
  /\ UNCHANGED <<victim, faults, binderVars, pgVars>>

RemovePod(p) ==
  /\ AtServer(p) \notin {"none", "gone"} /\ CanChange(p) /\ changes + faults < MaxTrouble
  /\ Becomes(p, "gone")
  /\ changes' = changes + 1
  /\ UNCHANGED <<victim, faults, binderVars, pgVars>>

(* A victim ends when it was deleted, or on its own.                        *)
VictimGoes(v) ==
  /\ \/ victim[v] = "dying" /\ UNCHANGED changes
     \/ victim[v] = "running" /\ changes + faults < MaxTrouble /\ changes' = changes + 1
  /\ victim' = [victim EXCEPT ![v] = "gone"]
  /\ marks' = [marks EXCEPT ![v] = Nobody]
  /\ UNCHANGED <<events, faults, q, cache, scheduled, pass, jobs, reconciler, pgVars>>

-----------------------------------------------------------------------------
(* Event handlers.                                                          *)
QueueAfter(p, old, new) ==
  CASE new = "assumed" /\ old = "none" -> Add(q, p, Env)
    [] new = "assumed" /\ old # "none" -> Update(q, p, Env)
    [] new # "assumed" /\ old = "assumed" -> Delete(q, p, Env)
    [] OTHER -> q

CacheAfter(p, new) ==
  CASE new = "bound" -> [cache EXCEPT ![p] = "added"]
    [] new = "gone" -> [cache EXCEPT ![p] = "no"]
    [] OTHER -> cache

(* addPodToBinderQueue, updatePodInBinderQueue, deletePodFromBinderQueue    *)
(* and podTrigger of the PodGroup controller.                               *)
PodEvent(p) ==
  LET old == events[p][1]
      new == events[p][2]
  IN  /\ Len(events[p]) > 1
      /\ events' = [events EXCEPT ![p] = Tail(@)]
      /\ q' = QueueAfter(p, old, new)
      /\ cache' = CacheAfter(p, new)
      /\ marks' = IF old = "assumed" /\ new = "gone"
                  THEN [v \in Victims |-> IF v \in VictimsOf[p] /\ marks[v] = p THEN Nobody ELSE marks[v]]
                  ELSE marks
      /\ pgQueue' = IF UnitOf[p] \in Gangs THEN PG!pgAdded(UnitOf[p], PG!Listed(UnitOf[p])) ELSE pgQueue
      /\ UNCHANGED <<victim, changes, faults, scheduled, pass, jobs, reconciler, pgLog, expired, sync>>

(* addPodGroup and updatePodGroup: the status in the cache becomes that of  *)
(* the phase, and a unit that waits is tried if it may be.                  *)
PodGroupEvent(g) ==
  LET pg == pgLog[g][2]
  IN  /\ Len(pgLog[g]) > 1
      /\ pgLog' = [pgLog EXCEPT ![g] = Tail(@)]
      /\ scheduled' = IF pg.phase = "Scheduled" THEN scheduled \cup {g} ELSE scheduled \ {g}
      /\ q' = ActiveWaitingUnit(q, g, [listed |-> Env.listed \cup {g}, scheduled |-> scheduled'])
      /\ pgQueue' = PG!pgAdded(g, pg)
      /\ UNCHANGED <<worldVars, cache, marks, pass, jobs, reconciler, expired, sync>>

BackoffOver ==
  /\ \E over \in SUBSET {k \in Units : q.backoff[k] # NoUnit} \ {{}} : q' = moveToReadyQueue(q, over)
  /\ UNCHANGED <<worldVars, cache, scheduled, marks, pass, jobs, reconciler, pgVars>>

CheckWaitingPod ==
  /\ q.parked # {}
  /\ q' = checkWaitingPod(q, Env)
  /\ UNCHANGED <<worldVars, cache, scheduled, marks, pass, jobs, reconciler, pgVars>>

-----------------------------------------------------------------------------
(* What can go wrong costs one of MaxTrouble.                               *)
Fault == changes + faults < MaxTrouble /\ faults' = faults + 1
FaultIf(c) == IF c THEN Fault ELSE UNCHANGED faults

(* CleanupPodAnnotations: the pod is dispatched again, a bound one keeps    *)
(* its node; what fails is left to the reconciler.                          *)
CleanupPodAnnotations(p) ==
  LET patched == IF AtServer(p) = "assumed" THEN [events EXCEPT ![p] = Append(@, "dispatched")]
                 ELSE events
  IN  /\ CanChange(p)
      /\ \/ AtServer(p) # "gone" /\ events' = patched /\ UNCHANGED <<reconciler, faults>>
         \/ AtServer(p) = "gone" /\ UNCHANGED events /\ reconciler' = reconciler \cup {p} /\ UNCHANGED faults
         \/ AtServer(p) # "gone" /\ Fault /\ events' \in {events, patched} /\ reconciler' = reconciler \cup {p}

(* The reconciler resets the annotations; a pod that is gone is dropped.    *)
Reconcile(p) ==
  /\ p \in reconciler /\ CanChange(p)
  /\ reconciler' = reconciler \ {p}
  /\ events' = IF AtServer(p) = "assumed" THEN [events EXCEPT ![p] = Append(@, "dispatched")]
               ELSE events
  /\ UNCHANGED <<victim, changes, faults, q, cache, scheduled, marks, pass, jobs, pgVars>>

(* One task of RejectFailedTasks.                                           *)
RejectKeepsAssumed(u, p) ==
  /\ marks' = [v \in Victims |-> IF v \in u.victims[p] /\ marks[v] = p THEN Nobody ELSE marks[v]]
  /\ cache' = IF p \in u.came /\ cache[p] = "assumed" THEN [cache EXCEPT ![p] = "no"] ELSE cache
  /\ CleanupPodAnnotations(p)

Reject(u, p) ==
  /\ marks' = [v \in Victims |-> IF v \in u.victims[p] /\ marks[v] = p THEN Nobody ELSE marks[v]]
  /\ cache' = IF p \in u.came \cup u.flagged /\ cache[p] = "assumed"
              THEN [cache EXCEPT ![p] = "no"] ELSE cache
  /\ CleanupPodAnnotations(p)

Rejecting(k, u) ==
  IF u.failed = {} THEN NoPass ELSE [pc |-> "reject", k |-> k, u |-> u, left |-> u.failed]
RejectAll(k, u) == Rejecting(k, MoveAllTasksToFailedList(u))
AfterReject(x, p) == IF x.left = {p} THEN NoPass ELSE [x EXCEPT !.left = @ \ {p}]

-----------------------------------------------------------------------------
(* The main loop, CheckAndBindUnit.                                         *)
UnitTimeout(k) == k \in Gangs \cap expired /\ k \notin scheduled

PopUnit(k) ==
  /\ pass = NoPass /\ q.ready[k] # NoUnit
  /\ q' = Pop(q, k)
  /\ pass' = IF UnitTimeout(k) THEN [pc |-> "timeout", k |-> k, left |-> q.ready[k].pods]
             ELSE [pc |-> "init", k |-> k, unit |-> q.ready[k]]
  /\ UNCHANGED <<worldVars, cache, scheduled, marks, jobs, reconciler, pgVars>>

(* RejectTimeOutUnit: the annotations are reset, the cache is left alone.   *)
RejectTimeOutUnit(p) ==
  /\ pass.pc = "timeout" /\ p \in pass.left
  /\ CleanupPodAnnotations(p)
  /\ pass' = AfterReject(pass, p)
  /\ UNCHANGED <<victim, changes, q, cache, scheduled, marks, jobs, pgVars>>

(* After every stage: on with the next one, or the whole unit is rejected.  *)
Proceed(next, u) ==
  pass' = IF IsUnitFailed(u) THEN RejectAll(pass.k, u) ELSE [pc |-> next, k |-> pass.k, u |-> u]

InStage(pc) == pass.pc = pc
StageLeaves == <<events, victim, changes, q, scheduled, jobs, reconciler, pgVars>>

skipCheckingPod(p) == cache[p] = "assumed"

(* getVictimsToPreempt: the victims that still exist, none of them marked.  *)
VictimsToPreempt(p) == {v \in VictimsOf[p] : victim[v] # "gone"}
VictimsTaken(p) == \E v \in VictimsToPreempt(p) : marks[v] # Nobody

(* InitializeUnit: a preemptor fails if a victim of its is marked, or was   *)
(* claimed by a task of the unit that happened to come first.               *)
InitializeUnit ==
  /\ InStage("init")
  /\ LET pods == pass.unit.pods
         u0 == NewBindingUnitInfo(pods, pass.unit.flagged, pass.k \in Gangs,
                                  IF pass.k \in Gangs THEN MinMember[pass.k] ELSE 1, pass.k \in scheduled)
         ignored == {p \in pods \ pass.unit.flagged : skipCheckingPod(p)}
         fresh == (pods \ pass.unit.flagged) \ ignored
         good == {p \in fresh : ~VictimsTaken(p)}
         Clash(p, r) == p # r /\ VictimsToPreempt(p) \cap VictimsToPreempt(r) # {}
     IN  \E new \in SUBSET good :
           /\ \A p, r \in new : ~Clash(p, r)
           /\ \A p \in good \ new : \E r \in new : Clash(p, r)
           /\ Proceed("check",
                [u0 EXCEPT !.assumed = pass.unit.flagged, !.ignored = ignored, !.new = new,
                           !.failed = fresh \ new,
                           !.victims = [p \in pods |-> IF p \in new THEN VictimsToPreempt(p) ELSE {}]])
  /\ UNCHANGED <<faults, cache, marks, StageLeaves>>

(* IsPreemptionComplete                                                     *)
PreemptionComplete(p) == \A v \in VictimsOf[p] : victim[v] = "gone"

(* CheckCrossNodePreemptionForUnit: T are the preemptors whose victims did  *)
(* not go in time, F the new tasks that fail the check.                     *)
PreemptionChecked(u, T, F) ==
  LET open == {p \in u.assumed : ~PreemptionComplete(p)}
      u1 == StopIfFailed(AddFailedTask(u, T \cap open, TRUE))
      u2 == IF open \subseteq T THEN MoveAllAssumedTasksToReadyList(u1)
            ELSE MoveAllAssumedTasksToWaitingList(u1)
  IN  IF IsUnitFailed(u1) THEN u1
      ELSE IF NoVictim(u2) THEN u2
      ELSE StopIfFailed(AddFailedTask(u2, F \cap u2.new, FALSE))

(* CheckCrossNodeTopologyForUnit                                            *)
TopologyChecked(u, F) == StopIfFailed(AddFailedTask(u, F \cap u.new, FALSE))

(* CheckSameNodeConflictsForUnit: a preemptor that fails takes its node's   *)
(* other tasks with it; the rest waits where someone preempts.  The nodes   *)
(* are checked in parallel until too many tasks have failed, when the unit  *)
(* is rejected whatever the others came to.                                 *)
ConflictsChecked(u, F) ==
  LET lost == {NodeFor[p] : p \in {r \in F \cap u.new : u.victims[r] # {}}}
      u1 == AddFailedTask(MoveAllNewTasksOnNodeToFailedList(u, lost), F \cap u.new, FALSE)
      nodes == GetNodeListOfNewTasks(u1)
      preempting == {n \in nodes : NewTasksOnNodeNeedPreemption(u1, n)}
  IN  IF IsUnitFailed(u1) THEN u1
      ELSE MoveAllNewTasksOnNodeToReadyList(MoveAllNewTasksOnNodeToWaitingList(u1, preempting), nodes)

(* The three stages in turn, up to the first that fails the unit.  F fail   *)
(* in one of them; after the first they read nothing that others write.     *)
CheckUnit(stage, F) ==
  /\ InStage("check")
  /\ stage = "none" <=> F = {}
  /\ \E u1 \in {PreemptionChecked(pass.u, IF stage = "deadline" THEN F ELSE {},
                                  IF stage = "preemption" THEN F ELSE {})} :
     \E u2 \in {IF IsUnitFailed(u1) THEN u1
                ELSE TopologyChecked(u1, IF stage = "topology" THEN F ELSE {})} :
     \E u3 \in {IF IsUnitFailed(u2) THEN u2
                ELSE ConflictsChecked(u2, IF stage = "conflicts" THEN F ELSE {})} :
       /\ F \subseteq u3.failed \ pass.u.failed
       /\ Proceed("assume", u3)
  /\ FaultIf(F # {})
  /\ UNCHANGED <<cache, marks, StageLeaves>>

-----------------------------------------------------------------------------
(* MarkVictimsAndAssumeTasks                                                *)
NewPreemptors(u) == {p \in u.waiting \ u.came : u.victims[p] # {}}

(* markVictimsOfNewTasks: a victim that is gone fails the node's tasks.     *)
FailedNodes(u) == {NodeFor[p] : p \in {r \in NewPreemptors(u) : \E v \in u.victims[r] : victim[v] = "gone"}}
AfterMarking(u) == MoveAllNewTasksOnNodeFromWaitingToFailedList(u, FailedNodes(u))

Marking(u) ==
  marks' = [v \in Victims |->
              LET by == {p \in NewPreemptors(u) : v \in u.victims[p] /\ NodeFor[p] \notin FailedNodes(u)}
              IN  IF by # {} THEN CHOOSE p \in by : TRUE ELSE marks[v]]

(* assumeNewTasks: all of the new tasks or none.                            *)
Assuming(u) == GetReadyAndWaitingTasks(u) \ u.came

MarkVictimsAndAssumeTasks(fails) ==
  LET u == AfterMarking(pass.u)
      refused == fails \/ \E p \in Assuming(u) : cache[p] # "no"
      done == [u EXCEPT !.flagged = @ \cup Assuming(u)]
      free == {j \in Slots : jobs[j] = NoPass}
  IN  /\ InStage("assume") /\ free # {}
      /\ fails => Assuming(u) # {} /\ ~IsUnitFailed(u)
      /\ Marking(pass.u)
      /\ IF IsUnitFailed(u) THEN pass' = RejectAll(pass.k, u) /\ UNCHANGED <<cache, jobs>>
         ELSE IF refused /\ IsUnitFailed(MoveAllNewTasksInReadyAndWaitingListToFailedList(u))
         THEN /\ pass' = RejectAll(pass.k, MoveAllNewTasksInReadyAndWaitingListToFailedList(u))
              /\ UNCHANGED <<cache, jobs>>
         ELSE /\ pass' = NoPass
              /\ cache' = IF refused THEN cache
                          ELSE [p \in Pods |-> IF p \in Assuming(u) THEN "assumed" ELSE cache[p]]
              /\ jobs' = [jobs EXCEPT ![CHOOSE j \in free : TRUE] =
                   [pc |-> "delete", k |-> pass.k,
                    u |-> IF refused THEN MoveAllNewTasksInReadyAndWaitingListToFailedList(u) ELSE done]]
      /\ FaultIf(fails)
      /\ UNCHANGED <<events, victim, changes, q, scheduled, reconciler, pgVars>>

RejectInPass(p) ==
  /\ InStage("reject") /\ p \in pass.left
  /\ Reject(pass.u, p)
  /\ pass' = AfterReject(pass, p)
  /\ UNCHANGED <<victim, changes, q, scheduled, jobs, pgVars>>

-----------------------------------------------------------------------------
(* The goroutine, DeleteVictimsAndBindTasks.                                *)
JobBecomes(j, job) == jobs' = [jobs EXCEPT ![j] = job]
JobAt(j, pc) == jobs[j].pc = pc

JobRejectsAll(j, u) == JobBecomes(j, RejectAll(jobs[j].k, u))

(* deleteVictimsOfNewTasks: F are the preemptors whose victims could not be *)
(* deleted.                                                                 *)
DeleteVictims(j, F) ==
  /\ JobAt(j, "delete")
  /\ F \subseteq NewPreemptors(jobs[j].u)
  /\ LET u == jobs[j].u
         u1 == MoveAllNewTasksOnNodeFromWaitingToFailedList(u, {NodeFor[p] : p \in F})
         next == IF ~IsAbleToBindReadyTasks(u1) THEN "conclude" ELSE IF u1.gang THEN "lock" ELSE "bind"
     IN  /\ victim' = [v \in Victims |->
                         IF victim[v] = "running" /\ \E p \in NewPreemptors(u) \ F : v \in u.victims[p]
                         THEN "dying" ELSE victim[v]]
         /\ IF IsUnitFailed(u1) THEN JobRejectsAll(j, u1)
            ELSE JobBecomes(j, [pc |-> next, k |-> jobs[j].k, todo |-> u1.ready, bad |-> {},
                                u |-> IF next = "conclude" THEN MoveAllTasksFromReadyToWaitingList(u1) ELSE u1])
  /\ FaultIf(F # {})
  /\ UNCHANGED <<events, changes, q, cache, scheduled, marks, pass, reconciler, pgVars>>

(* LockPodGroupStatus: the lister may be behind, the API call may fail.     *)
LockPodGroup(j, fails) ==
  /\ JobAt(j, "lock") /\ PG!CanWrite(jobs[j].k)
  /\ fails => PG!LockPodGroupStatus(jobs[j].k) = "taken"
  /\ IF fails \/ PG!LockPodGroupStatus(jobs[j].k) = "failed"
     THEN JobRejectsAll(j, jobs[j].u) /\ UNCHANGED pgLog
     ELSE JobBecomes(j, [jobs[j] EXCEPT !.pc = "bind"]) /\ PG!TakeLock(jobs[j].k)
  /\ FaultIf(fails)
  /\ UNCHANGED <<events, victim, changes, q, cache, scheduled, marks, pass, reconciler, expired, pgQueue, sync>>

(* One task of bindTasks: the API server binds a pod that exists and is not *)
(* bound; an answer that got lost counts as a failure.                      *)
BindTask(j, p) ==
  /\ JobAt(j, "bind") /\ p \in jobs[j].todo /\ CanChange(p)
  /\ LET possible == AtServer(p) \in {"assumed", "dispatched"}
         done == [jobs[j] EXCEPT !.todo = @ \ {p}]
         failed == [done EXCEPT !.bad = @ \cup {p}]
     IN  \/ /\ possible /\ Becomes(p, "bound")
            /\ JobBecomes(j, done) /\ UNCHANGED faults
         \/ /\ ~possible /\ UNCHANGED <<events, faults>>
            /\ JobBecomes(j, failed)
         \/ /\ possible /\ Fault
            /\ UNCHANGED events \/ Becomes(p, "bound")
            /\ JobBecomes(j, failed)
  /\ UNCHANGED <<victim, changes, q, cache, scheduled, marks, pass, reconciler, pgVars>>

(* After bindTasks; the unit failed, or counts as Scheduled from now on.    *)
BindingDone(j) ==
  /\ JobAt(j, "bind") /\ jobs[j].todo = {}
  /\ LET u == MoveTasksFromReadyToFailedList(jobs[j].u, jobs[j].bad)
     IN  IF IsUnitFailed(u) THEN JobRejectsAll(j, u) /\ UNCHANGED scheduled
         ELSE /\ JobBecomes(j, [pc |-> "conclude", k |-> jobs[j].k, u |-> u])
              /\ scheduled' = IF u.gang THEN scheduled \cup {jobs[j].k} ELSE scheduled
  /\ UNCHANGED <<worldVars, q, cache, marks, pass, reconciler, pgVars>>

(* ReEnqueueWaitingTasks, then RejectFailedTasks.                           *)
Conclude(j) ==
  /\ JobAt(j, "conclude")
  /\ LET u == jobs[j].u
     IN  /\ q' = IF u.waiting = {} THEN q
                 ELSE AddUnitPreemptor(q, jobs[j].k, [pods |-> u.waiting, flagged |-> u.waiting])
         /\ JobBecomes(j, Rejecting(jobs[j].k, u))
  /\ UNCHANGED <<worldVars, cache, scheduled, marks, pass, reconciler, pgVars>>

RejectInJob(j, p) ==
  /\ JobAt(j, "reject") /\ p \in jobs[j].left
  /\ Reject(jobs[j].u, p)
  /\ JobBecomes(j, AfterReject(jobs[j], p))
  /\ UNCHANGED <<victim, changes, q, scheduled, pass, pgVars>>

-----------------------------------------------------------------------------
(* The PodGroup controller beside it.                                       *)
CreatePodGroup(g) == PG!CreatePodGroup(g) /\ UNCHANGED <<worldVars, binderVars>>

WritePodGroup ==
  /\ PG!updatePodGroupAnnotations \/ PG!updatePodGroupStatus
  /\ UNCHANGED <<worldVars, binderVars>>

Sync(g) ==
  LET listed == {p \in Members(g) : events[p][1] \notin {"none", "gone"}}
      bound == {p \in listed : events[p][1] = "bound"}
  IN  \E running \in BOOLEAN :
        /\ running => bound # {}
        /\ PG!syncHandler(g, Cardinality(listed), Cardinality(bound), running)
        /\ UNCHANGED <<worldVars, binderVars>>

PodGroupTimeout(g) ==
  /\ g \notin expired /\ PG!PodGroupTimeout(g)
  /\ Fault
  /\ UNCHANGED <<events, victim, changes, binderVars>>

MainLoop ==
  \/ \E k \in Units : PopUnit(k)
  \/ \E p \in Pods : RejectTimeOutUnit(p) \/ RejectInPass(p)
  \/ InitializeUnit
  \/ \E stage \in {"none", "deadline", "preemption", "topology", "conflicts"}, F \in SUBSET Pods :
       CheckUnit(stage, F)
  \/ \E fails \in BOOLEAN : MarkVictimsAndAssumeTasks(fails)

Job(j) ==
  \/ \E F \in SUBSET Pods : DeleteVictims(j, F)
  \/ \E fails \in BOOLEAN : LockPodGroup(j, fails)
  \/ \E p \in Pods : BindTask(j, p) \/ RejectInJob(j, p)
  \/ BindingDone(j)
  \/ Conclude(j)

Next ==
  \/ \E p \in Pods : HandOver(p) \/ Touch(p) \/ RemovePod(p) \/ PodEvent(p) \/ Reconcile(p)
  \/ \E v \in Victims : VictimGoes(v)
  \/ \E g \in Gangs : PodGroupEvent(g)
  \/ BackoffOver \/ CheckWaitingPod
  \/ MainLoop
  \/ \E j \in Slots : Job(j)
  \/ \E g \in Gangs : CreatePodGroup(g) \/ Sync(g) \/ PodGroupTimeout(g)
  \/ WritePodGroup

Spec == Init /\ [][Next]_vars

(* The informers, the queue's loops, the workers and the goroutines go on;  *)
(* a deleted victim ends.                                                   *)
Fairness ==
  /\ \A p \in Pods : WF_vars(PodEvent(p)) /\ WF_vars(Reconcile(p))
  /\ \A v \in Victims : WF_vars(victim[v] = "dying" /\ VictimGoes(v))
  /\ \A g \in Gangs : WF_vars(PodGroupEvent(g)) /\ WF_vars(Sync(g))
  /\ WF_vars(WritePodGroup)
  /\ WF_vars(BackoffOver) /\ WF_vars(CheckWaitingPod)
  /\ WF_vars(MainLoop)
  /\ \A j \in Slots : WF_vars(Job(j))

FairSpec == Spec /\ Fairness

-----------------------------------------------------------------------------
Handled(x) ==
  CASE x.pc = "idle" -> {}
    [] x.pc = "init" -> x.unit.pods
    [] x.pc \in {"timeout", "reject"} -> x.left
    [] OTHER -> UNION {x.u.assumed, x.u.new, x.u.ready, x.u.waiting, x.u.failed}

InHandling == Handled(pass) \cup UNION {Handled(jobs[j]) : j \in Slots}

TypeOK ==
  /\ \A p \in Pods : Len(events[p]) \in 1 .. MaxLag + 1
  /\ cache \in [Pods -> {"no", "assumed", "added"}]
  /\ scheduled \subseteq Gangs
  /\ victim \in [Victims -> {"running", "dying", "gone"}]
  /\ marks \in [Victims -> Pods \cup {Nobody}]
  /\ reconciler \subseteq Pods
  /\ q.parked \subseteq Pods
  /\ \A h \in Heaps, k \in Units : q[h][k].flagged \subseteq q[h][k].pods
  /\ \A x \in {pass} \cup {jobs[j] : j \in Slots} :
       "u" \in DOMAIN x => \A l, m \in Lists : l = m \/ x.u[l] \cap x.u[m] = {}

(* A unit key is in one heap at most, whichever of them the operations of   *)
(* the queue move it between (getUnit looks no further than the first).     *)
UnitInOneHeap ==
  \A k \in Units : Cardinality({h \in Heaps : q[h][k] # NoUnit}) <= 1

(* A reservation the cache may keep although nobody handles the pod:        *)
(* RejectTimeOutUnit leaves the pods of a timed out unit in the cache, and  *)
(* updatePodInBinderQueue a re-enqueued pod whose annotations were reset    *)
(* (a duplicate of it was rejected).  Such a pod is skipped if it returns.  *)
LeftBehind(p) == cache[p] = "assumed" /\ (UnitOf[p] \in expired \/ changes > 0)

(* A pod that the scheduler has handed over and whose events are handled is *)
(* queued, parked, being bound or rejected, or with the reconciler: merging *)
(* a re-enqueued unit, duplicates of an updated pod and rejections lose     *)
(* none, except those whose reservation was left behind.                    *)
NoPodLost ==
  \A p \in Pods : events[p] = <<"assumed">> =>
    \/ p \in UNION {PendingPods(q), q.parked, InHandling, reconciler}
    \/ LeftBehind(p)

(* The queues and lists of the binder hold every pod they were given: a pod *)
(* is in one list of its unit, a unit in one heap, and none is lost between *)
(* them.                                                                    *)
PodsAreKept == TypeOK /\ UnitInOneHeap /\ NoPodLost

(* A pod that stays assumed in the cache is kept for a unit that returns,   *)
(* or is being bound or rejected, or its last event is under way, or it was *)
(* left behind.                                                             *)
ReservationsAreHandled ==
  \A p \in Pods : cache[p] = "assumed" =>
    \/ p \in InHandling \cup UNION {q[h][k].flagged : h \in Heaps, k \in Units}
    \/ AtServer(p) \in {"bound", "gone"} /\ Len(events[p]) > 1
    \/ LeftBehind(p)

(* What the comment in RejectTimeOutUnit says: the rejected pods leave the  *)
(* cache, so that they are not taken for assumed when they come again.      *)
TimedOutPodsLeaveTheCache ==
  \A p \in Pods : changes = 0 /\ events[p] = <<"dispatched">> /\ p \notin InHandling \cup PendingPods(q)
    => cache[p] # "assumed"

(* A PodGroup that timed out has no bound member: the lock in its           *)
(* annotation keeps the controller's timeout and the binder's binding       *)
(* apart, although both read listers that are behind.                       *)
TimedOutGangIsNotBound ==
  \A g \in Gangs : PG!AtServer(g).phase = "Timeout" => Bound(g) = {}

(* Without failing calls and deletions the first members of a gang are      *)
(* bound together: none, or MinMember of them once no goroutine is binding. *)
GangIsBoundTogether ==
  \A g \in Gangs :
    faults = 0 /\ (\A p \in Members(g) : AtServer(p) # "gone")
      /\ (\A j \in Slots : jobs[j].pc # "bind" \/ jobs[j].k # g)
      => Bound(g) = {} \/ Cardinality(Bound(g)) >= MinMember[g]

(* A gang whose PodGroup exists and whose members are all handed over does  *)
(* not stay so: some member is bound or given back, whatever failed on the  *)
(* way between the heaps, the goroutines and the controller.                *)
Complete(g) == PG!AtServer(g) # PG!Absent /\ \A p \in Members(g) : AtServer(p) = "assumed"
CompleteGangIsSettled == \A g \in Gangs : Complete(g) ~> ~Complete(g)
=============================================================================
