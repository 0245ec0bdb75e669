----------------------------- MODULE BindingUnit -----------------------------
(***************************************************************************)
(* The bookkeeping of one binding pass (pkg/binder/binder_unit.go): a unit *)
(* that was popped from the binder's queue, its tasks (pods) sorted into   *)
(* disjoint lists as the checks proceed.                                   *)
(*                                                                         *)
(* A pass is a record:                                                     *)
(*   gang, min, all, ever   PodGroup unit or single pod, MinMember, the    *)
(*                          number of tasks, everScheduled                 *)
(*   assumed, new, ignored, ready, waiting, failed    the lists            *)
(*   came                   the tasks whose checkResult.assumed is set     *)
(*   flagged                the tasks whose queued info carries            *)
(*                          NewlyAssumedButStillInHandling                 *)
(*   victims                runningUnitInfo.victims of every task          *)
(***************************************************************************)
EXTENDS Naturals, FiniteSets

CONSTANT NodeFor      \* the node the scheduler suggested for every pod

Lists == {"assumed", "new", "ignored", "ready", "waiting", "failed"}

NewBindingUnitInfo(pods, flagged, gang, min, ever) ==
  [gang |-> gang, min |-> min, all |-> Cardinality(pods), ever |-> ever,
   assumed |-> {}, new |-> {}, ignored |-> {}, ready |-> {}, waiting |-> {}, failed |-> {},
   came |-> {}, flagged |-> flagged, victims |-> [p \in pods |-> {}]]

IsUnitFailed(u) ==
  IF u.gang THEN ~u.ever /\ u.all < u.min + Cardinality(u.failed) + Cardinality(u.ignored)
  ELSE u.failed # {}

IsAbleToBindAny(u) == u.gang => u.ever \/ u.ready # {}

IsAbleToBindReadyTasks(u) == u.gang => u.ever \/ Cardinality(u.ready) >= u.min

(* allVictims: the victims of the tasks that are still in newTasks.         *)
AllVictims(u) == UNION {u.victims[p] : p \in u.new}
HasVictim(u, v) == v \in AllVictims(u)
NoVictim(u) == AllVictims(u) = {}

GetAssumedTasks(u) == u.assumed
GetNewTasks(u) == u.new
GetNewTasksOnNode(u, n) == {p \in u.new : NodeFor[p] = n}
GetVictimsOfNewTasksOnNode(u, n) == UNION {u.victims[p] : p \in GetNewTasksOnNode(u, n)}
GetNodeListOfNewTasks(u) == {NodeFor[p] : p \in u.new}
NewTasksOnNodeNeedPreemption(u, n) == GetVictimsOfNewTasksOnNode(u, n) # {}
GetReadyAndWaitingTasks(u) == u.ready \cup u.waiting

AddAssumedTask(u, p) == [u EXCEPT !.assumed = @ \cup {p}]
AddIgnoredTasks(u, p) == [u EXCEPT !.ignored = @ \cup {p}]
AddNewTask(u, p, victims) == [u EXCEPT !.new = @ \cup {p}, !.victims[p] = victims]

deleteTaskFromNewOrAssumedTasks(u, P) ==
  [u EXCEPT !.new = @ \ P, !.assumed = @ \ P]

(* AddFailedTask for every task of P, all of them assumed earlier or none.  *)
AddFailedTask(u, P, assumed) ==
  [deleteTaskFromNewOrAssumedTasks(u, P) EXCEPT
     !.failed = @ \cup P, !.came = IF assumed THEN @ \cup P ELSE @ \ P]

(* The moves by node, for every node of N.                                  *)
OnNodes(P, N) == {p \in P : NodeFor[p] \in N}

MoveAllNewTasksOnNodeToFailedList(u, N) == AddFailedTask(u, OnNodes(u.new, N), FALSE)

MoveAllNewTasksOnNodeFromWaitingToFailedList(u, N) ==
  LET P == OnNodes(u.waiting \ u.came, N)
  IN  [u EXCEPT !.waiting = @ \ P, !.failed = @ \cup P]

MoveTasksFromReadyToFailedList(u, P) == [u EXCEPT !.ready = @ \ P, !.failed = @ \cup P]

MoveAllTasksFromReadyToWaitingList(u) == [u EXCEPT !.ready = {}, !.waiting = @ \cup u.ready]

MoveAllNewTasksInReadyAndWaitingListToFailedList(u) ==
  LET P == (u.ready \cup u.waiting) \ u.came
  IN  [u EXCEPT !.ready = @ \ P, !.waiting = @ \ P, !.failed = @ \cup P]

MoveAllTasksToFailedList(u) ==
  [u EXCEPT !.failed = @ \cup u.assumed \cup u.new \cup u.ready \cup u.waiting,
            !.came = @ \cup u.assumed,
            !.assumed = {}, !.new = {}, !.ready = {}, !.waiting = {}]

MoveAllNewTasksOnNodeToWaitingList(u, N) ==
  LET P == OnNodes(u.new, N)
  IN  [deleteTaskFromNewOrAssumedTasks(u, P) EXCEPT !.waiting = @ \cup P]

MoveAllNewTasksOnNodeToReadyList(u, N) ==
  LET P == OnNodes(u.new, N)
  IN  [deleteTaskFromNewOrAssumedTasks(u, P) EXCEPT !.ready = @ \cup P]

MoveAllAssumedTasksToReadyList(u) ==
  [u EXCEPT !.ready = @ \cup u.assumed, !.came = @ \cup u.assumed, !.assumed = {}]

MoveAllAssumedTasksToWaitingList(u) ==
  [u EXCEPT !.waiting = @ \cup u.assumed, !.came = @ \cup u.assumed, !.assumed = {}]

(* The checks stop, and every task fails, as soon as too many have failed.  *)
StopIfFailed(u) == IF IsUnitFailed(u) THEN MoveAllTasksToFailedList(u) ELSE u
==============================================================================
