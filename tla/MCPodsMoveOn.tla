---------------------------- MODULE MCPodsMoveOn ----------------------------
(***************************************************************************)
(* The dispatcher and the scheduler's queue, which must make progress,     *)
(* checked side by side: the part under test is chosen in the initial      *)
(* state, the other rests.                                                 *)
(***************************************************************************)
EXTENDS Naturals, Sequences, FiniteSets, TLC

CONSTANTS s1, s2, p1, p2, g1, None

VARIABLE part
VARIABLES sq_log, sq_glog, sq_env, sq_queue, sq_cached, sq_assumed, sq_status,
  sq_cycle, sq_persisting, sq_failed, sq_patching, sq_finished
VARIABLES dp_api, dp_watch, dp_lister, dp_inbox, dp_podGroup, dp_fifo, dp_sorted,
  dp_ready, dp_units, dp_hand, dp_task, dp_info, dp_crd, dp_gs, dp_stale,
  dp_abnormal, dp_env, dp_excused

\* The scheduler's queue: two pods of one group, nothing fails.
PlainGang == [unit |-> p1 :> g1 @@ p2 :> g1, minMember |-> g1 :> 2, phases |-> {},
  arrivals |-> {"dispatched"}, groupsMayGo |-> FALSE, patchesMayFail |-> FALSE,
  deadlinesPass |-> FALSE, disablePreemption |-> FALSE, maxLag |-> 1, maxChanges |-> 1]


\* The dispatcher: one pod on its own or in a group, handlers that lag, one fault of any kind.
Alone == [groupOf |-> p1 :> None, minMember |-> 1, lagging |-> {"pending"}, maxLag |-> 1,
  faults |-> {"edit", "break", "delete", "deleteGroup", "fail", "lostAnswer", "crash", "silent"}, maxFaults |-> 1]

GroupOfOne == [Alone EXCEPT !.groupOf = p1 :> g1, !.maxLag = 2, !.lagging = {"pending", "dispatched"}]

sq_Pods == {p1, p2}
sq_Groups == {g1}
sq_Scenarios == {PlainGang}
dp_Pods == {p1}
dp_Groups == {g1}
dp_Schedulers == {s1, s2}
dp_WithNodes == {}
dp_Slots == {1, 2}
dp_Scenarios == {Alone, GroupOfOne}

SQ == INSTANCE SchedulingQueue WITH
  Pods <- sq_Pods, Groups <- sq_Groups, NoUnit <- None, Scenarios <-
  sq_Scenarios, log <- sq_log, glog <- sq_glog, env <- sq_env, queue <-
  sq_queue, cached <- sq_cached, assumed <- sq_assumed, status <- sq_status,
  cycle <- sq_cycle, persisting <- sq_persisting, failed <- sq_failed,
  patching <- sq_patching, finished <- sq_finished

DP == INSTANCE Dispatcher WITH
  Pods <- dp_Pods, Groups <- dp_Groups, NoGroup <- None, NoPod <- None,
  Schedulers <- dp_Schedulers, NoScheduler <- None, WithNodes <-
  dp_WithNodes, Slots <- dp_Slots, Scenarios <- dp_Scenarios, api <- dp_api,
  watch <- dp_watch, lister <- dp_lister, inbox <- dp_inbox, podGroup <-
  dp_podGroup, fifo <- dp_fifo, sorted <- dp_sorted, ready <- dp_ready,
  units <- dp_units, hand <- dp_hand, task <- dp_task, info <- dp_info, crd
  <- dp_crd, gs <- dp_gs, stale <- dp_stale, abnormal <- dp_abnormal, env <-
  dp_env, excused <- dp_excused

queueVars == <<sq_log, sq_glog, sq_env, sq_queue, sq_cached, sq_assumed, sq_status,
  sq_cycle, sq_persisting, sq_failed, sq_patching, sq_finished>>
dispatcherVars == <<dp_api, dp_watch, dp_lister, dp_inbox, dp_podGroup, dp_fifo, dp_sorted,
  dp_ready, dp_units, dp_hand, dp_task, dp_info, dp_crd, dp_gs, dp_stale,
  dp_abnormal, dp_env, dp_excused>>

vars == <<part, queueVars, dispatcherVars>>

Init ==
  /\ part \in {"queue", "dispatcher"}
  /\ SQ!Init
  /\ DP!Init
  /\ part # "dispatcher" => dp_env.scenario = Alone

QueueStep(A) == part = "queue" /\ A /\ UNCHANGED <<part, dispatcherVars>>
DispatcherStep(A) == part = "dispatcher" /\ A /\ UNCHANGED <<part, queueVars>>

Next ==
  \/ QueueStep(SQ!Next)
  \/ DispatcherStep(DP!Next)

Fairness ==
  /\ \A p \in {p1, p2} : WF_queueVars(part = "queue" /\ (SQ!AddPod(p) \/ SQ!UpdatePod(p) \/ SQ!DeletePod(p)))
  /\ \A p \in {p1, p2} : WF_queueVars(part = "queue" /\ (SQ!PersistPod(p) \/ SQ!PersistDeletedPod(p)))
  /\ \A p \in {p1, p2} : WF_queueVars(part = "queue" /\ SQ!UpdateFailedSchedulingPod(p))
  /\ WF_queueVars(part = "queue" /\ (SQ!AddOrUpdatePodGroup(g1) \/ SQ!DeletePodGroup(g1)))
  /\ WF_queueVars(part = "queue" /\ (\E u \in {p1, p2, g1} : SQ!Pop(u)))
  /\ WF_queueVars(part = "queue" /\ SQ!ScheduleUnit)
  /\ WF_queueVars(part = "queue" /\ SQ!HandleSchedulingUnitFailure)
  /\ WF_queueVars(part = "queue" /\ SQ!EndCycle)
  /\ WF_queueVars(part = "queue" /\ SQ!FlushBackoffQCompleted)
  /\ WF_queueVars(part = "queue" /\ SQ!FlushScheduledUnitsInWaitingQ)
  /\ WF_queueVars(part = "queue" /\ SQ!FlushWaitingPodsList)
  /\ \A u \in {p1, p2, g1} : WF_queueVars(part = "queue" /\ SQ!BackoffEnds(u))
  /\ \A u \in {p1, p2, g1} : WF_queueVars(part = "queue" /\ (\E us \in SUBSET {p1, p2, g1} : u \in us /\ SQ!FlushUnschedulableQLeftover(us)))
  /\ WF_dispatcherVars(part = "dispatcher" /\ DP!Deliver(p1))
  /\ \A h \in {"pending", "dispatched", "units"} : WF_dispatcherVars(part = "dispatcher" /\ DP!Notify(h, p1))
  /\ SF_dispatcherVars(part = "dispatcher" /\ DP!UnitLoopPop(p1))
  /\ SF_dispatcherVars(part = "dispatcher" /\ DP!PendingLoopPop(p1))
  /\ SF_dispatcherVars(part = "dispatcher" /\ (\E i \in {1, 2} : DP!SortedLoop(p1, i)))
  /\ WF_dispatcherVars(part = "dispatcher" /\ DP!StaleDispatchedPodsSyncer(p1))
  /\ WF_dispatcherVars(part = "dispatcher" /\ DP!AbnormalStatePodsSyncer(p1))
  /\ WF_dispatcherVars(part = "dispatcher" /\ DP!UnitLoopAdd)
  /\ WF_dispatcherVars(part = "dispatcher" /\ DP!PendingLoopAdd)
  /\ \A i \in {1, 2} : WF_dispatcherVars(part = "dispatcher" /\ DP!TaskStep(i))
  /\ \A s \in {s1, s2} : WF_dispatcherVars(part = "dispatcher" /\ DP!SyncUpSchedulersStatus(s))
  /\ \A s \in {s1, s2} : WF_dispatcherVars(part = "dispatcher" /\ DP!deleteScheduler(s))
  /\ WF_dispatcherVars(part = "dispatcher" /\ DP!CollectDispatchedPods)

Spec == Init /\ [][Next]_vars /\ Fairness

\* Pods that stay dispatched to the scheduler are tried again and again, in
\* whatever order pods and PodGroup arrive (SchedulingQueue!UnitsAreRetried).
UnitsAreRetried == part = "queue" => SQ!UnitsAreRetried

\* A pod given to a scheduler that is gone does not stay with it
\* (Dispatcher!OrphansAreTakenBack).
OrphansAreTakenBack == part = "dispatcher" => DP!OrphansAreTakenBack

\* A pod that can be dispatched does not stay pending
\* (Dispatcher!PodsAreDispatched).
PodsAreDispatched == part = "dispatcher" => DP!PodsAreDispatched
=============================================================================
