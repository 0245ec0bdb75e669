------------------------- MODULE MCSchedulingQueue -------------------------
(* Situations for TLC: a PodGroup that needs both its pods or one of them, or a
   PodGroup of one pod next to a single pod. *)
EXTENDS SchedulingQueue, TLC

CONSTANTS p1, p2, g1

Gang == [unit |-> p1 :> g1 @@ p2 :> g1, minMember |-> g1 :> 2,
         phases |-> {"scheduled", "timeout"}, arrivals |-> {"dispatched", "elsewhere", "assumed"},
         groupsMayGo |-> FALSE, patchesMayFail |-> FALSE, deadlinesPass |-> FALSE,
         disablePreemption |-> FALSE, maxLag |-> 2, maxChanges |-> 2]

(* Calls of the API server fail and handlers are late. *)
Patches == [Gang EXCEPT !.phases = {"scheduled"}, !.arrivals = {"dispatched"},
                        !.patchesMayFail = TRUE, !.deadlinesPass = TRUE, !.maxChanges = 1]

(* A PodGroup comes and goes next to a single pod. *)
GroupsGo == [Gang EXCEPT !.unit = p1 :> g1 @@ p2 :> p2, !.minMember = g1 :> 1,
                         !.phases = {"scheduled"}, !.arrivals = {"dispatched"},
                         !.groupsMayGo = TRUE, !.maxLag = 1, !.maxChanges = 1]

(* Nothing fails, but the PodGroup of both pods comes and goes. *)
GangGoes == [Gang EXCEPT !.phases = {"scheduled"}, !.arrivals = {"dispatched"}, !.groupsMayGo = TRUE]

SafetyScenarios   == {Gang, Patches, GroupsGo}
GangGoesScenarios == {GangGoes}

(* NoPodLost while PodGroups stay, also when patches fail and deadlines pass. *)
NoPodLostWhileGroupsStay == ~GroupsMayGo => NoPodLost

(* OneQueue while PodGroups stay and no patch fails. *)
UnitsInOneQueue == ~GroupsMayGo /\ ~PatchesMayFail => OneQueue

(* HeapNamesQueuedUnits, also when PodGroups are deleted and created again. *)
HeapNamesOnlyQueuedUnits == ~PatchesMayFail => HeapNamesQueuedUnits

(* The queue is what its operations take it to be: every unit key is in one
   place and the priority heap names units that are there. *)
QueueIsSound == TypeOK /\ UnitsInOneQueue /\ HeapNamesOnlyQueuedUnits

(* AssumedPodsAreReleased while PodGroups stay and no call of the API server fails. *)
AssumedPodsReleasedWithoutFailures == ~GroupsMayGo /\ ~PatchesMayFail => AssumedPodsAreReleased

(* PlacedOnce while deadlines hold, also when PodGroups are deleted and created
   again: a placed pod whose update is on the way is not placed a second time. *)
PodsPlacedOnce == [][~DeadlinesPass => \A p \in assumed' \ assumed : Lister(p) # "assumed"]_vars
============================================================================
