------------------------------ MODULE PodState ------------------------------
(***************************************************************************)
(* The state of a pod as the annotations of its API object encode it       *)
(* (pkg/util/pod/podstate.go).  The dispatcher, the schedulers and the     *)
(* binder never exchange messages: each filters the pods of the API server *)
(* with the predicates below and writes the annotations of the next state. *)
(*                                                                         *)
(* An object is a record.  `sched` is the selected-scheduler annotation,   *)
(* `assumed` and `nominated` tell whether those node annotations are set,  *)
(* `bound` whether spec.nodeName is, `annotated` whether the annotation    *)
(* map exists at all, `legal` whether the launcher and the resource type   *)
(* annotations are acceptable, and `ours` whether spec.schedulerName is    *)
(* one godel answers for.  NoScheduler stands for an empty annotation.     *)
(***************************************************************************)
EXTENDS Naturals

CONSTANTS Schedulers,  \* names of the scheduler instances
          NoScheduler  \* the empty scheduler annotation

PodStates == {"", "pending", "dispatched", "assumed"}

PendingPod(o) ==
  /\ o.annotated
  /\ o.state \in {"", "pending"}
  /\ o.sched = NoScheduler
  /\ ~o.assumed /\ ~o.nominated /\ ~o.bound

DispatchedPod(o) ==
  /\ o.annotated
  /\ o.state = "dispatched"
  /\ o.sched # NoScheduler
  /\ ~o.assumed /\ ~o.nominated /\ ~o.bound

\* Exactly one of the two node annotations.
assumedOrNominatedNodeIsSet(o) == o.annotated /\ o.assumed # o.nominated

AssumedPod(o) ==
  /\ o.annotated
  /\ o.state = "assumed"
  /\ o.sched # NoScheduler
  /\ assumedOrNominatedNodeIsSet(o)
  /\ ~o.bound

BoundPod(o) == o.bound

\* The switch of AbnormalPodState: the state named by the annotation must be
\* the state the other fields describe; an unknown name is always abnormal.
AbnormalPodState(o) ==
  /\ ~BoundPod(o)
  /\ \/ o.state \in {"", "pending"} /\ ~PendingPod(o)
     \/ o.state = "dispatched" /\ ~DispatchedPod(o)
     \/ o.state = "assumed" /\ ~AssumedPod(o)
     \/ o.state \notin PodStates

PendingPodOfGodel(o)        == o.legal /\ o.ours /\ PendingPod(o)
DispatchedPodOfGodel(o)     == o.legal /\ o.ours /\ DispatchedPod(o)
AssumedPodOfGodel(o)        == o.legal /\ o.ours /\ AssumedPod(o)
AbnormalPodStateOfGodel(o)  == o.ours /\ AbnormalPodState(o)

DispatchedPodOfThisScheduler(o, s)  == o.sched = s /\ DispatchedPod(o)
DispatchedPodOfOtherScheduler(o, s) == o.sched # s /\ DispatchedPod(o)

\* resetPodToPendingState: what the dispatcher writes over an object it
\* takes back.
resetPodToPendingState(o) ==
  [o EXCEPT !.annotated = TRUE, !.state = "pending", !.sched = NoScheduler,
            !.assumed = FALSE, !.nominated = FALSE]

\* CleanupPodAnnotations: what a scheduler or the binder writes over a pod
\* whose placement failed.  The scheduler annotation stays.
CleanupPodAnnotations(o) ==
  [o EXCEPT !.annotated = TRUE, !.state = "dispatched",
            !.assumed = FALSE, !.nominated = FALSE]

\* FilteringUpdate, and client-go's FilteringResourceEventHandler: which
\* handler an (old, new) pair reaches.  Filter values are passed in.
Filtered(older, newer) ==
  IF newer THEN (IF older THEN "update" ELSE "add")
           ELSE (IF older THEN "delete" ELSE "none")
=============================================================================
