---------------------------- MODULE Reservation -----------------------------
(***************************************************************************)
(* The room of a deleted pod is kept for its successor.  The scheduler and *)
(* the binder each count a fake pod in the place of the deleted one, from  *)
(* the pod's deletion on or from the Reservation object the controller     *)
(* creates, whichever they see first.  A successor that matches the        *)
(* placeholder takes the fake pod's place; the binder then marks the       *)
(* Reservation as matched and the controller removes it.                   *)
(*                                                                         *)
(* One bound pod that asks for a reservation, its placeholder, and the     *)
(* pods that carry the same reservation index.                             *)
(***************************************************************************)
EXTENDS Naturals, Sequences, FiniteSets

CONSTANTS
  Old,          \* the bound pod whose room is reserved when it is deleted
  Pods,         \* the pods that may take its place
  None, Free,   \* no ReservationInfo; one without a MatchedPod
  Outcomes,     \* how the controller's creation of the Reservation may end
  MaxTries,     \* bound: scheduling cycles that pick the placeholder
  MaxLag        \* bound: events an informer has not delivered

Caches == {"scheduler", "binder"}
Everyone == Pods \cup {Old}

VARIABLES
  pods,       \* the state of every pod at the API server
  res,        \* phase and owner of the Reservation at the API server
  creation,   \* "awaited" until the controller has handled the deletion of Old
  podEvents,  \* what the pod informer has yet to deliver to a cache
  resEvents,  \* the same for the Reservation informer
  cache,      \* the stores of the scheduler's and of the binder's cache
  work,       \* what the scheduler or the binder does with a pod
  took,       \* history: the pods that were bound into the placeholder
  late,       \* history: the caches where a deadline came before its event
  tries

vars == <<pods, res, creation, podEvents, resEvents, cache, work, took, late, tries>>
serverVars == <<pods, res, podEvents, resEvents>>

NoReservation == [phase |-> "none", owner |-> None]

Init ==
  /\ pods = [p \in Everyone |-> IF p = Old THEN "bound" ELSE "pending"]
  /\ res = NoReservation
  /\ creation = "awaited"
  /\ podEvents = [c \in Caches |-> <<>>]
  /\ resEvents = [c \in Caches |-> <<>>]
  /\ cache = [c \in Caches |->
       [held |-> [p \in Everyone |-> IF p = Old THEN "added" ELSE "no"],
        fake |-> FALSE, info |-> None, due |-> FALSE]]
  /\ work = [p \in Pods |-> "waiting"]
  /\ took = {}
  /\ late = {}
  /\ tries = 0

(* A write at the API server, which the informers will deliver.             *)
WritePod(p, state) ==
  /\ \A c \in Caches : Len(podEvents[c]) < MaxLag
  /\ pods' = [pods EXCEPT ![p] = state]
  /\ podEvents' = [c \in Caches |->
       Append(podEvents[c], [pod |-> p, old |-> pods[p], new |-> state])]

WriteReservation(new) ==
  /\ \A c \in Caches : Len(resEvents[c]) < MaxLag
  /\ res' = new
  /\ resEvents' = [c \in Caches |-> Append(resEvents[c], [old |-> res, new |-> new])]

-----------------------------------------------------------------------------
(* ReservationStore of a cache k.  A fake pod is added and removed through  *)
(* the other stores: it is counted on the node.                             *)

addFakePod(k) == [k EXCEPT !.fake = TRUE]
removeFakePod(k) == [k EXCEPT !.fake = FALSE]
addPlaceholderPod(k) == [k EXCEPT !.info = Free]
deletePlaceholderPod(k) == [k EXCEPT !.info = None]
SetMatchedPodForReservation(k, p) == [k EXCEPT !.info = IF @ = None THEN None ELSE p]

ReserveWithoutReset(k) == addFakePod(k)
reservePodResources(k) == SetMatchedPodForReservation(addFakePod(k), Free)
consumeReservedResources(k, p) == SetMatchedPodForReservation(removeFakePod(k), p)

(* getReservationInfoByPod before either: an error leaves the store alone.  *)
ConsumeIfKnown(k, p) == IF k.info = None THEN k ELSE consumeReservedResources(k, p)
ReserveIfKnown(k) == IF k.info = None THEN k ELSE reservePodResources(k)

assumePodReservation(k) ==
  IF k.info # None THEN k
  ELSE [addPlaceholderPod(addFakePod(k)) EXCEPT !.due = TRUE]

assumedOrBoundPod(state) == state \in {"assumed", "bound"}

(* The pods that count in a cache.                                          *)
Counts(c, state) == IF c = "scheduler" THEN assumedOrBoundPod(state) ELSE state = "bound"

(* Of the pods only Old asks for a reservation.                             *)
shouldReserveResources(p, state) == p = Old /\ state = "bound"

(* UpdatePod of the two stores differ: the binder's does not reserve again, *)
(* its own ForgetPod does.                                                  *)
UpdatePodInScheduler(k, p, old, new) ==
  IF ~assumedOrBoundPod(old) /\ assumedOrBoundPod(new) THEN ConsumeIfKnown(k, p)
  ELSE IF assumedOrBoundPod(old) /\ ~assumedOrBoundPod(new) THEN ReserveIfKnown(k)
  ELSE k
UpdatePodInBinder(k, p, old, new) ==
  IF old # "bound" /\ new = "bound" THEN ConsumeIfKnown(k, p) ELSE k

UpdatePod(c, k, p, old, new) ==
  LET r == IF c = "scheduler" THEN UpdatePodInScheduler(k, p, old, new)
           ELSE UpdatePodInBinder(k, p, old, new)
  IN  [r EXCEPT !.held[p] = IF Counts(c, new) THEN "added" ELSE "no"]

(* DeletePod of the store; the pod carries the name of its placeholder once *)
(* it is assumed.                                                           *)
DeletePodFromStore(k, p, state) ==
  IF k.held[p] = "added" /\ shouldReserveResources(p, state) THEN assumePodReservation(k)
  ELSE IF k.held[p] = "assumed" /\ assumedOrBoundPod(state) THEN ReserveIfKnown(k)
  ELSE k

DeletePod(c, k, p, state) ==
  LET r == DeletePodFromStore(k, p, state)
  IN  IF Counts(c, state) THEN [r EXCEPT !.held[p] = "no"] ELSE r

AssumePod(k, p) == [consumeReservedResources(k, p) EXCEPT !.held[p] = "assumed"]
CanAssume(k, p) == k.held[p] = "no" /\ k.info # None

ForgetPod(k, p) ==
  IF k.held[p] # "assumed" THEN k ELSE [ReserveIfKnown(k) EXCEPT !.held[p] = "no"]

ShouldOccupyResources(r) == r.phase = "reserved"

AddReservation(k, r) ==
  IF ~ShouldOccupyResources(r) THEN k
  ELSE IF k.due THEN [k EXCEPT !.due = FALSE]
  ELSE addPlaceholderPod(addFakePod(k))

UpdateReservation(k, old, new) ==
  IF /\ ShouldOccupyResources(old)
     /\ ~ShouldOccupyResources(new)
     /\ k.held[new.owner] # "no"
  THEN consumeReservedResources(k, new.owner)
  ELSE k

DeleteReservation(k) == deletePlaceholderPod(removeFakePod(k))

CleanupExpiredAssumedPodReservation(k) ==
  [(IF k.fake THEN deletePlaceholderPod(removeFakePod(k)) ELSE k) EXCEPT !.due = FALSE]

-----------------------------------------------------------------------------
(* The events a cache handles, and its deadlines.                           *)

(* A pod enters and leaves the queue of the component that handles it.      *)
Requeue(c, e) ==
  IF e.pod = Old THEN "none"
  ELSE IF c = "scheduler"
  THEN IF e.new = "pending" THEN "waiting"
       ELSE IF e.new = "gone" /\ work[e.pod] = "waiting" THEN "none" ELSE work[e.pod]
  ELSE IF e.new = "assumed" THEN "toBind"
       ELSE IF e.new = "gone" /\ work[e.pod] = "toBind" THEN "none" ELSE work[e.pod]

(* The binder's handler also forgets an assumed pod that is deleted.        *)
HandlePod(c) ==
  /\ podEvents[c] # <<>>
  /\ LET e == Head(podEvents[c])
         k == IF e.new = "gone" THEN DeletePod(c, cache[c], e.pod, e.old)
              ELSE UpdatePod(c, cache[c], e.pod, e.old, e.new)
     IN  /\ cache' = [cache EXCEPT ![c] =
              IF c = "binder" /\ e.new = "gone" /\ e.old = "assumed"
              THEN ForgetPod(k, e.pod) ELSE k]
         /\ work' = [p \in Pods |-> IF p = e.pod THEN Requeue(c, e) ELSE work[p]]
  /\ podEvents' = [podEvents EXCEPT ![c] = Tail(@)]
  /\ UNCHANGED <<pods, res, resEvents, creation, took, late, tries>>

HandleReservation(c) ==
  /\ resEvents[c] # <<>>
  /\ LET e == Head(resEvents[c])
     IN  cache' = [cache EXCEPT ![c] =
           IF e.old.phase = "none" THEN AddReservation(@, e.new)
           ELSE IF e.new.phase = "deleted" THEN DeleteReservation(@)
           ELSE UpdateReservation(@, e.old, e.new)]
  /\ resEvents' = [resEvents EXCEPT ![c] = Tail(@)]
  /\ UNCHANGED <<pods, res, podEvents, creation, work, took, late, tries>>

(* The placeholder of a deleted pod whose Reservation did not come in time. *)
ExpirePlaceholder(c) ==
  /\ cache[c].due
  /\ cache' = [cache EXCEPT ![c] = CleanupExpiredAssumedPodReservation(@)]
  /\ late' = IF cache[c].fake /\ creation = "handled" /\ resEvents[c] = <<>>
             THEN late ELSE late \cup {c}
  /\ UNCHANGED <<serverVars, creation, work, took, tries>>

(* CleanupExpiredAssumedPods: FinishReserving or FinishBinding gave the pod *)
(* a deadline.  The stores delete the pod as it was assumed.                *)
ExpirePod(c, p) ==
  /\ cache[c].held[p] = "assumed"
  /\ work[p] \notin (IF c = "scheduler" THEN {"located", "persisting"} ELSE {"binding"})
  /\ cache' = [cache EXCEPT ![c] = DeletePod(c, @, p, "bound")]
  /\ late' = late \cup {c}
  /\ UNCHANGED <<serverVars, creation, work, took, tries>>

-----------------------------------------------------------------------------
(* The scheduler places a pod on the reserved room.                         *)

Locate(p) ==
  /\ work[p] = "waiting"
  /\ \A q \in Pods : work[q] # "located"
  /\ cache["scheduler"].info = Free
  /\ tries < MaxTries
  /\ tries' = tries + 1
  /\ work' = [work EXCEPT ![p] = "located"]
  /\ UNCHANGED <<serverVars, creation, cache, took, late>>

AssumeInScheduler(p) ==
  /\ work[p] = "located"
  /\ IF CanAssume(cache["scheduler"], p)
     THEN /\ cache' = [cache EXCEPT !["scheduler"] = AssumePod(@, p)]
          /\ work' = [work EXCEPT ![p] = "persisting"]
     ELSE /\ work' = [work EXCEPT ![p] = "waiting"]
          /\ UNCHANGED cache
  /\ UNCHANGED <<serverVars, creation, took, late, tries>>

PersistPod(p) ==
  /\ work[p] = "persisting"
  /\ pods[p] = "pending"
  /\ WritePod(p, "assumed")
  /\ work' = [work EXCEPT ![p] = "none"]
  /\ UNCHANGED <<res, resEvents, creation, cache, took, late, tries>>

FailToPersist(p) ==
  /\ work[p] = "persisting"
  /\ cache' = [cache EXCEPT !["scheduler"] = ForgetPod(@, p)]
  /\ work' = [work EXCEPT ![p] = IF pods[p] = "pending" THEN "waiting" ELSE "none"]
  /\ UNCHANGED <<serverVars, creation, took, late, tries>>

-----------------------------------------------------------------------------
(* The binder checks the placeholder, assumes the pod and binds it.         *)

CheckWithoutLook(k) == k.info # None
GetAvailablePlaceholderPod(k) == k.info = Free

InitializeTask(p) ==
  /\ work[p] = "toBind"
  /\ \A q \in Pods : work[q] # "checked"
  /\ work' = [work EXCEPT ![p] =
       IF GetAvailablePlaceholderPod(cache["binder"]) THEN "checked" ELSE "failed"]
  /\ UNCHANGED <<serverVars, creation, cache, took, late, tries>>

AssumeInBinder(p) ==
  /\ work[p] = "checked"
  /\ IF CanAssume(cache["binder"], p)
     THEN /\ cache' = [cache EXCEPT !["binder"] = AssumePod(@, p)]
          /\ work' = [work EXCEPT ![p] = "binding"]
     ELSE /\ work' = [work EXCEPT ![p] = "failed"]
          /\ UNCHANGED cache
  /\ UNCHANGED <<serverVars, creation, took, late, tries>>

Bind(p) ==
  /\ work[p] = "binding"
  /\ IF pods[p] = "assumed"
     THEN /\ WritePod(p, "bound")
          /\ work' = [work EXCEPT ![p] = "bound"]
          /\ took' = took \cup {p}
     ELSE /\ work' = [work EXCEPT ![p] = "failed"]
          /\ UNCHANGED <<pods, podEvents, took>>
  /\ UNCHANGED <<res, resEvents, creation, cache, late, tries>>

FailToBind(p) ==
  /\ work[p] = "binding"
  /\ work' = [work EXCEPT ![p] = "failed"]
  /\ UNCHANGED <<serverVars, creation, cache, took, late, tries>>

(* RejectFailedTasks: CleanupPodAnnotations takes the placeholder off the   *)
(* pod, which its scheduler then schedules again.                           *)
RejectFailedTask(p) ==
  /\ work[p] = "failed"
  /\ cache' = [cache EXCEPT !["binder"] = ForgetPod(@, p)]
  /\ IF pods[p] = "assumed" THEN WritePod(p, "pending") ELSE UNCHANGED <<pods, podEvents>>
  /\ work' = [work EXCEPT ![p] = "none"]
  /\ UNCHANGED <<res, resEvents, creation, took, late, tries>>

(* The Reservation the binder's lister may show.                            *)
Listed == {res} \cup {resEvents["binder"][i].old : i \in 1 .. Len(resEvents["binder"])}

(* UpdateReservationStatus: an update that fails is tried again and then    *)
(* only logged.                                                             *)
UpdateReservationStatus(p) ==
  /\ work[p] = "bound"
  /\ work' = [work EXCEPT ![p] = "none"]
  /\ \/ /\ res \in Listed
        /\ res.phase = "reserved"
        /\ WriteReservation([phase |-> "matched", owner |-> p])
     \/ UNCHANGED <<res, resEvents>>
  /\ UNCHANGED <<pods, podEvents, creation, cache, took, late, tries>>

-----------------------------------------------------------------------------
(* The controller, and the owners of the pods.                              *)

ConstructReservationAccordingToPod == [phase |-> "reserved", owner |-> None]

createReservationCrdOnPodDeletion ==
  /\ creation = "awaited"
  /\ pods[Old] = "gone"
  /\ creation' = "handled"
  /\ \/ /\ "created" \in Outcomes
        /\ WriteReservation(ConstructReservationAccordingToPod)
     \/ /\ "failed" \in Outcomes
        /\ UNCHANGED <<res, resEvents>>
  /\ UNCHANGED <<pods, podEvents, cache, work, took, late, tries>>

(* A Reservation that is matched, or whose time is over.                    *)
gcReservations ==
  /\ res.phase \in {"reserved", "matched"}
  /\ WriteReservation([res EXCEPT !.phase = "deleted"])
  /\ UNCHANGED <<pods, podEvents, creation, cache, work, took, late, tries>>

RemovePod(p) ==
  /\ pods[p] # "gone"
  /\ WritePod(p, "gone")
  /\ UNCHANGED <<res, resEvents, creation, cache, work, took, late, tries>>

Next ==
  \/ \E c \in Caches : HandlePod(c) \/ HandleReservation(c) \/ ExpirePlaceholder(c)
  \/ \E c \in Caches, p \in Pods : ExpirePod(c, p)
  \/ \E p \in Pods : Locate(p) \/ AssumeInScheduler(p) \/ PersistPod(p) \/ FailToPersist(p)
  \/ \E p \in Pods : InitializeTask(p) \/ AssumeInBinder(p) \/ Bind(p) \/ FailToBind(p)
  \/ \E p \in Pods : RejectFailedTask(p) \/ UpdateReservationStatus(p)
  \/ createReservationCrdOnPodDeletion
  \/ gcReservations
  \/ \E p \in Everyone : RemovePod(p)

Spec == Init /\ [][Next]_vars

-----------------------------------------------------------------------------
TypeOK ==
  /\ pods \in [Everyone -> {"pending", "assumed", "bound", "gone"}]
  /\ res.phase \in {"none", "reserved", "matched", "deleted"}
  /\ \A c \in Caches : /\ Len(podEvents[c]) <= MaxLag
                       /\ Len(resEvents[c]) <= MaxLag
                       /\ cache[c].info \in {None, Free} \cup Pods
                       /\ cache[c].held \in [Everyone -> {"no", "assumed", "added"}]

(* A cache counts the fake pod exactly while the placeholder is on offer:   *)
(* what PrePreferNode offers it can take off the node.                      *)
OfferedRoomIsCounted == \A c \in Caches : cache[c].fake <=> cache[c].info = Free

(* The Reservation as the handler of a cache knows it.                      *)
Known(c) == IF resEvents[c] = <<>> THEN res ELSE Head(resEvents[c]).old

(* While a cache knows of a Reservation that is not matched, the room is on *)
(* offer or has been taken by a pod, whatever the pod's own events did.     *)
ReservedRoomIsKept ==
  \A c \in Caches : Known(c).phase = "reserved" => cache[c].info # None

(* One pod is bound into a placeholder: the binder checks it before it      *)
(* assumes a pod.  A deadline that passes before its event undoes this.     *)
PlaceholderIsUsedOnce == "binder" \notin late => Cardinality(took) <= 1

(* Nothing is under way that concerns a cache.                              *)
CaughtUp(c) ==
  /\ podEvents[c] = <<>>
  /\ resEvents[c] = <<>>
  /\ creation = "handled"
  /\ \A p \in Pods : work[p] \in {"waiting", "none"}
  /\ ~cache[c].due

(* A cache that has caught up offers the room only if the Reservation is    *)
(* there and no pod has taken it: in whatever order pods and Reservations   *)
(* were seen, the room is counted once.                                     *)
CaughtUpCachesAgree ==
  \A c \in Caches : CaughtUp(c) /\ c \notin late /\ cache[c].info = Free =>
    /\ res.phase = "reserved"
    /\ \A p \in Pods : pods[p] # "bound"

(* The room of a Reservation is accounted for in every cache: counted while *)
(* it is on offer, on offer or taken while the Reservation is known, and no *)
(* longer on offer once a pod is seen in it.                                *)
RoomIsAccounted == TypeOK /\ OfferedRoomIsCounted /\ ReservedRoomIsKept /\ CaughtUpCachesAgree
=============================================================================
