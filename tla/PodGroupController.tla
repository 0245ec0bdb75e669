-------------------------- MODULE PodGroupController --------------------------
(***************************************************************************)
(* The PodGroup controller of the binder (pkg/binder/controller/           *)
(* podgroup.go) and the lock in the PodGroup's annotation that it shares   *)
(* with the binding pipeline (pkg/binder/utils/podgroup.go): whoever sets  *)
(* PodGroupFinalOpLock first decides whether the group is bound or times   *)
(* out.                                                                    *)
(*                                                                         *)
(* pgLog[g] holds what the informer delivered last of PodGroup g, then the *)
(* writes it has yet to deliver; the last one is the object at the API     *)
(* server.  A write carries the resourceVersion its writer has read and is *)
(* refused when the object has moved on.                                   *)
(***************************************************************************)
EXTENDS Naturals, Sequences, SequencesExt

CONSTANTS
  Groups,          \* the PodGroups
  MinMembers,      \* spec.minMember of every PodGroup
  MaxLag           \* bound: writes of one PodGroup the informer is behind

VARIABLES
  pgLog,
  expired,         \* the PodGroups whose ScheduleTimeoutSeconds have passed
  pgQueue,         \* the controller's work queue
  sync             \* the write the controller's worker is about

pgVars == <<pgLog, expired, pgQueue, sync>>

Phases == {"", "Pending", "PreScheduling", "Scheduled", "Timeout"}
Locks == {"", "binder", "pg-controller"}
PodGroupFinalState(phase) == phase \in {"Scheduled", "Timeout"}

Absent == [phase |-> "absent", lock |-> "", rv |-> 0]
Created == [phase |-> "", lock |-> "", rv |-> 1]
NoSync == [pc |-> "idle", g |-> "", old |-> Absent, new |-> Absent]

AtServer(g) == Last(pgLog[g])
Listed(g) == Head(pgLog[g])

PgInit ==
  /\ pgLog = [g \in Groups |-> <<Absent>>]
  /\ expired = {}
  /\ pgQueue = {}
  /\ sync = NoSync

-----------------------------------------------------------------------------
CanWrite(g) == Len(pgLog[g]) <= MaxLag

Written(g, pg) == pgLog' = [pgLog EXCEPT ![g] = Append(@, [pg EXCEPT !.rv = AtServer(g).rv + 1])]

(* A write by one who read the version rv.                                  *)
Conflict(g, rv) == AtServer(g).rv # rv

CreatePodGroup(g) ==
  /\ AtServer(g) = Absent
  /\ pgLog' = [pgLog EXCEPT ![g] = Append(@, Created)]
  /\ UNCHANGED <<expired, pgQueue, sync>>

(* Time passes: ScheduleTimeoutSeconds after the group's creation.          *)
PodGroupTimeout(g) ==
  /\ AtServer(g) # Absent
  /\ expired' = expired \cup {g}
  /\ UNCHANGED <<pgLog, pgQueue, sync>>

(* pgAdded, from an event of the group or of one of its pods.               *)
pgAdded(g, pg) == IF PodGroupFinalState(pg.phase) \/ pg = Absent THEN pgQueue ELSE pgQueue \cup {g}

(* Step: the phase after the pods were counted; one that runs or has ended  *)
(* makes the group Scheduled whatever the numbers are.                      *)
Step(phase, created, scheduled, running, min) ==
  LET cur == IF phase = "" THEN "Pending" ELSE phase
      msg == IF running \/ (created >= min /\ scheduled >= min) THEN "ScheduledSatisfied"
             ELSE IF created >= min THEN "ScheduledUnsatisfied" ELSE "CreatedUnsatisfied"
  IN  CASE cur \in {"Pending", "PreScheduling"} /\ msg = "ScheduledSatisfied" -> "Scheduled"
        [] cur = "Pending" /\ msg = "ScheduledUnsatisfied" -> "PreScheduling"
        [] cur = "PreScheduling" /\ msg = "CreatedUnsatisfied" -> "Pending"
        [] OTHER -> cur

PopulatePodGroupFinalOp(pg, op) == pg.lock \in {"", op}

(* The group times out only if the controller has or gets the lock.         *)
FinalOp(pg, phase, late) ==
  IF ~PodGroupFinalState(phase) /\ late /\ PopulatePodGroupFinalOp(pg, "pg-controller")
  THEN [pg EXCEPT !.phase = "Timeout", !.lock = "pg-controller"]
  ELSE [pg EXCEPT !.phase = phase]

(* syncHandler, up to the writes: created and scheduled count the pods that *)
(* the pod lister has, running says that one of them runs.                  *)
syncHandler(g, created, scheduled, running) ==
  /\ sync.pc = "idle" /\ g \in pgQueue
  /\ pgQueue' = pgQueue \ {g}
  /\ LET pg == Listed(g)
         new == FinalOp(pg, Step(pg.phase, created, scheduled, running, MinMembers[g]), g \in expired)
     IN  sync' = IF pg = Absent \/ PodGroupFinalState(pg.phase) THEN NoSync
                 ELSE [pc |-> IF new.lock # pg.lock THEN "annotate" ELSE "status",
                       g |-> g, old |-> pg, new |-> new]
  /\ UNCHANGED <<pgLog, expired>>

(* The key returns to the queue unless the group got its final phase.       *)
Finish(done) ==
  /\ sync' = NoSync
  /\ pgQueue' = IF done THEN pgQueue ELSE pgQueue \cup {sync.g}

updatePodGroupAnnotations ==
  /\ sync.pc = "annotate" /\ CanWrite(sync.g)
  /\ \/ /\ Conflict(sync.g, sync.old.rv)
        /\ Finish(FALSE)
        /\ UNCHANGED pgLog
     \/ /\ ~Conflict(sync.g, sync.old.rv)
        /\ Written(sync.g, [sync.old EXCEPT !.lock = sync.new.lock])
        /\ sync' = [sync EXCEPT !.pc = "status", !.new.rv = AtServer(sync.g).rv + 1]
        /\ UNCHANGED pgQueue
  /\ UNCHANGED expired

updatePodGroupStatus ==
  /\ sync.pc = "status" /\ CanWrite(sync.g)
  /\ \/ /\ sync.new.phase = sync.old.phase
        /\ Finish(FALSE)
        /\ UNCHANGED pgLog
     \/ /\ sync.new.phase # sync.old.phase /\ Conflict(sync.g, sync.new.rv)
        /\ Finish(FALSE)
        /\ UNCHANGED pgLog
     \/ /\ sync.new.phase # sync.old.phase /\ ~Conflict(sync.g, sync.new.rv)
        /\ Written(sync.g, [AtServer(sync.g) EXCEPT !.phase = sync.new.phase])
        /\ Finish(PodGroupFinalState(sync.new.phase))
  /\ UNCHANGED expired

-----------------------------------------------------------------------------
LockPodGroupStatusLocally(g) ==
  CASE Listed(g) = Absent -> "failed"
    [] Listed(g).lock = "binder" -> "held"
    [] Listed(g).lock = "pg-controller" -> "failed"
    [] OTHER -> "taken"

(* LockPodGroupStatus: what the binder's attempt to lock the group comes to *)
(* if the API server answers.                                               *)
LockPodGroupStatus(g) ==
  CASE Listed(g) = Absent -> "failed"
    [] Listed(g).lock = "binder" -> "held"
    [] Listed(g).lock = "pg-controller" -> "failed"
    [] OTHER -> IF Conflict(g, Listed(g).rv) THEN "failed" ELSE "taken"

TakeLock(g) ==
  IF LockPodGroupStatus(g) = "taken" THEN Written(g, [AtServer(g) EXCEPT !.lock = "binder"])
  ELSE UNCHANGED pgLog

-----------------------------------------------------------------------------
===============================================================================
