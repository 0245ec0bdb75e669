--------------------------- MODULE PodOwnership ----------------------------
(***************************************************************************)
(* What the dispatcher promises, whatever its queues and goroutines do: a  *)
(* pod that waits is given to one scheduler; it is given to another only   *)
(* after it was taken back, and it is taken back only when its scheduler   *)
(* is not active or its annotations make no sense.  The exception is a pod *)
(* in `excused`: one that somebody edited while it waited or created again *)
(* under its old name, or whose dispatch succeeded without the dispatcher  *)
(* learning of it.                                                         *)
(***************************************************************************)
CONSTANTS Pods, Schedulers, Absent, Waiting, Placed, Broken

VARIABLES owner,    \* per pod: a scheduler, or one of the constants above
          active,   \* the schedulers considered alive
          excused   \* pods that may be dispatched twice

vars == <<owner, active, excused>>

Owners == Schedulers \union {Absent, Waiting, Placed, Broken}

TypeOK ==
  /\ owner \in [Pods -> Owners]
  /\ active \subseteq Schedulers
  /\ excused \subseteq Pods

Init ==
  /\ owner = [p \in Pods |-> Waiting]
  /\ active = Schedulers
  /\ excused = {}

Give(p, o) == owner' = [owner EXCEPT ![p] = o]

Dispatch(p, s) == owner[p] = Waiting /\ Give(p, s) /\ UNCHANGED <<active, excused>>

\* The first dispatch went through unnoticed.
DispatchUnnoticed(p, s) ==
  owner[p] = Waiting /\ Give(p, s) /\ excused' = excused \union {p} /\ UNCHANGED active

DispatchAgain(p, s) ==
  /\ p \in excused /\ owner[p] # Absent
  /\ Give(p, s) \/ Give(p, Broken)
  /\ UNCHANGED <<active, excused>>

TakeBack(p) ==
  /\ owner[p] \in (Schedulers \ active) \union {Broken}
  /\ Give(p, Waiting) /\ UNCHANGED <<active, excused>>

Place(p)  == owner[p] \in Schedulers /\ Give(p, Placed) /\ UNCHANGED <<active, excused>>
Delete(p) == owner[p] # Absent /\ Give(p, Absent) /\ UNCHANGED <<active, excused>>
Create(p) ==
  owner[p] = Absent /\ Give(p, Waiting) /\ excused' = excused \union {p} /\ UNCHANGED active

\* An edit leaves the pod waiting, or breaks its annotations.
Edit(p) ==
  /\ owner[p] = Waiting /\ excused' = excused \union {p}
  /\ UNCHANGED owner \/ Give(p, Broken)
  /\ UNCHANGED active

\* Heartbeats come and go; a restart forgets what was known of them.
SchedulersChange == active' \in SUBSET Schedulers /\ UNCHANGED <<owner, excused>>

Next ==
  \/ \E p \in Pods : \/ \E s \in Schedulers : \/ Dispatch(p, s) \/ DispatchAgain(p, s)
                                              \/ DispatchUnnoticed(p, s)
                     \/ TakeBack(p) \/ Place(p) \/ Delete(p) \/ Create(p) \/ Edit(p)
  \/ SchedulersChange

Spec == Init /\ [][Next]_vars
=============================================================================
