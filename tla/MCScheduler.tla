---------------------------- MODULE MCScheduler -----------------------------
(***************************************************************************)
(* Parts of the scheduler that share no state in these models, checked     *)
(* side by side: the part under test is chosen in the initial state, the   *)
(* others rest.                                                            *)
(***************************************************************************)
EXTENDS Naturals, Sequences, FiniteSets, TLC, EmbeddedBinder

CONSTANTS n1, n2, n3, p1, p2, p3, None

VARIABLE part
VARIABLES ns_cache, ns_generation, ns_snap, ns_seen, ns_updated, ns_listed,
  ns_reserved, ns_changes
VARIABLES us_gone, us_away, us_queued, us_unit, us_pc, us_group, us_result,
  us_applied, us_final, us_snap, us_cache, us_persisting, us_failedTasks,
  us_cycles
VARIABLES pr_scn, pr_present, pr_placed, pr_allowed, pr_cached, pr_owner, pr_left,
  pr_crashed
VARIABLES vb_hist, vb_seen, vb_latest, vb_decisions, vb_work, vb_deleted, vb_loose,
  vb_rushed, vb_trouble
VARIABLES rv_pods, rv_res, rv_creation, rv_podEvents, rv_resEvents, rv_cache, rv_work,
  rv_took, rv_late, rv_tries

Templates == (p1 :> "a") @@ (p2 :> "a") @@ (p3 :> "b")

mc_PodsOf == [u |-> <<"p1", "p2">>]
mc_NodeFor == [p1 |-> "n1", p2 |-> "n2"]
ns_Nodes == {n1, n2}
ns_Pods == {p1, p2}
ns_Launchers == {"Node"}
us_Pods == {p1, p2, p3}
us_Refusals == {0}
pr_Nodes == {n1, n2, n3}
pr_Running == 1 .. 5
pr_NodeOf == <<n1, n1, n1, n2, n3>>
pr_SizeOf == <<1, 2, 1, 2, 2>>
pr_Budgeted == {1, 3, 4}
pr_Priorities == {0, 1, 3}
pr_Policies == {"Best", "Better", "Random"}
pr_Twists == {"none", "quick", "cross", "unresolvable"}
vb_ClaimsOf == [p |-> <<"a">>, q |-> <<"b">>]
vb_SizeOf == [a |-> 1, b |-> 2, v1 |-> 1, v2 |-> 2]
vb_Delayed == {"a", "b"}
vb_Provisioned == {"b"}
vb_NodeOf == [v1 |-> "n1", v2 |-> "n2"]
vb_Units == {{"p", "q"}}
rv_Pods == {"p", "q"}
rv_Outcomes == {"created", "failed"}

NS == INSTANCE NodeSnapshot WITH
  Nodes <- ns_Nodes, Pods <- ns_Pods, Launchers <- ns_Launchers, NoName <-
  None, MaxChanges <- 3, cache <- ns_cache, generation <- ns_generation,
  snap <- ns_snap, seen <- ns_seen, updated <- ns_updated, listed <-
  ns_listed, reserved <- ns_reserved, changes <- ns_changes

US == INSTANCE UnitScheduler WITH
  Pods <- us_Pods, TemplateOf <- Templates, MaxGroups <- 2, Refusals <-
  us_Refusals, MaxCycles <- 2, gone <- us_gone, away <- us_away, queued <-
  us_queued, unit <- us_unit, pc <- us_pc, group <- us_group, result <-
  us_result, applied <- us_applied, final <- us_final, snap <- us_snap,
  cache <- us_cache, persisting <- us_persisting, failedTasks <-
  us_failedTasks, cycles <- us_cycles

PR == INSTANCE Preemption WITH
  Nodes <- pr_Nodes, Running <- pr_Running, NodeOf <- pr_NodeOf, SizeOf <-
  pr_SizeOf, Budgeted <- pr_Budgeted, Members <- 3, Request <- 2, Priority
  <- 2, Priorities <- pr_Priorities, Policies <- pr_Policies, Twists <-
  pr_Twists, Nobody <- None, scn <- pr_scn, present <- pr_present, placed <-
  pr_placed, allowed <- pr_allowed, cached <- pr_cached, owner <- pr_owner,
  left <- pr_left, crashed <- pr_crashed

VB == INSTANCE VolumeBinding WITH
  ClaimsOf <- vb_ClaimsOf, SizeOf <- vb_SizeOf, Delayed <- vb_Delayed,
  Provisioned <- vb_Provisioned, NodeOf <- vb_NodeOf, Units <- vb_Units,
  None <- None, MaxTries <- 2, MaxTrouble <- 1, MaxWrites <- 3, hist <-
  vb_hist, seen <- vb_seen, latest <- vb_latest, decisions <- vb_decisions,
  work <- vb_work, deleted <- vb_deleted, loose <- vb_loose, rushed <-
  vb_rushed, trouble <- vb_trouble

RV == INSTANCE Reservation WITH
  Old <- "o", Pods <- rv_Pods, None <- None, Free <- "free", Outcomes <-
  rv_Outcomes, MaxTries <- 2, MaxLag <- 1, pods <- rv_pods, res <- rv_res,
  creation <- rv_creation, podEvents <- rv_podEvents, resEvents <-
  rv_resEvents, cache <- rv_cache, work <- rv_work, took <- rv_took, late <-
  rv_late, tries <- rv_tries

embeddedVars == <<log, listed, owner, running, call, cached, finished, tasks, work,
  trouble>>
snapshotVars == <<ns_cache, ns_generation, ns_snap, ns_seen, ns_updated, ns_listed,
  ns_reserved, ns_changes>>
unitsVars == <<us_gone, us_away, us_queued, us_unit, us_pc, us_group, us_result,
  us_applied, us_final, us_snap, us_cache, us_persisting, us_failedTasks,
  us_cycles>>
preemptionVars == <<pr_scn, pr_present, pr_placed, pr_allowed, pr_cached, pr_owner, pr_left,
  pr_crashed>>
volumesVars == <<vb_hist, vb_seen, vb_latest, vb_decisions, vb_work, vb_deleted, vb_loose,
  vb_rushed, vb_trouble>>
reservationVars == <<rv_pods, rv_res, rv_creation, rv_podEvents, rv_resEvents, rv_cache,
  rv_work, rv_took, rv_late, rv_tries>>

partsVars == <<part, embeddedVars, snapshotVars, unitsVars, preemptionVars, volumesVars,
  reservationVars>>

EmbeddedRests == Init
SnapshotRests == ns_cache = 0 /\ ns_generation = 0 /\ ns_snap = 0 /\ ns_seen = 0 /\
  ns_updated = 0 /\ ns_listed = 0 /\ ns_reserved = 0 /\ ns_changes = 0
UnitsRests == us_gone = 0 /\ us_away = 0 /\ us_queued = 0 /\ us_unit = 0 /\ us_pc = 0 /\
  us_group = 0 /\ us_result = 0 /\ us_applied = 0 /\ us_final = 0 /\ us_snap
  = 0 /\ us_cache = 0 /\ us_persisting = 0 /\ us_failedTasks = 0 /\
  us_cycles = 0
PreemptionRests == pr_scn = 0 /\ pr_present = 0 /\ pr_placed = 0 /\ pr_allowed = 0 /\ pr_cached
  = 0 /\ pr_owner = 0 /\ pr_left = 0 /\ pr_crashed = 0
VolumesRests == vb_hist = 0 /\ vb_seen = 0 /\ vb_latest = 0 /\ vb_decisions = 0 /\ vb_work =
  0 /\ vb_deleted = 0 /\ vb_loose = 0 /\ vb_rushed = 0 /\ vb_trouble = 0
ReservationRests == rv_pods = 0 /\ rv_res = 0 /\ rv_creation = 0 /\ rv_podEvents = 0 /\
  rv_resEvents = 0 /\ rv_cache = 0 /\ rv_work = 0 /\ rv_took = 0 /\ rv_late
  = 0 /\ rv_tries = 0

PartsInit ==
  \/ part = "embedded" /\ Init /\ SnapshotRests /\ UnitsRests /\ PreemptionRests /\
       VolumesRests /\ ReservationRests
  \/ part = "snapshot" /\ NS!Init /\ EmbeddedRests /\ UnitsRests /\ PreemptionRests /\
       VolumesRests /\ ReservationRests
  \/ part = "units" /\ US!Init /\ EmbeddedRests /\ SnapshotRests /\ PreemptionRests /\
       VolumesRests /\ ReservationRests
  \/ part = "preemption" /\ PR!Init /\ EmbeddedRests /\ SnapshotRests /\ UnitsRests /\
       VolumesRests /\ ReservationRests
  \/ part = "volumes" /\ VB!Init /\ EmbeddedRests /\ SnapshotRests /\ UnitsRests /\
       PreemptionRests /\ ReservationRests
  \/ part = "reservation" /\ RV!Init /\ EmbeddedRests /\ SnapshotRests /\ UnitsRests /\
       PreemptionRests /\ VolumesRests

EmbeddedStep(A) == part = "embedded" /\ A /\ UNCHANGED <<part, snapshotVars, unitsVars, preemptionVars, volumesVars, reservationVars>>
SnapshotStep(A) == part = "snapshot" /\ A /\ UNCHANGED <<part, embeddedVars, unitsVars, preemptionVars, volumesVars, reservationVars>>
UnitsStep(A) == part = "units" /\ A /\ UNCHANGED <<part, embeddedVars, snapshotVars, preemptionVars, volumesVars, reservationVars>>
PreemptionStep(A) == part = "preemption" /\ A /\ UNCHANGED <<part, embeddedVars, snapshotVars, unitsVars, volumesVars, reservationVars>>
VolumesStep(A) == part = "volumes" /\ A /\ UNCHANGED <<part, embeddedVars, snapshotVars, unitsVars, preemptionVars, reservationVars>>
ReservationStep(A) == part = "reservation" /\ A /\ UNCHANGED <<part, embeddedVars, snapshotVars, unitsVars, preemptionVars, volumesVars>>

PartsNext ==
  \/ EmbeddedStep(Next)
  \/ SnapshotStep(NS!Next)
  \/ UnitsStep(US!Next)
  \/ PreemptionStep(PR!Next)
  \/ VolumesStep(VB!Next)
  \/ ReservationStep(RV!Next)

PartsSpec == PartsInit /\ [][PartsNext]_partsVars

\* Between refreshes the snapshot differs from the cache only where the next
\* refresh looks, its lists are those of its nodes, and placements taken back
\* leave no trace (NodeSnapshot!SnapshotIsSound).
SnapshotIsSound == part = "snapshot" => NS!SnapshotIsSound

\* A pod is queued, with the cycle, in the cache with somebody who answers
\* for it, or handed back (UnitScheduler!PodsAreAccounted).
PodsAreAccounted == part = "units" => US!PodsAreAccounted

\* Pods of a unit that never ran are persisted only with enough others, with
\* several node groups as a whole (UnitScheduler!GangIsPersistedTogether).
GangIsPersistedTogether == [][part = "units" => US!GangIsPersistedTogether]_unitsVars

\* A unit evicts no more pods of a disruption budget than the budget allows
\* (Preemption!EvictionsAreBounded).
EvictionsAreBounded == part = "preemption" => PR!EvictionsAreBounded

\* No victim could be spared, no other node is cheaper, and a member is given
\* up only if no node can take it (Preemption!PreemptionIsJustified).
PreemptionIsJustified == [][part = "preemption" => PR!PreemptionIsJustified]_preemptionVars

\* When volume binding lets a pod go on, its claims are bound to volumes of
\* its node (VolumeBinding!PlacedPodsReachVolumes).
PlacedPodsReachVolumes == part = "volumes" => VB!PlacedPodsReachVolumes

\* What is assumed belongs to a pod about to write it, stays until then, and
\* no write undoes another (VolumeBinding!VolumeWritesAreSound).
VolumeWritesAreSound == part = "volumes" => VB!VolumeWritesAreSound

\* The room of a Reservation is counted while it is on offer, and on offer or
\* taken while the Reservation is known (Reservation!RoomIsAccounted).
RoomIsAccounted == part = "reservation" => RV!RoomIsAccounted

\* One pod is bound into a placeholder (Reservation!PlaceholderIsUsedOnce).
PlaceholderIsUsedOnce == part = "reservation" => RV!PlaceholderIsUsedOnce
=============================================================================
