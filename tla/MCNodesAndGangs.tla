-------------------------- MODULE MCNodesAndGangs ---------------------------
(***************************************************************************)
(* The partition of the nodes and the binding of gangs, which must make    *)
(* progress, checked side by side: the part under test is chosen in the    *)
(* initial state, the other rests.                                         *)
(***************************************************************************)
EXTENDS Naturals, Sequences, FiniteSets, TLC, NodePartition

CONSTANTS n1, n2, s1, s2

VARIABLE part
VARIABLES gb_events, gb_q, gb_cache, gb_scheduled, gb_victim, gb_marks, gb_pass,
  gb_jobs, gb_reconciler, gb_changes, gb_faults, gb_pgLog, gb_expired,
  gb_pgQueue, gb_sync

mc_Kinds == {"Node"}
mc_Nodes == {n1, n2}
mc_Schedulers == {s1, s2}
gb_UnitOf == [p1 |-> "g", p3 |-> "g"]
gb_NodeFor == [p1 |-> "n1", p3 |-> "n2"]
gb_VictimsOf == [p1 |-> {}, p3 |-> {"v"}]
gb_MinMember == [g |-> 2]
gb_Gangs == {"g"}
gb_Victims == {"v"}

GB == INSTANCE GangBinder WITH
  UnitOf <- gb_UnitOf, NodeFor <- gb_NodeFor, VictimsOf <- gb_VictimsOf,
  MinMember <- gb_MinMember, Gangs <- gb_Gangs, Victims <- gb_Victims,
  Nobody <- None, MaxJobs <- 1, MaxTrouble <- 1, MaxLag <- 1, MaxGroupLag <-
  1, events <- gb_events, q <- gb_q, cache <- gb_cache, scheduled <-
  gb_scheduled, victim <- gb_victim, marks <- gb_marks, pass <- gb_pass,
  jobs <- gb_jobs, reconciler <- gb_reconciler, changes <- gb_changes,
  faults <- gb_faults, pgLog <- gb_pgLog, expired <- gb_expired, pgQueue <-
  gb_pgQueue, sync <- gb_sync

nodesVars == <<owner, watch, seen, crd, known, gs, nodes, queue, worker, changes>>
gangVars == <<gb_events, gb_q, gb_cache, gb_scheduled, gb_victim, gb_marks, gb_pass,
  gb_jobs, gb_reconciler, gb_changes, gb_faults, gb_pgLog, gb_expired,
  gb_pgQueue, gb_sync>>

partsVars == <<part, nodesVars, gangVars>>

PartsInit ==
  /\ part \in {"nodes", "gang"}
  /\ Init
  /\ GB!Init

NodesStep(A) == part = "nodes" /\ A /\ UNCHANGED <<part, gangVars>>
GangStep(A) == part = "gang" /\ A /\ UNCHANGED <<part, nodesVars>>

PartsNext ==
  \/ NodesStep(Next)
  \/ GangStep(GB!Next)

PartsFairness ==
  /\ \A k \in {"Node"}, n \in {n1, n2} : WF_nodesVars(part = "nodes" /\ HandleNode(k, n))
  /\ \A k \in {"Node"}, n \in {n1, n2} : WF_nodesVars(part = "nodes" /\ ReportStatus(k, n))
  /\ \A s \in {s1, s2} : WF_nodesVars(part = "nodes" /\ SyncUpSchedulersStatus(s))
  /\ \A s \in {s1, s2} : WF_nodesVars(part = "nodes" /\ DeleteScheduler(s))
  /\ \A n \in {n1, n2} : SF_nodesVars(part = "nodes" /\ WorkerGet(n))
  /\ WF_nodesVars(part = "nodes" /\ WorkerChoose)
  /\ WF_nodesVars(part = "nodes" /\ UpdateNode)
  /\ WF_nodesVars(part = "nodes" /\ UpdateNMNode)
  /\ \A p \in {"p1", "p3"} : WF_gangVars(part = "gang" /\ GB!PodEvent(p))
  /\ \A p \in {"p1", "p3"} : WF_gangVars(part = "gang" /\ GB!Reconcile(p))
  /\ WF_gangVars(part = "gang" /\ gb_victim["v"] = "dying" /\ GB!VictimGoes("v"))
  /\ WF_gangVars(part = "gang" /\ GB!PodGroupEvent("g"))
  /\ WF_gangVars(part = "gang" /\ GB!Sync("g"))
  /\ WF_gangVars(part = "gang" /\ GB!WritePodGroup)
  /\ WF_gangVars(part = "gang" /\ GB!BackoffOver)
  /\ WF_gangVars(part = "gang" /\ GB!CheckWaitingPod)
  /\ WF_gangVars(part = "gang" /\ GB!MainLoop)
  /\ WF_gangVars(part = "gang" /\ GB!Job(1))

PartsSpec == PartsInit /\ [][PartsNext]_partsVars /\ PartsFairness

\* A machine does not stay with a scheduler that is gone while another is
\* alive (NodePartition!NodesFindALiveScheduler).
MachinesFindALiveScheduler == part = "nodes" => NodesFindALiveScheduler

\* A gang whose pods have all been handed to the binder is bound or given
\* back (GangBinder!CompleteGangIsSettled).
CompleteGangIsSettled == part = "gang" => GB!CompleteGangIsSettled
=============================================================================
