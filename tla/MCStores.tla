------------------------------ MODULE MCStores ------------------------------
(***************************************************************************)
(* Stores of the scheduler's cache that share no state, checked side by    *)
(* side: the part under test is chosen in the initial state, the others    *)
(* rest.                                                                   *)
(***************************************************************************)
EXTENDS Naturals, Sequences, FiniteSets, TLC, BinderCache

CONSTANTS None

VARIABLE part
VARIABLES vs_cache, vs_snap, vs_recorded, vs_gone, vs_reserved, vs_steady, vs_changes
VARIABLES sy_tree, sy_stored
VARIABLES nt_ni, nt_snapshot, nt_claim, nt_before, nt_known, nt_lost, nt_changes
VARIABLES rs_cache, rs_snap, rs_index, rs_used, rs_steady, rs_changes

Req(c, g, n) == [cpu |-> c, gpu |-> g, nic |-> n]

mc_Names == {"a"}
mc_Uids == {"a1", "a2"}
mc_NameOf == [u \in {"a1", "a2"} |-> "a"]
mc_Preemptors == {}
mc_Nodes == {"n1"}
mc_SteadyNodes == {}
vs_Preemptors == {"p1", "p2", "p3"}
vs_NodeFor == [p1 |-> "n1", p2 |-> "n1", p3 |-> "n2"]
vs_VictimsOf == [p1 |-> {"v1", "v2"}, p2 |-> {"v2"}, p3 |-> {"v1"}]
sy_Objects == 1 .. 5
nt_Kind == [e |-> "exclusive", f |-> "dedicated", x |-> "exclusive", s |-> "shared", d |-> "dedicated"]
nt_AnnotationOf == [e |-> {<<0, "cpu", 2>>, <<1, "cpu", 1>>}, f |-> {<<0, "cpu", 1>>, <<1, "gpu", 1>>}, x |-> {},
  s |-> {<<3, "gpu", 1>>}, d |-> {}]
nt_AgentOf == [nt_AnnotationOf EXCEPT !.x = {<<2, "cpu", 2>>, <<2, "gpu", 1>>}, !.d = {<<0, "cpu", 1>>}]
nt_RequestOf == [e |-> Req(3, 0, 0), f |-> Req(1, 1, 0), x |-> Req(2, 1, 0), s |-> Req(6, 1, 0),
  d |-> Req(1, 0, 0)]
nt_SocketOf == (0 :> 0) @@ (1 :> 0) @@ (2 :> 1) @@ (3 :> 1)
nt_Allocatable == [n \in 0 .. 3 |-> Req(2, 1, 2)]
nt_Requests == {Req(2, 0, 0), Req(2, 2, 0), Req(3, 1, 5)}
rs_Infos == 1 .. 3
rs_NodeOf == <<"n1", "n1", "n2">>
rs_PlaceholderOf == <<"a", "b", "a">>

VS == INSTANCE VictimStore WITH
  Preemptors <- vs_Preemptors, NodeFor <- vs_NodeFor, VictimsOf <-
  vs_VictimsOf, MaxChanges <- 4, cache <- vs_cache, snap <- vs_snap,
  recorded <- vs_recorded, gone <- vs_gone, reserved <- vs_reserved, steady
  <- vs_steady, changes <- vs_changes

SY == INSTANCE Splay WITH
  Objects <- sy_Objects, tree <- sy_tree, stored <- sy_stored

NT == INSTANCE NumaTopology WITH
  Kind <- nt_Kind, AnnotationOf <- nt_AnnotationOf, AgentOf <- nt_AgentOf,
  RequestOf <- nt_RequestOf, SocketOf <- nt_SocketOf, Allocatable <-
  nt_Allocatable, Requests <- nt_Requests, MaxChanges <- 2, ni <- nt_ni,
  snapshot <- nt_snapshot, claim <- nt_claim, before <- nt_before, known <-
  nt_known, lost <- nt_lost, changes <- nt_changes

RS == INSTANCE ReservationSnapshot WITH
  Infos <- rs_Infos, NodeOf <- rs_NodeOf, PlaceholderOf <- rs_PlaceholderOf,
  MaxChanges <- 3, cache <- rs_cache, snap <- rs_snap, index <- rs_index,
  used <- rs_used, steady <- rs_steady, changes <- rs_changes

objectsVars == <<log, used, home, queued, nominated, task, podStates, assumed, due, marker,
  nodes, running, live, fault>>
victimsVars == <<vs_cache, vs_snap, vs_recorded, vs_gone, vs_reserved, vs_steady,
  vs_changes>>
splayVars == <<sy_tree, sy_stored>>
numaVars == <<nt_ni, nt_snapshot, nt_claim, nt_before, nt_known, nt_lost, nt_changes>>
offersVars == <<rs_cache, rs_snap, rs_index, rs_used, rs_steady, rs_changes>>

partsVars == <<part, objectsVars, victimsVars, splayVars, numaVars, offersVars>>

ObjectsRests == Init
VictimsRests == vs_cache = 0 /\ vs_snap = 0 /\ vs_recorded = 0 /\ vs_gone = 0 /\ vs_reserved
  = 0 /\ vs_steady = 0 /\ vs_changes = 0
SplayRests == sy_tree = 0 /\ sy_stored = 0
NumaRests == nt_ni = 0 /\ nt_snapshot = 0 /\ nt_claim = 0 /\ nt_before = 0 /\ nt_known =
  0 /\ nt_lost = 0 /\ nt_changes = 0
OffersRests == rs_cache = 0 /\ rs_snap = 0 /\ rs_index = 0 /\ rs_used = 0 /\ rs_steady = 0
  /\ rs_changes = 0

PartsInit ==
  \/ part = "objects" /\ Init /\ VictimsRests /\ SplayRests /\ NumaRests /\ OffersRests
  \/ part = "victims" /\ VS!Init /\ ObjectsRests /\ SplayRests /\ NumaRests /\ OffersRests
  \/ part = "splay" /\ SY!Init /\ ObjectsRests /\ VictimsRests /\ NumaRests /\ OffersRests
  \/ part = "numa" /\ NT!Init /\ ObjectsRests /\ VictimsRests /\ SplayRests /\ OffersRests
  \/ part = "offers" /\ RS!Init /\ ObjectsRests /\ VictimsRests /\ SplayRests /\ NumaRests

ObjectsStep(A) == part = "objects" /\ A /\ UNCHANGED <<part, victimsVars, splayVars, numaVars, offersVars>>
VictimsStep(A) == part = "victims" /\ A /\ UNCHANGED <<part, objectsVars, splayVars, numaVars, offersVars>>
SplayStep(A) == part = "splay" /\ A /\ UNCHANGED <<part, objectsVars, victimsVars, numaVars, offersVars>>
NumaStep(A) == part = "numa" /\ A /\ UNCHANGED <<part, objectsVars, victimsVars, splayVars, offersVars>>
OffersStep(A) == part = "offers" /\ A /\ UNCHANGED <<part, objectsVars, victimsVars, splayVars, numaVars>>

PartsNext ==
  \/ ObjectsStep(Next)
  \/ VictimsStep(VS!Next)
  \/ SplayStep(SY!Next)
  \/ NumaStep(NT!Next)
  \/ OffersStep(RS!Next)

PartsSpec == PartsInit /\ [][PartsNext]_partsVars

\* The cache names for every victim exactly the preemptors that claim it
\* (VictimStore!CacheHoldsTheClaims).
CacheHoldsTheClaims == part = "victims" => VS!CacheHoldsTheClaims

\* A refresh gives the snapshot the victims of every node whose detail was
\* not created anew (VictimStore!RefreshCopiesNodes).
RefreshCopiesNodes == [][part = "victims" => VS!RefreshCopiesNodes]_victimsVars

\* The links form one ordered tree over what is stored, which can be cut at
\* any priority (Splay!TreeIsExact).
TreeIsExact == part = "splay" => SY!TreeIsExact

\* The accounts of the NUMA nodes are exact, admit only what fits, are
\* restored, and the search finds a place exactly where there is one
\* (NumaTopology!NumaIsExact).
NumaIsExact == part = "numa" => NT!NumaIsExact

\* After a refresh the placeholders on offer are those free in the cache
\* (ReservationSnapshot!OffersFollowCache).
OffersFollowCache == [][part = "offers" => RS!OffersFollowCache]_offersVars
=============================================================================
