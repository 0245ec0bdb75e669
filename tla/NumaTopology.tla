---------------------------- MODULE NumaTopology ----------------------------
(***************************************************************************)
(* The accounts of one machine's NUMA nodes (framework/api/nodeinfo.go,    *)
(* NumaTopologyStatus) and the check that admits a pod to the machine      *)
(* (plugins/nonnativeresource).  Pods that bind to NUMA nodes are counted  *)
(* by the annotation they carry or by what the agent of the machine        *)
(* reports in the CNR object, which may lag behind.  The scheduler's cache *)
(* keeps the accounts; a snapshot of them serves the search for victims.   *)
(***************************************************************************)
EXTENDS Integers, FiniteSets, Sequences, SequencesExt

CONSTANTS
  Kind,          \* of every pod: "exclusive", "dedicated" or "shared"
  AnnotationOf,  \* of every pod: {<<numa, resource, amount>>}, {} if it has none
  AgentOf,       \* what the agent gives the pod, in the same form
  RequestOf,     \* of every pod: what it requests of every resource
  SocketOf,      \* the socket of every NUMA node
  Allocatable,   \* what every NUMA node has of every resource
  Requests,      \* requests of exclusive pods to be placed
  MaxChanges     \* bound: reports of the agent and losses of the CNR object

VARIABLES
  ni,        \* the NodeInfo
  snapshot,  \* whether it is the snapshot's
  claim,     \* the pod assumed in the snapshot with its victims
  before,    \* the NodeInfo before that
  known,     \* pods the agent has seen on the machine
  lost,      \* pods whose allocation went with a CNR object
  changes

vars == <<ni, snapshot, claim, before, known, lost, changes>>

Pods == DOMAIN Kind
Numas == DOMAIN Allocatable
Resources == UNION {DOMAIN Allocatable[n] : n \in Numas}
IsConflictResourcesForDifferentQoS(r) == r \in {"cpu", "memory"}
Conflict == {r \in Resources : IsConflictResourcesForDifferentQoS(r)}
Zero == [r \in Resources |-> 0]
NoClaim == [pods |-> {}, victims |-> {}]

Sum(f) == FoldFunction(LAMBDA x, total : x + total, 0, f)
Amount(A) == Sum([a \in A |-> a[3]])
On(A, n, r) == {a \in A : a[1] = n /\ a[2] = r}

-----------------------------------------------------------------------------
(* NodeInfo and its NumaTopologyStatus.                                     *)

newNumaTopologyStatus(pods, requests) ==
  [pods |-> pods, requests |-> requests, alloc |-> <<>>, topo |-> <<>>, shared |-> Zero, free |-> {}]

(* What is available to shared pods: a conflict resource of a NUMA node     *)
(* counts while no pod uses it there.                                       *)
updateAvailableOfSharedCores(i, sign, cells) ==
  [i EXCEPT !.shared = [r \in Resources |->
     @[r] + sign * Sum([c \in {c \in cells : c[2] = r /\ r \in Conflict} |-> Allocatable[c[1]][r]])]]

AllCells(i, p) == {a \in i.alloc[p].numas : a[1] \in DOMAIN i.topo}
NewCells(i, p) == {a \in i.alloc[p].numas : a[1] \in DOMAIN i.topo /\ p \notin i.topo[a[1]][a[2]].users}

(* A pod becomes a user of what it was allocated and does not use yet.      *)
Occupy(i, p) ==
  LET A     == NewCells(i, p)
      first == {<<a[1], a[2]>> : a \in {b \in A : i.topo[b[1]][b[2]].users = {}}}
      next  == [i EXCEPT !.topo = [n \in DOMAIN @ |-> [r \in Resources |->
                 IF On(A, n, r) = {} THEN @[n][r]
                 ELSE [available |-> @[n][r].available - Amount(On(A, n, r)), users |-> @[n][r].users \cup {p}]]],
                 !.free = @ \ {a[1] : a \in {b \in A : b[2] \in Conflict}}]
  IN  updateAvailableOfSharedCores(next, -1, first)

IsEmptyForConflictResources(i, n) == \A r \in Conflict : i.topo[n][r].users = {}

(* It stops to use it; a NUMA node without users of a conflict resource is  *)
(* free again.                                                              *)
Release(i, p) ==
  LET A    == {a \in i.alloc[p].numas : a[1] \in DOMAIN i.topo /\ p \in i.topo[a[1]][a[2]].users}
      last == {<<a[1], a[2]>> : a \in {b \in A : i.topo[b[1]][b[2]].users = {p}}}
      next == [i EXCEPT !.topo = [n \in DOMAIN @ |-> [r \in Resources |->
                IF On(A, n, r) = {} THEN @[n][r]
                ELSE [available |-> @[n][r].available + Amount(On(A, n, r)), users |-> @[n][r].users \ {p}]]]]
      mine == {a[1] : a \in i.alloc[p].numas} \cap DOMAIN i.topo
  IN  updateAvailableOfSharedCores(
        [next EXCEPT !.free = @ \cup {n \in mine : IsEmptyForConflictResources(next, n)}], 1, last)

CountShared(i, p, sign) ==
  IF Kind[p] = "shared"
  THEN [i EXCEPT !.requests = [r \in Resources |-> @[r] + sign * RequestOf[p][r]]]
  ELSE i

(* What the agent reported of the pod goes before its annotation.           *)
AddPod(i, p) ==
  LET agent == p \in DOMAIN i.alloc /\ i.alloc[p].agent
      added == CountShared([i EXCEPT !.pods = @ \cup {p}], p, 1)
      with  == IF AnnotationOf[p] # {} /\ ~agent
               THEN [added EXCEPT !.alloc = (p :> [agent |-> FALSE, numas |-> AnnotationOf[p]]) @@ @]
               ELSE added
  IN  IF p \in DOMAIN with.alloc THEN Occupy(with, p) ELSE with

(* What the agent reported stays until the agent drops it, unless the pod   *)
(* is removed to see whether another would fit (preempt).                   *)
RemovePod(i, p, preempt) ==
  LET gone       == CountShared([i EXCEPT !.pods = @ \ {p}], p, -1)
      notChanged == p \notin DOMAIN i.alloc \/ i.alloc[p].agent
      released   == Release(gone, p)
  IN  IF p \notin DOMAIN i.alloc \/ (~preempt /\ notChanged) THEN gone
      ELSE IF preempt THEN released
      ELSE [released EXCEPT !.alloc = Restrict(@, DOMAIN @ \ {p})]

AddPods(i, ps) == FoldSet(LAMBDA p, j : AddPod(j, p), i, ps)
RemovePods(i, ps, preempt) == FoldSet(LAMBDA p, j : RemovePod(j, p, preempt), i, ps)

(* parseNumaTopologyStatus: allocations are those of the report and, for    *)
(* the other pods of the machine that had one, those of their annotations.  *)
SetCNR(i, report) ==
  LET mine  == {p \in (DOMAIN i.alloc \ report) \cap i.pods : AnnotationOf[p] # {}}
      alloc == [p \in report \cup mine |->
                  IF p \in report THEN [agent |-> TRUE, numas |-> AgentOf[p]]
                  ELSE [agent |-> FALSE, numas |-> AnnotationOf[p]]]
      bare  == [newNumaTopologyStatus(i.pods, i.requests) EXCEPT
                  !.alloc = alloc,
                  !.topo = [n \in Numas |-> [r \in Resources |-> [available |-> Allocatable[n][r], users |-> {}]]],
                  !.free = Numas]
      full  == updateAvailableOfSharedCores(bare, 1, Numas \X Resources)
  IN  FoldSet(LAMBDA p, j : Occupy(j, p), full, DOMAIN alloc)

RemoveCNR(i) == newNumaTopologyStatus(i.pods, i.requests)

-----------------------------------------------------------------------------
(* The admission of pods: FeasibleNonNativeTopology.                        *)

GetResourcesAvailableForSharedCoresPods(i, unavailable) ==
  [r \in Resources |->
     i.shared[r] - Sum([n \in {n \in unavailable : r \in Conflict /\ i.topo[n][r].users = {}} |->
                          Allocatable[n][r]])]

(* Whether the shared pods of the machine keep enough, without those NUMA   *)
(* nodes and with a further shared pod.                                     *)
satisfyRequestsForExistingSharedCoresPods(i, unavailable) ==
  \A r \in Conflict : GetResourcesAvailableForSharedCoresPods(i, unavailable)[r] >= i.requests[r]

satisfyRequestsForIncomingSharedCoresPods(i, req) ==
  \A r \in Conflict : req[r] = 0 \/ GetResourcesAvailableForSharedCoresPods(i, {})[r] >= i.requests[r] + req[r]

sufficientResource(i, A) == \A a \in A : a[3] <= i.topo[a[1]][a[2]].available

NumasOf(A) == {a[1] : a \in {b \in A : b[2] \in Conflict}}

checkNumaTopologyForNonExclusiveDedicatedQoS(i, A) ==
  /\ sufficientResource(i, A)
  /\ satisfyRequestsForExistingSharedCoresPods(i, NumasOf(A))

checkNumaTopologyForExclusiveDedicatedQoS(i, A) ==
  /\ sufficientResource(i, A)
  /\ \A n \in NumasOf(A) : IsEmptyForConflictResources(i, n)
  /\ satisfyRequestsForExistingSharedCoresPods(i, NumasOf(A))

checkNumaTopologyForSharedQoS(i, A, req) ==
  sufficientResource(i, A) /\ satisfyRequestsForIncomingSharedCoresPods(i, req)

CheckNonNativeTopology(i, p) ==
  CASE Kind[p] = "exclusive" -> checkNumaTopologyForExclusiveDedicatedQoS(i, AnnotationOf[p])
    [] Kind[p] = "dedicated" -> checkNumaTopologyForNonExclusiveDedicatedQoS(i, AnnotationOf[p])
    [] Kind[p] = "shared"    -> checkNumaTopologyForSharedQoS(i, AnnotationOf[p], RequestOf[p])

-----------------------------------------------------------------------------
(* The search for NUMA nodes for an exclusive pod without annotation.       *)

Ceil(a, b) == (a + b - 1) \div b
comb(k, S) == IF k <= 0 THEN {} ELSE kSubset(k, S)

(* Every NUMA node reports the same resources (HasResourceInTopology looks  *)
(* at one of them).                                                         *)
getNumaRequest(req, r) ==
  Ceil(req[r], Ceil(Sum([n \in Numas |-> Allocatable[n][r]]), Cardinality(Numas)))

resourcesSufficientForCommingPod(i, req, rs, numas) ==
  \A r \in rs : req[r] <= Sum([n \in numas |-> i.topo[n][r].available])

RECURSIVE NumaListForLessResources(_, _, _, _, _)
NumaListForLessResources(i, req, need, order, numas) ==
  IF order = <<>> THEN TRUE ELSE \E S \in comb(need[Last(order)], numas) :
    /\ resourcesSufficientForCommingPod(i, req, DOMAIN need, S)
    /\ NumaListForLessResources(i, req, need, Front(order), S)

RECURSIVE NumaListForMoreResources(_, _, _, _, _)
NumaListForMoreResources(i, req, need, order, numas) ==
  IF order = <<>> THEN TRUE ELSE \E S \in comb(need[Head(order)] - Cardinality(numas), Numas \ numas) :
    /\ resourcesSufficientForCommingPod(i, req, DOMAIN need, S \cup numas)
    /\ NumaListForMoreResources(i, req, need, Tail(order), S \cup numas)

SortByNeed(need) == SetToSortSeq(DOMAIN need, LAMBDA r, s : need[r] < need[s])

fitsNumaTopologyForExclusiveDedicatedQoS(i, req) ==
  LET all   == [r \in Resources |-> getNumaRequest(req, r)]
      need  == Restrict(all, {r \in Resources : all[r] > 0})
      most  == Max({0} \cup {need[r] : r \in DOMAIN need \cap (Conflict \cup {"gpu"})})
      less  == Restrict(need, {r \in DOMAIN need \ Conflict : need[r] <= most})
      more  == Restrict(need, {r \in DOMAIN need \ Conflict : need[r] > most})
      sockets == {SocketOf[n] : n \in DOMAIN i.topo}
      perSocket == Cardinality(DOMAIN i.topo) \div Cardinality(sockets)
  IN  \E ss \in comb(Ceil(most, perSocket), sockets) :
        \E C \in comb(most, {n \in i.free : SocketOf[n] \in ss}) :
          /\ resourcesSufficientForCommingPod(i, req, DOMAIN need \cap Conflict, C)
          /\ satisfyRequestsForExistingSharedCoresPods(i, C)
          /\ NumaListForLessResources(i, req, less, SortByNeed(less), C)
          /\ NumaListForMoreResources(i, req, more, SortByNeed(more), C)

fitsNumaTopologyForNonExclusiveDedicatedQoS(i, req) ==
  \E n \in DOMAIN i.topo :
    /\ resourcesSufficientForCommingPod(i, req, Resources, {n})
    /\ satisfyRequestsForExistingSharedCoresPods(i, {n})

FitsNonNativeTopology(i, p) ==
  CASE Kind[p] = "exclusive" -> fitsNumaTopologyForExclusiveDedicatedQoS(i, RequestOf[p])
    [] Kind[p] = "dedicated" -> fitsNumaTopologyForNonExclusiveDedicatedQoS(i, RequestOf[p])
    [] Kind[p] = "shared"    -> satisfyRequestsForIncomingSharedCoresPods(i, RequestOf[p])

(* Without a CNR object the checks of pods that bind to NUMA nodes read     *)
(* what is not there; such a machine is not offered to them.                *)
FeasibleNonNativeTopology(i, p) ==
  /\ Kind[p] # "shared" \/ AnnotationOf[p] # {} => DOMAIN i.topo # {}
  /\ IF AnnotationOf[p] = {} THEN FitsNonNativeTopology(i, p) ELSE CheckNonNativeTopology(i, p)

-----------------------------------------------------------------------------
HasCNR == DOMAIN ni.topo # {}

Init ==
  /\ ni = newNumaTopologyStatus({}, Zero)
  /\ snapshot = FALSE /\ claim = NoClaim /\ before = {} /\ known = {} /\ lost = {}
  /\ changes = 0

Admit(p) ==
  /\ ~snapshot /\ p \notin ni.pods /\ FeasibleNonNativeTopology(ni, p)
  /\ ni' = AddPod(ni, p)
  /\ known' = known \cup {p}
  /\ UNCHANGED <<snapshot, claim, before, lost, changes>>

Delete(p) ==
  /\ ~snapshot /\ p \in ni.pods
  /\ ni' = RemovePod(ni, p, FALSE)
  /\ lost' = lost \ {p}
  /\ UNCHANGED <<snapshot, claim, before, known, changes>>

Change == ~snapshot /\ changes < MaxChanges /\ changes' = changes + 1

ReportCNR(report) ==
  /\ Change /\ report \subseteq {p \in known : AgentOf[p] # {}}
  /\ ni' = SetCNR(ni, report)
  /\ lost' = lost \ report
  /\ known' = ni.pods \cup report
  /\ UNCHANGED <<snapshot, claim, before>>

DeleteCNR ==
  /\ Change /\ HasCNR
  /\ ni' = RemoveCNR(ni)
  /\ lost' = lost \cup {p \in ni.pods : AnnotationOf[p] # {}}
  /\ UNCHANGED <<snapshot, claim, before, known>>

TakeSnapshot ==
  /\ ~snapshot /\ HasCNR
  /\ snapshot' = TRUE
  /\ UNCHANGED <<ni, claim, before, known, lost, changes>>

(* NodeStore.AssumePod and ForgetPod of the snapshot.                       *)
AssumePod(p, victims) ==
  /\ snapshot /\ claim = NoClaim /\ before = {}
  /\ p \notin ni.pods /\ victims \subseteq ni.pods
  /\ FeasibleNonNativeTopology(RemovePods(ni, victims, TRUE), p)
  /\ ni' = RemovePods(AddPod(ni, p), victims, TRUE)
  /\ claim' = [pods |-> {p}, victims |-> victims]
  /\ before' = {ni}
  /\ UNCHANGED <<snapshot, known, lost, changes>>

ForgetPod ==
  /\ claim # NoClaim
  /\ ni' = AddPods(RemovePods(ni, claim.pods, FALSE), claim.victims)
  /\ claim' = NoClaim
  /\ UNCHANGED <<snapshot, before, known, lost, changes>>

Next ==
  \/ \E p \in Pods : Admit(p) \/ Delete(p) \/ \E victims \in SUBSET ni.pods : AssumePod(p, victims)
  \/ \E report \in SUBSET known : ReportCNR(report)
  \/ DeleteCNR \/ TakeSnapshot \/ ForgetPod

Spec == Init /\ [][Next]_vars

-----------------------------------------------------------------------------
(* The NodeInfo has its type: what is allocated is allocated to pods, on    *)
(* NUMA nodes that exist.                                                   *)
TypeOK ==
  /\ ni.pods \subseteq Pods /\ DOMAIN ni.alloc \subseteq Pods
  /\ DOMAIN ni.topo \in {{}, Numas}
  /\ ni.free \subseteq Numas
  /\ \A p \in DOMAIN ni.alloc : ni.alloc[p].agent \in BOOLEAN /\ ni.alloc[p].numas # {}

(* Whatever the order in which pods come and go, are tried as victims and   *)
(* are reported by the agent, the accounts kept step by step equal those    *)
(* computed from the allocations: users and rest of every NUMA node, the    *)
(* free NUMA nodes and what is left for shared pods.                        *)
AccountsAreExact ==
  LET held(n, r) == {p \in DOMAIN ni.alloc \ claim.victims : On(ni.alloc[p].numas, n, r) # {}}
  IN  /\ \A n \in DOMAIN ni.topo : \A r \in Resources :
           /\ ni.topo[n][r].users = held(n, r)
           /\ ni.topo[n][r].available
                = Allocatable[n][r] - Sum([p \in held(n, r) |-> Amount(On(ni.alloc[p].numas, n, r))])
      /\ \A r \in Conflict :
           ni.shared[r] = Sum([n \in {n \in DOMAIN ni.topo : held(n, r) = {}} |-> Allocatable[n][r]])
      /\ ni.free = {n \in DOMAIN ni.topo : \A r \in Conflict : held(n, r) = {}}
      /\ \A r \in Resources :
           ni.requests[r] = Sum([p \in {p \in ni.pods : Kind[p] = "shared"} |-> RequestOf[p][r]])

(* Pods admitted by their annotations never get more of a NUMA node than it *)
(* has, an exclusive pod has its NUMA nodes for itself, and the shared pods *)
(* fit into the NUMA nodes that are left, although the reports of the agent *)
(* lag.  Pods whose allocations went with a deleted CNR object are not      *)
(* counted until the agent reports them (removeCNR).                        *)
AdmittedPodsFit ==
  ~snapshot /\ lost = {} /\ HasCNR =>
    LET here(n, r) == {p \in ni.pods : On(AnnotationOf[p], n, r) # {}}
    IN  /\ \A n \in Numas : \A r \in Resources :
             /\ Sum([p \in here(n, r) |-> Amount(On(AnnotationOf[p], n, r))]) <= Allocatable[n][r]
             /\ r \in Conflict /\ (\E p \in here(n, r) : Kind[p] = "exclusive") => Cardinality(here(n, r)) = 1
        /\ \A r \in Conflict :
             ni.requests[r] <= Sum([n \in {n \in Numas : here(n, r) = {}} |-> Allocatable[n][r]])

(* Forgetting a pod assumed in the snapshot leaves the accounts as they     *)
(* were, also for victims the agent had reported.                           *)
ForgettingRestoresAccounts ==
  claim = NoClaim /\ lost = {} => \A b \in before : ni = b

(* A direct statement of where an exclusive pod can go: free NUMA nodes of  *)
(* as few sockets as possible hold its CPU, the shared pods still fit into  *)
(* the rest, and every other resource fits into some of the NUMA nodes or   *)
(* into these and some more.                                                *)
CanPlace(i, req) ==
  LET need(r)   == getNumaRequest(req, r)
      most      == Max({need(r) : r \in Conflict \cup {"gpu"}})
      sockets   == {SocketOf[n] : n \in Numas}
      perSocket == Cardinality(Numas) \div Cardinality(sockets)
      enough(r, S) == req[r] <= Sum([n \in S |-> i.topo[n][r].available])
  IN  \E C \in SUBSET i.free :
        /\ Cardinality(C) = most /\ most > 0
        /\ Cardinality({SocketOf[n] : n \in C}) <= Ceil(most, perSocket)
        /\ \A r \in Conflict : need(r) > 0 => enough(r, C)
        /\ \A r \in Conflict :
             i.requests[r] <= Sum([n \in {n \in Numas \ C : i.topo[n][r].users = {}} |-> Allocatable[n][r]])
        /\ \A r \in Resources \ Conflict : need(r) > 0 =>
             \E S \in SUBSET Numas : Cardinality(S) = need(r) /\ (S \subseteq C \/ C \subseteq S) /\ enough(r, S)

(* The search finds a place only where there is one, and with at most one   *)
(* further resource it finds it whenever there is one.                      *)
SearchIsExact ==
  HasCNR /\ ~snapshot => \A req \in Requests :
    /\ fitsNumaTopologyForExclusiveDedicatedQoS(ni, req) => CanPlace(ni, req)
    /\ Cardinality({r \in Resources \ Conflict : req[r] > 0}) <= 1 /\ CanPlace(ni, req)
         => fitsNumaTopologyForExclusiveDedicatedQoS(ni, req)

(* The NUMA accounts of a node admit, release and restore pods exactly.     *)
NumaIsExact == TypeOK /\ AccountsAreExact /\ AdmittedPodsFit /\ ForgettingRestoresAccounts /\ SearchIsExact
=============================================================================
