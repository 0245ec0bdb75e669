--------------------------- MODULE EmbeddedBinder ---------------------------
(***************************************************************************)
(* The binder inside the scheduler (pkg/binder/embedded_binder.go): a unit *)
(* whose pods are assumed in the scheduler's cache is bound pod by pod     *)
(* through the API server.  Pods that could not be bound go to the         *)
(* scheduler's reconciler, which works with the pods' lister while the     *)
(* cache handler may still be behind that lister.                          *)
(***************************************************************************)
EXTENDS Naturals, Sequences, FiniteSets

CONSTANTS
  PodsOf,          \* the pods of every unit, in the order of the request
  NodeFor,         \* the node every pod was placed on
  MaxBindRetries,  \* configuration: attempts to bind a pod
  MaxTrouble,      \* bound: deletions, reshuffles, failed calls, timeouts, restarts
  MaxLag           \* bound: events of a pod that the cache handler has not handled

VARIABLES
  log,        \* what the cache handler saw last of a pod, then what it has yet to see
  listed,     \* how much of that the lister shows
  owner,      \* the scheduler a node's annotation names, as the lister shows it
  running,    \* running of the EmbeddedBinder
  call,       \* the BindUnit call of every unit
  cached,     \* the pods in the scheduler's cache, assumed or added
  finished,   \* the assumed pods with a deadline: FinishReserving was called
  tasks,      \* failedPatchTaskQueue of the scheduler's reconciler
  work,       \* the task the reconciler works on
  trouble

vars == <<log, listed, owner, running, call, cached, finished, tasks, work, trouble>>
cacheVars == <<cached, finished>>

Units == DOMAIN PodsOf
Pods == DOMAIN NodeFor
Nodes == {NodeFor[p] : p \in Pods}
MembersOf(u) == {PodsOf[u][i] : i \in DOMAIN PodsOf[u]}

(* The pods are those of the requests, which list a pod once; "none" stands *)
(* for no pod.                                                              *)
ASSUME ConstantsAssumption ==
  /\ "none" \notin Pods
  /\ MaxBindRetries \in Nat /\ MaxTrouble \in Nat /\ MaxLag \in Nat
  /\ \A u \in Units :
       /\ PodsOf[u] \in Seq(Pods)
       /\ \A i, j \in DOMAIN PodsOf[u] : PodsOf[u][i] = PodsOf[u][j] => i = j
  /\ \A p \in Pods : \E u \in Units : p \in MembersOf(u)

Server(p) == log[p][Len(log[p])]
Lister(p) == log[p][listed[p]]
Seen(p) == Head(log[p])

NoCall == [pc |-> "idle", check |-> {}, next |-> 1, attempt |-> 0, late |-> FALSE,
           ok |-> {}, failed |-> {}, foreign |-> {}]
NoWork == [pod |-> "none", step |-> "idle"]

Init ==
  /\ log = [p \in Pods |-> <<"dispatched">>]
  /\ listed = [p \in Pods |-> 1]
  /\ owner = [n \in Nodes |-> "me"]
  /\ running = TRUE
  /\ call = [u \in Units |-> NoCall]
  /\ cached = [p \in Pods |-> "assumed"]
  /\ finished = {}
  /\ tasks = {}
  /\ work = NoWork
  /\ trouble = 0

Trouble == trouble < MaxTrouble /\ trouble' = trouble + 1

(* A write to a pod, which the informer will deliver.                       *)
Write(p, state) == Len(log[p]) <= MaxLag /\ log' = [log EXCEPT ![p] = Append(@, state)]

-----------------------------------------------------------------------------
(* BindUnit.                                                                *)

UniqueNodeNames(u) == {NodeFor[p] : p \in MembersOf(u)}

(* persistViaEmbeddedBinder: what was not bound is left to the reconciler.  *)
CallFails(u) ==
  /\ tasks' = tasks \cup MembersOf(u)
  /\ call' = [call EXCEPT ![u].pc = "done"]

BindUnit(u) ==
  /\ call[u].pc = "idle"
  /\ IF ~running THEN CallFails(u)
     ELSE /\ call' = [call EXCEPT ![u] = [NoCall EXCEPT !.pc = "validate",
                        !.check = UniqueNodeNames(u), !.foreign = {n \in Nodes : owner[n] = "other"}]]
          /\ UNCHANGED tasks
  /\ UNCHANGED <<log, listed, owner, running, cacheVars, work, trouble>>

(* NodeValidator.Validate: a node without annotation is nobody's.           *)
Valid(n) == owner[n] \in {"none", "me"}

ValidateNode(u) ==
  /\ call[u].pc = "validate"
  /\ \E n \in call[u].check :
       IF Valid(n)
       THEN /\ call' = [call EXCEPT ![u].check = @ \ {n},
                                    ![u].pc = IF call[u].check = {n} THEN "bind" ELSE @]
            /\ UNCHANGED tasks
       ELSE CallFails(u)
  /\ UNCHANGED <<log, listed, owner, running, cacheVars, work, trouble>>

(* BindTimeout: the context of the call ends.                               *)
TimeoutPasses(u) ==
  /\ call[u].pc = "bind" /\ ~call[u].late
  /\ Trouble
  /\ call' = [call EXCEPT ![u].late = TRUE]
  /\ UNCHANGED <<log, listed, owner, running, cacheVars, tasks, work>>

(* Past its last pod the call hands over the pods that failed.              *)
Return(c, u) == IF c.next > Len(PodsOf[u]) THEN [c EXCEPT !.pc = "return"] ELSE c

Bound(c, p, u) == Return([c EXCEPT !.ok = @ \cup {p}, !.next = @ + 1, !.attempt = 0], u)
NotBound(c, p, u) == Return([c EXCEPT !.failed = @ \cup {p}, !.next = @ + 1, !.attempt = 0], u)

(* FinishReserving: only an assumed pod gets a deadline.                    *)
FinishReserving(p) == finished' = IF cached[p] = "assumed" THEN finished \cup {p} ELSE finished

(* An attempt that reports conflict, server timeout or too many requests is *)
(* made again unless it was the last or the context ends.                   *)
Transient(c, p, u) ==
  IF c.late \/ c.attempt + 1 >= MaxBindRetries THEN NotBound(c, p, u)
  ELSE [c EXCEPT !.attempt = @ + 1]

(* One call of the API server in bindPodToNode.  A bound pod answers with a *)
(* conflict, a deleted one is not found; a call may fail, transiently or    *)
(* not, and may then have had its effect.                                   *)
BindPod(u) ==
  /\ call[u].pc = "bind"
  /\ LET c == call[u]
         p == PodsOf[u][c.next]
     IN  \/ /\ c.late
            /\ call' = [call EXCEPT ![u] = NotBound(c, p, u)]
            /\ UNCHANGED <<log, finished, trouble>>
         \/ /\ ~c.late /\ Server(p) \in {"dispatched", "assumed"}
            /\ Write(p, "bound") /\ FinishReserving(p)
            /\ call' = [call EXCEPT ![u] = Bound(c, p, u)]
            /\ UNCHANGED trouble
         \/ /\ ~c.late /\ Server(p) \in {"bound", "gone"}
            /\ call' = [call EXCEPT ![u] = IF Server(p) = "bound" THEN Transient(c, p, u) ELSE NotBound(c, p, u)]
            /\ UNCHANGED <<log, finished, trouble>>
         \/ /\ ~c.late /\ Trouble
            /\ UNCHANGED log \/ (Server(p) \in {"dispatched", "assumed"} /\ Write(p, "bound"))
            /\ call' \in {[call EXCEPT ![u] = d] : d \in {Transient(c, p, u), NotBound(c, p, u)}}
            /\ UNCHANGED finished
  /\ UNCHANGED <<listed, owner, running, cached, tasks, work>>

ReturnBindResult(u) ==
  /\ call[u].pc = "return"
  /\ tasks' = tasks \cup call[u].failed
  /\ call' = [call EXCEPT ![u].pc = "done"]
  /\ UNCHANGED <<log, listed, owner, running, cacheVars, work, trouble>>

-----------------------------------------------------------------------------
(* The scheduler's reconciler: a look at the lister, the test for an        *)
(* assumed pod, and what follows are steps of their own.                    *)

ForgetAnyPod(p) == cached' = [cached EXCEPT ![p] = "no"] /\ finished' = finished \ {p}

ForgetPod(p) ==
  IF cached[p] = "assumed" THEN cached' = [cached EXCEPT ![p] = "no"] /\ finished' = finished \ {p}
  ELSE UNCHANGED cacheVars

CheckPodState(p) ==
  /\ work = NoWork /\ p \in tasks
  /\ tasks' = tasks \ {p}
  /\ work' = IF Lister(p) = "dispatched" THEN [pod |-> p, step |-> "patch"]
             ELSE IF Lister(p) = "gone" \/ cached[p] = "assumed" THEN [pod |-> p, step |-> "forget"]
             ELSE NoWork
  /\ UNCHANGED <<log, listed, owner, running, call, cacheVars, trouble>>

ForgetInReconciler ==
  /\ work.step = "forget"
  /\ ForgetPod(work.pod)
  /\ work' = NoWork
  /\ UNCHANGED <<log, listed, owner, running, call, tasks, trouble>>

(* The patch writes the annotations of an assumed pod; a deleted pod is not *)
(* found and its task dropped.                                              *)
PatchInReconciler ==
  /\ work.step = "patch"
  /\ LET p == work.pod
     IN  \/ /\ IF Server(p) = "dispatched" THEN Write(p, "assumed") ELSE UNCHANGED log
            /\ UNCHANGED <<tasks, trouble>>
         \/ /\ Trouble /\ Server(p) # "gone"
            /\ tasks' = tasks \cup {p}
            /\ UNCHANGED log
  /\ work' = NoWork
  /\ UNCHANGED <<listed, owner, running, call, cacheVars>>

-----------------------------------------------------------------------------
(* The informer, the cache handler and the expiry of assumed pods.          *)

ListPod(p) ==
  /\ listed[p] < Len(log[p])
  /\ listed' = [listed EXCEPT ![p] = @ + 1]
  /\ UNCHANGED <<log, owner, running, call, cacheVars, tasks, work, trouble>>

(* A pod that becomes assumed or bound is added for good; the deletion of a *)
(* pod never seen so leaves the cache alone.                                *)
HandlePodEvent(p) ==
  /\ listed[p] > 1
  /\ LET old == Seen(p)
         new == log[p][2]
     IN  /\ cached' = IF new \in {"assumed", "bound"} THEN [cached EXCEPT ![p] = "added"]
                     ELSE IF old \in {"assumed", "bound"} THEN [cached EXCEPT ![p] = "no"]
                     ELSE cached
         /\ finished' = IF cached'[p] = "assumed" THEN finished ELSE finished \ {p}
  /\ log' = [log EXCEPT ![p] = Tail(@)]
  /\ listed' = [listed EXCEPT ![p] = @ - 1]
  /\ UNCHANGED <<owner, running, call, tasks, work, trouble>>

CleanupExpiredAssumedPods(p) ==
  /\ p \in finished /\ Trouble
  /\ cached' = [cached EXCEPT ![p] = "no"] /\ finished' = finished \ {p}
  /\ UNCHANGED <<log, listed, owner, running, call, tasks, work>>

-----------------------------------------------------------------------------
(* What others do: users, the node shuffler, an operator.                   *)

DeletePod(p) ==
  /\ Server(p) # "gone" /\ Trouble
  /\ Write(p, "gone")
  /\ UNCHANGED <<listed, owner, running, call, cacheVars, tasks, work>>

Reshuffle(n) ==
  /\ Trouble
  /\ owner' \in {[owner EXCEPT ![n] = o] : o \in {"none", "me", "other"} \ {owner[n]}}
  /\ call' = [u \in Units |-> [call[u] EXCEPT !.foreign = @ \ {n}]]
  /\ UNCHANGED <<log, listed, running, cacheVars, tasks, work>>

Stop ==
  /\ running /\ Trouble
  /\ running' = FALSE
  /\ UNCHANGED <<log, listed, owner, call, cacheVars, tasks, work>>

Start ==
  /\ ~running
  /\ running' = TRUE
  /\ UNCHANGED <<log, listed, owner, call, cacheVars, tasks, work, trouble>>

Next ==
  \/ \E u \in Units : BindUnit(u) \/ ValidateNode(u) \/ TimeoutPasses(u) \/ BindPod(u) \/ ReturnBindResult(u)
  \/ \E p \in Pods : \/ CheckPodState(p) \/ ListPod(p) \/ HandlePodEvent(p)
                     \/ CleanupExpiredAssumedPods(p) \/ DeletePod(p)
  \/ ForgetInReconciler \/ PatchInReconciler
  \/ \E n \in Nodes : Reshuffle(n)
  \/ Stop \/ Start

Spec == Init /\ [][Next]_vars

-----------------------------------------------------------------------------
(* Every variable has its type; a call has answered for exactly the pods it *)
(* has passed.                                                              *)
TypeOK ==
  /\ \A p \in Pods : listed[p] \in 1 .. Len(log[p]) /\ Len(log[p]) <= MaxLag + 1
  /\ cached \in [Pods -> {"no", "assumed", "added"}]
  /\ finished \subseteq {p \in Pods : cached[p] = "assumed"}
  /\ \A u \in Units :
       /\ call[u].ok \cap call[u].failed = {}
       /\ call[u].ok \cup call[u].failed = {PodsOf[u][i] : i \in 1 .. call[u].next - 1}

(* What the cache counts follows the pod handler, whatever the order in     *)
(* which a call that failed with effect, the reconciler's forget and the    *)
(* event of the bound pod come: checkPodState relies on "if it is assumed   *)
(* or bound now, the pod will be added to cache".                           *)
BoundPodsAreCounted ==
  \A p \in Pods : Seen(p) \in {"assumed", "bound"} => cached[p] = "added"

Working(p) ==
  \/ \E u \in Units : p \in MembersOf(u) /\ call[u].pc # "done" /\ p \notin call[u].ok
  \/ p \in tasks \/ work.pod = p

(* A pod that exists does not hold its place in the cache for ever: while   *)
(* it is assumed, somebody works on it, it has a deadline, or the event     *)
(* that settles it is on the way.                                           *)
ReservationsEnd ==
  \A p \in Pods : cached[p] = "assumed" /\ Server(p) # "gone"
                    => Working(p) \/ p \in finished \/ Server(p) # Seen(p)

(* A call binds no pod to a node that has named another scheduler since     *)
(* before the call, also if the pods of the unit go to several nodes.       *)
ForeignNodesAreSpared ==
  \A u \in Units : \A p \in call[u].ok : NodeFor[p] \notin call[u].foreign

(* The places pods hold in the cache are theirs: bound pods are counted,    *)
(* others are settled, and only own nodes are used.                         *)
PlacesAreAccounted == TypeOK /\ BoundPodsAreCounted /\ ReservationsEnd /\ ForeignNodesAreSpared

-----------------------------------------------------------------------------
(* PlacesAreAccounted is not inductive; these are the facts it rests on.    *)

PodStates == {"dispatched", "assumed", "bound", "gone"}
Owners == {"none", "me", "other"}
Calls(u) ==
  [pc : {"idle", "validate", "bind", "return", "done"}, check : SUBSET UniqueNodeNames(u),
   next : Nat, attempt : Nat, late : BOOLEAN, ok : SUBSET MembersOf(u),
   failed : SUBSET MembersOf(u), foreign : SUBSET Nodes]

(* The handler is behind the lister, the lister behind the server; nobody   *)
(* makes a pod dispatched again.                                            *)
NeverDispatchedAgain == \A p \in Pods : \A i \in 2 .. Len(log[p]) : log[p][i] # "dispatched"

LogOK ==
  /\ log \in [Pods -> Seq(PodStates) \ {<<>>}]
  /\ listed \in [Pods -> Nat]
  /\ \A p \in Pods : listed[p] \in 1 .. Len(log[p]) /\ Len(log[p]) <= MaxLag + 1
  /\ NeverDispatchedAgain

Passed(u, c) == {PodsOf[u][i] : i \in 1 .. c.next - 1}

(* A call has answered for the pods it passed, and for all when it returns; *)
(* a node that was foreign when the call began and still is has not passed  *)
(* the validation.                                                          *)
CallOK(u, c, own) ==
  /\ c \in Calls(u)
  /\ c.next >= 1 /\ c.ok \cap c.failed = {} /\ c.ok \cup c.failed = Passed(u, c)
  /\ c.pc \in {"idle", "validate"} => c.next = 1
  /\ c.pc = "bind" => c.next \in 1 .. Len(PodsOf[u])
  /\ c.pc = "return" => c.next = Len(PodsOf[u]) + 1
  /\ \A n \in c.foreign : own[n] = "other"
  /\ c.pc = "validate" => UniqueNodeNames(u) \cap c.foreign \subseteq c.check
  /\ c.pc \in {"bind", "return"} => UniqueNodeNames(u) \cap c.foreign = {}
  /\ \A p \in c.ok : NodeFor[p] \notin c.foreign

CallsOK == DOMAIN call = Units /\ \A u \in Units : CallOK(u, call[u], owner)

PlacesOK ==
  /\ cached \in [Pods -> {"no", "assumed", "added"}]
  /\ finished \subseteq {p \in Pods : cached[p] = "assumed"}
  /\ tasks \subseteq Pods
  /\ work \in {NoWork} \cup [pod : Pods, step : {"forget", "patch"}]
  /\ BoundPodsAreCounted /\ ReservationsEnd

PlacesInv == LogOK /\ CallsOK /\ owner \in [Nodes -> Owners] /\ PlacesOK
=============================================================================
