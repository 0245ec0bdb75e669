--------------------------- MODULE VolumeBinding ----------------------------
(***************************************************************************)
(* The binder's volumes.  CheckConflicts matches the claims of a pod with  *)
(* persistent volumes on the suggested node; the matches are assumed in a  *)
(* cache of volumes and claims before the pod is, written to the API       *)
(* server one by one when it is bound, and awaited until the volume        *)
(* controller has bound every claim.                                       *)
(***************************************************************************)
EXTENDS Naturals, Sequences, FiniteSets, SequencesExt

CONSTANTS
  ClaimsOf,     \* the claims of a pod, by increasing size
  SizeOf,       \* what a claim requests and what a volume has
  Delayed,      \* claims whose class waits for the first consumer
  Provisioned,  \* claims whose class has a provisioner
  NodeOf,       \* the node a volume can be used on
  Units,        \* pods that the binder handles together
  None,
  MaxTries,     \* bound: attempts to bind a pod
  MaxTrouble,    \* bound: failed calls, timeouts, forgotten and deleted pods
  MaxWrites     \* bound: writes of an object

Pods == DOMAIN ClaimsOf
Claims == UNION {Range(ClaimsOf[p]) : p \in Pods}
Volumes == DOMAIN NodeOf           \* a claim is the name of the volume provisioned for it
Nodes == Range(NodeOf)
Objects == Claims \X {"claim"} \cup (Volumes \cup Provisioned) \X {"volume"}
Pv(v) == <<v, "volume">>
Pvc(c) == <<c, "claim">>

VARIABLES
  hist,       \* the versions of every object at the API server
  seen,       \* the version an informer has delivered, 0 before the first
  latest,     \* the assume caches: the latest object and the version it has
  decisions,  \* podBindingCache: what was decided for a pod on a node
  work,       \* where a pod is, and the slices BindPodVolumes works on
  deleted,    \* pods that were deleted
  loose,      \* history: objects that a forgotten pod or two pods assumed
  rushed,     \* history: pods with a claim that was bound after FindPodVolumes
  trouble

vars == <<hist, seen, latest, decisions, work, deleted, loose, rushed, trouble>>
cacheVars == <<seen, latest>>

NoDecisions == [known |-> FALSE, at |-> [n \in Nodes |-> None]]
Idle(tries) ==
  [pc |-> "idle", node |-> None, allBound |-> FALSE, bindings |-> <<>>, claims |-> <<>>, done |-> 0, tries |-> tries]

(* A volume has the claim of its ClaimRef and its node affinity; a claim its *)
(* volumeName, the bind-completed annotation and the selected node.         *)
NewVolume(c, n) == [claim |-> c, node |-> n]
NewClaim == [volume |-> None, complete |-> FALSE, selected |-> None]

Init ==
  /\ hist = [o \in Objects |->
       IF o[2] = "claim" THEN <<NewClaim>>
       ELSE IF o[1] \in Volumes THEN <<NewVolume(None, NodeOf[o[1]])>> ELSE <<>>]
  /\ seen = [o \in Objects |-> Len(hist[o])]
  /\ latest = [o \in Objects |-> [ver |-> seen[o], obj |-> IF hist[o] = <<>> THEN None ELSE hist[o][1]]]
  /\ decisions = [p \in Pods |-> NoDecisions]
  /\ work = [p \in Pods |-> Idle(0)]
  /\ deleted = {} /\ loose = {} /\ rushed = {}
  /\ trouble = 0

Version(o) == Len(hist[o])
Stored(o) == hist[o][Version(o)]
Exists(o) == hist[o] # <<>>
ApiObj(o) == hist[o][seen[o]]
Cached(o) == seen[o] > 0

WriteObject(o, obj) == hist' = [hist EXCEPT ![o] = Append(@, obj)]
Trouble == trouble < MaxTrouble /\ trouble' = trouble + 1
MayWrite(o) == Version(o) < MaxWrites

-----------------------------------------------------------------------------
(* assumeCache.  An object that is not newer than the one stored is         *)
(* skipped: what was assumed survives a resync.                             *)
AddEqual(o, ver) ==
  latest' = [latest EXCEPT ![o] = [ver |-> ver, obj |-> hist[o][ver]]]
add(o, ver) ==
  latest' = IF ver <= latest[o].ver THEN latest
            ELSE [latest EXCEPT ![o] = [ver |-> ver, obj |-> hist[o][ver]]]

InformerEvent(o) ==
  /\ seen[o] < Version(o)
  /\ seen' = [seen EXCEPT ![o] = @ + 1]
  /\ add(o, seen[o] + 1)
  /\ UNCHANGED <<hist, decisions, work, deleted, loose, rushed, trouble>>

Resync(o) ==
  /\ Cached(o)
  /\ add(o, seen[o])
  /\ UNCHANGED <<hist, seen, decisions, work, deleted, loose, rushed, trouble>>

(* What the cache is after Assume and Restore of some objects.              *)
CanAssume(cache, o, ver) == cache[o].ver <= ver
Assumed(cache, o, ver, obj) == [cache EXCEPT ![o] = [ver |-> ver, obj |-> obj]]
Restored(cache, objs) ==
  [o \in Objects |-> IF o \in objs /\ Cached(o) THEN [ver |-> seen[o], obj |-> ApiObj(o)] ELSE cache[o]]

-----------------------------------------------------------------------------
(* FindPodVolumes of pod p on node n.                                       *)
isPVCFullyBound(claim) == claim.volume # None /\ claim.complete
CheckNodeAffinity(volume, n) == volume.node = n

(* getPodVolumes.                                                           *)
BoundClaims(p) == SelectSeq(ClaimsOf[p], LAMBDA c : isPVCFullyBound(latest[Pvc(c)].obj))
DelayBinding(c) == c \in Delayed /\ latest[Pvc(c)].obj.volume = None
UnboundClaims(p) == SelectSeq(ClaimsOf[p], LAMBDA c : ~isPVCFullyBound(latest[Pvc(c)].obj))

IsVolumeBoundToClaim(v, c) == latest[Pv(v)].obj.claim = c

(* The volume bound to the claim, or one of the smallest that fit.  A       *)
(* volume bound to the claim that cannot be used on the node is no match.   *)
FindMatchingVolume(c, n, excluded) ==
  LET volumes == {v \in Volumes \ excluded : SizeOf[v] >= SizeOf[c]}
      prebound == {v \in volumes : IsVolumeBoundToClaim(v, c)}
      fit == {v \in volumes : latest[Pv(v)].obj.claim = None /\ CheckNodeAffinity(latest[Pv(v)].obj, n)}
  IN  IF prebound # {} THEN {v \in prebound : CheckNodeAffinity(latest[Pv(v)].obj, n)}
      ELSE {v \in fit : \A w \in fit : SizeOf[v] <= SizeOf[w]}

(* findMatchingVolumes: the claims one after the other.                     *)
MatchOne(found, c, n) ==
  LET chosen == {found.bindings[i].pv : i \in 1 .. Len(found.bindings)}
      matches == FindMatchingVolume(c, n, chosen)
  IN  IF matches = {} THEN {[found EXCEPT !.rest = Append(@, c)]}
      ELSE {[found EXCEPT !.bindings = Append(@, [pv |-> v, pvc |-> c, ver |-> latest[Pv(v)].ver,
               claim |-> latest[Pv(v)].obj.claim])] : v \in matches}

findMatchingVolumes(claims, n) ==
  FoldLeft(LAMBDA found, c : UNION {MatchOne(f, c, n) : f \in found},
           {[bindings |-> <<>>, rest |-> <<>>]}, claims)

ToProvision(claims) ==
  [i \in 1 .. Len(claims) |-> [pvc |-> claims[i], ver |-> latest[Pvc(claims[i])].ver]]

BoundVolumes(p) == {latest[Pvc(c)].obj.volume : c \in ToSet(BoundClaims(p))}
checkBoundClaims(p, n) == \A v \in BoundVolumes(p) : CheckNodeAffinity(latest[Pv(v)].obj, n)

(* The outcomes: whether the node will do, and the decision that is cached. *)
findPodVolumes(p, n) ==
  LET unbound == UnboundClaims(p)
      Selected(c) == latest[Pvc(c)].obj.selected
      selected == SelectSeq(unbound, LAMBDA c : Selected(c) # None)
      others == SelectSeq(unbound, LAMBDA c : Selected(c) = None)
      Refused(b) == [fits |-> FALSE, bindings |-> b, provisionings |-> <<>>]
  IN  IF \/ \E c \in ToSet(unbound) : ~DelayBinding(c)
         \/ \E v \in BoundVolumes(p) : ~Cached(Pv(v))
         \/ \E c \in ToSet(selected) : Selected(c) # n
      THEN {Refused(<<>>)}
      ELSE {LET claims == selected \o f.rest
            IN  IF ToSet(claims) \subseteq Provisioned
                THEN [fits |-> checkBoundClaims(p, n), bindings |-> f.bindings, provisionings |-> ToProvision(claims)]
                ELSE Refused(f.bindings) : f \in findMatchingVolumes(others, n)}

UpdateBindings(p, n, bindings, provisionings) ==
  decisions' = [decisions EXCEPT ![p] =
    [known |-> TRUE, at |-> [@.at EXCEPT ![n] = [bindings |-> bindings, provisionings |-> provisionings]]]]
ClearBindings(p, n) == decisions' = [decisions EXCEPT ![p].at[n] = None]

(* The binder takes one unit at a time: it checks its pods, assumes those   *)
(* that passed, and goes on to bind them when it has assumed them all.      *)
UnitOf(p) == CHOOSE u \in Units : p \in u
Found == {p \in Pods : work[p].pc = "found"}
MayCheck(p) == Found # {} => Found \subseteq UnitOf(p) /\ \A q \in UnitOf(p) : work[q].pc # "assumed"
AllAssumed(p) == Found \cap UnitOf(p) = {}

FindPodVolumes(p, n) ==
  /\ work[p].pc = "idle" /\ p \notin deleted
  /\ work[p].tries < MaxTries
  /\ MayCheck(p)
  /\ \E r \in findPodVolumes(p, n) :
       /\ IF r.bindings = <<>> /\ r.provisionings = <<>> THEN ClearBindings(p, n)
          ELSE UpdateBindings(p, n, r.bindings, r.provisionings)
       /\ work' = [work EXCEPT ![p] =
            IF r.fits THEN [Idle(@.tries + 1) EXCEPT !.pc = "found", !.node = n] ELSE Idle(@.tries + 1)]
  /\ rushed' = rushed \ {p}
  /\ UNCHANGED <<hist, cacheVars, deleted, loose, trouble>>

-----------------------------------------------------------------------------
(* AssumePodVolumes, on the decision for the suggested node.                *)
GetBindings(p) == LET d == decisions[p].at[work[p].node] IN IF d = None THEN <<>> ELSE d.bindings
GetProvisionedPVCs(p) == LET d == decisions[p].at[work[p].node] IN IF d = None THEN <<>> ELSE d.provisionings

(* What is assumed, in order: the volumes (but those that are bound to the  *)
(* claim: GetBindVolumeToClaim leaves them as they are), then the claims.   *)
VolumeOf(b) == [o |-> Pv(b.pv), ver |-> b.ver, dirty |-> b.claim # b.pvc, obj |-> NewVolume(b.pvc, NodeOf[b.pv])]
ClaimOf(c, n) ==
  [o |-> Pvc(c.pvc), ver |-> c.ver, dirty |-> TRUE, obj |-> [hist[Pvc(c.pvc)][c.ver] EXCEPT !.selected = n]]
Updates(bindings, claims, n) ==
  [i \in DOMAIN bindings |-> VolumeOf(bindings[i])] \o [i \in DOMAIN claims |-> ClaimOf(claims[i], n)]
ObjectsOf(updates) == {updates[i].o : i \in DOMAIN updates}

(* The objects of the pods that are between AssumePodVolumes and the last   *)
(* write of bindAPIUpdate.                                                  *)
ToWrite(w) == SubSeq(Updates(w.bindings, w.claims, w.node), w.done + 1, Len(w.bindings) + Len(w.claims))
HeldBy(p) ==
  IF work[p].pc = "assumed" THEN ObjectsOf(Updates(GetBindings(p), GetProvisionedPVCs(p), work[p].node))
  ELSE IF work[p].pc = "binding" THEN ObjectsOf(ToWrite(work[p]))
  ELSE {}

arePodVolumesBound(p) == BoundClaims(p) = ClaimsOf[p]

AssumePodVolumes(p) ==
  /\ work[p].pc = "found"
  /\ LET w == work[p]
         todo == Updates(GetBindings(p), GetProvisionedPVCs(p), w.node)
         bad == SelectInSeq(todo, LAMBDA t : t.dirty /\ ~CanAssume(latest, t.o, t.ver))
     IN  IF arePodVolumesBound(p)
         THEN /\ work' = [work EXCEPT ![p].pc = "assumed", ![p].allBound = TRUE]
              /\ rushed' = IF todo = <<>> THEN rushed ELSE rushed \cup {p}
              /\ UNCHANGED <<latest, decisions, loose>>
         ELSE /\ UNCHANGED rushed
              /\ loose' = loose \cup (ObjectsOf(todo) \cap UNION {HeldBy(q) : q \in Pods})
              /\ IF bad # 0
                 THEN /\ latest' = Restored(latest, ObjectsOf(SubSeq(todo, 1, bad - 1)))
                      /\ work' = [q \in Pods |-> IF q \in Found THEN Idle(work[q].tries) ELSE work[q]]
                      /\ UNCHANGED decisions
                 ELSE /\ latest' = FoldLeft(LAMBDA cache, t : IF t.dirty THEN Assumed(cache, t.o, t.ver, t.obj) ELSE cache,
                                             latest, todo)
                      /\ UpdateBindings(p, w.node,
                           [i \in DOMAIN GetBindings(p) |-> [GetBindings(p)[i] EXCEPT !.claim = GetBindings(p)[i].pvc]],
                           GetProvisionedPVCs(p))
                      /\ work' = [work EXCEPT ![p].pc = "assumed"]
  /\ UNCHANGED <<hist, seen, deleted, trouble>>

(* Another task of the unit failed: the pod is forgotten, its volumes are   *)
(* not ("TODO: figure out how to roll back assumed volumes").               *)
forgetNewAssumedTasks(p) ==
  /\ work[p].pc = "assumed" /\ AllAssumed(p)
  /\ Trouble
  /\ work' = [work EXCEPT ![p] = Idle(@.tries)]
  /\ loose' = loose \cup HeldBy(p)
  /\ UNCHANGED <<hist, cacheVars, decisions, deleted, rushed>>

-----------------------------------------------------------------------------
(* BindPodVolumes, unless AssumePodVolumes found all volumes bound.  The    *)
(* decisions of a pod that was deleted meanwhile are gone.                  *)
BindPodVolumes(p) ==
  /\ work[p].pc = "assumed" /\ AllAssumed(p)
  /\ work' = [work EXCEPT ![p] =
       IF @.allBound THEN [@ EXCEPT !.pc = "bound"]
       ELSE IF decisions[p].at[@.node] = None THEN Idle(@.tries)
       ELSE [@ EXCEPT !.pc = "binding", !.bindings = GetBindings(p), !.claims = GetProvisionedPVCs(p)]]
  /\ UNCHANGED <<hist, cacheVars, decisions, deleted, loose, rushed, trouble>>

Saved(w, ver) ==
  IF w.done < Len(w.bindings) THEN [w EXCEPT !.bindings[w.done + 1].ver = ver, !.done = @ + 1]
  ELSE [w EXCEPT !.claims[w.done - Len(w.bindings) + 1].ver = ver, !.done = @ + 1]

VersionMatches(t) == t.ver = Version(t.o)

(* One write of bindAPIUpdate: it succeeds on the version it was made for   *)
(* (and changes nothing if nothing differs), unless the call fails; the     *)
(* answer of a write that succeeded may be lost.  What is not written is    *)
(* reverted: lastProcessedBinding and lastProcessedProvisioning.            *)
bindAPIUpdate(p) ==
  /\ work[p].pc = "binding" /\ ToWrite(work[p]) # <<>>
  /\ LET w == work[p]
         next == Head(ToWrite(w))
         accepted == VersionMatches(next)
         same == next.obj = Stored(next.o)
         Fail == /\ work' = [work EXCEPT ![p] = Idle(w.tries)]
                 /\ latest' = Restored(latest, ObjectsOf(ToWrite(w)))
     IN  \/ /\ accepted
            /\ IF same THEN UNCHANGED hist ELSE MayWrite(next.o) /\ WriteObject(next.o, next.obj)
            /\ work' = [work EXCEPT ![p] = Saved(w, IF same THEN next.ver ELSE next.ver + 1)]
            /\ UNCHANGED <<latest, trouble>>
         \/ /\ ~accepted
            /\ Fail
            /\ UNCHANGED <<hist, trouble>>
         \/ /\ Trouble
            /\ Fail
            /\ \/ UNCHANGED hist
               \/ accepted /\ ~same /\ MayWrite(next.o) /\ WriteObject(next.o, next.obj)
  /\ UNCHANGED <<seen, decisions, deleted, loose, rushed>>

(* The verdict on one binding and on one provisioned claim.                 *)
CheckBindingEarly(b, n) ==
  IF ~Cached(Pv(b.pv)) \/ ~Cached(Pvc(b.pvc)) THEN "error"
  ELSE IF b.ver > seen[Pv(b.pv)] THEN "wait"
  ELSE IF ~CheckNodeAffinity(ApiObj(Pv(b.pv)), n) \/ ApiObj(Pv(b.pv)).claim = None THEN "error"
  ELSE "bound"
CheckBinding(b, n) ==
  IF ~Cached(Pv(b.pv)) \/ ~Cached(Pvc(b.pvc)) THEN "error"
  ELSE IF b.ver > seen[Pv(b.pv)] THEN "wait"
  ELSE IF ~CheckNodeAffinity(ApiObj(Pv(b.pv)), n) \/ ApiObj(Pv(b.pv)).claim = None THEN "error"
  ELSE IF isPVCFullyBound(ApiObj(Pvc(b.pvc))) THEN "bound" ELSE "wait"

CheckProvisioning(c, n) ==
  IF c.ver > seen[Pvc(c.pvc)] THEN "wait"
  ELSE LET claim == ApiObj(Pvc(c.pvc))
       IN  IF claim.selected # n THEN "error"
           ELSE IF claim.volume = None THEN "wait"
           ELSE IF ~Cached(Pv(claim.volume)) THEN "wait"
           ELSE IF ~CheckNodeAffinity(ApiObj(Pv(claim.volume)), n) THEN "error"
           ELSE IF isPVCFullyBound(claim) THEN "bound" ELSE "wait"

checkBindings(p) ==
  LET w == work[p]
      verdicts == [i \in 1 .. Len(w.bindings) |-> CheckBinding(w.bindings[i], w.node)]
                  \o [i \in 1 .. Len(w.claims) |-> CheckProvisioning(w.claims[i], w.node)]
      first == SelectInSeq(verdicts, LAMBDA x : x # "bound")
  IN  IF ~decisions[p].known THEN "error"
      ELSE IF first = 0 THEN "bound" ELSE verdicts[first]

(* One round of the wait, or its end after bindTimeout.                     *)
Poll(p) ==
  /\ work[p].pc = "binding" /\ ToWrite(work[p]) = <<>>
  /\ LET verdict == checkBindings(p)
     IN  \/ verdict = "bound" /\ work' = [work EXCEPT ![p].pc = "bound"] /\ UNCHANGED trouble
         \/ verdict = "error" /\ work' = [work EXCEPT ![p] = Idle(@.tries)] /\ UNCHANGED trouble
         \/ /\ verdict = "wait" /\ Trouble
            /\ work' = [work EXCEPT ![p] = Idle(@.tries)]
  /\ UNCHANGED <<hist, cacheVars, decisions, deleted, loose, rushed>>

(* deletePodFromBinderQueue drops the decisions.                            *)
DeletePodBindings(p) ==
  /\ p \notin deleted
  /\ work[p].pc # "bound"
  /\ Trouble
  /\ deleted' = deleted \cup {p}
  /\ decisions' = [decisions EXCEPT ![p] = NoDecisions]
  /\ loose' = IF work[p].pc = "assumed" THEN loose \cup HeldBy(p) ELSE loose
  /\ UNCHANGED <<hist, cacheVars, work, rushed>>

-----------------------------------------------------------------------------
(* The volume controller and the provisioner: external.                     *)
BindClaim(c, v) ==
  /\ Exists(Pv(v)) /\ Stored(Pv(v)).claim = c
  /\ Stored(Pvc(c)).volume = None
  /\ MayWrite(Pvc(c))
  /\ WriteObject(Pvc(c), [Stored(Pvc(c)) EXCEPT !.volume = v, !.complete = TRUE])
  /\ UNCHANGED <<cacheVars, decisions, work, deleted, loose, rushed, trouble>>

ReleaseVolume(c, v) ==
  /\ Exists(Pv(v)) /\ Stored(Pv(v)).claim = c
  /\ Stored(Pvc(c)).volume \notin {None, v}
  /\ MayWrite(Pv(v))
  /\ WriteObject(Pv(v), [Stored(Pv(v)) EXCEPT !.claim = None])
  /\ UNCHANGED <<cacheVars, decisions, work, deleted, loose, rushed, trouble>>

Provision(c) ==
  /\ c \in Provisioned
  /\ Stored(Pvc(c)).volume = None /\ Stored(Pvc(c)).selected # None
  /\ \/ ~Exists(Pv(c)) /\ WriteObject(Pv(c), NewVolume(c, Stored(Pvc(c)).selected))
     \/ MayWrite(Pvc(c)) /\ ~Exists(Pv(c)) /\ WriteObject(Pvc(c), [Stored(Pvc(c)) EXCEPT !.selected = None])
  /\ UNCHANGED <<cacheVars, decisions, work, deleted, loose, rushed, trouble>>

Next ==
  \/ \E p \in Pods, n \in Nodes : FindPodVolumes(p, n)
  \/ \E p \in Pods : AssumePodVolumes(p) \/ forgetNewAssumedTasks(p) \/ BindPodVolumes(p) \/ bindAPIUpdate(p) \/ Poll(p)
  \/ \E p \in Pods : DeletePodBindings(p)
  \/ \E o \in Objects : InformerEvent(o) \/ Resync(o)
  \/ \E c \in Claims, v \in Volumes \cup Provisioned : BindClaim(c, v) \/ ReleaseVolume(c, v)
  \/ \E c \in Claims : Provision(c)

Spec == Init /\ [][Next]_vars

-----------------------------------------------------------------------------
\* Every version is one the API server gave, and the cache is not ahead of the
\* informer: what is assumed has the version of the object it was made from.
TypeOK ==
  /\ \A o \in Objects : seen[o] <= Version(o) /\ latest[o].ver = seen[o]
  /\ \A p \in Pods :
       /\ work[p].pc \in {"idle", "found", "assumed", "binding", "bound"}
       /\ work[p].pc = "idle" <=> work[p].node = None
       /\ work[p].done <= Len(work[p].bindings) + Len(work[p].claims)

\* When volume binding lets a pod go on, each of its claims is bound to a
\* volume that can be used on the pod's node.  checkBindings does not look at
\* which volume a claim is bound to: the exceptions are a claim for which a
\* write with a lost answer has set a second volume aside, and the claims that
\* were bound between FindPodVolumes and AssumePodVolumes.
VolumesFor(c) == {o \in Objects : o[2] = "volume" /\ \E i \in DOMAIN hist[o] : hist[o][i].claim = c}
PlacedPodsReachVolumes ==
  \A p \in Pods \ (deleted \cup rushed) : work[p].pc = "bound" =>
    \A c \in ToSet(ClaimsOf[p]) : Cardinality(VolumesFor(c)) <= 1 =>
      LET claim == Stored(Pvc(c))
      IN  isPVCFullyBound(claim) /\ CheckNodeAffinity(Stored(Pv(claim.volume)), work[p].node)

\* What is assumed beyond the API server belongs to a pod that is about to
\* write it, or an event is on its way that replaces it; but for what a pod
\* that was forgotten has left behind.
AssumptionsAreOwned ==
  \A o \in Objects \ loose : latest[o].obj # (IF Cached(o) THEN ApiObj(o) ELSE None) =>
    seen[o] < Version(o) \/ \E p \in Pods : o \in HeldBy(p)

\* No event and no other pod takes away what a pod has assumed before it is
\* written, but a newer version of the object.
AssumptionsHold ==
  \A p \in Pods : work[p].pc = "binding" =>
    \A i \in DOMAIN ToWrite(work[p]) :
      LET t == ToWrite(work[p])[i]
      IN  t.o \in loose \/ latest[t.o].ver > t.ver \/ latest[t.o].obj = t.obj

\* A volume that was written for one claim is never written for another.
ClaimsKeepVolumes ==
  \A o \in Objects : o[2] = "volume" =>
    \A i \in 2 .. Len(hist[o]) :
      hist[o][i - 1].claim # None => hist[o][i].claim \in {hist[o][i - 1].claim, None}

\* The caches of volumes and claims assume what a pod is about to write, keep
\* it until it is written, and no write undoes another pod's.
VolumeWritesAreSound == TypeOK /\ AssumptionsAreOwned /\ AssumptionsHold /\ ClaimsKeepVolumes
=============================================================================
