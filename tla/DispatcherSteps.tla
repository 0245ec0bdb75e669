-------------------------- MODULE DispatcherSteps ---------------------------
(***************************************************************************)
(* The steps of the dispatcher keep its invariant DispatchInv, except for  *)
(* the deliveries of events, which are proved in DispatcherProofs: what    *)
(* writes and deliveries do to the versions of an object, what the         *)
(* handlers do to the queues, the places of a pod from which no step of    *)
(* another pod takes it, and then one lemma for each action of the loops   *)
(* and goroutines, PodGroups, schedulers and users, and for a restart.     *)
(***************************************************************************)
EXTENDS Dispatcher, TLAPS

(* Most leaves are first-order; those with arithmetic name SMT. *)
USE Zenon

-----------------------------------------------------------------------------
(* What the predicates of PodState say of the objects that are written.     *)

LEMMA FreshObject ==
  /\ Fresh \in Objects /\ Exists(Fresh) /\ PendingPod(Fresh) /\ PendingPodOfGodel(Fresh)
BY DEF Fresh, Objects, Exists, PendingPod, PendingPodOfGodel, PodStates

LEMMA GoneObject ==
  /\ Gone \in Objects /\ ~Exists(Gone)
  /\ ~PendingPod(Gone) /\ ~PendingPodOfGodel(Gone) /\ ~DispatchedPodOfGodel(Gone)
  /\ ~AbnormalPodStateOfGodel(Gone)
BY DEF Gone, Fresh, Objects, Exists, PendingPod, DispatchedPod, PendingPodOfGodel,
       DispatchedPodOfGodel, AbnormalPodStateOfGodel, PodStates

LEMMA ObjectKinds ==
  ASSUME NEW o \in Objects
  PROVE  /\ ~Exists(o) <=> o = Gone
         /\ PendingPodOfGodel(o) => PendingPod(o)
         /\ DispatchedPodOfGodel(o) => DispatchedPod(o)
         /\ PendingPod(o) => Exists(o) /\ ~DispatchedPod(o) /\ ~AssumedPod(o)
         /\ DispatchedPod(o) => Exists(o) /\ ~AssumedPod(o) /\ o.sched \in Schedulers
         /\ AssumedPod(o) => Exists(o)
         /\ AbnormalPodStateOfGodel(o) =>
              Exists(o) /\ ~PendingPod(o) /\ ~DispatchedPod(o) /\ ~AssumedPod(o)
<1>1. ~Exists(o) <=> o = Gone
  BY GoneObject DEF Objects
<1>2. AbnormalPodStateOfGodel(o) =>
        Exists(o) /\ ~PendingPod(o) /\ ~DispatchedPod(o) /\ ~AssumedPod(o)
  BY <1>1, GoneObject DEF AbnormalPodStateOfGodel, AbnormalPodState, PendingPod, DispatchedPod,
     AssumedPod, PodStates
<1> QED
  BY <1>1, <1>2 DEF Objects, Exists, PendingPod, DispatchedPod, AssumedPod, PendingPodOfGodel,
     DispatchedPodOfGodel

LEMMA BrokenObject ==
  ASSUME NEW o \in Objects, PendingPod(o)
  PROVE  LET q == [o EXCEPT !.state = "dispatched"]
         IN /\ q \in Objects /\ Exists(q)
            /\ ~PendingPod(q) /\ ~DispatchedPod(q) /\ ~AssumedPod(q)
BY DEF Objects, Exists, PendingPod, DispatchedPod, AssumedPod, PodStates

LEMMA DispatchedObject ==
  ASSUME NEW o \in Objects, Exists(o), NEW s \in Schedulers,
         NEW q, q = [o EXCEPT !.state = "dispatched", !.sched = s]
  PROVE  /\ q \in Objects /\ Exists(q) /\ q.sched = s
         /\ ~PendingPod(q) /\ ~AssumedPod(q)
BY DEF Objects, Exists, PendingPod, AssumedPod, PodStates

LEMMA AssumedObject ==
  ASSUME NEW o \in Objects, DispatchedPod(o),
         NEW q, q = [o EXCEPT !.state = "assumed", !.assumed = TRUE]
  PROVE  /\ q \in Objects /\ Exists(q)
         /\ ~PendingPod(q) /\ ~DispatchedPod(q) /\ AssumedPod(q)
BY DEF Objects, Exists, PendingPod, DispatchedPod, AssumedPod, assumedOrNominatedNodeIsSet, PodStates

LEMMA ResetObject ==
  ASSUME NEW o \in Objects, Exists(o)
  PROVE  /\ resetPodToPendingState(o) \in Objects
         /\ Exists(resetPodToPendingState(o)) /\ PendingPod(resetPodToPendingState(o))
BY DEF Objects, Exists, PendingPod, resetPodToPendingState, PodStates

-----------------------------------------------------------------------------
(* Objects and the informer.                                                *)

\* The situation of a behaviour never changes.
Steady == env'.scenario = env.scenario

\* The memory of a sequence that loses its head or gains an element.
LEMMA TailOf ==
  ASSUME NEW S, NEW s \in Seq(S), s # <<>>
  PROVE  /\ Tail(s) \in Seq(S) /\ Head(s) = s[1] /\ s[1] \in S
         /\ Len(s) \in Nat /\ Len(s) >= 1 /\ Len(Tail(s)) = Len(s) - 1
         /\ \A i \in 1 .. Len(Tail(s)) : Tail(s)[i] = s[i + 1] /\ i + 1 \in 1 .. Len(s)
         /\ Tail(s) = <<>> <=> Len(s) = 1
<1>1. /\ Tail(s) \in Seq(S) /\ Head(s) = s[1] /\ s[1] \in S
      /\ Len(s) \in Nat /\ Len(s) >= 1 /\ Len(Tail(s)) = Len(s) - 1
      /\ \A i \in 1 .. Len(Tail(s)) : Tail(s)[i] = s[i + 1] /\ i + 1 \in 1 .. Len(s)
  BY SMT
<1>2. \A v \in Seq(S) : Len(v) = 0 <=> v = <<>>
  BY SMT
<1>3. Tail(s) = <<>> <=> Len(Tail(s)) = 0
  BY <1>1, <1>2, Zenon
<1> QED
  BY SMT, <1>1, <1>3

LEMMA AppendOf ==
  ASSUME NEW S, NEW s \in Seq(S), NEW e \in S
  PROVE  /\ Append(s, e) \in Seq(S) /\ Append(s, e) # <<>>
         /\ Len(s) \in Nat /\ Len(Append(s, e)) = Len(s) + 1
         /\ \A i \in 1 .. Len(s) : Append(s, e)[i] = s[i] /\ i \in 1 .. Len(Append(s, e))
         /\ Append(s, e)[Len(s) + 1] = e
         /\ s = <<>> => Append(s, e)[1] = e
         /\ s # <<>> => Append(s, e)[1] = s[1]
<1>1. /\ Append(s, e) \in Seq(S)
      /\ Len(s) \in Nat /\ Len(Append(s, e)) = Len(s) + 1
      /\ \A i \in 1 .. Len(s) : Append(s, e)[i] = s[i] /\ i \in 1 .. Len(Append(s, e))
      /\ Append(s, e)[Len(s) + 1] = e
  BY SMT
<1>2. Append(s, e) # <<>>
  BY SMT, <1>1
<1>3. s = <<>> => Append(s, e)[1] = e
  BY SMT
<1>4. s # <<>> => Append(s, e)[1] = s[1]
  <2>1. \A v \in Seq(S) : v # <<>> => 1 \in 1 .. Len(v)
    BY SMT
  <2> QED
    BY <1>1, <2>1
<1> QED
  BY <1>1, <1>2, <1>3, <1>4

LEMMA WriteObjects ==
  ASSUME ObjectsOK, Steady, NEW p \in Pods, NEW o \in Objects, Write(p, o)
  PROVE  ObjectsOK'
<1>1. /\ api' = [api EXCEPT ![p] = o] /\ watch' = [watch EXCEPT ![p] = Append(watch[p], o)]
      /\ lister' = lister /\ inbox' = inbox /\ Lagging' = Lagging
  BY DEF Write, Steady, Lagging
<1>2. Append(watch[p], o) \in Seq(Objects) /\ Append(watch[p], o) # <<>>
      /\ Append(watch[p], o)[Len(Append(watch[p], o))] = o
  BY SMT, AppendOf DEF ObjectsOK
<1>3. ASSUME NEW q \in Pods PROVE api'[q] = Latest(q)'
  <2>1. CASE q = p
    BY <1>1, <1>2, <2>1 DEF ObjectsOK, Latest
  <2>2. CASE q # p
    BY <1>1, <2>2 DEF ObjectsOK, Latest
  <2> QED
    BY <2>1, <2>2
<1>4. \A h \in Lagging, q \in Pods : InOrder(inbox'[h][q], lister'[q])
  BY <1>1 DEF ObjectsOK
<1>5. /\ api' \in [Pods -> Objects] /\ watch' \in [Pods -> Seq(Objects)]
      /\ lister' \in [Pods -> Objects] /\ inbox' \in [Lagging -> [Pods -> Seq(Objects \X Objects)]]
  BY <1>1, <1>2 DEF ObjectsOK
<1> QED
  BY <1>1, <1>3, <1>4, <1>5 DEF ObjectsOK

\* What a handler is told stays in order when an event is added or handled.
LEMMA OrderKept ==
  ASSUME NEW b \in Seq(Objects \X Objects), NEW last \in Objects, NEW new \in Objects,
         InOrder(b, last)
  PROVE  InOrder(Append(b, <<last, new>>), new) /\ (b # <<>> => InOrder(Tail(b), last))
<1>1. InOrder(Append(b, <<last, new>>), new)
  <2>1. <<last, new>> \in Objects \X Objects /\ Len(b) \in Nat
    BY SMT
  <2>2. ASSUME NEW i \in 2 .. Len(b) + 1
        PROVE  Append(b, <<last, new>>)[i][1] = Append(b, <<last, new>>)[i - 1][2]
    <3>1. CASE i = Len(b) + 1
      <4>1. Len(b) \in 1 .. Len(b) /\ b # <<>>
        BY SMT, <2>1, <3>1
      <4> QED
        BY SMT, <2>1, <3>1, <4>1, AppendOf DEF InOrder
    <3>2. CASE i # Len(b) + 1
      BY SMT, <2>1, <3>2, AppendOf DEF InOrder
    <3> QED
      BY <3>1, <3>2
  <2> QED
    BY SMT, <2>1, <2>2, AppendOf DEF InOrder
<1>2. ASSUME b # <<>> PROVE InOrder(Tail(b), last)
  <2>1. /\ Len(b) \in Nat /\ Len(b) >= 1 /\ Len(Tail(b)) = Len(b) - 1
        /\ \A i \in 1 .. Len(Tail(b)) : Tail(b)[i] = b[i + 1]
        /\ Tail(b) = <<>> <=> Len(b) = 1
    BY <1>2, TailOf
  <2>2. ASSUME NEW i \in 2 .. Len(Tail(b)) PROVE Tail(b)[i][1] = Tail(b)[i - 1][2]
    <3>1. i \in 1 .. Len(Tail(b)) /\ i - 1 \in 1 .. Len(Tail(b)) /\ (i - 1) + 1 = i
          /\ i + 1 \in 2 .. Len(b) /\ (i + 1) - 1 = i
      BY SMT, <2>1
    <3>2. Tail(b)[i] = b[i + 1] /\ Tail(b)[i - 1] = b[i]
      BY <2>1, <3>1
    <3> QED
      BY <3>1, <3>2 DEF InOrder
  <2>3. Tail(b) # <<>> => Tail(b)[Len(Tail(b))] = b[Len(b)]
    BY SMT, <2>1
  <2> QED
    BY <1>2, <2>2, <2>3 DEF InOrder
<1> QED
  BY <1>1, <1>2

LEMMA DeliverObjects ==
  ASSUME ObjectsOK, NEW p \in Pods, Deliver(p)
  PROVE  ObjectsOK' /\ Head(watch[p]) \in Objects
<1>1. /\ watch[p] \in Seq(Objects) /\ watch[p] # <<>> /\ Lagging' = Lagging
      /\ watch' = [watch EXCEPT ![p] = Tail(watch[p])]
      /\ lister' = [lister EXCEPT ![p] = Head(watch[p])] /\ api' = api
      /\ inbox' = [h \in Lagging |->
                     [inbox[h] EXCEPT ![p] = Append(inbox[h][p], <<lister[p], Head(watch[p])>>)]]
  BY DEF Deliver, ObjectsOK, Lagging
<1>2. /\ Head(watch[p]) \in Objects /\ Tail(watch[p]) \in Seq(Objects)
      /\ Len(watch[p]) \in Nat /\ Len(watch[p]) >= 1 /\ Len(Tail(watch[p])) = Len(watch[p]) - 1
      /\ \A i \in 1 .. Len(Tail(watch[p])) : Tail(watch[p])[i] = watch[p][i + 1]
      /\ Tail(watch[p]) = <<>> <=> Len(watch[p]) = 1
      /\ Head(watch[p]) = watch[p][1]
  BY <1>1, TailOf
<1>3. ASSUME NEW q \in Pods PROVE api'[q] = Latest(q)'
  <2>0. api[q] = Latest(q)
    BY DEF ObjectsOK
  <2>1. CASE q = p
    <3>1. api[p] = watch[p][Len(watch[p])]
      BY <1>1, <2>0, <2>1 DEF Latest
    <3>2. watch'[p] = Tail(watch[p]) /\ lister'[p] = watch[p][1]
      BY <1>1, <1>2 DEF ObjectsOK
    <3>3. CASE Len(watch[p]) = 1
      BY <1>1, <1>2, <2>1, <3>1, <3>2, <3>3 DEF Latest
    <3>4. CASE Len(watch[p]) # 1
      <4>1. Tail(watch[p])[Len(Tail(watch[p]))] = watch[p][Len(watch[p])]
        BY SMT, <1>2, <3>4
      <4> QED
        BY <1>1, <1>2, <2>1, <3>1, <3>2, <3>4, <4>1 DEF Latest
    <3> QED
      BY <3>3, <3>4
  <2>2. CASE q # p
    BY <1>1, <2>0, <2>2 DEF ObjectsOK, Latest
  <2> QED
    BY <2>1, <2>2
<1>4. ASSUME NEW h \in Lagging, NEW q \in Pods
      PROVE  InOrder(inbox'[h][q], lister'[q]) /\ inbox'[h][q] \in Seq(Objects \X Objects)
  <2>0. inbox[h][q] \in Seq(Objects \X Objects) /\ InOrder(inbox[h][q], lister[q]) /\ lister[q] \in Objects
        /\ inbox[h] \in [Pods -> Seq(Objects \X Objects)]
    BY DEF ObjectsOK
  <2>1. CASE q = p
    <3>1. inbox'[h][q] = Append(inbox[h][q], <<lister[q], Head(watch[p])>>)
          /\ lister'[q] = Head(watch[p])
      BY <1>1, <2>0, <2>1 DEF ObjectsOK
    <3>2. InOrder(inbox'[h][q], lister'[q])
      BY <1>2, <2>0, <3>1, OrderKept
    <3>3. <<lister[q], Head(watch[p])>> \in Objects \X Objects
      BY <1>2, <2>0
    <3>4. inbox'[h][q] \in Seq(Objects \X Objects)
      BY SMT, <2>0, <3>1, <3>3
    <3> QED
      BY <3>2, <3>4
  <2>2. CASE q # p
    BY <1>1, <2>0, <2>2 DEF ObjectsOK
  <2> QED
    BY <2>1, <2>2
<1>5. inbox' \in [Lagging -> [Pods -> Seq(Objects \X Objects)]]
  <2>1. ASSUME NEW h \in Lagging PROVE inbox'[h] \in [Pods -> Seq(Objects \X Objects)]
    <3>1. inbox'[h] = [inbox[h] EXCEPT ![p] = Append(inbox[h][p], <<lister[p], Head(watch[p])>>)]
          /\ inbox[h] \in [Pods -> Seq(Objects \X Objects)]
      BY <1>1 DEF ObjectsOK
    <3> QED
      BY <1>4, <3>1
  <2> QED
    BY <1>1, <2>1
<1>6. /\ api' \in [Pods -> Objects] /\ lister' \in [Pods -> Objects]
      /\ watch' \in [Pods -> Seq(Objects)]
  BY <1>1, <1>2 DEF ObjectsOK
<1> QED
  BY <1>1, <1>2, <1>3, <1>4, <1>5, <1>6 DEF ObjectsOK

LEMMA NotifyObjects ==
  ASSUME ObjectsOK, NEW h \in Handlers, NEW p \in Pods, Notify(h, p)
  PROVE  ObjectsOK'
<1>1. /\ h \in Lagging /\ inbox[h][p] # <<>> /\ inbox[h][p] \in Seq(Objects \X Objects)
      /\ inbox' = [inbox EXCEPT ![h][p] = Tail(inbox[h][p])]
      /\ api' = api /\ watch' = watch /\ lister' = lister /\ Lagging' = Lagging
  BY DEF Notify, ObjectsOK, Lagging
<1>2. Tail(inbox[h][p]) \in Seq(Objects \X Objects) /\ InOrder(Tail(inbox[h][p]), lister[p])
  BY <1>1, OrderKept, TailOf DEF ObjectsOK
<1>3. inbox' \in [Lagging -> [Pods -> Seq(Objects \X Objects)]]
  BY <1>1, <1>2 DEF ObjectsOK
<1>4. ASSUME NEW k \in Lagging, NEW q \in Pods PROVE InOrder(inbox'[k][q], lister'[q])
  BY <1>1, <1>2 DEF ObjectsOK
<1>5. \A q \in Pods : api'[q] = Latest(q)'
  BY <1>1 DEF ObjectsOK, Latest
<1> QED
  BY <1>1, <1>3, <1>4, <1>5 DEF ObjectsOK

-----------------------------------------------------------------------------
(* What the handlers do to the queues.                                      *)

\* A pod leaves places, or goes from its unit's waiting set to the ready queue.
Shrinks(A, B) == B \subseteq A \/ ("waits" \in A /\ B \subseteq (A \ {"waits"}) \union {"ready"})

\* It stays somewhere.
Stays(A, B) == A # {} => B # {}

MemRecords == [fifo : SUBSET Pods, sorted : SUBSET Pods, ready : SUBSET Pods,
               units : [Groups -> UnitInfos]]

\* SettleUnit writes a unit and moves its pods on when it is ready.
LEMMA SettlePlaces ==
  ASSUME NEW m \in MemRecords, MemOK(m), NEW g \in Groups, NEW ui, UnitOK(g, ui)
  PROVE  LET n == SettleUnit(m, g, ui) IN
         /\ n \in MemRecords /\ MemOK(n)
         /\ n.fifo = m.fifo /\ n.sorted = m.sorted
         /\ \A q \in Pods : q \in ui.unSortedPods => Where(n, q) # {}
         /\ \A q \in Pods : (q \in ui.unSortedPods <=> q \in m.units[g].unSortedPods) =>
              Shrinks(Where(m, q), Where(n, q)) /\ Stays(Where(m, q), Where(n, q))
         /\ \A q \in Pods : q \in ui.unSortedPods /\ Where(m, q) = {} =>
              Where(n, q) \in {{"waits"}, {"ready"}}
<1> DEFINE n == SettleUnit(m, g, ui)
<1>0. /\ ui \in UnitInfos /\ ui.unSortedPods \subseteq ui.pods /\ \A p \in ui.pods : GroupOf[p] = g
      /\ ui.unSortedPods \subseteq Pods
  BY DEF UnitOK, UnitInfos
<1>1. CASE readyToBeDispatched(ui)
  <2>1. n = [m EXCEPT !.ready = m.ready \union ui.unSortedPods,
                      !.units[g] = [ui EXCEPT !.unSortedPods = {}]]
    BY <1>1 DEF SettleUnit
  <2> DEFINE e == [ui EXCEPT !.unSortedPods = {}]
  <2>2. e \in UnitInfos /\ e.unSortedPods = {} /\ UnitOK(g, e)
    BY <1>0 DEF UnitInfos, UnitOK
  <2> HIDE DEF e
  <2>3. /\ n.fifo = m.fifo /\ n.sorted = m.sorted /\ n.ready = m.ready \union ui.unSortedPods
        /\ n.units = [m.units EXCEPT ![g] = e] /\ n \in MemRecords
    <3> DEFINE r == m.ready \union ui.unSortedPods
               us == [m.units EXCEPT ![g] = e]
    <3>1. r \in SUBSET Pods /\ us \in [Groups -> UnitInfos]
      BY <1>0, <2>2 DEF MemRecords
    <3>2. n = [m EXCEPT !.ready = r, !.units = us]
      BY <2>1 DEF MemRecords, e
    <3> HIDE DEF n, r, us
    <3>3. n.fifo = m.fifo /\ n.sorted = m.sorted /\ n.ready = r /\ n.units = us /\ n \in MemRecords
      BY <3>1, <3>2 DEF MemRecords
    <3> QED
      BY <3>3 DEF r, us
  <2>4. MemOK(n)
    BY <1>0, <2>2, <2>3 DEF MemOK, MemRecords
  <2>5. \A q \in Pods : q \in ui.unSortedPods => "ready" \in Where(n, q)
    BY <2>3 DEF Where
  <2>6. \A q \in Pods : "waits" \in Where(n, q) <=>
          \E h \in Groups \ {g} : q \in m.units[h].unSortedPods
    BY <2>2, <2>3 DEF Where, MemRecords
  <2>7. \A q \in Pods, x \in {"fifo", "sorted"} : x \in Where(n, q) <=> x \in Where(m, q)
    BY <2>3 DEF Where
  <2>8. \A q \in Pods : "ready" \in Where(n, q) <=> "ready" \in Where(m, q) \/ q \in ui.unSortedPods
    BY <2>3 DEF Where
  <2>9. \A q \in Pods : Where(n, q) \subseteq {"fifo", "sorted", "ready", "waits"}
                        /\ Where(m, q) \subseteq {"fifo", "sorted", "ready", "waits"}
    BY DEF Where
  <2>10. ASSUME NEW q \in Pods
         PROVE  "waits" \in Where(m, q) <=> \E h \in Groups : q \in m.units[h].unSortedPods
    BY DEF Where
  <2>11. ASSUME NEW q \in Pods, q \in ui.unSortedPods
         PROVE  "waits" \notin Where(n, q)
    <3>1. GroupOf[q] = g
      BY <1>0, <2>11
    <3>2. ASSUME NEW h \in Groups \ {g}, q \in m.units[h].unSortedPods PROVE FALSE
      BY <3>1, <3>2 DEF MemOK, UnitOK
    <3> QED
      BY <2>6, <3>2
  <2>12. ASSUME NEW q \in Pods, q \in ui.unSortedPods <=> q \in m.units[g].unSortedPods
         PROVE  Shrinks(Where(m, q), Where(n, q)) /\ Stays(Where(m, q), Where(n, q))
    <3>1. CASE q \in ui.unSortedPods
      <4>1. "waits" \in Where(m, q)
        BY <2>10, <2>12, <3>1
      <4>2. Where(n, q) \subseteq (Where(m, q) \ {"waits"}) \union {"ready"}
        BY <2>7, <2>8, <2>9, <2>11, <3>1
      <4> QED
        BY <2>5, <3>1, <4>1, <4>2 DEF Shrinks, Stays
    <3>2. CASE q \notin ui.unSortedPods
      <4>1. "waits" \in Where(n, q) <=> "waits" \in Where(m, q)
        BY <2>6, <2>10, <2>12, <3>2
      <4>2. Where(n, q) = Where(m, q)
        BY SMT, <2>7, <2>8, <2>9, <3>2, <4>1
      <4> QED
        BY <4>2 DEF Shrinks, Stays
    <3> QED
      BY <3>1, <3>2
  <2>13. ASSUME NEW q \in Pods, q \in ui.unSortedPods, Where(m, q) = {}
         PROVE  Where(n, q) = {"ready"}
    BY <2>5, <2>7, <2>9, <2>11, <2>13
  <2> QED
    BY <2>3, <2>4, <2>5, <2>12, <2>13
<1>2. CASE ~readyToBeDispatched(ui)
  <2>1. n = [m EXCEPT !.units[g] = ui]
    BY <1>2 DEF SettleUnit
  <2>3. /\ n.fifo = m.fifo /\ n.sorted = m.sorted /\ n.ready = m.ready
        /\ n.units = [m.units EXCEPT ![g] = ui] /\ n \in MemRecords
    BY SMT, <1>0, <2>1 DEF MemRecords
  <2>4. MemOK(n)
    BY <2>3 DEF MemOK, MemRecords
  <2>5. \A q \in Pods : q \in ui.unSortedPods => "waits" \in Where(n, q)
    BY <2>3 DEF Where, MemRecords
  <2>6. \A q \in Pods : (q \in ui.unSortedPods <=> q \in m.units[g].unSortedPods) =>
          Where(n, q) = Where(m, q)
    BY <2>3 DEF Where, MemRecords
  <2>7. ASSUME NEW q \in Pods, q \in ui.unSortedPods, Where(m, q) = {}
        PROVE  Where(n, q) = {"waits"}
    <3>1. q \notin m.fifo /\ q \notin m.sorted /\ q \notin m.ready
      BY <2>7 DEF Where
    <3> QED
      BY <2>3, <2>5, <2>7, <3>1 DEF Where
  <2> QED
    BY <2>3, <2>4, <2>5, <2>6, <2>7 DEF Shrinks, Stays
<1> QED
  BY <1>1, <1>2

\* GroupOf is the group of a pod in the situation of the behaviour.
LEMMA GroupTypes ==
  ASSUME MemoryOK
  PROVE  /\ \A p \in Pods : GroupOf[p] \in Groups \union {NoGroup}
         /\ Lagging \subseteq Handlers
BY ConstantsAssumption DEF MemoryOK, Scenario, GroupOf, Lagging

\* addPodToPendingOrSortedQueue puts the pod into one queue.
LEMMA AddPlaces ==
  ASSUME NEW m \in MemRecords, MemOK(m), NEW p \in Pods, GroupOf[p] \in Groups \union {NoGroup}
  PROVE  LET n == addPodToPendingOrSortedQueue(m, p) IN
         /\ n \in MemRecords /\ MemOK(n)
         /\ Where(n, p) # {}
         /\ Where(m, p) = {} => \A x, y \in Where(n, p) : x = y
         /\ \A q \in Pods \ {p} : Shrinks(Where(m, q), Where(n, q)) /\ Stays(Where(m, q), Where(n, q))
<1> DEFINE n == addPodToPendingOrSortedQueue(m, p)
<1>1. CASE GroupOf[p] = NoGroup
  <2>1. n = [m EXCEPT !.fifo = m.fifo \union {p}]
    BY <1>1 DEF addPodToPendingOrSortedQueue
  <2>2. /\ n.fifo = m.fifo \union {p} /\ n.sorted = m.sorted /\ n.ready = m.ready
        /\ n.units = m.units /\ n \in MemRecords
    BY <2>1 DEF MemRecords
  <2>3. MemOK(n)
    BY <2>2 DEF MemOK
  <2>4. "fifo" \in Where(n, p)
    BY <2>2 DEF Where
  <2>5. Where(m, p) = {} => Where(n, p) = {"fifo"}
    BY <2>2, <2>4 DEF Where
  <2>6. \A q \in Pods \ {p} : Where(n, q) = Where(m, q)
    BY <2>2 DEF Where
  <2> QED
    BY <2>2, <2>3, <2>4, <2>5, <2>6 DEF Shrinks, Stays
<1>2. CASE GroupOf[p] # NoGroup
  <2> DEFINE g == GroupOf[p]
             ui == [m.units[g] EXCEPT !.unSortedPods = m.units[g].unSortedPods \union {p},
                                      !.pods = m.units[g].pods \union {p}]
  <2>1. g \in Groups /\ n = SettleUnit(m, g, ui)
    BY <1>2 DEF addPodToPendingOrSortedQueue, AddUnSortedPodInfo
  <2>2. m.units[g] \in UnitInfos /\ UnitOK(g, m.units[g])
    BY <2>1 DEF MemOK
  <2>3. /\ m.units[g].unSortedPods \union {p} \in SUBSET Pods
        /\ m.units[g].pods \union {p} \in SUBSET Pods
    BY <2>2 DEF UnitInfos
  <2>4. /\ ui \in UnitInfos /\ ui.unSortedPods = m.units[g].unSortedPods \union {p}
        /\ ui.pods = m.units[g].pods \union {p}
    BY <2>2, <2>3 DEF UnitInfos
  <2> HIDE DEF ui
  <2>5. UnitOK(g, ui) /\ p \in ui.unSortedPods
        /\ \A q \in Pods \ {p} : q \in ui.unSortedPods <=> q \in m.units[g].unSortedPods
    BY <2>2, <2>4 DEF UnitOK
  <2> HIDE DEF n, g
  <2>6. /\ n \in MemRecords /\ MemOK(n) /\ Where(n, p) # {}
        /\ Where(m, p) = {} => Where(n, p) \in {{"waits"}, {"ready"}}
        /\ \A q \in Pods \ {p} : Shrinks(Where(m, q), Where(n, q)) /\ Stays(Where(m, q), Where(n, q))
    BY SMT, <2>1, <2>5, SettlePlaces
  <2> QED
    BY <2>6 DEF n
<1> QED
  BY <1>1, <1>2

\* DeleteUnSortedPodInfo and the removal from the FIFO concern one pod.
LEMMA RemovePlaces ==
  ASSUME NEW m \in MemRecords, MemOK(m), NEW p \in Pods, NEW g \in Groups \union {NoGroup}
  PROVE  LET n == DeleteUnSortedPodInfo(m, g, p) IN
         /\ n \in MemRecords /\ MemOK(n)
         /\ Where(n, p) \subseteq Where(m, p)
         /\ \A q \in Pods \ {p} : Where(n, q) = Where(m, q)
<1> DEFINE n == DeleteUnSortedPodInfo(m, g, p)
<1>1. CASE g = NoGroup
  <2>1. n = m
    BY <1>1 DEF DeleteUnSortedPodInfo
  <2> QED
    BY <2>1
<1>2. CASE g # NoGroup
  <2> DEFINE ui == [m.units[g] EXCEPT !.unSortedPods = m.units[g].unSortedPods \ {p}]
             us == [m.units EXCEPT ![g] = ui]
  <2>1. g \in Groups /\ m.units[g] \in UnitInfos /\ UnitOK(g, m.units[g])
    BY <1>2 DEF MemOK
  <2>2. /\ ui \in UnitInfos /\ ui.unSortedPods = m.units[g].unSortedPods \ {p}
        /\ ui.pods = m.units[g].pods
    <3>1. m.units[g].unSortedPods \ {p} \in SUBSET Pods
      BY <2>1 DEF UnitInfos
    <3> QED
      BY <2>1, <3>1 DEF UnitInfos
  <2>3. UnitOK(g, ui)
    BY <2>1, <2>2 DEF UnitOK
  <2>4. n = [m EXCEPT !.units = us]
    BY <1>2, <2>1 DEF DeleteUnSortedPodInfo, MemRecords
  <2> HIDE DEF ui
  <2>5. us \in [Groups -> UnitInfos] /\ \A h \in Groups : us[h] = IF h = g THEN ui ELSE m.units[h]
    BY <2>1, <2>2 DEF MemRecords
  <2> HIDE DEF us, n
  <2>6. /\ n.fifo = m.fifo /\ n.sorted = m.sorted /\ n.ready = m.ready /\ n.units = us
        /\ n \in MemRecords
    BY <2>4, <2>5 DEF MemRecords
  <2>7. MemOK(n)
    BY <2>3, <2>5, <2>6 DEF MemOK
  <2>8. Where(n, p) \subseteq Where(m, p)
    BY <2>2, <2>5, <2>6 DEF Where
  <2>9. \A q \in Pods \ {p} : Where(n, q) = Where(m, q)
    BY <2>1, <2>2, <2>5, <2>6 DEF Where
  <2> QED
    BY <2>6, <2>7, <2>8, <2>9 DEF n
<1> QED
  BY <1>1, <1>2

LEMMA DropPlaces ==
  ASSUME NEW m \in MemRecords, MemOK(m), NEW p \in Pods, NEW n,
         n = [m EXCEPT !.fifo = @ \ {p}] \/ n = [m EXCEPT !.sorted = @ \ {p}]
  PROVE  /\ n \in MemRecords /\ MemOK(n) /\ Where(n, p) \subseteq Where(m, p)
         /\ \A q \in Pods \ {p} : Where(n, q) = Where(m, q)
<1>1. CASE n = [m EXCEPT !.fifo = @ \ {p}]
  <2>1. /\ n.fifo = m.fifo \ {p} /\ n.sorted = m.sorted /\ n.ready = m.ready
        /\ n.units = m.units /\ n \in MemRecords
    BY <1>1 DEF MemRecords
  <2> QED
    BY <2>1 DEF MemOK, Where
<1>2. CASE n = [m EXCEPT !.sorted = @ \ {p}]
  <2>1. /\ n.fifo = m.fifo /\ n.sorted = m.sorted \ {p} /\ n.ready = m.ready
        /\ n.units = m.units /\ n \in MemRecords
    BY <1>2 DEF MemRecords
  <2> QED
    BY <2>1 DEF MemOK, Where
<1> QED
  BY <1>1, <1>2

\* The handler of pending pods: a pod that becomes pending is queued, one
\* that stays so is not lost, one that is no longer pending is only removed.
LEMMA PendingPlaces ==
  ASSUME NEW m \in MemRecords, MemOK(m), NEW p \in Pods, GroupOf[p] \in Groups \union {NoGroup},
         NEW old, NEW new
  PROVE  LET n == PendingHandler(m, p, old, new) IN
         /\ n \in MemRecords /\ MemOK(n)
         /\ PendingPodOfGodel(new) => Where(n, p) # {}
         /\ PendingPodOfGodel(new) /\ Where(m, p) = {} => \A x, y \in Where(n, p) : x = y
         /\ ~PendingPodOfGodel(new) => Where(n, p) \subseteq Where(m, p)
         /\ \A q \in Pods \ {p} : Shrinks(Where(m, q), Where(n, q)) /\ Stays(Where(m, q), Where(n, q))
<1> DEFINE n == PendingHandler(m, p, old, new)
<1>1. CASE PendingPodOfGodel(new) /\ ~PendingPodOfGodel(old)
  <2>1. n = addPodToPendingOrSortedQueue(m, p)
    BY <1>1 DEF PendingHandler, Filtered
  <2> QED
    BY SMT, <1>1, <2>1, AddPlaces
<1>2. CASE PendingPodOfGodel(new) /\ PendingPodOfGodel(old)
  <2>1. n = updatePodInPendingOrSortedQueue(m, p)
    BY <1>2 DEF PendingHandler, Filtered
  <2>2. CASE p \in m.sorted
    <3>1. n = m /\ "sorted" \in Where(m, p)
      BY <2>1, <2>2 DEF updatePodInPendingOrSortedQueue, Where
    <3> QED
      BY <1>2, <3>1 DEF Shrinks, Stays
  <2>3. CASE p \notin m.sorted
    <3> DEFINE m1 == [m EXCEPT !.fifo = @ \ {p}]
               m2 == DeleteUnSortedPodInfo(m1, GroupOf[p], p)
    <3>1. n = addPodToPendingOrSortedQueue(m2, p)
      BY <2>1, <2>3 DEF updatePodInPendingOrSortedQueue
    <3>0. m1 = [m EXCEPT !.fifo = @ \ {p}]
      OBVIOUS
    <3> HIDE DEF m1
    <3>2. /\ m1 \in MemRecords /\ MemOK(m1) /\ Where(m1, p) \subseteq Where(m, p)
          /\ \A q \in Pods \ {p} : Where(m1, q) = Where(m, q)
      BY SMT, <3>0, DropPlaces
    <3>3. /\ m2 \in MemRecords /\ MemOK(m2) /\ Where(m2, p) \subseteq Where(m1, p)
          /\ \A q \in Pods \ {p} : Where(m2, q) = Where(m1, q)
      BY SMT, <3>2, RemovePlaces
    <3> HIDE DEF m2, n
    <3>4. /\ n \in MemRecords /\ MemOK(n) /\ Where(n, p) # {}
          /\ Where(m2, p) = {} => \A x, y \in Where(n, p) : x = y
          /\ \A q \in Pods \ {p} : Shrinks(Where(m2, q), Where(n, q)) /\ Stays(Where(m2, q), Where(n, q))
      BY <3>1, <3>3, AddPlaces
    <3>5. Where(m, p) = {} => Where(m2, p) = {}
      BY <3>2, <3>3
    <3>6. \A q \in Pods \ {p} : Where(m2, q) = Where(m, q)
      BY <3>2, <3>3
    <3>7. \A q \in Pods \ {p} : Shrinks(Where(m, q), Where(n, q)) /\ Stays(Where(m, q), Where(n, q))
      BY <3>4, <3>6
    <3> QED
      BY <1>2, <3>4, <3>5, <3>7 DEF n
  <2> QED
    BY <2>2, <2>3
<1>3. CASE ~PendingPodOfGodel(new) /\ PendingPodOfGodel(old)
  <2>1. n = deletePodFromPendingOrSortedQueue(m, p)
    BY <1>3 DEF PendingHandler, Filtered
  <2>2. \/ n = [m EXCEPT !.sorted = @ \ {p}]
        \/ n = DeleteUnSortedPodInfo(m, GroupOf[p], p)
        \/ n = [m EXCEPT !.fifo = @ \ {p}]
    BY <2>1 DEF deletePodFromPendingOrSortedQueue
  <2> HIDE DEF n
  <2>3. /\ n \in MemRecords /\ MemOK(n) /\ Where(n, p) \subseteq Where(m, p)
        /\ \A q \in Pods \ {p} : Where(n, q) = Where(m, q)
    <3>1. CASE n = [m EXCEPT !.sorted = @ \ {p}]
      BY SMT, <3>1, DropPlaces
    <3>2. CASE n = DeleteUnSortedPodInfo(m, GroupOf[p], p)
      BY SMT, <3>2, RemovePlaces
    <3>3. CASE n = [m EXCEPT !.fifo = @ \ {p}]
      BY SMT, <3>3, DropPlaces
    <3> QED
      BY <2>2, <3>1, <3>2, <3>3
  <2> QED
    BY <1>3, <2>3 DEF Shrinks, Stays, n
<1>4. CASE ~PendingPodOfGodel(new) /\ ~PendingPodOfGodel(old)
  <2>1. n = m
    BY <1>4 DEF PendingHandler, Filtered
  <2> QED
    BY <1>4, <2>1 DEF Shrinks, Stays
<1> QED
  BY <1>1, <1>2, <1>3, <1>4

\* DropEmpty forgets a unit that holds no pod.
LEMMA DropEmptyUnit ==
  ASSUME NEW g \in Groups, NEW ui, UnitOK(g, ui)
  PROVE  UnitOK(g, DropEmpty(ui)) /\ DropEmpty(ui).unSortedPods = ui.unSortedPods
<1>1. UnitOK(g, NewUnitInfo) /\ NewUnitInfo.unSortedPods = {}
  BY DEF UnitOK, NewUnitInfo, UnitInfos
<1>2. CASE ui.pods = {} /\ ui.pg = "none"
  <2>1. ui.unSortedPods = {}
    BY <1>2 DEF UnitOK
  <2> QED
    BY <1>1, <1>2, <2>1 DEF DropEmpty
<1>3. CASE ~(ui.pods = {} /\ ui.pg = "none")
  BY <1>3 DEF DropEmpty
<1> QED
  BY <1>2, <1>3

\* A unit is written and no waiting pod but p is concerned.
LEMMA UnitPlaces ==
  ASSUME NEW m \in MemRecords, MemOK(m), NEW g \in Groups, NEW ui, UnitOK(g, ui), NEW p,
         \A q \in Pods \ {p} : q \in ui.unSortedPods <=> q \in m.units[g].unSortedPods,
         p \in ui.unSortedPods => p \in m.units[g].unSortedPods,
         NEW n, n = [m EXCEPT !.units[g] = ui]
  PROVE  /\ n \in MemRecords /\ MemOK(n)
         /\ \A q \in Pods : Where(n, q) \subseteq Where(m, q)
         /\ \A q \in Pods \ {p} : Where(n, q) = Where(m, q)
<1>0. ui \in UnitInfos
  BY DEF UnitOK
<1>1. /\ n.fifo = m.fifo /\ n.sorted = m.sorted /\ n.ready = m.ready
      /\ n.units = [m.units EXCEPT ![g] = ui] /\ n \in MemRecords
  BY <1>0 DEF MemRecords
<1>2. n.units \in [Groups -> UnitInfos] /\ \A h \in Groups : n.units[h] = IF h = g THEN ui ELSE m.units[h]
  BY <1>0, <1>1 DEF MemRecords
<1>3. MemOK(n)
  BY <1>1, <1>2 DEF MemOK
<1>4. \A q \in Pods \ {p} : Where(n, q) = Where(m, q)
  BY SMT, <1>1, <1>2 DEF Where
<1>5. \A q \in Pods : Where(n, q) \subseteq Where(m, q)
  BY SMT, <1>1, <1>2 DEF Where
<1> QED
  BY <1>1, <1>3, <1>4, <1>5

\* The handler of unitInfos: it moves pods on when a unit becomes complete,
\* and takes a deleted pod out of its unit.
LEMMA UnitsPlaces ==
  ASSUME NEW m \in MemRecords, MemOK(m), NEW p \in Pods, GroupOf[p] \in Groups \union {NoGroup},
         NEW old, NEW new
  PROVE  LET n == UnitsHandler(m, p, old, new) IN
         /\ n \in MemRecords /\ MemOK(n)
         /\ \A q \in Pods : Shrinks(Where(m, q), Where(n, q))
         /\ \A q \in Pods : q # p \/ Exists(new) \/ GroupOf[p] = NoGroup =>
              Stays(Where(m, q), Where(n, q))
<1> DEFINE n == UnitsHandler(m, p, old, new)
           g == GroupOf[p]
<1>1. CASE g = NoGroup \/ (Exists(old) /\ Exists(new))
  <2>1. n = m
    BY <1>1 DEF UnitsHandler
  <2> QED
    BY <2>1 DEF Shrinks, Stays
<1>2. CASE g # NoGroup /\ ~(Exists(old) /\ Exists(new)) /\ Exists(new)
  <2> DEFINE ui == [m.units[g] EXCEPT !.pods = m.units[g].pods \union {p}]
  <2>1. g \in Groups /\ m.units[g] \in UnitInfos /\ UnitOK(g, m.units[g])
    BY <1>2 DEF MemOK
  <2>2. n = SettleUnit(m, g, ui)
    BY <1>2 DEF UnitsHandler, AddPodKey
  <2>3. /\ ui \in UnitInfos /\ ui.pods = m.units[g].pods \union {p}
        /\ ui.unSortedPods = m.units[g].unSortedPods
    <3>1. m.units[g].pods \union {p} \in SUBSET Pods
      BY <2>1 DEF UnitInfos
    <3> QED
      BY <2>1, <3>1 DEF UnitInfos
  <2> HIDE DEF ui
  <2>4. UnitOK(g, ui)
    BY <2>1, <2>3 DEF UnitOK
  <2> HIDE DEF n, g
  <2>5. /\ n \in MemRecords /\ MemOK(n)
        /\ \A q \in Pods : (q \in ui.unSortedPods <=> q \in m.units[g].unSortedPods) =>
              Shrinks(Where(m, q), Where(n, q)) /\ Stays(Where(m, q), Where(n, q))
    BY <2>1, <2>2, <2>4, SettlePlaces
  <2> QED
    BY <2>3, <2>5 DEF n
<1>3. CASE g # NoGroup /\ ~(Exists(old) /\ Exists(new)) /\ ~Exists(new)
  <2> DEFINE ui == [m.units[g] EXCEPT !.pods = m.units[g].pods \ {p},
                                      !.unSortedPods = m.units[g].unSortedPods \ {p}]
             un == DropEmpty(ui)
  <2>1. g \in Groups /\ m.units[g] \in UnitInfos /\ UnitOK(g, m.units[g])
    BY <1>3 DEF MemOK
  <2>2. n = [m EXCEPT !.units[g] = un]
    BY <1>3, <2>1 DEF UnitsHandler, DeletePodKey, MemRecords
  <2>3. /\ ui \in UnitInfos /\ ui.pods = m.units[g].pods \ {p}
        /\ ui.unSortedPods = m.units[g].unSortedPods \ {p}
    <3>1. m.units[g].pods \ {p} \in SUBSET Pods /\ m.units[g].unSortedPods \ {p} \in SUBSET Pods
      BY <2>1 DEF UnitInfos
    <3> QED
      BY <2>1, <3>1 DEF UnitInfos
  <2> HIDE DEF ui
  <2>4. UnitOK(g, ui)
    BY <2>1, <2>3 DEF UnitOK
  <2>5. UnitOK(g, un) /\ un.unSortedPods = m.units[g].unSortedPods \ {p}
    BY <2>1, <2>3, <2>4, DropEmptyUnit
  <2> HIDE DEF un, n, g
  <2>6. /\ n \in MemRecords /\ MemOK(n)
        /\ \A q \in Pods : Where(n, q) \subseteq Where(m, q)
        /\ \A q \in Pods \ {p} : Where(n, q) = Where(m, q)
    <3>1. /\ \A q \in Pods \ {p} : q \in un.unSortedPods <=> q \in m.units[g].unSortedPods
          /\ p \in un.unSortedPods => p \in m.units[g].unSortedPods
      BY <2>5
    <3> QED
      BY SMT, <2>1, <2>2, <2>5, <3>1, UnitPlaces
  <2> QED
    BY <1>3, <2>6 DEF Shrinks, Stays, n, g
<1> QED
  BY <1>1, <1>2, <1>3

\* The queues after a step.
LEMMA MemKept ==
  ASSUME Steady, NEW n \in MemRecords, MemOK(n), SetMem(n)
  PROVE  MemOK(Mem)' /\ \A q \in Pods : Where(Mem, q)' = Where(n, q)
<1>1. /\ fifo' = n.fifo /\ sorted' = n.sorted /\ ready' = n.ready /\ units' = n.units
      /\ GroupOf' = GroupOf
  BY DEF SetMem, Steady, GroupOf
<1>2. /\ Mem'.fifo = n.fifo /\ Mem'.sorted = n.sorted /\ Mem'.ready = n.ready
      /\ Mem'.units = n.units
  BY <1>1 DEF Mem
<1>3. MemOK(Mem)'
  BY <1>1, <1>2 DEF MemOK, UnitOK
<1>4. \A q \in Pods : Where(Mem, q)' = Where(n, q)
  BY <1>2 DEF Where
<1> QED
  BY <1>3, <1>4

LEMMA MemNow ==
  ASSUME MemOK(Mem)
  PROVE  Mem \in MemRecords
BY DEF MemOK, Mem, MemRecords

\* Shrinking twice, and what it does to a pod in one place.
LEMMA ShrinksTwice ==
  ASSUME NEW A, NEW B, NEW C, Shrinks(A, B), Shrinks(B, C)
  PROVE  Shrinks(A, C)
BY DEF Shrinks

LEMMA ShrinksOne ==
  ASSUME NEW A, NEW B, Shrinks(A, B)
  PROVE  /\ A = {} => B = {}
         /\ (\A x, y \in A : x = y) => \A x, y \in B : x = y
BY DEF Shrinks

\* What the handlers hs of an event of pod p do to the places of the pods.
LEMMA NotifiedPlaces ==
  ASSUME MemoryOK, Steady, NEW p \in Pods, NEW old, NEW new \in Objects,
         NEW hs, Notified(hs, p, old, new)
  PROVE  /\ MemOK(Mem)'
         /\ \A q \in Pods \ {p} : /\ Shrinks(Where(Mem, q), Where(Mem, q)')
                                  /\ Stays(Where(Mem, q), Where(Mem, q)')
         /\ "pending" \notin hs \/ ~PendingPodOfGodel(new) => Shrinks(Where(Mem, p), Where(Mem, p)')
         /\ "pending" \in hs /\ PendingPodOfGodel(new) /\ Where(Mem, p) = {} =>
              \A x, y \in Where(Mem, p)' : x = y
         /\ "pending" \in hs /\ PendingPodOfGodel(new) => Where(Mem, p)' # {}
         /\ "pending" \notin hs /\ (Exists(new) \/ "units" \notin hs \/ GroupOf[p] = NoGroup) =>
              Stays(Where(Mem, p), Where(Mem, p)')
<1> DEFINE m == IF "pending" \in hs THEN PendingHandler(Mem, p, old, new) ELSE Mem
           n == IF "units" \in hs THEN UnitsHandler(m, p, old, new) ELSE m
<1>1. SetMem(n)
  BY DEF Notified
<1>2. Mem \in MemRecords /\ MemOK(Mem) /\ GroupOf[p] \in Groups \union {NoGroup}
  BY MemNow, GroupTypes DEF MemoryOK
<1>3. CASE "pending" \in hs
  <2>1. m = PendingHandler(Mem, p, old, new)
    BY <1>3
  <2> HIDE DEF m
  <2>2. /\ m \in MemRecords /\ MemOK(m)
        /\ PendingPodOfGodel(new) => Where(m, p) # {}
        /\ PendingPodOfGodel(new) /\ Where(Mem, p) = {} => \A x, y \in Where(m, p) : x = y
        /\ ~PendingPodOfGodel(new) => Where(m, p) \subseteq Where(Mem, p)
        /\ \A q \in Pods \ {p} : Shrinks(Where(Mem, q), Where(m, q)) /\ Stays(Where(Mem, q), Where(m, q))
    BY SMT, <1>2, <2>1, PendingPlaces
  <2>3. /\ n \in MemRecords /\ MemOK(n)
        /\ \A q \in Pods : Shrinks(Where(m, q), Where(n, q))
        /\ \A q \in Pods : q # p \/ Exists(new) => Stays(Where(m, q), Where(n, q))
    <3>1. CASE "units" \in hs
      <4>1. n = UnitsHandler(m, p, old, new)
        BY <3>1
      <4> HIDE DEF n
      <4> QED
        BY <1>2, <2>2, <4>1, UnitsPlaces
    <3>2. CASE "units" \notin hs
      BY <2>2, <3>2 DEF Shrinks, Stays
    <3> QED
      BY <3>1, <3>2
  <2> HIDE DEF n
  <2>4. MemOK(Mem)' /\ \A q \in Pods : Where(Mem, q)' = Where(n, q)
    BY <1>1, <2>3, MemKept
  <2>5. \A q \in Pods \ {p} : Shrinks(Where(Mem, q), Where(n, q)) /\ Stays(Where(Mem, q), Where(n, q))
    <3> SUFFICES ASSUME NEW q \in Pods \ {p}
                 PROVE  Shrinks(Where(Mem, q), Where(n, q)) /\ Stays(Where(Mem, q), Where(n, q))
      OBVIOUS
    <3>1. Shrinks(Where(Mem, q), Where(m, q)) /\ Shrinks(Where(m, q), Where(n, q))
      BY <2>2, <2>3
    <3>2. Stays(Where(Mem, q), Where(m, q)) /\ Stays(Where(m, q), Where(n, q))
      BY <2>2, <2>3
    <3>3. Shrinks(Where(Mem, q), Where(n, q))
      BY <3>1, ShrinksTwice
    <3> QED
      BY <3>2, <3>3 DEF Stays
  <2>6. ~PendingPodOfGodel(new) => Shrinks(Where(Mem, p), Where(n, p))
    <3>1. ~PendingPodOfGodel(new) => Shrinks(Where(Mem, p), Where(m, p))
      BY <2>2 DEF Shrinks
    <3>2. Shrinks(Where(m, p), Where(n, p))
      BY <2>3
    <3> QED
      BY <3>1, <3>2, ShrinksTwice
  <2>7. PendingPodOfGodel(new) => Where(n, p) # {}
    <3>1. PendingPodOfGodel(new) => Exists(new)
      BY ObjectKinds
    <3> QED
      BY <2>2, <2>3, <3>1 DEF Stays
  <2>8. PendingPodOfGodel(new) /\ Where(Mem, p) = {} => \A x, y \in Where(n, p) : x = y
    <3>1. Shrinks(Where(m, p), Where(n, p))
      BY <2>3
    <3> QED
      BY <2>2, <3>1, ShrinksOne
  <2> QED
    BY <1>3, <2>4, <2>5, <2>6, <2>7, <2>8
<1>4. CASE "pending" \notin hs
  <2>1. m = Mem
    BY <1>4
  <2> HIDE DEF m
  <2>2. /\ n \in MemRecords /\ MemOK(n)
        /\ \A q \in Pods : Shrinks(Where(Mem, q), Where(n, q))
        /\ \A q \in Pods : q # p \/ Exists(new) \/ "units" \notin hs \/ GroupOf[p] = NoGroup =>
             Stays(Where(Mem, q), Where(n, q))
    <3>1. CASE "units" \in hs
      <4>1. n = UnitsHandler(Mem, p, old, new)
        BY <2>1, <3>1
      <4> HIDE DEF n
      <4> QED
        BY <1>2, <3>1, <4>1, UnitsPlaces
    <3>2. CASE "units" \notin hs
      BY <1>2, <2>1, <3>2 DEF Shrinks, Stays
    <3> QED
      BY <3>1, <3>2
  <2> HIDE DEF n
  <2>4. MemOK(Mem)' /\ \A q \in Pods : Where(Mem, q)' = Where(n, q)
    BY <1>1, <2>2, MemKept
  <2> QED
    BY <1>4, <2>2, <2>4
<1> QED
  BY <1>3, <1>4

-----------------------------------------------------------------------------
(* The places of a pod after a step.                                        *)

\* The places of a pod but for the events under way.
Held(p) == Where(Mem, p) \union InHands(p)

PodOK(p) ==
  /\ p \notin excused => OnePlace(p) /\ DeletedForGood(p)
  /\ ~Overtaken(p) => Kept(p)

HeldNames == {"fifo", "sorted", "ready", "waits", "unit", "pending", "task"}

HeldTable ==
  \A p : /\ Held(p) \subseteq HeldNames
         /\ "fifo" \in Held(p) <=> p \in fifo
         /\ "sorted" \in Held(p) <=> p \in sorted
         /\ "ready" \in Held(p) <=> p \in ready
         /\ "waits" \in Held(p) <=> \E g \in Groups : p \in units[g].unSortedPods
         /\ "unit" \in Held(p) <=> hand["unit"] = p
         /\ "pending" \in Held(p) <=> hand["pending"] = p
         /\ "task" \in Held(p) <=> \E i \in Slots : task[i].pod = p

LEMMA HeldTables == HeldTable /\ HeldTable'
<1>1. HeldTable
  <2> SUFFICES ASSUME NEW p
               PROVE  /\ Held(p) \subseteq HeldNames
                      /\ "fifo" \in Held(p) <=> p \in fifo
                      /\ "sorted" \in Held(p) <=> p \in sorted
                      /\ "ready" \in Held(p) <=> p \in ready
                      /\ "waits" \in Held(p) <=> \E g \in Groups : p \in units[g].unSortedPods
                      /\ "unit" \in Held(p) <=> hand["unit"] = p
                      /\ "pending" \in Held(p) <=> hand["pending"] = p
                      /\ "task" \in Held(p) <=> \E i \in Slots : task[i].pod = p
    BY DEF HeldTable
  <2>1. Held(p) \subseteq HeldNames
    BY DEF Held, Where, InHands, HeldNames
  <2>2. "fifo" \in Held(p) <=> p \in fifo
    BY DEF Held, Where, InHands, Mem
  <2>3. "sorted" \in Held(p) <=> p \in sorted
    BY DEF Held, Where, InHands, Mem
  <2>4. "ready" \in Held(p) <=> p \in ready
    BY DEF Held, Where, InHands, Mem
  <2>5. "waits" \in Held(p) <=> \E g \in Groups : p \in units[g].unSortedPods
    BY DEF Held, Where, InHands, Mem
  <2>6. "task" \in Held(p) <=> \E i \in Slots : task[i].pod = p
    BY DEF Held, Where, InHands
  <2>7. "unit" \in Held(p) <=> hand["unit"] = p
    BY DEF Held, Where, InHands
  <2>8. "pending" \in Held(p) <=> hand["pending"] = p
    BY DEF Held, Where, InHands
  <2> QED
    BY <2>1, <2>2, <2>3, <2>4, <2>5, <2>6, <2>7, <2>8
<1> QED
  BY <1>1, PTL

\* A pod that no container gains or loses stays in its places.
LEMMA HeldSame ==
  ASSUME NEW q,
         q \in fifo' <=> q \in fifo, q \in sorted' <=> q \in sorted, q \in ready' <=> q \in ready,
         (\E g \in Groups : q \in units'[g].unSortedPods) <=>
           (\E g \in Groups : q \in units[g].unSortedPods),
         hand'["unit"] = q <=> hand["unit"] = q, hand'["pending"] = q <=> hand["pending"] = q,
         (\E i \in Slots : task'[i].pod = q) <=> (\E i \in Slots : task[i].pod = q)
  PROVE  Held(q)' = Held(q)
<1>1. /\ "fifo" \in Held(q)' <=> "fifo" \in Held(q)
      /\ "sorted" \in Held(q)' <=> "sorted" \in Held(q)
      /\ "ready" \in Held(q)' <=> "ready" \in Held(q)
      /\ "waits" \in Held(q)' <=> "waits" \in Held(q)
      /\ "unit" \in Held(q)' <=> "unit" \in Held(q)
      /\ "pending" \in Held(q)' <=> "pending" \in Held(q)
      /\ "task" \in Held(q)' <=> "task" \in Held(q)
  BY HeldTables DEF HeldTable
<1>2. Held(q) \subseteq HeldNames /\ Held(q)' \subseteq HeldNames
  BY HeldTables DEF HeldTable
<1> QED
  BY SMTT(30), <1>1, <1>2 DEF HeldNames

HandOK == hand \in [{"unit", "pending"} -> Pods \union {NoPod}]

TrackedHeld == \A p : HandOK => (Tracked(p) <=> Held(p) # {})

LEMMA TrackedIsHeld == TrackedHeld /\ TrackedHeld'
<1>1. TrackedHeld
  <2> SUFFICES ASSUME NEW p, HandOK
               PROVE  Tracked(p) <=> Held(p) # {}
    BY DEF TrackedHeld
  <2>1. (\E l \in DOMAIN hand : hand[l] = p) <=> hand["unit"] = p \/ hand["pending"] = p
    BY DEF HandOK
  <2>2. Held(p) # {} <=> \E x \in HeldNames : x \in Held(p)
    BY HeldTables DEF HeldTable
  <2> QED
    BY SMT, <2>1, <2>2, HeldTables DEF HeldTable, Tracked, HeldNames
<1> QED
  BY <1>1, PTL

\* Until an event ends its waiting, a pod is pending for the lister and at
\* the API server.
LEMMA WaitingIsPending ==
  ASSUME ObjectsOK, Lagging \subseteq Handlers, NEW p \in Pods,
         PendingPodOfGodel(View(p)),
         \A i \in 1 .. Len(watch[p]) : PendingPodOfGodel(watch[p][i]),
         \A i \in 1 .. Len(Told(p)) : PendingPodOfGodel(Told(p)[i][2])
  PROVE  PendingPodOfGodel(lister[p]) /\ PendingPodOfGodel(api[p])
<1>1. PendingPodOfGodel(lister[p])
  <2>1. CASE Told(p) = <<>>
    BY <2>1 DEF View
  <2>2. CASE Told(p) # <<>>
    <3>1. /\ "pending" \in Lagging /\ Told(p) = inbox["pending"][p]
          /\ Told(p) \in Seq(Objects \X Objects) /\ InOrder(Told(p), lister[p])
      BY <2>2 DEF Told, ObjectsOK
    <3>2. Len(Told(p)) \in 1 .. Len(Told(p))
      BY SMT, <2>2, <3>1
    <3>3. Told(p)[Len(Told(p))][2] = lister[p]
      BY <2>2, <3>1 DEF InOrder
    <3> QED
      BY <3>2, <3>3
  <2> QED
    BY <2>1, <2>2
<1>2. PendingPodOfGodel(api[p])
  <2>1. api[p] = Latest(p) /\ watch[p] \in Seq(Objects)
    BY DEF ObjectsOK
  <2>2. CASE watch[p] = <<>>
    BY <1>1, <2>1, <2>2 DEF Latest
  <2>3. CASE watch[p] # <<>>
    <3>1. Len(watch[p]) \in 1 .. Len(watch[p])
      BY SMT, <2>1, <2>3
    <3> QED
      BY <2>1, <2>3, <3>1 DEF Latest
  <2> QED
    BY <2>2, <2>3
<1> QED
  BY <1>1, <1>2

\* No object and no event of pod p changes.
PodSame(p) ==
  /\ api'[p] = api[p] /\ watch'[p] = watch[p] /\ lister'[p] = lister[p]
  /\ \A h \in Lagging : inbox'[h][p] = inbox[h][p]
  /\ p \in excused' <=> p \in excused

\* A step that changes no object keeps what is said of a pod if it moves the
\* pod from one place to another, and lets it go only when it is not pending.
LEMMA SpotsKept ==
  ASSUME DispatchInv, Steady, MemoryOK', NEW p \in Pods, PodSame(p),
         p \notin excused => /\ Held(p) = {} => Held(p)' = {}
                             /\ (\A x, y \in Held(p) : x = y) => \A x, y \in Held(p)' : x = y
                             /\ \A i, j \in Slots : task'[i].pod = p /\ task'[j].pod = p => i = j,
         PendingPodOfGodel(lister[p]) /\ PendingPodOfGodel(api[p]) => Stays(Held(p), Held(p)')
  PROVE  PodOK(p)'
<1>1. Lagging' = Lagging /\ GroupOf' = GroupOf
  BY DEF Steady, Lagging, GroupOf
<1>2. /\ Told(p)' = Told(p) /\ View(p)' = View(p) /\ (PendingEvent(p))' = PendingEvent(p)
      /\ (OneEvent(p))' = OneEvent(p) /\ (DeletedForGood(p))' = DeletedForGood(p)
      /\ (Overtaken(p))' = Overtaken(p)
  BY <1>1 DEF PodSame, Told, View, PendingEvent, OneEvent, DeletedForGood, Overtaken
<1>3. ASSUME p \notin excused
      PROVE  OnePlace(p)' /\ DeletedForGood(p)'
  <2>1. OnePlace(p) /\ DeletedForGood(p)
    BY <1>3 DEF DispatchInv
  <2> DEFINE E == IF PendingEvent(p) THEN {"event"} ELSE {}
  <2>2. Spots(p) = Held(p) \union E /\ Spots(p)' = Held(p)' \union E
    BY <1>2 DEF Spots, Held
  <2>3. "event" \notin Held(p)
    BY DEF Held, Where, InHands
  <2>4. E \subseteq {"event"}
    OBVIOUS
  <2> HIDE DEF E
  <2>5. \A x, y \in Held(p) : x = y
    BY <2>1, <2>2 DEF OnePlace
  <2>6. /\ Held(p) = {} => Held(p)' = {}
        /\ \A x, y \in Held(p)' : x = y
    BY <1>3, <2>5
  <2>7. \A x, y \in Spots(p)' : x = y
    <3>1. CASE Held(p) = {}
      <4>1. Spots(p)' = E
        BY <2>2, <2>6, <3>1
      <4> QED
        BY <2>4, <4>1
    <3>2. CASE Held(p) # {}
      <4>1. PICK h \in Held(p) : TRUE
        BY <3>2
      <4>2. \A e \in E : e = h
        BY <2>1, <2>2, <4>1 DEF OnePlace
      <4>3. E = {}
        BY <2>3, <2>4, <4>1, <4>2
      <4> QED
        BY <2>2, <2>6, <4>3
    <3> QED
      BY <3>1, <3>2
  <2>8. Spots(p)' # {} => PendingPod(api'[p]) \/ ~Exists(api'[p])
    <3>1. Spots(p)' # {} => Spots(p) # {}
      BY <2>2, <2>6
    <3> QED
      BY <2>1, <3>1 DEF OnePlace, PodSame
  <2>9. \A i, j \in Slots : task'[i].pod = p /\ task'[j].pod = p => i = j
    BY <1>3
  <2> QED
    BY <1>2, <2>1, <2>7, <2>8, <2>9 DEF OnePlace
<1>4. ASSUME ~Overtaken(p)
      PROVE  Kept(p)'
  <2>1. Kept(p) /\ ObjectsOK /\ MemoryOK
    BY <1>4 DEF DispatchInv
  <2> SUFFICES ASSUME PendingPodOfGodel(View(p)),
                      \A i \in 1 .. Len(watch[p]) : PendingPodOfGodel(watch[p][i]),
                      \A i \in 1 .. Len(Told(p)) : PendingPodOfGodel(Told(p)[i][2])
               PROVE  Tracked(p)'
    BY <1>2 DEF Kept, PodSame
  <2>2. PendingPodOfGodel(lister[p]) /\ PendingPodOfGodel(api[p])
    BY <2>1, GroupTypes, WaitingIsPending
  <2>3. Tracked(p)
    BY <2>1 DEF Kept
  <2>4. Held(p) # {}
    BY <2>1, <2>3, TrackedIsHeld DEF TrackedHeld, HandOK, MemoryOK
  <2>5. Held(p)' # {}
    BY <2>2, <2>4 DEF Stays
  <2>6. Tracked(p)' <=> Held(p)' # {}
    BY TrackedIsHeld DEF TrackedHeld, HandOK, MemoryOK
  <2> QED
    BY <2>5, <2>6
<1> QED
  BY <1>2, <1>3, <1>4 DEF PodOK, PodSame


-----------------------------------------------------------------------------
(* The loops and the dispatching goroutines.                                *)

Quietly == /\ api' = api /\ watch' = watch /\ lister' = lister /\ inbox' = inbox
           /\ excused' = excused /\ Steady

LEMMA OneTask ==
  ASSUME DispatchInv, NEW p \in Pods, p \notin excused
  PROVE  /\ \A x, y \in Held(p) : x = y
         /\ \A i, j \in Slots : task[i].pod = p /\ task[j].pod = p => i = j
<1>1. OnePlace(p)
  BY DEF DispatchInv
<1> QED
  BY <1>1 DEF OnePlace, Spots, Held

\* A step that moves one pod and leaves the others where they are.
LEMMA MoveKept ==
  ASSUME DispatchInv, Quietly, MemoryOK', TasksOK', NEW p,
         \A q \in Pods \ {p} : /\ Held(q)' = Held(q)
                               /\ \A i \in Slots : task'[i].pod = q => task[i].pod = q,
         p \in Pods =>
           /\ p \notin excused => /\ Held(p) = {} => Held(p)' = {}
                                  /\ (\A x, y \in Held(p) : x = y) => \A x, y \in Held(p)' : x = y
                                  /\ \A i, j \in Slots : task'[i].pod = p /\ task'[j].pod = p => i = j
           /\ PendingPodOfGodel(lister[p]) /\ PendingPodOfGodel(api[p]) => Stays(Held(p), Held(p)')
  PROVE  DispatchInv'
<1>1. ASSUME NEW q \in Pods PROVE PodOK(q)'
  <2>0. PodSame(q) /\ Steady
    BY DEF PodSame, Quietly
  <2>1. CASE q = p
    BY <2>0, <2>1, SpotsKept
  <2>2. CASE q # p
    <3>1. /\ Held(q)' = Held(q)
          /\ \A i \in Slots : task'[i].pod = q => task[i].pod = q
      BY <2>2
    <3>2. /\ q \notin excused => /\ Held(q) = {} => Held(q)' = {}
                                 /\ (\A x, y \in Held(q) : x = y) => \A x, y \in Held(q)' : x = y
                                 /\ \A i, j \in Slots : task'[i].pod = q /\ task'[j].pod = q => i = j
          /\ Stays(Held(q), Held(q)')
      BY <3>1, OneTask DEF Stays
    <3> QED
      BY <2>0, <3>2, SpotsKept
  <2> QED
    BY <2>1, <2>2
<1>2. ObjectsOK'
  BY DEF DispatchInv, Quietly, Steady, ObjectsOK, Latest, Lagging
<1> QED
  BY <1>1, <1>2 DEF DispatchInv, PodOK

\* A step that leaves every pod where it is.
LEMMA StillKept ==
  ASSUME DispatchInv, Quietly, MemoryOK', TasksOK', UNCHANGED <<fifo, sorted, ready, hand>>,
         \A g \in Groups : units'[g].unSortedPods = units[g].unSortedPods,
         \A i \in Slots : task'[i].pod = task[i].pod
  PROVE  DispatchInv'
<1>1. ASSUME NEW q PROVE Held(q)' = Held(q)
  BY HeldSame
<1>2. NoPod \notin Pods
  BY ConstantsAssumption
<1> QED
  BY <1>1, <1>2, MoveKept

LEMMA UnitLoopPopKept ==
  ASSUME DispatchInv, NEW p \in Pods, UnitLoopPop(p)
  PROVE  DispatchInv'
<1>1. /\ p \in ready /\ hand["unit"] = NoPod /\ ready' = ready \ {p}
      /\ hand' = [hand EXCEPT !["unit"] = p]
      /\ fifo' = fifo /\ sorted' = sorted /\ task' = task /\ units' = units /\ info' = info
      /\ podGroup' = podGroup /\ stale' = stale /\ abnormal' = abnormal /\ env' = env
      /\ excused' = excused /\ Quietly
  BY DEF UnitLoopPop, loopUnchanged, objects, Quietly, Steady
<1>2. /\ hand'["unit"] = p /\ hand'["pending"] = hand["pending"] /\ HandOK'
      /\ NoPod \notin Pods /\ TasksOK'
  BY <1>1, ConstantsAssumption DEF DispatchInv, MemoryOK, HandOK, TasksOK
<1>3. MemoryOK'
  BY <1>1, <1>2 DEF DispatchInv, MemoryOK, HandOK, MemOK, Mem, UnitOK, GroupOf
<1>4. ASSUME NEW q \in Pods \ {p} PROVE Held(q)' = Held(q)
  BY <1>1, <1>2, HeldSame
<1>5. /\ "ready" \in Held(p) /\ "unit" \in Held(p)'
      /\ Held(p)' \subseteq (Held(p) \ {"ready"}) \union {"unit"}
  <2>1. \A x \in HeldNames : x \in Held(p)' => (x \in Held(p) /\ x # "ready") \/ x = "unit"
    BY SMT, <1>1, <1>2, HeldTables DEF HeldTable, HeldNames
  <2> QED
    BY <1>1, <1>2, <2>1, HeldTables DEF HeldTable
<1> QED
  BY SMT, <1>1, <1>2, <1>3, <1>4, <1>5, OneTask, MoveKept DEF Stays

LEMMA UnitLoopAddKept ==
  ASSUME DispatchInv, UnitLoopAdd
  PROVE  DispatchInv'
<1>0. PICK p \in Pods : hand["unit"] = p
  BY DEF DispatchInv, MemoryOK, UnitLoopAdd
<1>1. /\ fifo' = fifo \union {p} /\ hand' = [hand EXCEPT !["unit"] = NoPod]
      /\ ready' = ready /\ sorted' = sorted /\ task' = task /\ units' = units /\ info' = info
      /\ podGroup' = podGroup /\ stale' = stale /\ abnormal' = abnormal /\ env' = env
      /\ excused' = excused /\ Quietly
  BY <1>0 DEF UnitLoopAdd, loopUnchanged, objects, Quietly, Steady
<1>2. /\ hand'["unit"] = NoPod /\ hand'["pending"] = hand["pending"] /\ HandOK'
      /\ NoPod \notin Pods /\ TasksOK'
  BY <1>1, ConstantsAssumption DEF DispatchInv, MemoryOK, HandOK, TasksOK
<1>3. MemoryOK'
  BY <1>1, <1>2 DEF DispatchInv, MemoryOK, HandOK, MemOK, Mem, UnitOK, GroupOf
<1>4. ASSUME NEW q \in Pods \ {p} PROVE Held(q)' = Held(q)
  BY <1>0, <1>1, <1>2, HeldSame
<1>5. /\ "unit" \in Held(p) /\ "fifo" \in Held(p)'
      /\ Held(p)' \subseteq (Held(p) \ {"unit"}) \union {"fifo"}
  <2>1. \A x \in HeldNames : x \in Held(p)' => (x \in Held(p) /\ x # "unit") \/ x = "fifo"
    BY SMT, <1>0, <1>1, <1>2, HeldTables DEF HeldTable, HeldNames
  <2> QED
    BY <1>0, <1>1, <1>2, <2>1, HeldTables DEF HeldTable
<1> QED
  BY SMT, <1>1, <1>2, <1>3, <1>4, <1>5, OneTask, MoveKept DEF Stays

LEMMA PendingLoopPopKept ==
  ASSUME DispatchInv, NEW p \in Pods, PendingLoopPop(p)
  PROVE  DispatchInv'
<1>1. /\ p \in fifo /\ hand["pending"] = NoPod /\ fifo' = fifo \ {p}
      /\ hand' = [hand EXCEPT !["pending"] = p]
      /\ ready' = ready /\ sorted' = sorted /\ task' = task /\ units' = units /\ info' = info
      /\ podGroup' = podGroup /\ stale' = stale /\ abnormal' = abnormal /\ env' = env
      /\ excused' = excused /\ Quietly
  BY DEF PendingLoopPop, loopUnchanged, objects, Quietly, Steady
<1>2. /\ hand'["pending"] = p /\ hand'["unit"] = hand["unit"] /\ HandOK'
      /\ NoPod \notin Pods /\ TasksOK'
  BY <1>1, ConstantsAssumption DEF DispatchInv, MemoryOK, HandOK, TasksOK
<1>3. MemoryOK'
  BY <1>1, <1>2 DEF DispatchInv, MemoryOK, HandOK, MemOK, Mem, UnitOK, GroupOf
<1>4. ASSUME NEW q \in Pods \ {p} PROVE Held(q)' = Held(q)
  BY <1>1, <1>2, HeldSame
<1>5. /\ "fifo" \in Held(p) /\ "pending" \in Held(p)'
      /\ Held(p)' \subseteq (Held(p) \ {"fifo"}) \union {"pending"}
  <2>1. \A x \in HeldNames : x \in Held(p)' => (x \in Held(p) /\ x # "fifo") \/ x = "pending"
    BY SMT, <1>1, <1>2, HeldTables DEF HeldTable, HeldNames
  <2> QED
    BY <1>1, <1>2, <2>1, HeldTables DEF HeldTable
<1> QED
  BY SMT, <1>1, <1>2, <1>3, <1>4, <1>5, OneTask, MoveKept DEF Stays

LEMMA PendingLoopAddKept ==
  ASSUME DispatchInv, PendingLoopAdd
  PROVE  DispatchInv'
<1>0. PICK p \in Pods : hand["pending"] = p
  BY DEF DispatchInv, MemoryOK, PendingLoopAdd
<1>1. /\ sorted' = sorted \union {p} /\ hand' = [hand EXCEPT !["pending"] = NoPod]
      /\ ready' = ready /\ fifo' = fifo /\ task' = task /\ units' = units /\ info' = info
      /\ podGroup' = podGroup /\ stale' = stale /\ abnormal' = abnormal /\ env' = env
      /\ excused' = excused /\ Quietly
  BY <1>0 DEF PendingLoopAdd, loopUnchanged, objects, Quietly, Steady
<1>2. /\ hand'["pending"] = NoPod /\ hand'["unit"] = hand["unit"] /\ HandOK'
      /\ NoPod \notin Pods /\ TasksOK'
  BY <1>1, ConstantsAssumption DEF DispatchInv, MemoryOK, HandOK, TasksOK
<1>3. MemoryOK'
  BY <1>1, <1>2 DEF DispatchInv, MemoryOK, HandOK, MemOK, Mem, UnitOK, GroupOf
<1>4. ASSUME NEW q \in Pods \ {p} PROVE Held(q)' = Held(q)
  BY <1>0, <1>1, <1>2, HeldSame
<1>5. /\ "pending" \in Held(p) /\ "sorted" \in Held(p)'
      /\ Held(p)' \subseteq (Held(p) \ {"pending"}) \union {"sorted"}
  <2>1. \A x \in HeldNames : x \in Held(p)' => (x \in Held(p) /\ x # "pending") \/ x = "sorted"
    BY SMT, <1>0, <1>1, <1>2, HeldTables DEF HeldTable, HeldNames
  <2> QED
    BY <1>0, <1>1, <1>2, <2>1, HeldTables DEF HeldTable
<1> QED
  BY SMT, <1>1, <1>2, <1>3, <1>4, <1>5, OneTask, MoveKept DEF Stays

\* A goroutine takes its pod one step further, gives it back to the queue, or
\* drops it when the pod is no longer pending.
LEMMA TaskStepKept ==
  ASSUME DispatchInv, Quietly, MemoryOK', TasksOK',
         fifo' = fifo, ready' = ready, hand' = hand,
         \A g \in Groups : units'[g].unSortedPods = units[g].unSortedPods,
         NEW i \in Slots, NEW p \in Pods, p = task[i].pod,
         NEW t, task' = [task EXCEPT ![i] = t],
         \/ t.pod = p /\ sorted' = sorted
         \/ t.pod = NoPod /\ sorted' = sorted \union {p}
         \/ /\ t.pod = NoPod /\ sorted' = sorted
            /\ ~(PendingPodOfGodel(lister[p]) /\ PendingPodOfGodel(api[p]))
  PROVE  DispatchInv'
<1>1. task \in [Slots -> Tasks] /\ NoPod \notin Pods
  BY ConstantsAssumption DEF DispatchInv, TasksOK
<1>2. task'[i] = t /\ \A j \in Slots \ {i} : task'[j] = task[j]
  BY <1>1
<1>3. ASSUME NEW q \in Pods \ {p}
      PROVE  Held(q)' = Held(q) /\ \A j \in Slots : task'[j].pod = q <=> task[j].pod = q
  <2>1. \A j \in Slots : task'[j].pod = q <=> task[j].pod = q
    BY <1>1, <1>2
  <2>2. Held(q)' = Held(q)
    BY <2>1, HeldSame
  <2> QED
    BY <2>1, <2>2
<1>4. "task" \in Held(p)
  BY HeldTables DEF HeldTable
<1>5. CASE t.pod = p /\ sorted' = sorted
  <2>1. \A j \in Slots : task'[j].pod = task[j].pod
    BY <1>2, <1>5
  <2> QED
    BY <1>5, <2>1, StillKept
<1>6. CASE t.pod = NoPod /\ sorted' = sorted \union {p}
  <2>1. \A j \in Slots : task'[j].pod = p <=> j # i /\ task[j].pod = p
    BY <1>1, <1>2, <1>6
  <2>2. "sorted" \in Held(p)'
    BY <1>6, HeldTables DEF HeldTable
  <2>3. \A x \in HeldNames : x \in Held(p)' => x \in Held(p) \/ x = "sorted"
    BY SMT, <1>6, <2>1, HeldTables DEF HeldTable, HeldNames
  <2>4. ASSUME p \notin excused, \A x, y \in Held(p) : x = y
        PROVE  /\ \A x, y \in Held(p)' : x = y
               /\ \A j, k \in Slots : task'[j].pod = p /\ task'[k].pod = p => j = k
    <3>1. \A j \in Slots : task'[j].pod # p
      BY <2>1, <2>4, OneTask
    <3>2. "task" \notin Held(p)'
      BY <3>1, HeldTables DEF HeldTable
    <3>3. Held(p) = {"task"}
      BY <1>4, <2>4
    <3>4. Held(p)' \subseteq {"sorted"}
      BY SMT, <2>3, <3>2, <3>3, HeldTables DEF HeldTable
    <3> QED
      BY <3>1, <3>4
  <2> QED
    BY SMT, <1>3, <1>4, <2>2, <2>4, OneTask, MoveKept DEF Stays
<1>7. CASE /\ t.pod = NoPod /\ sorted' = sorted
           /\ ~(PendingPodOfGodel(lister[p]) /\ PendingPodOfGodel(api[p]))
  <2>1. \A j \in Slots : task'[j].pod = p => task[j].pod = p
    BY <1>1, <1>2, <1>7
  <2>2. \A x \in HeldNames : x \in Held(p)' => x \in Held(p)
    BY SMT, <1>7, <2>1, HeldTables DEF HeldTable, HeldNames
  <2>3. Held(p)' \subseteq Held(p)
    BY <2>2, HeldTables DEF HeldTable
  <2> QED
    BY SMT, <1>3, <1>7, <2>1, <2>3, OneTask, MoveKept
<1> QED
  BY <1>5, <1>6, <1>7

LEMMA SortedLoopKept ==
  ASSUME DispatchInv, NEW p \in Pods, NEW i \in Slots, SortedLoop(p, i)
  PROVE  DispatchInv'
<1> DEFINE t == [Idle EXCEPT !.pod = p, !.pc = "get"]
<1>1. /\ p \in sorted /\ task[i] = Idle /\ sorted' = sorted \ {p}
      /\ task' = [task EXCEPT ![i] = t]
      /\ ready' = ready /\ fifo' = fifo /\ hand' = hand /\ units' = units /\ info' = info
      /\ podGroup' = podGroup /\ stale' = stale /\ abnormal' = abnormal /\ env' = env
      /\ excused' = excused /\ Quietly
  BY DEF SortedLoop, loopUnchanged, objects, Quietly, Steady
<1>2. /\ t \in Tasks /\ t.pod = p /\ t.pc = "get" /\ NoPod \notin Pods /\ Idle.pod = NoPod
      /\ task \in [Slots -> Tasks]
  BY ConstantsAssumption DEF Idle, Tasks, DispatchInv, TasksOK
<1> HIDE DEF t
<1>3. task'[i] = t /\ \A j \in Slots \ {i} : task'[j] = task[j]
  BY <1>1, <1>2
<1>4. TasksOK'
  <2>1. task' \in [Slots -> Tasks]
    BY <1>1, <1>2
  <2> QED
    BY <1>1, <1>2, <1>3, <2>1 DEF DispatchInv, TasksOK
<1>5. MemoryOK'
  BY <1>1 DEF DispatchInv, MemoryOK, MemOK, Mem, UnitOK, GroupOf
<1>6. ASSUME NEW q \in Pods \ {p}
      PROVE  Held(q)' = Held(q) /\ \A j \in Slots : task'[j].pod = q <=> task[j].pod = q
  <2>1. \A j \in Slots : task'[j].pod = q <=> task[j].pod = q
    BY <1>1, <1>2, <1>3
  <2>2. Held(q)' = Held(q)
    BY <1>1, <2>1, HeldSame
  <2> QED
    BY <2>1, <2>2
<1>7. /\ "sorted" \in Held(p) /\ "task" \in Held(p)'
      /\ Held(p)' \subseteq (Held(p) \ {"sorted"}) \union {"task"}
  <2>1. \A x \in HeldNames : x \in Held(p)' => (x \in Held(p) /\ x # "sorted") \/ x = "task"
    BY SMT, <1>1, HeldTables DEF HeldTable, HeldNames
  <2> QED
    BY <1>1, <1>2, <1>3, <2>1, HeldTables DEF HeldTable
<1>8. ASSUME p \notin excused
      PROVE  \A j, k \in Slots : task'[j].pod = p /\ task'[k].pod = p => j = k
  <2>1. "task" \notin Held(p)
    BY <1>7, <1>8, OneTask
  <2>2. \A j \in Slots : task[j].pod # p
    BY <2>1, HeldTables DEF HeldTable
  <2> QED
    BY <1>3, <2>2
<1> QED
  BY SMT, <1>1, <1>4, <1>5, <1>6, <1>7, <1>8, MoveKept DEF Stays

\* dispatchInfo keeps its shape.
Infos == [pods : [Pods -> Schedulers \union {NoScheduler}],
          toPods : [Schedulers -> SUBSET Pods], schedulers : SUBSET Schedulers]

LEMMA InfoTypes ==
  ASSUME NEW d \in Infos, NEW p \in Pods
  PROVE  /\ removePod(d, p) \in Infos
         /\ \A s \in Schedulers : addPod(d, p, s) \in Infos
<1>1. ASSUME NEW s \in Schedulers PROVE addPod(d, p, s) \in Infos
  <2> DEFINE a == [d.pods EXCEPT ![p] = s]
             b == [d.toPods EXCEPT ![s] = d.toPods[s] \union {p}]
  <2>1. a \in [Pods -> Schedulers \union {NoScheduler}] /\ b \in [Schedulers -> SUBSET Pods]
    BY DEF Infos
  <2>2. addPod(d, p, s) = [d EXCEPT !.pods = a, !.toPods = b]
    BY DEF addPod, Infos
  <2> HIDE DEF a, b
  <2> QED
    BY <2>1, <2>2 DEF Infos
<1>2. removePod(d, p) \in Infos
  <2>1. CASE d.pods[p] = NoScheduler
    BY <2>1 DEF removePod
  <2>2. CASE d.pods[p] # NoScheduler
    <3> DEFINE s == d.pods[p]
               a == [d.pods EXCEPT ![p] = NoScheduler]
               b == [d.toPods EXCEPT ![s] = d.toPods[s] \ {p}]
    <3>1. a \in [Pods -> Schedulers \union {NoScheduler}] /\ b \in [Schedulers -> SUBSET Pods]
      BY <2>2 DEF Infos
    <3>2. removePod(d, p) = [d EXCEPT !.pods = a, !.toPods = b]
      BY <2>2 DEF removePod, Infos
    <3> HIDE DEF a, b
    <3> QED
      BY <3>1, <3>2 DEF Infos
  <2> QED
    BY <2>1, <2>2
<1> QED
  BY <1>1, <1>2

\* Every step leaves the situation as it is, whether something goes wrong
\* in it or not.
EnvOK == Steady /\ env' \in [scenario : Scenarios, faults : Nat]

LEMMA FaultEnv ==
  ASSUME MemoryOK
  PROVE  /\ \A k : Fault(k) => EnvOK
         /\ env' = env => EnvOK
BY SMT DEF MemoryOK, Fault, EnvOK, Steady

\* An assignment changes no unit but for its scheduler.
LEMMA AssignedUnits ==
  ASSUME MemOK(Mem), Steady, UNCHANGED <<fifo, ready>>, sorted' \subseteq Pods,
         \/ units' = units
         \/ \E g \in Groups, s \in Schedulers : units' = [units EXCEPT ![g].scheduler = s]
  PROVE  MemOK(Mem)' /\ \A g \in Groups : units'[g].unSortedPods = units[g].unSortedPods
<1>1. /\ units \in [Groups -> UnitInfos] /\ fifo \subseteq Pods /\ ready \subseteq Pods
      /\ \A g \in Groups : UnitOK(g, units[g])
  BY DEF MemOK, Mem
<1>2. GroupOf' = GroupOf
  BY DEF Steady, GroupOf
<1>3. /\ units' \in [Groups -> UnitInfos]
      /\ \A h \in Groups : /\ units'[h].unSortedPods = units[h].unSortedPods
                           /\ units'[h].pods = units[h].pods
  <2>1. CASE units' = units
    BY <1>1, <2>1
  <2>2. CASE \E g \in Groups, s \in Schedulers : units' = [units EXCEPT ![g].scheduler = s]
    <3>1. PICK g \in Groups, s \in Schedulers : units' = [units EXCEPT ![g].scheduler = s]
      BY <2>2
    <3> DEFINE u == [units[g] EXCEPT !.scheduler = s]
    <3>2. units[g] \in UnitInfos
      BY <1>1
    <3>3. u \in UnitInfos /\ u.unSortedPods = units[g].unSortedPods /\ u.pods = units[g].pods
      BY <3>2 DEF UnitInfos
    <3>4. units' = [units EXCEPT ![g] = u]
      BY <1>1, <3>1
    <3> HIDE DEF u
    <3> QED
      BY <1>1, <3>3, <3>4
  <2> QED
    BY <2>1, <2>2
<1>4. \A g \in Groups : UnitOK(g, units'[g])
  BY <1>1, <1>3 DEF UnitOK
<1> QED
  BY <1>1, <1>2, <1>3, <1>4 DEF MemOK, Mem, UnitOK

LEMMA ByTask ==
  ASSUME DispatchInv, NEW i \in Slots, task[i].pc # "idle", EnvOK,
         UNCHANGED <<objects, excused, taskUnchanged>>, info' \in Infos,
         \/ units' = units
         \/ \E g \in Groups, s \in Schedulers : units' = [units EXCEPT ![g].scheduler = s],
         \/ \E t \in Tasks : /\ t.pod = task[i].pod /\ t.pc # "idle" /\ Goto(i, t)
                             /\ t.pc = "adopt" => t.prev \in Schedulers
                             /\ t.pc \in {"assign", "patch"} => t.sched \in Schedulers
         \/ Requeue(i)
         \/ /\ Finish(i) /\ sorted' = sorted
            /\ ~(PendingPodOfGodel(lister[task[i].pod]) /\ PendingPodOfGodel(api[task[i].pod]))
  PROVE  DispatchInv'
<1>1. /\ task \in [Slots -> Tasks] /\ task[i] \in Tasks /\ task[i].pod \in Pods
      /\ \A j \in Slots : /\ task[j].pc # "idle" => task[j].pod \in Pods
                          /\ task[j].pc = "adopt" => task[j].prev \in Schedulers
                          /\ task[j].pc \in {"assign", "patch"} => task[j].sched \in Schedulers
  BY DEF DispatchInv, TasksOK
<1>2. PICK p \in Pods : p = task[i].pod
  BY <1>1
<1>3. Idle \in Tasks /\ Idle.pod = NoPod /\ Idle.pc = "idle"
  BY DEF Idle, Tasks
<1>4. PICK t \in Tasks :
        /\ task' = [task EXCEPT ![i] = t]
        /\ t.pc # "idle" => t.pod \in Pods
        /\ t.pc = "adopt" => t.prev \in Schedulers
        /\ t.pc \in {"assign", "patch"} => t.sched \in Schedulers
        /\ \/ t.pod = p /\ sorted' = sorted
           \/ t.pod = NoPod /\ sorted' = sorted \union {p}
           \/ /\ t.pod = NoPod /\ sorted' = sorted
              /\ ~(PendingPodOfGodel(lister[p]) /\ PendingPodOfGodel(api[p]))
  <2>1. CASE \E t \in Tasks : /\ t.pod = task[i].pod /\ t.pc # "idle" /\ Goto(i, t)
                              /\ t.pc = "adopt" => t.prev \in Schedulers
                              /\ t.pc \in {"assign", "patch"} => t.sched \in Schedulers
    BY <1>2, <2>1 DEF Goto
  <2>2. CASE Requeue(i)
    BY <1>2, <1>3, <2>2 DEF Requeue, Finish
  <2>3. CASE /\ Finish(i) /\ sorted' = sorted
             /\ ~(PendingPodOfGodel(lister[task[i].pod]) /\ PendingPodOfGodel(api[task[i].pod]))
    BY <1>2, <1>3, <2>3 DEF Finish
  <2> QED
    BY <2>1, <2>2, <2>3
<1>5. TasksOK'
  <2>1. task' \in [Slots -> Tasks] /\ \A j \in Slots : task'[j] = IF j = i THEN t ELSE task[j]
    BY <1>1, <1>4
  <2> QED
    BY <1>1, <1>4, <2>1 DEF TasksOK, Infos
<1>6. /\ Quietly /\ fifo' = fifo /\ ready' = ready /\ hand' = hand /\ podGroup' = podGroup
      /\ stale' = stale /\ abnormal' = abnormal /\ excused' = excused
  BY DEF objects, taskUnchanged, Quietly, EnvOK
<1>7. MemOK(Mem) /\ sorted' \subseteq Pods
  BY <1>4 DEF DispatchInv, MemoryOK, MemOK, Mem
<1>8. MemOK(Mem)' /\ \A g \in Groups : units'[g].unSortedPods = units[g].unSortedPods
  BY <1>6, <1>7, AssignedUnits DEF Quietly
<1>9. MemoryOK'
  BY <1>6, <1>8 DEF DispatchInv, MemoryOK, EnvOK
<1> QED
  BY <1>2, <1>4, <1>5, <1>6, <1>8, <1>9, TaskStepKept

\* A goroutine that goes on has a task of the right shape.
LEMMA TaskTypes ==
  ASSUME TasksOK, NEW i \in Slots
  PROVE  /\ task[i] \in Tasks /\ info \in Infos
         /\ task[i].pc = "adopt" => task[i].prev \in Schedulers
         /\ task[i].pc \in {"assign", "patch"} => task[i].sched \in Schedulers
         /\ task[i].pc # "idle" => task[i].pod \in Pods
BY DEF TasksOK, Infos

LEMMA GetPodKept ==
  ASSUME DispatchInv, NEW i \in Slots, GetPod(i)
  PROVE  DispatchInv'
<1> DEFINE p == task[i].pod
           g == GroupOf[p]
<1>1. /\ task[i].pc = "get" /\ UNCHANGED <<objects, info, units, env, excused, taskUnchanged>>
      /\ MemoryOK /\ TasksOK /\ ObjectsOK
  BY DEF GetPod, DispatchInv
<1>2. /\ task[i] \in Tasks /\ p \in Pods /\ info' \in Infos /\ EnvOK
      /\ g \in Groups \union {NoGroup}
  BY <1>1, TaskTypes, FaultEnv, GroupTypes
<1>3. CASE ~PendingPodOfGodel(lister[p]) /\ Finish(i) /\ UNCHANGED sorted
  BY <1>1, <1>2, <1>3, ByTask
<1>4. CASE Goto(i, [task[i] EXCEPT !.pc = "select"])
  <2> DEFINE t == [task[i] EXCEPT !.pc = "select"]
  <2>1. t \in Tasks /\ t.pod = p /\ t.pc = "select" /\ Goto(i, t)
    BY <1>2, <1>4 DEF Tasks
  <2> HIDE DEF t
  <2> QED
    BY <1>1, <1>2, <2>1, ByTask
<1>5. CASE Requeue(i)
  BY <1>1, <1>2, <1>5, ByTask
<1>6. CASE g # NoGroup /\ units[g].scheduler # NoScheduler
           /\ Goto(i, [task[i] EXCEPT !.pc = "select", !.prev = units[g].scheduler])
  <2> DEFINE t == [task[i] EXCEPT !.pc = "select", !.prev = units[g].scheduler]
  <2>0. units[g].scheduler \in Schedulers \union {NoScheduler}
    BY <1>1, <1>2, <1>6 DEF MemoryOK, MemOK, Mem, UnitInfos
  <2>1. t \in Tasks /\ t.pod = p /\ t.pc = "select" /\ Goto(i, t)
    BY <1>2, <1>6, <2>0 DEF Tasks
  <2> HIDE DEF t
  <2> QED
    BY <1>1, <1>2, <2>1, ByTask
<1>7. CASE \E s \in SchedulersOnPods(g) : Goto(i, [task[i] EXCEPT !.pc = "adopt", !.prev = s])
  <2>1. PICK s \in SchedulersOnPods(g) : Goto(i, [task[i] EXCEPT !.pc = "adopt", !.prev = s])
    BY <1>7
  <2>2. s \in Schedulers
    <3>1. \A q \in Pods : lister[q].sched \in Schedulers \union {NoScheduler}
      BY <1>1 DEF ObjectsOK, Objects
    <3> HIDE DEF g
    <3> QED
      BY <2>1, <3>1 DEF SchedulersOnPods
  <2> DEFINE t == [task[i] EXCEPT !.pc = "adopt", !.prev = s]
  <2>3. t \in Tasks /\ t.pod = p /\ t.pc = "adopt" /\ t.prev = s /\ Goto(i, t)
    BY <1>2, <2>1, <2>2 DEF Tasks
  <2> HIDE DEF t
  <2> QED
    BY <1>1, <1>2, <2>2, <2>3, ByTask
<1> QED
  BY <1>3, <1>4, <1>5, <1>6, <1>7 DEF GetPod

LEMMA AssignKept ==
  ASSUME DispatchInv, NEW i \in Slots, task[i].pc \in {"adopt", "assign"},
         NEW s \in Schedulers, NEW force, NEW next,
         next \in {"select", "patch"}, next = "patch" => task[i].sched \in Schedulers,
         Assign(i, s, force, next), UNCHANGED <<objects, info, env, excused, taskUnchanged>>
  PROVE  DispatchInv'
<1>1. /\ MemoryOK /\ TasksOK /\ info' \in Infos /\ EnvOK /\ task[i] \in Tasks
  BY TaskTypes, FaultEnv DEF DispatchInv
<1> DEFINE t == [task[i] EXCEPT !.pc = next]
           g == GroupOf[task[i].pod]
<1>2. t \in Tasks /\ t.pod = task[i].pod /\ t.pc = next /\ t.sched = task[i].sched
  BY <1>1 DEF Tasks
<1>3. CASE units' = [units EXCEPT ![g].scheduler = s] /\ Goto(i, t)
  <2>1. g \notin Groups => units' = units
    BY <1>1, <1>3 DEF MemoryOK, MemOK, Mem
  <2> HIDE DEF t
  <2> QED
    BY <1>1, <1>2, <1>3, <2>1, ByTask
<1>4. CASE Requeue(i) /\ UNCHANGED units
  BY <1>1, <1>4, ByTask
<1> QED
  BY <1>3, <1>4 DEF Assign

LEMMA AdoptSchedulerKept ==
  ASSUME DispatchInv, NEW i \in Slots, AdoptScheduler(i)
  PROVE  DispatchInv'
<1>1. task[i].prev \in Schedulers /\ task[i].pc = "adopt"
  BY TaskTypes DEF DispatchInv, AdoptScheduler
<1> QED
  BY <1>1, AssignKept DEF AdoptScheduler

LEMMA AssignSchedulerKept ==
  ASSUME DispatchInv, NEW i \in Slots, AssignScheduler(i)
  PROVE  DispatchInv'
<1>1. task[i].sched \in Schedulers /\ task[i].pc = "assign"
  BY TaskTypes DEF DispatchInv, AssignScheduler
<1> QED
  BY <1>1, AssignKept DEF AssignScheduler

LEMMA SelectSchedulerKept ==
  ASSUME DispatchInv, NEW i \in Slots, SelectScheduler(i)
  PROVE  DispatchInv'
<1> DEFINE p == task[i].pod
<1>1. /\ task[i].pc = "select" /\ UNCHANGED <<objects, units, env, excused, taskUnchanged>>
      /\ MemoryOK /\ TasksOK
  BY DEF SelectScheduler, DispatchInv
<1>2. /\ task[i] \in Tasks /\ p \in Pods /\ info \in Infos /\ EnvOK
  BY <1>1, TaskTypes, FaultEnv
<1>3. ASSUME NEW s \in Schedulers, info' = addPod(info, p, s), NEW pc \in {"patch", "assign"},
             Goto(i, [task[i] EXCEPT !.pc = pc, !.sched = s])
      PROVE  DispatchInv'
  <2> DEFINE t == [task[i] EXCEPT !.pc = pc, !.sched = s]
  <2>1. t \in Tasks /\ t.pod = p /\ t.pc = pc /\ t.sched = s /\ Goto(i, t)
    BY <1>2, <1>3 DEF Tasks
  <2>2. info' \in Infos
    BY <1>2, <1>3, InfoTypes
  <2> HIDE DEF t
  <2> QED
    BY <1>1, <1>2, <2>1, <2>2, ByTask
<1>4. CASE /\ Active(task[i].prev) /\ info' = addPod(info, p, task[i].prev)
           /\ Goto(i, [task[i] EXCEPT !.pc = "patch", !.sched = task[i].prev])
  BY <1>3, <1>4 DEF Active
<1>5. CASE \E s \in MostIdle(info) :
             /\ info' = addPod(info, p, s)
             /\ Goto(i, [task[i] EXCEPT !.sched = s,
                           !.pc = IF GroupOf[p] = NoGroup THEN "patch" ELSE "assign"])
  <2>1. PICK s \in MostIdle(info) :
             /\ info' = addPod(info, p, s)
             /\ Goto(i, [task[i] EXCEPT !.sched = s,
                           !.pc = IF GroupOf[p] = NoGroup THEN "patch" ELSE "assign"])
    BY <1>5
  <2>2. s \in Schedulers
    BY <1>2, <2>1 DEF MostIdle, Infos
  <2> DEFINE pc == IF GroupOf[p] = NoGroup THEN "patch" ELSE "assign"
  <2>3. pc \in {"patch", "assign"} /\ [task[i] EXCEPT !.sched = s, !.pc = pc]
                                      = [task[i] EXCEPT !.pc = pc, !.sched = s]
    BY <1>2 DEF Tasks
  <2> HIDE DEF p
  <2>4. Goto(i, [task[i] EXCEPT !.pc = pc, !.sched = s])
    BY <2>1, <2>3
  <2> HIDE DEF pc
  <2> QED
    BY <1>3, <2>1, <2>2, <2>3, <2>4
<1>6. CASE Requeue(i) /\ UNCHANGED info
  BY <1>1, <1>2, <1>6, ByTask
<1> QED
  BY <1>4, <1>5, <1>6 DEF SelectScheduler

\* The two ends of sendPodToScheduler that write nothing.
LEMMA SendFailedKept ==
  ASSUME DispatchInv, NEW i \in Slots, task[i].pc = "patch", UNCHANGED <<units, taskUnchanged>>,
         info' = removePod(info, task[i].pod), UNCHANGED <<objects, excused>>,
         \/ ~Exists(api[task[i].pod]) /\ Finish(i) /\ UNCHANGED <<sorted, env>>
         \/ Fault("fail") /\ Requeue(i)
  PROVE  DispatchInv'
<1>1. /\ MemoryOK /\ TasksOK /\ ObjectsOK
  BY DEF DispatchInv
<1>2. task[i].pod \in Pods /\ info' \in Infos /\ EnvOK
  BY <1>1, TaskTypes, FaultEnv, InfoTypes
<1>3. ~Exists(api[task[i].pod]) => ~PendingPodOfGodel(api[task[i].pod])
  BY <1>1, <1>2, ObjectKinds DEF ObjectsOK
<1> QED
  BY <1>2, <1>3, ByTask

-----------------------------------------------------------------------------
(* PodGroups, schedulers and the reconciler's sweep.                        *)

\* A step that concerns only the memory of schedulers and the reconciler.
LEMMA AsideKept ==
  ASSUME DispatchInv, UNCHANGED <<objects, queues, task, excused>>, EnvOK, info' \in Infos,
         stale' \subseteq Pods, abnormal' \subseteq Pods
  PROVE  DispatchInv'
<1>1. /\ Quietly /\ podGroup' = podGroup /\ fifo' = fifo /\ sorted' = sorted /\ ready' = ready
      /\ units' = units /\ hand' = hand /\ task' = task /\ excused' = excused
  BY DEF objects, queues, Quietly, EnvOK
<1>2. MemoryOK'
  <2>1. GroupOf' = GroupOf
    BY DEF EnvOK, Steady, GroupOf
  <2> QED
    BY <1>1, <2>1 DEF DispatchInv, MemoryOK, MemOK, Mem, UnitOK, EnvOK
<1>3. TasksOK'
  BY <1>1 DEF DispatchInv, TasksOK, Infos
<1> QED
  BY <1>1, <1>2, <1>3, StillKept

LEMMA SchedulerStepKept ==
  ASSUME DispatchInv, NEW s \in Schedulers,
         FallSilent(s) \/ Heartbeat(s) \/ PopulateSchedulers(s) \/ SyncUpSchedulersStatus(s)
         \/ deleteScheduler(s)
  PROVE  DispatchInv'
<1>1. MemoryOK /\ info \in Infos /\ stale \subseteq Pods /\ abnormal \subseteq Pods
  BY DEF DispatchInv, MemoryOK, TasksOK, Infos
<1>2. CASE FallSilent(s)
  BY <1>1, <1>2, FaultEnv, AsideKept DEF FallSilent, schedUnchanged
<1>3. CASE Heartbeat(s)
  <2>1. [info EXCEPT !.schedulers = @ \union {s}] \in Infos
    BY <1>1 DEF Infos
  <2>2. info' \in Infos
    BY <1>1, <1>3, <2>1 DEF Heartbeat
  <2> QED
    BY <1>1, <1>3, <2>2, FaultEnv, AsideKept DEF Heartbeat, schedUnchanged
<1>4. CASE PopulateSchedulers(s)
  BY <1>1, <1>4, FaultEnv, AsideKept DEF PopulateSchedulers, schedUnchanged
<1>5. CASE SyncUpSchedulersStatus(s)
  BY <1>1, <1>5, FaultEnv, AsideKept DEF SyncUpSchedulersStatus, schedUnchanged
<1>6. CASE deleteScheduler(s)
  <2> DEFINE known == {p \in info.toPods[s] : info.pods[p] # NoScheduler}
  <2>1. known \subseteq Pods /\ stale' = stale \union known
    BY <1>1, <1>6 DEF deleteScheduler, Infos
  <2>2. info' \in Infos
    BY <1>1, <1>6 DEF deleteScheduler, Infos
  <2>3. stale' \subseteq Pods
    BY <1>1, <2>1
  <2> QED
    BY <1>1, <1>6, <2>2, <2>3, FaultEnv, AsideKept DEF deleteScheduler, schedUnchanged
<1> QED
  BY <1>2, <1>3, <1>4, <1>5, <1>6

LEMMA CollectKept ==
  ASSUME DispatchInv, CollectDispatchedPods
  PROVE  DispatchInv'
<1>1. MemoryOK /\ info \in Infos /\ stale \subseteq Pods /\ abnormal \subseteq Pods
  BY DEF DispatchInv, MemoryOK, TasksOK, Infos
<1> QED
  BY <1>1, FaultEnv, AsideKept DEF CollectDispatchedPods, schedUnchanged

\* Pods that stay in their hands and shrink to fewer queues, or move on to
\* the ready queue.
LEMMA ShrinksKept ==
  ASSUME DispatchInv, Steady, MemoryOK', NEW q \in Pods, PodSame(q), hand' = hand, task' = task,
         Shrinks(Where(Mem, q), Where(Mem, q)'), Stays(Where(Mem, q), Where(Mem, q)')
  PROVE  PodOK(q)'
<1> DEFINE H == InHands(q)
           A == Where(Mem, q)
           B == Where(Mem, q)'
<1>1. Held(q) = A \union H /\ Held(q)' = B \union H /\ "waits" \notin H
  BY DEF Held, InHands
<1>2. Shrinks(Held(q), Held(q)') /\ Stays(Held(q), Held(q)')
  <2> HIDE DEF H, A, B
  <2>1. Shrinks(A, B) /\ Stays(A, B)
    BY DEF A, B
  <2>2. Shrinks(A \union H, B \union H)
    BY <1>1, <2>1 DEF Shrinks
  <2>3. Stays(A \union H, B \union H)
    BY <2>1 DEF Stays
  <2> QED
    BY <1>1, <2>2, <2>3
<1>3. /\ Held(q) = {} => Held(q)' = {}
      /\ (\A x, y \in Held(q) : x = y) => \A x, y \in Held(q)' : x = y
  BY <1>2, ShrinksOne
<1>4. q \notin excused => \A i, j \in Slots : task'[i].pod = q /\ task'[j].pod = q => i = j
  BY OneTask
<1> QED
  BY <1>2, <1>3, <1>4, SpotsKept

\* A PodGroup comes, changes or goes.
LEMMA PodGroupKept ==
  ASSUME DispatchInv, NEW g \in Groups, AddPodGroup(g) \/ UpdatePodGroup(g) \/ DeletePodGroup(g)
  PROVE  DispatchInv'
<1>0. /\ Mem \in MemRecords /\ MemOK(Mem) /\ Mem.units = units /\ MemoryOK /\ ObjectsOK
      /\ units[g] \in UnitInfos /\ UnitOK(g, units[g])
  BY MemNow DEF DispatchInv, MemoryOK, MemOK, Mem
<1>1. /\ Quietly /\ EnvOK /\ hand' = hand /\ task' = task /\ info' = info
      /\ stale' = stale /\ abnormal' = abnormal /\ excused' = excused
  BY <1>0, FaultEnv
     DEF AddPodGroup, UpdatePodGroup, DeletePodGroup, addPodGroup, Quietly, EnvOK
<1>2. PICK phase \in {"none", "pending", "scheduled"} :
        /\ podGroup' = [podGroup EXCEPT ![g] = phase]
        /\ \/ SetMem(SettleUnit(Mem, g, [units[g] EXCEPT !.pg = phase]))
           \/ /\ phase = "none" /\ UNCHANGED <<fifo, sorted, ready>>
              /\ units' = [units EXCEPT ![g] = DropEmpty([units[g] EXCEPT !.pg = phase])]
  BY DEF AddPodGroup, UpdatePodGroup, DeletePodGroup, addPodGroup
<1> DEFINE ui == [units[g] EXCEPT !.pg = phase]
<1>3. /\ ui \in UnitInfos /\ ui.unSortedPods = units[g].unSortedPods /\ ui.pods = units[g].pods
  BY <1>0 DEF UnitInfos
<1>4. \/ SetMem(SettleUnit(Mem, g, ui))
      \/ UNCHANGED <<fifo, sorted, ready>> /\ units' = [units EXCEPT ![g] = DropEmpty(ui)]
  BY <1>2
<1> HIDE DEF ui
<1>5. UnitOK(g, ui)
  BY <1>0, <1>3 DEF UnitOK
<1>6. /\ MemOK(Mem)'
      /\ \A q \in Pods : /\ Shrinks(Where(Mem, q), Where(Mem, q)')
                         /\ Stays(Where(Mem, q), Where(Mem, q)')
  <2>1. CASE SetMem(SettleUnit(Mem, g, ui))
    <3>1. PICK n : n = SettleUnit(Mem, g, ui)
      OBVIOUS
    <3>2. /\ n \in MemRecords /\ MemOK(n)
          /\ \A q \in Pods : Shrinks(Where(Mem, q), Where(n, q)) /\ Stays(Where(Mem, q), Where(n, q))
      BY <1>0, <1>3, <1>5, <3>1, SettlePlaces
    <3>3. MemOK(Mem)' /\ \A q \in Pods : Where(Mem, q)' = Where(n, q)
      BY <1>1, <2>1, <3>1, <3>2, MemKept DEF Quietly
    <3> QED
      BY <3>2, <3>3
  <2>2. CASE UNCHANGED <<fifo, sorted, ready>> /\ units' = [units EXCEPT ![g] = DropEmpty(ui)]
    <3> DEFINE un == DropEmpty(ui)
    <3>1. UnitOK(g, un) /\ un.unSortedPods = units[g].unSortedPods
      BY <1>3, <1>5, DropEmptyUnit
    <3> HIDE DEF un
    <3>2. PICK n : n = [Mem EXCEPT !.units[g] = un]
      OBVIOUS
    <3>3. \A q : q \in un.unSortedPods <=> q \in Mem.units[g].unSortedPods
      BY <1>0, <3>1
    <3>4. /\ n \in MemRecords /\ MemOK(n)
          /\ \A q \in Pods : Where(n, q) \subseteq Where(Mem, q)
          /\ \A q \in Pods \ {NoPod} : Where(n, q) = Where(Mem, q)
      BY SMT, <1>0, <3>1, <3>2, <3>3, UnitPlaces
    <3>5. SetMem(n)
      <4>1. units' = [units EXCEPT ![g] = un]
        BY <2>2 DEF un
      <4> QED
        BY <2>2, <3>2, <4>1 DEF SetMem, Mem
    <3>6. MemOK(Mem)' /\ \A q \in Pods : Where(Mem, q)' = Where(n, q)
      BY <1>1, <3>4, <3>5, MemKept DEF Quietly
    <3>7. NoPod \notin Pods
      BY ConstantsAssumption
    <3> QED
      BY <3>4, <3>6, <3>7 DEF Shrinks, Stays
  <2> QED
    BY <1>4, <2>1, <2>2
<1>7. MemoryOK'
  BY <1>0, <1>1, <1>2, <1>6 DEF MemoryOK, EnvOK
<1>8. TasksOK'
  BY <1>1 DEF DispatchInv, TasksOK
<1>9. ASSUME NEW q \in Pods PROVE PodOK(q)'
  <2>1. PodSame(q) /\ Steady
    BY <1>1 DEF Quietly, PodSame
  <2> QED
    BY <1>1, <1>6, <1>7, <2>1, ShrinksKept
<1>10. ObjectsOK'
  BY <1>0, <1>1 DEF Quietly, Steady, ObjectsOK, Latest, Lagging
<1> QED
  BY <1>7, <1>8, <1>9, <1>10 DEF DispatchInv, PodOK

-----------------------------------------------------------------------------
(* Writes to the API server.                                                *)

\* The new version is the last one under way.
LEMMA WrittenEvents ==
  ASSUME ObjectsOK, Steady, NEW p \in Pods, NEW o \in Objects, Write(p, o)
  PROVE  /\ api'[p] = o /\ lister'[p] = lister[p]
         /\ Told(p)' = Told(p) /\ View(p)' = View(p)
         /\ \A h \in Lagging : inbox'[h][p] = inbox[h][p]
         /\ Lagging' = Lagging
         /\ Len(watch[p]) \in Nat /\ Len(watch'[p]) = Len(watch[p]) + 1
         /\ \A i \in 1 .. Len(watch[p]) : watch'[p][i] = watch[p][i]
         /\ watch'[p][Len(watch[p]) + 1] = o
         /\ \A q \in Pods \ {p} : /\ api'[q] = api[q] /\ watch'[q] = watch[q] /\ lister'[q] = lister[q]
                                  /\ \A h \in Lagging : inbox'[h][q] = inbox[h][q]
<1>1. /\ api' = [api EXCEPT ![p] = o] /\ watch' = [watch EXCEPT ![p] = Append(watch[p], o)]
      /\ lister' = lister /\ inbox' = inbox /\ Lagging' = Lagging
  BY DEF Write, Steady, Lagging
<1>2. /\ api \in [Pods -> Objects] /\ watch \in [Pods -> Seq(Objects)] /\ watch[p] \in Seq(Objects)
  BY DEF ObjectsOK
<1>3. /\ api'[p] = o /\ watch'[p] = Append(watch[p], o)
      /\ \A q \in Pods \ {p} : api'[q] = api[q] /\ watch'[q] = watch[q]
  BY <1>1, <1>2
<1>4. /\ Len(watch[p]) \in Nat /\ Len(Append(watch[p], o)) = Len(watch[p]) + 1
      /\ \A i \in 1 .. Len(watch[p]) : Append(watch[p], o)[i] = watch[p][i]
      /\ Append(watch[p], o)[Len(watch[p]) + 1] = o
  BY SMT, <1>2, AppendOf
<1>5. Told(p)' = Told(p) /\ View(p)' = View(p)
  BY <1>1 DEF Told, View
<1> QED
  BY <1>1, <1>3, <1>4, <1>5

LEMMA WriteKept ==
  ASSUME DispatchInv, EnvOK, NEW p \in Pods, NEW o \in Objects, Write(p, o), MemoryOK', TasksOK',
         excused \subseteq excused', excused' \subseteq excused \union {p},
         \A q \in Pods \ {p} : /\ Held(q)' = Held(q)
                               /\ \A i \in Slots : task'[i].pod = q => task[i].pod = q,
         PendingPodOfGodel(o) => Held(p)' = Held(p),
         p \notin excused' =>
           \/ /\ o = Gone /\ Held(p)' = Held(p)
              /\ \A i \in Slots : task'[i].pod = task[i].pod
           \/ Held(p)' = {} /\ ~PendingEvent(p) /\ Exists(api[p]) /\ Exists(o)
  PROVE  DispatchInv'
<1>1. ObjectsOK /\ MemoryOK /\ Steady /\ ObjectsOK' /\ Lagging \subseteq Handlers
  BY WriteObjects, GroupTypes DEF DispatchInv, EnvOK
<1>2. /\ api'[p] = o /\ lister'[p] = lister[p]
      /\ Told(p)' = Told(p) /\ View(p)' = View(p)
      /\ \A h \in Lagging : inbox'[h][p] = inbox[h][p]
      /\ Lagging' = Lagging
      /\ Len(watch[p]) \in Nat /\ Len(watch'[p]) = Len(watch[p]) + 1
      /\ \A i \in 1 .. Len(watch[p]) : watch'[p][i] = watch[p][i]
      /\ watch'[p][Len(watch[p]) + 1] = o
  BY <1>1, WrittenEvents
<1>3. ASSUME NEW q \in Pods \ {p} PROVE PodOK(q)'
  <2>1. PodSame(q)
    BY <1>1, WrittenEvents DEF PodSame
  <2>2. /\ Held(q)' = Held(q)
        /\ \A i \in Slots : task'[i].pod = q => task[i].pod = q
    OBVIOUS
  <2>3. /\ q \notin excused => /\ Held(q) = {} => Held(q)' = {}
                               /\ (\A x, y \in Held(q) : x = y) => \A x, y \in Held(q)' : x = y
                               /\ \A i, j \in Slots : task'[i].pod = q /\ task'[j].pod = q => i = j
        /\ Stays(Held(q), Held(q)')
    BY <2>2, OneTask DEF Stays
  <2> QED
    BY <1>1, <2>1, <2>3, SpotsKept
<1>4. 1 .. Len(watch'[p]) = (1 .. Len(watch[p])) \union {Len(watch[p]) + 1}
  BY SMT, <1>2
<1>5. ASSUME ~(Overtaken(p)') PROVE Kept(p)'
  <2> SUFFICES ASSUME PendingPodOfGodel(View(p)'),
                      \A i \in 1 .. Len(watch'[p]) : PendingPodOfGodel(watch'[p][i]),
                      \A i \in 1 .. Len(Told(p)') : PendingPodOfGodel(Told(p)'[i][2])
               PROVE  Tracked(p)'
    BY DEF Kept
  <2>1. /\ PendingPodOfGodel(View(p)) /\ PendingPodOfGodel(o)
        /\ \A i \in 1 .. Len(watch[p]) : PendingPodOfGodel(watch[p][i])
        /\ \A i \in 1 .. Len(Told(p)) : PendingPodOfGodel(Told(p)[i][2])
    BY SMT, <1>2, <1>4
  <2>2. ~Overtaken(p)
    BY <1>1, <1>2, <1>5 DEF Overtaken, Steady, GroupOf
  <2>3. Tracked(p)
    BY <2>1, <2>2 DEF DispatchInv, Kept
  <2> QED
    BY <1>1, <2>1, <2>3, TrackedIsHeld DEF TrackedHeld, HandOK, MemoryOK
<1>6. ASSUME p \notin excused' PROVE OnePlace(p)' /\ DeletedForGood(p)'
  <2>1. p \notin excused /\ OnePlace(p) /\ DeletedForGood(p)
    BY <1>6 DEF DispatchInv
  <2> DEFINE n == Len(watch[p])
  <2>0. /\ \A i \in 1 .. n : i \in 1 .. Len(watch'[p]) /\ watch'[p][i] = watch[p][i]
        /\ n + 1 \in 1 .. Len(watch'[p]) /\ watch'[p][n + 1] = o
        /\ \A i \in 1 .. Len(watch'[p]) : i \in 1 .. n \/ i = n + 1
    BY <1>2, <1>4
  <2>2. PendingEvent(p)' <=> PendingEvent(p) \/ PendingPodOfGodel(o)
    <3>1. (\E i \in 1 .. Len(watch'[p]) : PendingPodOfGodel(watch'[p][i])) <=>
            (\E i \in 1 .. n : PendingPodOfGodel(watch[p][i])) \/ PendingPodOfGodel(o)
      <4> HIDE DEF n
      <4>1. ASSUME NEW i \in 1 .. Len(watch'[p]), PendingPodOfGodel(watch'[p][i])
            PROVE  (\E j \in 1 .. n : PendingPodOfGodel(watch[p][j])) \/ PendingPodOfGodel(o)
        BY <2>0, <4>1
      <4>2. ASSUME NEW i \in 1 .. n, PendingPodOfGodel(watch[p][i])
            PROVE  \E j \in 1 .. Len(watch'[p]) : PendingPodOfGodel(watch'[p][j])
        BY <2>0, <4>2
      <4>3. PendingPodOfGodel(o) =>
              \E j \in 1 .. Len(watch'[p]) : PendingPodOfGodel(watch'[p][j])
        BY <2>0
      <4> QED
        BY <4>1, <4>2, <4>3
    <3> QED
      BY <1>2, <3>1 DEF PendingEvent
  <2>3. Spots(p) = Held(p) \union (IF PendingEvent(p) THEN {"event"} ELSE {})
        /\ Spots(p)' = Held(p)' \union (IF PendingEvent(p)' THEN {"event"} ELSE {})
    BY DEF Spots, Held
  <2>4. CASE /\ o = Gone /\ Held(p)' = Held(p)
             /\ \A i \in Slots : task'[i].pod = task[i].pod
    <3>1. ~PendingPodOfGodel(o) /\ ~Exists(o)
      BY <2>4, GoneObject
    <3>2. Spots(p)' = Spots(p)
      BY <2>2, <2>3, <2>4, <3>1
    <3>3. OneEvent(p)'
      <4>1. OneEvent(p) /\ Told(p)' = Told(p)
        BY <1>2, <2>1 DEF OnePlace
      <4>2. \A i \in 1 .. Len(watch'[p]) : PendingPodOfGodel(watch'[p][i]) =>
              i \in 1 .. n /\ PendingPodOfGodel(watch[p][i])
        BY <2>0, <3>1
      <4>3. \A i, j \in 1 .. n :
              PendingPodOfGodel(watch[p][i]) /\ PendingPodOfGodel(watch[p][j]) => i = j
        BY <4>1 DEF OneEvent
      <4>4. \A i, j \in 1 .. Len(watch'[p]) :
              PendingPodOfGodel(watch'[p][i]) /\ PendingPodOfGodel(watch'[p][j]) => i = j
        <5> HIDE DEF n
        <5> QED
          BY <4>2, <4>3
      <4>5. \A i \in 1 .. Len(watch'[p]), j \in 1 .. Len(Told(p)) :
              ~(PendingPodOfGodel(watch'[p][i]) /\ PendingPodOfGodel(Told(p)[j][2]))
        <5>1. \A i \in 1 .. n, j \in 1 .. Len(Told(p)) :
                ~(PendingPodOfGodel(watch[p][i]) /\ PendingPodOfGodel(Told(p)[j][2]))
          BY <4>1 DEF OneEvent
        <5> HIDE DEF n
        <5> QED
          BY <4>2, <5>1
      <4>6. \A i, j \in 1 .. Len(Told(p)) :
              PendingPodOfGodel(Told(p)[i][2]) /\ PendingPodOfGodel(Told(p)[j][2]) => i = j
        BY <4>1 DEF OneEvent
      <4> QED
        BY <4>1, <4>4, <4>5, <4>6 DEF OneEvent
    <3>4. DeletedForGood(p)'
      BY <1>2, <3>1 DEF DeletedForGood
    <3> QED
      BY SMTT(30), <1>2, <2>1, <2>4, <3>1, <3>2, <3>3, <3>4 DEF OnePlace
  <2>5. CASE Held(p)' = {} /\ ~PendingEvent(p) /\ Exists(api[p]) /\ Exists(o)
    <3>1. \A x, y \in Spots(p)' : x = y
      BY <2>3, <2>5
    <3>2. \A i \in Slots : task'[i].pod # p
      BY <2>5, HeldTables DEF HeldTable
    <3>3. OneEvent(p)'
      <4>1. \A i \in 1 .. Len(watch[p]) : ~PendingPodOfGodel(watch'[p][i])
        BY <1>2, <2>5 DEF PendingEvent
      <4>2. \A i \in 1 .. Len(Told(p)') : ~PendingPodOfGodel(Told(p)'[i][2])
        BY <1>2, <2>5 DEF PendingEvent
      <4> QED
        BY <1>4, <4>1, <4>2 DEF OneEvent
    <3>4. Spots(p)' # {} => PendingPod(api'[p])
      <4>1. PendingPodOfGodel(o) => PendingPod(o)
        BY ObjectKinds
      <4> QED
        BY <1>2, <2>2, <2>3, <2>5, <4>1
    <3>5. DeletedForGood(p)'
      <4>1. /\ \A i \in 1 .. Len(watch[p]) : Exists(watch[p][i])
            /\ \A h \in Lagging : \A i \in 1 .. Len(inbox[h][p]) : Exists(inbox[h][p][i][2])
        BY <2>1, <2>5 DEF DeletedForGood
      <4>2. \A i \in 1 .. Len(watch'[p]) : Exists(watch'[p][i])
        BY <1>2, <1>4, <2>5, <4>1
      <4> QED
        BY <1>2, <4>1, <4>2 DEF DeletedForGood
    <3> QED
      BY <3>1, <3>2, <3>3, <3>4, <3>5 DEF OnePlace
  <2> QED
    BY <1>6, <2>4, <2>5
<1> QED
  BY <1>1, <1>3, <1>5, <1>6 DEF DispatchInv, PodOK

LEMMA QueuesSame ==
  ASSUME DispatchInv, EnvOK, UNCHANGED <<queues, task, info, podGroup>>,
         stale' \subseteq Pods, abnormal' \subseteq Pods, excused' \subseteq Pods
  PROVE  MemoryOK' /\ TasksOK' /\ (\A q : Held(q)' = Held(q)) /\ task' = task
<1>1. /\ fifo' = fifo /\ sorted' = sorted /\ ready' = ready /\ units' = units /\ hand' = hand
      /\ task' = task /\ info' = info /\ podGroup' = podGroup /\ GroupOf' = GroupOf
  BY DEF queues, EnvOK, Steady, GroupOf
<1>2. MemoryOK'
  BY <1>1 DEF DispatchInv, MemoryOK, MemOK, Mem, UnitOK, EnvOK
<1>3. TasksOK'
  BY <1>1 DEF DispatchInv, TasksOK
<1>4. \A q : Held(q)' = Held(q)
  BY SMT, <1>1 DEF Held, Where, InHands, Mem
<1> QED
  BY <1>1, <1>2, <1>3, <1>4

\* A pod that has left its waiting behind and still exists is in no place.
LEMMA NowhereHeld ==
  ASSUME DispatchInv, NEW p \in Pods, p \notin excused, ~PendingPod(api[p]), Exists(api[p])
  PROVE  Held(p) = {} /\ ~PendingEvent(p)
BY DEF DispatchInv, OnePlace, Spots, Held

LEMMA UserStepKept ==
  ASSUME DispatchInv, NEW p \in Pods, UserStep(p)
  PROVE  DispatchInv'
<1>0. /\ ObjectsOK /\ MemoryOK /\ api[p] \in Objects
      /\ stale \subseteq Pods /\ abnormal \subseteq Pods /\ excused \subseteq Pods
  BY DEF DispatchInv, ObjectsOK, MemoryOK
<1>1. CASE EditPod(p)
  <2>1. /\ Write(p, api[p]) /\ excused' = excused \union {p} /\ EnvOK
        /\ UNCHANGED <<queues, task, info, podGroup, stale, abnormal>>
    BY <1>0, <1>1, FaultEnv DEF EditPod, others, Write
  <2>2. MemoryOK' /\ TasksOK' /\ (\A q : Held(q)' = Held(q)) /\ task' = task
    BY <1>0, <2>1, QueuesSame
  <2> QED
    BY <1>0, <2>1, <2>2, WriteKept
<1>2. CASE BreakPod(p)
  <2> DEFINE o == [api[p] EXCEPT !.state = "dispatched"]
  <2>1. /\ Write(p, o) /\ excused' = excused \union {p} /\ EnvOK
        /\ UNCHANGED <<queues, task, info, podGroup, stale, abnormal>>
    BY <1>0, <1>2, FaultEnv DEF BreakPod, others, Write
  <2>2. MemoryOK' /\ TasksOK' /\ (\A q : Held(q)' = Held(q)) /\ task' = task
    BY <1>0, <2>1, QueuesSame
  <2>3. o \in Objects
    BY <1>0, <1>2, BrokenObject DEF BreakPod
  <2> HIDE DEF o
  <2> QED
    BY <1>0, <2>1, <2>2, <2>3, WriteKept
<1>3. CASE DeletePod(p)
  <2>1. /\ Write(p, Gone) /\ excused' = excused /\ EnvOK
        /\ UNCHANGED <<queues, task, info, podGroup, stale, abnormal>>
    BY <1>0, <1>3, FaultEnv DEF DeletePod, others, Write
  <2>2. MemoryOK' /\ TasksOK' /\ (\A q : Held(q)' = Held(q)) /\ task' = task
    BY <1>0, <2>1, QueuesSame
  <2> QED
    BY <1>0, <2>1, <2>2, GoneObject, WriteKept
<1>4. CASE CreatePod(p)
  <2>1. /\ Write(p, Fresh) /\ excused' = excused \union {p} /\ EnvOK
        /\ UNCHANGED <<queues, task, info, podGroup, stale, abnormal>>
    BY <1>0, <1>4, FaultEnv DEF CreatePod, others, Write
  <2>2. MemoryOK' /\ TasksOK' /\ (\A q : Held(q)' = Held(q)) /\ task' = task
    BY <1>0, <2>1, QueuesSame
  <2> QED
    BY <1>0, <2>1, <2>2, FreshObject, WriteKept
<1>5. CASE AssumePod(p)
  <2>0. PICK o : o = [api[p] EXCEPT !.state = "assumed", !.assumed = TRUE]
    OBVIOUS
  <2>1. /\ Write(p, o) /\ excused' = excused /\ EnvOK /\ DispatchedPod(api[p])
        /\ UNCHANGED <<queues, task, info, podGroup, stale, abnormal>>
    BY <1>0, <1>5, <2>0, FaultEnv DEF AssumePod, others, Write
  <2>2. MemoryOK' /\ TasksOK' /\ (\A q : Held(q)' = Held(q)) /\ task' = task
    BY <1>0, <2>1, QueuesSame
  <2>3. o \in Objects /\ Exists(o) /\ Exists(api[p]) /\ ~PendingPod(api[p])
    <3>1. Exists(api[p]) /\ ~PendingPod(api[p])
      BY <1>0, <2>1, ObjectKinds
    <3>2. o \in Objects /\ Exists(o)
      BY <1>0, <2>0, <2>1, AssumedObject
    <3> QED
      BY <3>1, <3>2
  <2>4. p \notin excused => Held(p) = {} /\ ~PendingEvent(p)
    BY <2>3, NowhereHeld
  <2> QED
    BY <1>0, <2>1, <2>2, <2>3, <2>4, WriteKept
<1> QED
  BY <1>1, <1>2, <1>3, <1>4, <1>5 DEF UserStep

\* The reconciler writes only over what the API server has, or nothing.
LEMMA ReconcilerKept ==
  ASSUME DispatchInv, NEW p \in Pods, StaleDispatchedPodsSyncer(p) \/ AbnormalStatePodsSyncer(p)
  PROVE  DispatchInv'
<1>0. /\ ObjectsOK /\ MemoryOK /\ api[p] \in Objects /\ lister[p] \in Objects /\ info \in Infos
      /\ stale \subseteq Pods /\ abnormal \subseteq Pods /\ excused \subseteq Pods
  BY DEF DispatchInv, ObjectsOK, MemoryOK, TasksOK, Infos
<1>1. /\ UNCHANGED <<queues, task, info, env, excused>> /\ stale' \subseteq Pods /\ abnormal' \subseteq Pods
      /\ EnvOK
  BY <1>0, FaultEnv DEF StaleDispatchedPodsSyncer, AbnormalStatePodsSyncer
<1>2. CASE UNCHANGED objects
  BY <1>0, <1>1, <1>2, AsideKept
<1>3. CASE /\ Orphan(lister[p]) \/ AbnormalPodStateOfGodel(lister[p])
           /\ watch[p] = <<>> /\ Write(p, resetPodToPendingState(lister[p]))
  <2>1. lister[p] = api[p]
    BY <1>0, <1>3 DEF ObjectsOK, Latest
  <2>2. Exists(api[p]) /\ ~PendingPod(api[p])
    <3>1. Orphan(lister[p]) => DispatchedPod(lister[p])
      BY DEF Orphan, DispatchedPodOfGodel
    <3> QED
      BY <1>0, <1>3, <2>1, <3>1, ObjectKinds
  <2>3. PICK o : o = resetPodToPendingState(lister[p])
    OBVIOUS
  <2>4. o \in Objects /\ Exists(o) /\ Write(p, o) /\ podGroup' = podGroup
    BY <1>0, <1>3, <2>1, <2>2, <2>3, ResetObject DEF Write
  <2>5. MemoryOK' /\ TasksOK' /\ (\A q : Held(q)' = Held(q)) /\ task' = task
    BY <1>0, <1>1, <2>4, QueuesSame
  <2>6. p \notin excused => Held(p) = {} /\ ~PendingEvent(p)
    BY <2>2, NowhereHeld
  <2> QED
    BY <1>1, <2>2, <2>4, <2>5, <2>6, WriteKept
<1> QED
  BY <1>2, <1>3 DEF StaleDispatchedPodsSyncer, AbnormalStatePodsSyncer, ResetOrRetry

\* sendPodToScheduler: the pod leaves the goroutine with the write, or goes
\* back to the queue when the answer is lost.
LEMMA SendPodKept ==
  ASSUME DispatchInv, NEW i \in Slots, SendPodToScheduler(i)
  PROVE  DispatchInv'
<1>1. /\ MemoryOK /\ TasksOK /\ ObjectsOK /\ task[i].pc = "patch"
      /\ UNCHANGED <<units, taskUnchanged>>
  BY DEF DispatchInv, SendPodToScheduler
<1>2. PICK p \in Pods : p = task[i].pod
  BY <1>1, TaskTypes
<1>3. PICK o : o = [api[p] EXCEPT !.state = "dispatched", !.sched = task[i].sched]
  OBVIOUS
<1>4. /\ task[i].sched \in Schedulers /\ info \in Infos /\ api[p] \in Objects
      /\ task \in [Slots -> Tasks] /\ NoPod \notin Pods
  BY <1>1, TaskTypes, ConstantsAssumption DEF ObjectsOK, TasksOK
<1>5. ASSUME Exists(api[p]), Write(p, o), Finish(i), EnvOK, info' \in Infos,
             \/ sorted' = sorted /\ excused' = excused
             \/ sorted' = sorted \union {p} /\ excused' = excused \union {p}
      PROVE  DispatchInv'
  <2>1. o \in Objects /\ Exists(o) /\ ~PendingPodOfGodel(o)
    <3>1. o \in Objects /\ Exists(o) /\ ~PendingPod(o)
      <4>1. api[p] \in Objects /\ Exists(api[p]) /\ task[i].sched \in Schedulers
        BY <1>4, <1>5
      <4>2. PICK a \in Objects, s \in Schedulers : a = api[p] /\ s = task[i].sched
        BY <4>1
      <4>3. Exists(a) /\ o = [a EXCEPT !.state = "dispatched", !.sched = s]
        BY <1>3, <4>1, <4>2
      <4> QED
        BY <4>3, DispatchedObject
    <3> QED
      BY <3>1, ObjectKinds
  <2>2. /\ fifo' = fifo /\ ready' = ready /\ hand' = hand /\ units' = units /\ podGroup' = podGroup
        /\ stale' = stale /\ abnormal' = abnormal /\ GroupOf' = GroupOf
    BY <1>1, <1>5 DEF taskUnchanged, Write, EnvOK, Steady, GroupOf
  <2>3. Idle \in Tasks /\ Idle.pod = NoPod /\ Idle.pc = "idle"
    BY DEF Idle, Tasks
  <2>4. task' \in [Slots -> Tasks] /\ \A j \in Slots : task'[j] = IF j = i THEN Idle ELSE task[j]
    BY <1>4, <1>5, <2>3 DEF Finish
  <2>5. TasksOK'
    BY <1>1, <1>5, <2>3, <2>4 DEF TasksOK, Infos
  <2>6. MemoryOK'
    BY <1>1, <1>5, <2>2 DEF MemoryOK, MemOK, Mem, UnitOK, EnvOK
  <2>7. ASSUME NEW q \in Pods \ {p}
        PROVE  Held(q)' = Held(q) /\ \A j \in Slots : task'[j].pod = q => task[j].pod = q
    <3>1. \A j \in Slots : task'[j].pod = q <=> task[j].pod = q
      BY <1>2, <1>4, <2>3, <2>4
    <3>2. q \in sorted' <=> q \in sorted
      BY <1>5
    <3>3. \A x \in HeldNames : x \in Held(q)' <=> x \in Held(q)
      BY SMT, <2>2, <3>1, <3>2, HeldTables DEF HeldTable, HeldNames
    <3>4. Held(q)' \subseteq HeldNames /\ Held(q) \subseteq HeldNames
      BY HeldTables DEF HeldTable
    <3> QED
      BY <3>1, <3>3, <3>4
  <2>8. ASSUME p \notin excused' PROVE Held(p)' = {} /\ ~PendingEvent(p)
    <3>1. p \notin excused /\ sorted' = sorted /\ OnePlace(p)
      BY <1>5, <2>8 DEF DispatchInv
    <3>2. "task" \in Held(p)
      BY <1>2, HeldTables DEF HeldTable
    <3>3. Held(p) = {"task"} /\ ~PendingEvent(p)
      <4>1. Held(p) \subseteq Spots(p) /\ (PendingEvent(p) => "event" \in Spots(p))
        BY DEF Held, Spots
      <4> QED
        BY <3>1, <3>2, <4>1 DEF OnePlace
    <3>4. \A j \in Slots : task'[j].pod # p
      BY <1>2, <1>4, <2>3, <2>4, <3>1 DEF OnePlace
    <3>5. \A x \in HeldNames : x \notin Held(p)'
      BY SMT, <2>2, <3>1, <3>3, <3>4, HeldTables DEF HeldTable, HeldNames
    <3> QED
      BY <3>3, <3>5, HeldTables DEF HeldTable
  <2>9. excused \subseteq excused' /\ excused' \subseteq excused \union {p}
    BY <1>5
  <2> QED
    BY <1>5, <2>1, <2>5, <2>6, <2>7, <2>8, <2>9, WriteKept
<1>6. CASE /\ Exists(api[p]) /\ Write(p, o) /\ Finish(i) /\ UNCHANGED <<sorted, info, env, excused>>
  BY <1>1, <1>4, <1>5, <1>6, FaultEnv
<1>7. CASE /\ Exists(api[p]) /\ Fault("lostAnswer") /\ info' = removePod(info, p) /\ Requeue(i)
           /\ Write(p, o) /\ excused' = excused \union {p}
  <2>1. info' \in Infos /\ EnvOK
    BY <1>1, <1>4, <1>7, FaultEnv, InfoTypes
  <2> QED
    BY <1>2, <1>5, <1>7, <2>1 DEF Requeue
<1>8. CASE info' = removePod(info, p) /\ UNCHANGED <<objects, excused>>
           /\ (\/ ~Exists(api[p]) /\ Finish(i) /\ UNCHANGED <<sorted, env>>
               \/ Fault("fail") /\ Requeue(i))
  BY <1>1, <1>2, <1>8, SendFailedKept
<1> QED
  BY <1>2, <1>3, <1>6, <1>7, <1>8 DEF SendPodToScheduler

-----------------------------------------------------------------------------
(* A fresh dispatcher.                                                      *)

LEMMA InitInv ==
  ASSUME Init
  PROVE  DispatchInv
<1>1. PICK sc \in Scenarios : env = [scenario |-> sc, faults |-> 0]
  BY DEF Init
<1>2. Fresh \in Objects /\ Gone \in Objects /\ ~PendingPodOfGodel(Gone) /\ Exists(Fresh) /\ PendingPod(Fresh)
  BY FreshObject, GoneObject
<1>3. ObjectsOK
  <2>1. /\ api \in [Pods -> Objects] /\ lister \in [Pods -> Objects] /\ watch \in [Pods -> Seq(Objects)]
    BY SMT, <1>2 DEF Init
  <2>2. inbox \in [Lagging -> [Pods -> Seq(Objects \X Objects)]]
    BY SMT DEF Init
  <2>3. \A p \in Pods : api[p] = Latest(p)
    BY DEF Init, Latest
  <2>4. \A h \in Lagging, p \in Pods : InOrder(inbox[h][p], lister[p])
    BY SMT DEF Init, InOrder
  <2> QED
    BY <2>1, <2>2, <2>3, <2>4 DEF ObjectsOK
<1>4. MemoryOK
  <2>1. NewUnitInfo \in UnitInfos /\ NewUnitInfo.pods = {} /\ NewUnitInfo.unSortedPods = {}
    BY DEF NewUnitInfo, UnitInfos
  <2>2. units = [g \in Groups |-> NewUnitInfo] /\ fifo = {} /\ sorted = {} /\ ready = {}
    BY DEF Init
  <2>3. MemOK(Mem)
    BY <2>1, <2>2 DEF MemOK, Mem, UnitOK
  <2> QED
    BY <1>1, <2>3 DEF Init, MemoryOK
<1>5. TasksOK
  <2>1. Idle \in Tasks /\ Idle.pc = "idle"
    BY DEF Idle, Tasks
  <2>2. info \in Infos
    <3>1. info = [pods |-> [p \in Pods |-> NoScheduler], toPods |-> [s \in Schedulers |-> {}],
                  schedulers |-> Schedulers]
      BY DEF Init, NewDispatchInfo
    <3> QED
      BY <3>1 DEF Infos
  <2> QED
    BY <2>1, <2>2 DEF Init, TasksOK, Infos
<1>6. ASSUME NEW p \in Pods PROVE PodOK(p)
  <2>1. /\ watch[p] = <<Fresh>> /\ api[p] = Fresh /\ lister[p] = Gone
        /\ \A h \in Lagging : inbox[h][p] = <<>>
        /\ Told(p) = <<>>
    BY DEF Init, Told
  <2>2. Held(p) = {}
    <3>1. /\ fifo = {} /\ sorted = {} /\ ready = {} /\ \A g \in Groups : units[g].unSortedPods = {}
          /\ hand["unit"] = NoPod /\ hand["pending"] = NoPod /\ \A i \in Slots : task[i].pod = NoPod
      BY DEF Init, NewUnitInfo, Idle
    <3>2. NoPod # p
      BY ConstantsAssumption
    <3>3. \A x \in HeldNames : x \notin Held(p)
      BY SMT, <3>1, <3>2, HeldTables DEF HeldTable, HeldNames
    <3> QED
      BY <3>3, HeldTables DEF HeldTable
  <2>3. View(p) = Gone
    BY <2>1 DEF View
  <2>4. Kept(p)
    BY <1>2, <2>3 DEF Kept
  <2>5. OneEvent(p) /\ DeletedForGood(p)
    BY SMT, <1>2, <2>1 DEF OneEvent, DeletedForGood
  <2>6. OnePlace(p)
    <3>1. Spots(p) \subseteq {"event"}
      BY <2>2 DEF Spots, Held
    <3>2. \A i \in Slots : task[i].pod # p
      BY <2>2, HeldTables DEF HeldTable
    <3> QED
      BY <1>2, <2>1, <2>5, <3>1, <3>2 DEF OnePlace
  <2> QED
    BY <2>4, <2>5, <2>6 DEF PodOK
<1> QED
  BY <1>3, <1>4, <1>5, <1>6 DEF DispatchInv, PodOK

\* What the dispatcher finds when it starts again: each pod that waits is
\* queued once, and nothing is in anybody's hands.
LEMMA RestartKept ==
  ASSUME DispatchInv, Restart
  PROVE  DispatchInv'
<1> DEFINE pending == {p \in Pods : PendingPodOfGodel(api[p])}
           given == {p \in Pods : DispatchedPodOfGodel(api[p])}
           unit(g) == [NewUnitInfo EXCEPT !.pg = podGroup[g],
                         !.pods = {p \in Pods : GroupOf[p] = g /\ Exists(api[p])},
                         !.unSortedPods = {p \in pending : GroupOf[p] = g}]
           full == {g \in Groups : readyToBeDispatched(unit(g))}
<1>1. /\ Fault("crash") /\ lister' = api /\ watch' = [p \in Pods |-> <<>>]
      /\ inbox' = [h \in Lagging |-> [p \in Pods |-> <<>>]]
      /\ fifo' = {p \in pending : GroupOf[p] = NoGroup} /\ sorted' = {}
      /\ ready' = {p \in pending : GroupOf[p] \in full}
      /\ units' = [g \in Groups |-> IF g \in full THEN [unit(g) EXCEPT !.unSortedPods = {}] ELSE unit(g)]
      /\ hand' = [l \in DOMAIN hand |-> NoPod] /\ task' = [i \in Slots |-> Idle] /\ stale' = {}
      /\ api' = api /\ podGroup' = podGroup /\ excused' = excused
  BY DEF Restart
<1>2. /\ info' = [schedulers |-> {s \in Schedulers : crd[s] # "none"},
                  pods |-> [p \in Pods |-> IF p \in given THEN api[p].sched ELSE NoScheduler],
                  toPods |-> [s \in Schedulers |-> {p \in given : api[p].sched = s}]]
      /\ abnormal' \subseteq Pods
  BY DEF Restart
<1> HIDE DEF unit, full, pending, given
<1>10. /\ lister' = api /\ watch' = [p \in Pods |-> <<>>] /\ api' = api
       /\ inbox' = [h \in Lagging |-> [p \in Pods |-> <<>>]]
       /\ hand' = [l \in DOMAIN hand |-> NoPod] /\ task' = [i \in Slots |-> Idle]
  BY <1>1
<1>3. ObjectsOK /\ MemoryOK /\ api \in [Pods -> Objects] /\ EnvOK /\ Steady
      /\ Lagging' = Lagging /\ GroupOf' = GroupOf
      /\ \A p \in Pods : GroupOf[p] \in Groups \union {NoGroup}
  BY <1>1, FaultEnv, GroupTypes DEF DispatchInv, ObjectsOK, EnvOK, Steady, Lagging, GroupOf
<1>4. ASSUME NEW p \in Pods, PendingPodOfGodel(api[p]) PROVE Exists(api[p]) /\ PendingPod(api[p])
  BY <1>3, <1>4, ObjectKinds DEF ObjectsOK
<1>5. ASSUME NEW g \in Groups
      PROVE  /\ units'[g] \in UnitInfos /\ units'[g].unSortedPods \subseteq units'[g].pods
             /\ \A p \in units'[g].pods : GroupOf[p] = g
             /\ \A p : p \in units'[g].unSortedPods <=> p \in pending /\ GroupOf[p] = g /\ g \notin full
  <2>1. /\ unit(g) \in UnitInfos /\ unit(g).unSortedPods = {p \in pending : GroupOf[p] = g}
        /\ unit(g).pods = {p \in Pods : GroupOf[p] = g /\ Exists(api[p])}
    <3>1. podGroup[g] \in {"none", "pending", "scheduled"}
      BY <1>3 DEF MemoryOK
    <3>2. PICK P, U : P = {p \in Pods : GroupOf[p] = g /\ Exists(api[p])} /\ U = {p \in pending : GroupOf[p] = g}
      OBVIOUS
    <3>3. P \subseteq Pods /\ U \subseteq Pods
      BY <3>2 DEF pending
    <3>4. unit(g) = [pg |-> podGroup[g], pods |-> P, unSortedPods |-> U, scheduler |-> NoScheduler]
      <4>1. unit(g) = [NewUnitInfo EXCEPT !.pg = podGroup[g], !.pods = P, !.unSortedPods = U]
        BY <3>2, Zenon DEF unit
      <4> QED
        BY <4>1 DEF NewUnitInfo
    <3> QED
      BY SMT, <3>1, <3>2, <3>3, <3>4 DEF UnitInfos
  <2>2. unit(g).unSortedPods \subseteq unit(g).pods /\ \A p \in unit(g).pods : GroupOf[p] = g
    BY <1>4, <2>1 DEF pending
  <2>3. units'[g] = IF g \in full THEN [unit(g) EXCEPT !.unSortedPods = {}] ELSE unit(g)
    BY <1>1
  <2>4. PICK ui \in UnitInfos : ui = unit(g)
    BY <2>1
  <2>5. CASE g \in full
    <3>1. units'[g] = [ui EXCEPT !.unSortedPods = {}]
      BY <2>3, <2>4, <2>5
    <3>2. units'[g] \in UnitInfos /\ units'[g].unSortedPods = {} /\ units'[g].pods = ui.pods
      BY <3>1 DEF UnitInfos
    <3> QED
      BY <2>2, <2>4, <2>5, <3>2
  <2>6. CASE g \notin full
    BY <2>1, <2>2, <2>3, <2>6
  <2> QED
    BY <2>5, <2>6
<1>6. ObjectsOK'
  <2>1. inbox' \in [Lagging -> [Pods -> Seq(Objects \X Objects)]]
    BY SMT, <1>10
  <2>2. lister' \in [Pods -> Objects] /\ watch' \in [Pods -> Seq(Objects)] /\ api' \in [Pods -> Objects]
    BY SMT, <1>10, <1>3
  <2>3. \A p \in Pods : api'[p] = Latest(p)'
    BY <1>10 DEF Latest
  <2>4. \A h \in Lagging, p \in Pods : InOrder(inbox'[h][p], lister'[p])
    BY SMT, <1>10 DEF InOrder
  <2> QED
    BY <1>3, <2>1, <2>2, <2>3, <2>4 DEF ObjectsOK
<1>7. MemoryOK'
  <2>1. fifo' \subseteq Pods /\ sorted' \subseteq Pods /\ ready' \subseteq Pods
    BY <1>1 DEF pending
  <2>2. units' \in [Groups -> UnitInfos]
    BY <1>1, <1>5
  <2>3. MemOK(Mem)'
    BY <1>3, <1>5, <2>1, <2>2 DEF MemOK, Mem, UnitOK
  <2>4. hand' \in [{"unit", "pending"} -> Pods \union {NoPod}]
    BY <1>10, <1>3 DEF MemoryOK
  <2> QED
    BY <1>1, <1>2, <1>3, <2>3, <2>4 DEF MemoryOK, EnvOK
<1>8. TasksOK'
  <2>1. Idle \in Tasks /\ Idle.pc = "idle"
    BY DEF Idle, Tasks
  <2>2. \A p \in given : api[p].sched \in Schedulers
    BY <1>3, ObjectKinds DEF given
  <2>3. info' \in Infos
    BY <1>2, <2>2 DEF Infos, given
  <2> QED
    BY <1>10, <2>1, <2>3 DEF TasksOK, Infos
<1>9. ASSUME NEW p \in Pods PROVE PodOK(p)'
  <2>1. /\ watch'[p] = <<>> /\ api'[p] = api[p] /\ lister'[p] = api[p]
        /\ \A h \in Lagging : inbox'[h][p] = <<>>
    BY <1>10
  <2>2. Told(p)' = <<>>
    BY <1>3, <2>1 DEF Told
  <2>3. View(p)' = api[p]
    BY <2>1, <2>2 DEF View
  <2>4. \A x \in Held(p)' : \/ x = "fifo" /\ p \in pending /\ GroupOf[p] = NoGroup
                            \/ x = "ready" /\ p \in pending /\ GroupOf[p] \in full
                            \/ x = "waits" /\ p \in pending /\ GroupOf[p] \in Groups \ full
    <3>1. hand'["unit"] # p /\ hand'["pending"] # p /\ \A i \in Slots : task'[i].pod # p
      BY <1>10, <1>3, ConstantsAssumption DEF MemoryOK, Idle
    <3>2. /\ "fifo" \in Held(p)' => p \in pending /\ GroupOf[p] = NoGroup
          /\ "sorted" \notin Held(p)' /\ "unit" \notin Held(p)' /\ "pending" \notin Held(p)' /\ "task" \notin Held(p)'
          /\ "ready" \in Held(p)' => p \in pending /\ GroupOf[p] \in full
      BY <1>1, <3>1, HeldTables DEF HeldTable
    <3>3. "waits" \in Held(p)' => p \in pending /\ GroupOf[p] \in Groups \ full
      BY SMT, <1>5, HeldTables DEF HeldTable
    <3>4. \A x \in HeldNames : x \in Held(p)' =>
                            \/ x = "fifo" /\ p \in pending /\ GroupOf[p] = NoGroup
                            \/ x = "ready" /\ p \in pending /\ GroupOf[p] \in full
                            \/ x = "waits" /\ p \in pending /\ GroupOf[p] \in Groups \ full
      BY <3>2, <3>3 DEF HeldNames
    <3> QED
      BY <3>4, HeldTables DEF HeldTable
  <2>5. p \in pending => Held(p)' # {}
    <3> SUFFICES ASSUME p \in pending PROVE Held(p)' # {}
      OBVIOUS
    <3>1. CASE GroupOf[p] = NoGroup
      BY <1>1, <3>1, HeldTables DEF HeldTable
    <3>2. CASE GroupOf[p] \in full
      BY <1>1, <3>2, HeldTables DEF HeldTable
    <3>3. CASE GroupOf[p] \in Groups \ full
      BY <1>5, <3>3, HeldTables DEF HeldTable
    <3> QED
      BY <1>3, <3>1, <3>2, <3>3
  <2>6. Kept(p)'
    <3>1. Tracked(p)' <=> Held(p)' # {}
      BY <1>7, TrackedIsHeld DEF TrackedHeld, HandOK, MemoryOK
    <3> QED
      BY <2>3, <2>5, <3>1 DEF Kept, pending
  <2>7. OneEvent(p)' /\ DeletedForGood(p)' /\ ~(PendingEvent(p)')
    BY SMT, <1>3, <2>1, <2>2 DEF OneEvent, DeletedForGood, PendingEvent
  <2>8. OnePlace(p)'
    <3>1. Spots(p)' = Held(p)'
      BY <2>7 DEF Spots, Held
    <3>2. \A i \in Slots : task'[i].pod # p
      BY <1>10, ConstantsAssumption DEF Idle
    <3>3. Held(p)' # {} => p \in pending
      BY <2>4
    <3>4. \A x, y \in Held(p)' : x = y
      <4>1. full \subseteq Groups /\ NoGroup \notin Groups
        BY ConstantsAssumption DEF full
      <4> QED
        BY <2>4, <4>1
    <3> QED
      BY <1>4, <2>1, <2>7, <3>1, <3>2, <3>3, <3>4 DEF OnePlace, pending
  <2> QED
    BY <2>6, <2>7, <2>8 DEF PodOK
<1> QED
  BY <1>6, <1>7, <1>8, <1>9 DEF DispatchInv, PodOK

=============================================================================
