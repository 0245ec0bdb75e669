-------------------------- MODULE DispatcherProofs --------------------------
(***************************************************************************)
(* Proofs about the dispatcher, for any pods, groups, schedulers, lag and  *)
(* faults: no pending pod leaves its hands (NoPodLost), and a pod changes  *)
(* owner only as PodOwnership allows (OwnershipSpec).                      *)
(*                                                                         *)
(* Both rest on DispatchInv.  A pod that nobody edited, created again or   *)
(* dispatched without an answer is in one place at a time: in a queue, in  *)
(* the hands of a loop or goroutine, or in an event that has not reached   *)
(* the handler.  So no two goroutines dispatch it.  And a pod that the     *)
(* handler has seen pending is in some place until an event that ends its  *)
(* waiting is under way.                                                   *)
(***************************************************************************)
EXTENDS DispatcherSteps

(* Most leaves are first-order; those with arithmetic name SMT. *)
USE Zenon

-----------------------------------------------------------------------------
(* Deliveries and notifications.                                            *)

\* An event that puts the pod nowhere new keeps it in one place, and so does
\* the only event that makes it pending, once it has been handled.
LEMMA EventKept ==
  ASSUME NEW p \in Pods, OnePlace(p), api'[p] = api[p], hand' = hand, task' = task, OneEvent(p)',
         \/ /\ PendingEvent(p)' => PendingEvent(p)
            /\ Shrinks(Where(Mem, p), Where(Mem, p)')
         \/ /\ PendingEvent(p) /\ ~(PendingEvent(p)')
            /\ Where(Mem, p) = {} => \A x, y \in Where(Mem, p)' : x = y
  PROVE  OnePlace(p)'
<1> DEFINE H == InHands(p)
           A == Where(Mem, p)
           B == Where(Mem, p)'
           E == IF PendingEvent(p) THEN {"event"} ELSE {}
           F == IF PendingEvent(p)' THEN {"event"} ELSE {}
<1>1. Spots(p) = A \union H \union E /\ Spots(p)' = B \union H \union F
  BY DEF Spots, InHands
<1>2. "waits" \notin H /\ "event" \notin A \union B \union H /\ "ready" \notin H
  BY DEF InHands, Where
<1>3. \A x, y \in A \union H \union E : x = y
  BY SMT, <1>1 DEF OnePlace
<1>4. (\A x, y \in B \union H \union F : x = y) /\ (Spots(p)' # {} => Spots(p) # {})
  <2>1. CASE /\ PendingEvent(p)' => PendingEvent(p)
             /\ Shrinks(A, B)
    <3>1. F \subseteq E
      BY <2>1
    <3> HIDE DEF A, B, E, F, H
    <3>2. CASE B \subseteq A
      BY <1>1, <1>3, <3>1, <3>2
    <3>3. CASE "waits" \in A /\ B \subseteq (A \ {"waits"}) \union {"ready"}
      <4>1. H = {} /\ E = {}
        <5>1. \A x \in H : x = "waits"
          BY <1>3, <3>3
        <5>2. \A x \in E : x = "waits"
          BY <1>3, <3>3
        <5>3. E \subseteq {"event"}
          BY DEF E
        <5> QED
          BY <1>2, <5>1, <5>2, <5>3
      <4>2. A \ {"waits"} = {}
        BY SMT, <1>3, <3>3
      <4>3. B \union H \union F \subseteq {"ready"}
        BY <3>1, <3>3, <4>1, <4>2
      <4> QED
        BY <1>1, <3>3, <4>3
    <3> QED
      BY <2>1, <3>2, <3>3 DEF Shrinks
  <2>2. CASE /\ PendingEvent(p) /\ ~(PendingEvent(p)')
             /\ A = {} => \A x, y \in B : x = y
    <3>1. E = {"event"} /\ F = {}
      BY <2>2
    <3> HIDE DEF A, B, E, F, H
    <3>2. A = {} /\ H = {}
      BY SMT, <1>2, <1>3, <3>1
    <3> QED
      BY <1>1, <2>2, <3>1, <3>2
  <2> QED
    BY <2>1, <2>2
<1>5. Spots(p)' # {} => PendingPod(api'[p]) \/ ~Exists(api'[p])
  BY <1>4 DEF OnePlace
<1>6. \A x, y \in Spots(p)' : x = y
  <2> HIDE DEF A, B, E, F, H
  <2> QED
    BY <1>1, <1>4
<1> QED
  BY <1>5, <1>6 DEF OnePlace

\* The step loses no pod that waits.
LEMMA StillTracked ==
  ASSUME MemoryOK, MemoryOK', NEW p, hand' = hand, task' = task,
         \/ Where(Mem, p)' # {}
         \/ Tracked(p) /\ Stays(Where(Mem, p), Where(Mem, p)')
  PROVE  Tracked(p)'
<1>1. (Tracked(p) <=> Held(p) # {}) /\ (Tracked(p)' <=> Held(p)' # {})
  BY TrackedIsHeld DEF TrackedHeld, HandOK, MemoryOK
<1>2. Held(p) = Where(Mem, p) \union InHands(p) /\ Held(p)' = Where(Mem, p)' \union InHands(p)
  BY DEF Held, InHands
<1> QED
  BY <1>1, <1>2 DEF Stays

LEMMA DeliveredEvents ==
  ASSUME ObjectsOK, NEW p \in Pods, Deliver(p)
  PROVE  /\ Lagging' = Lagging /\ api' = api
         /\ Len(watch[p]) \in Nat /\ Len(watch[p]) >= 1 /\ Len(watch'[p]) = Len(watch[p]) - 1
         /\ \A i \in 1 .. Len(watch'[p]) : watch'[p][i] = watch[p][i + 1] /\ i + 1 \in 1 .. Len(watch[p])
         /\ Head(watch[p]) = watch[p][1] /\ lister'[p] = watch[p][1] /\ watch[p][1] \in Objects
         /\ \A h \in Lagging :
              /\ Len(inbox[h][p]) \in Nat /\ Len(inbox'[h][p]) = Len(inbox[h][p]) + 1
              /\ \A i \in 1 .. Len(inbox[h][p]) : inbox'[h][p][i] = inbox[h][p][i]
              /\ inbox'[h][p][Len(inbox[h][p]) + 1] = <<lister[p], watch[p][1]>>
         /\ \A q \in Pods \ {p} : PodSame(q)
<1>1. /\ watch[p] \in Seq(Objects) /\ watch[p] # <<>> /\ Lagging' = Lagging /\ api' = api
      /\ watch' = [watch EXCEPT ![p] = Tail(watch[p])] /\ excused' = excused
      /\ lister' = [lister EXCEPT ![p] = Head(watch[p])]
      /\ inbox' = [h \in Lagging |->
                     [inbox[h] EXCEPT ![p] = Append(inbox[h][p], <<lister[p], Head(watch[p])>>)]]
  BY DEF Deliver, ObjectsOK, Lagging
<1>2. /\ Head(watch[p]) \in Objects /\ Tail(watch[p]) \in Seq(Objects)
      /\ Len(watch[p]) \in Nat /\ Len(watch[p]) >= 1 /\ Len(Tail(watch[p])) = Len(watch[p]) - 1
      /\ \A i \in 1 .. Len(Tail(watch[p])) :
           Tail(watch[p])[i] = watch[p][i + 1] /\ i + 1 \in 1 .. Len(watch[p])
      /\ Head(watch[p]) = watch[p][1]
  BY <1>1, TailOf
<1>3. watch'[p] = Tail(watch[p]) /\ lister'[p] = Head(watch[p])
  BY <1>1 DEF ObjectsOK
<1>4. ASSUME NEW h \in Lagging
      PROVE  /\ Len(inbox[h][p]) \in Nat /\ Len(inbox'[h][p]) = Len(inbox[h][p]) + 1
             /\ \A i \in 1 .. Len(inbox[h][p]) : inbox'[h][p][i] = inbox[h][p][i]
             /\ inbox'[h][p][Len(inbox[h][p]) + 1] = <<lister[p], watch[p][1]>>
  <2>1. inbox[h] \in [Pods -> Seq(Objects \X Objects)] /\ inbox[h][p] \in Seq(Objects \X Objects)
        /\ lister[p] \in Objects
    BY DEF ObjectsOK
  <2>2. PICK e \in Objects \X Objects : e = <<lister[p], Head(watch[p])>>
    BY <1>2, <2>1
  <2>3. inbox'[h][p] = Append(inbox[h][p], e)
    BY <1>1, <2>1, <2>2
  <2> QED
    BY SMT, <1>2, <2>1, <2>2, <2>3, AppendOf
<1>5. ASSUME NEW q \in Pods \ {p} PROVE PodSame(q)
  <2>1. \A h \in Lagging : inbox'[h][q] = inbox[h][q]
    BY <1>1 DEF ObjectsOK
  <2> QED
    BY <1>1, <2>1 DEF ObjectsOK, PodSame
<1> QED
  BY <1>1, <1>2, <1>3, <1>4, <1>5

LEMMA DeliveredForGood ==
  ASSUME ObjectsOK, NEW p \in Pods, Deliver(p), DeletedForGood(p)
  PROVE  DeletedForGood(p)'
<1>1. /\ Lagging' = Lagging /\ api' = api /\ Len(watch[p]) \in Nat /\ Len(watch[p]) >= 1
      /\ \A i \in 1 .. Len(watch'[p]) : watch'[p][i] = watch[p][i + 1] /\ i + 1 \in 1 .. Len(watch[p])
      /\ \A h \in Lagging :
              /\ Len(inbox[h][p]) \in Nat /\ Len(inbox'[h][p]) = Len(inbox[h][p]) + 1
              /\ \A i \in 1 .. Len(inbox[h][p]) : inbox'[h][p][i] = inbox[h][p][i]
              /\ inbox'[h][p][Len(inbox[h][p]) + 1] = <<lister[p], watch[p][1]>>
  BY DeliveredEvents
<1> SUFFICES ASSUME Exists(api[p])
             PROVE  /\ \A i \in 1 .. Len(watch'[p]) : Exists(watch'[p][i])
                    /\ \A h \in Lagging : \A i \in 1 .. Len(inbox'[h][p]) : Exists(inbox'[h][p][i][2])
  BY <1>1 DEF DeletedForGood
<1>2. /\ \A i \in 1 .. Len(watch[p]) : Exists(watch[p][i])
      /\ \A h \in Lagging : \A i \in 1 .. Len(inbox[h][p]) : Exists(inbox[h][p][i][2])
  BY DEF DeletedForGood
<1>3. Exists(watch[p][1])
  BY SMT, <1>1, <1>2
<1>4. ASSUME NEW h \in Lagging, NEW i \in 1 .. Len(inbox'[h][p]) PROVE Exists(inbox'[h][p][i][2])
  <2>0. Len(inbox[h][p]) \in Nat /\ i \in 1 .. Len(inbox[h][p]) + 1
    BY <1>1
  <2>1. CASE i = Len(inbox[h][p]) + 1
    <3>1. inbox'[h][p][i] = <<lister[p], watch[p][1]>>
      BY <1>1, <2>1
    <3> QED
      BY SMT, <1>3, <3>1
  <2>2. CASE i \in 1 .. Len(inbox[h][p])
    <3>1. inbox'[h][p][i] = inbox[h][p][i]
      BY <1>1, <2>2
    <3> QED
      BY <1>2, <2>2, <3>1
  <2> QED
    BY SMT, <2>0, <2>1, <2>2
<1> QED
  BY <1>1, <1>2, <1>4

\* The pod of a delivery, whose handler of pending pods keeps up.
LEMMA DeliveredNow ==
  ASSUME DispatchInv, MemoryOK', Steady, NEW p \in Pods, Deliver(p), "pending" \notin Lagging
  PROVE  PodOK(p)'
<1>0. /\ ObjectsOK /\ MemoryOK
      /\ Notified(Handlers \ Lagging, p, lister[p], Head(watch[p]))
      /\ hand' = hand /\ task' = task /\ excused' = excused
      /\ "pending" \in Handlers \ Lagging
  BY DEF DispatchInv, Deliver, Handlers
<1> DEFINE w == watch[p]
           new == watch[p][1]
<1>1. /\ Lagging' = Lagging /\ api' = api /\ Len(w) \in Nat /\ Len(w) >= 1 /\ Len(watch'[p]) = Len(w) - 1
      /\ \A i \in 1 .. Len(watch'[p]) : watch'[p][i] = w[i + 1] /\ i + 1 \in 1 .. Len(w)
      /\ Head(w) = new /\ lister'[p] = new /\ new \in Objects
      /\ \A h \in Lagging :
              /\ Len(inbox[h][p]) \in Nat /\ Len(inbox'[h][p]) = Len(inbox[h][p]) + 1
              /\ \A i \in 1 .. Len(inbox[h][p]) : inbox'[h][p][i] = inbox[h][p][i]
              /\ inbox'[h][p][Len(inbox[h][p]) + 1] = <<lister[p], new>>
  BY <1>0, DeliveredEvents
<1>2. /\ ~PendingPodOfGodel(new) => Shrinks(Where(Mem, p), Where(Mem, p)')
      /\ PendingPodOfGodel(new) /\ Where(Mem, p) = {} => \A x, y \in Where(Mem, p)' : x = y
      /\ PendingPodOfGodel(new) => Where(Mem, p)' # {}
  <2>0. PICK hs : hs = Handlers \ Lagging
    OBVIOUS
  <2>1. PICK n \in Objects : n = new
    BY <1>1
  <2>2. Notified(hs, p, lister[p], n) /\ "pending" \in hs
    BY <1>0, <1>1, <2>0, <2>1
  <2>3. /\ ~PendingPodOfGodel(n) => Shrinks(Where(Mem, p), Where(Mem, p)')
        /\ PendingPodOfGodel(n) /\ Where(Mem, p) = {} => \A x, y \in Where(Mem, p)' : x = y
        /\ PendingPodOfGodel(n) => Where(Mem, p)' # {}
    BY <1>0, <2>2, NotifiedPlaces
  <2> QED
    BY <2>1, <2>3
<1>3. Told(p) = <<>> /\ Told(p)' = <<>> /\ View(p)' = new /\ Len(<<>>) = 0
  <2>1. Told(p) = <<>> /\ Told(p)' = <<>>
    BY <1>1 DEF Told
  <2>2. View(p)' = lister'[p]
    BY <2>1 DEF View
  <2> QED
    BY <1>1, <2>1, <2>2
<1>4. ASSUME p \notin excused' PROVE OnePlace(p)' /\ DeletedForGood(p)'
  <2>1. OnePlace(p) /\ DeletedForGood(p)
    BY <1>0, <1>4 DEF DispatchInv
  <2>2. DeletedForGood(p)'
    BY <1>0, <2>1, DeliveredForGood
  <2>3. \A i, j \in 1 .. Len(w) : PendingPodOfGodel(w[i]) /\ PendingPodOfGodel(w[j]) => i = j
    BY <2>1 DEF OnePlace, OneEvent
  <2>4. OneEvent(p)'
    <3>1. ASSUME NEW i \in 1 .. Len(watch'[p]), NEW j \in 1 .. Len(watch'[p]),
                 PendingPodOfGodel(watch'[p][i]), PendingPodOfGodel(watch'[p][j])
          PROVE  i = j
      BY SMT, <1>1, <2>3, <3>1
    <3> QED
      BY SMT, <1>3, <3>1 DEF OneEvent
  <2>5. PendingEvent(p) <=> \E i \in 1 .. Len(w) : PendingPodOfGodel(w[i])
    BY SMT, <1>3 DEF PendingEvent
  <2>6. PendingEvent(p)' <=> \E i \in 1 .. Len(watch'[p]) : PendingPodOfGodel(watch'[p][i])
    BY SMT, <1>3 DEF PendingEvent
  <2>7. PendingPodOfGodel(new) => PendingEvent(p) /\ ~(PendingEvent(p)')
    <3>1. ASSUME PendingPodOfGodel(new), NEW i \in 1 .. Len(watch'[p]), PendingPodOfGodel(watch'[p][i])
          PROVE  FALSE
      <4>1. PendingPodOfGodel(w[i + 1]) /\ i + 1 \in 1 .. Len(w) /\ 1 \in 1 .. Len(w) /\ i + 1 # 1
        BY SMT, <1>1, <3>1
      <4> QED
        BY <2>3, <3>1, <4>1
    <3> QED
      BY SMT, <1>1, <2>5, <2>6, <3>1
  <2>8. PendingEvent(p)' => PendingEvent(p)
    BY <1>1, <2>5, <2>6
  <2>9. api'[p] = api[p]
    BY <1>1
  <2> HIDE DEF w, new
  <2> QED
    BY <1>0, <1>2, <2>1, <2>2, <2>4, <2>7, <2>8, <2>9, EventKept
<1>5. Kept(p)'
  <2>1. CASE PendingPodOfGodel(new)
    BY <1>0, <1>2, <2>1, StillTracked DEF Kept
  <2>2. CASE ~PendingPodOfGodel(new)
    BY <1>3, <2>2 DEF Kept
  <2> QED
    BY <2>1, <2>2
<1> QED
  BY <1>4, <1>5 DEF PodOK

\* The pod of a delivery, whose handler of pending pods is behind.
LEMMA DeliveredLate ==
  ASSUME DispatchInv, MemoryOK', Steady, NEW p \in Pods, Deliver(p), "pending" \in Lagging
  PROVE  PodOK(p)'
<1>0. /\ ObjectsOK /\ MemoryOK
      /\ Notified(Handlers \ Lagging, p, lister[p], Head(watch[p]))
      /\ hand' = hand /\ task' = task /\ excused' = excused
  BY DEF DispatchInv, Deliver
<1> DEFINE w == watch[p]
           v == watch'[p]
           t == Told(p)
           u == Told(p)'
           new == watch[p][1]
           k == Len(Told(p)) + 1
<1>1. /\ Lagging' = Lagging /\ api' = api /\ Len(w) \in Nat /\ Len(w) >= 1 /\ Len(v) = Len(w) - 1
      /\ \A i \in 1 .. Len(v) : v[i] = w[i + 1] /\ i + 1 \in 1 .. Len(w)
      /\ Head(w) = new /\ lister'[p] = new /\ new \in Objects
  BY <1>0, DeliveredEvents
<1>2. /\ Len(t) \in Nat /\ Len(u) = k /\ u[k] = <<lister[p], new>>
      /\ \A i \in 1 .. Len(t) : u[i] = t[i]
  BY <1>0, <1>1, DeliveredEvents DEF Told
<1>3. /\ Shrinks(Where(Mem, p), Where(Mem, p)')
      /\ Exists(new) => Stays(Where(Mem, p), Where(Mem, p)')
  <2>0. PICK hs : hs = Handlers \ Lagging
    OBVIOUS
  <2>1. PICK n \in Objects : n = new
    BY <1>1
  <2>2. Notified(hs, p, lister[p], n) /\ "pending" \notin hs
    BY <1>0, <1>1, <2>0, <2>1
  <2>3. /\ Shrinks(Where(Mem, p), Where(Mem, p)')
        /\ Exists(n) => Stays(Where(Mem, p), Where(Mem, p)')
    BY <1>0, <2>2, NotifiedPlaces
  <2> QED
    BY <2>1, <2>3
<1>9. t = Told(p) /\ u = Told(p)' /\ t \in Seq(Objects \X Objects)
  BY <1>0 DEF Told, ObjectsOK
<1>10. k = Len(t) + 1
  OBVIOUS
<1> HIDE DEF w, v, t, u, new, k
<1>4. View(p)' = View(p)
  <2>0. u # <<>>
    BY SMT, <1>2, <1>10
  <2>1. CASE t = <<>>
    <3>1. k = 1
      BY SMT, <1>10, <2>1
    <3>2. u[1][1] = lister[p]
      BY SMT, <1>2, <3>1
    <3> QED
      BY <1>9, <2>0, <2>1, <3>2 DEF View
  <2>2. CASE t # <<>>
    <3>1. 1 \in 1 .. Len(t)
      BY SMT, <1>2, <1>9, <2>2
    <3>2. u[1] = t[1]
      BY <1>2, <3>1
    <3> QED
      BY <1>9, <2>0, <2>2, <3>2 DEF View
  <2> QED
    BY <2>1, <2>2
<1>5. k = Len(t) + 1 /\ new = w[1] /\ 1 \in 1 .. Len(w)
  BY SMT, <1>1 DEF k, t, new, w
<1>6. ASSUME NEW j \in 1 .. Len(u)
      PROVE  (j \in 1 .. Len(t) /\ u[j] = t[j]) \/ (j = k /\ u[j][2] = w[1])
  <2>1. CASE j = k
    BY SMT, <1>2, <1>5, <2>1
  <2>2. CASE j # k
    <3>1. j \in 1 .. Len(t)
      BY SMT, <1>2, <1>5, <2>2
    <3> QED
      BY <1>2, <3>1
  <2> QED
    BY <2>1, <2>2
<1>7. ASSUME p \notin excused' PROVE OnePlace(p)' /\ DeletedForGood(p)'
  <2>1. OnePlace(p) /\ DeletedForGood(p)
    BY <1>0, <1>7 DEF DispatchInv
  <2>2. DeletedForGood(p)'
    BY <1>0, <2>1, DeliveredForGood
  <2>3. /\ \A i, j \in 1 .. Len(w) : PendingPodOfGodel(w[i]) /\ PendingPodOfGodel(w[j]) => i = j
        /\ \A i, j \in 1 .. Len(t) : PendingPodOfGodel(t[i][2]) /\ PendingPodOfGodel(t[j][2]) => i = j
        /\ \A i \in 1 .. Len(w), j \in 1 .. Len(t) : ~(PendingPodOfGodel(w[i]) /\ PendingPodOfGodel(t[j][2]))
    BY <2>1 DEF OnePlace, OneEvent, w, t
  <2>4. OneEvent(p)'
    <3>1. ASSUME NEW i \in 1 .. Len(v), NEW j \in 1 .. Len(v),
                 PendingPodOfGodel(v[i]), PendingPodOfGodel(v[j])
          PROVE  i = j
      <4>1. /\ PendingPodOfGodel(w[i + 1]) /\ PendingPodOfGodel(w[j + 1])
            /\ i + 1 \in 1 .. Len(w) /\ j + 1 \in 1 .. Len(w)
        BY <1>1, <3>1
      <4>2. i + 1 = j + 1
        BY <2>3, <4>1
      <4> QED
        BY SMT, <4>2
    <3>2. ASSUME NEW i \in 1 .. Len(u), NEW j \in 1 .. Len(u),
                 PendingPodOfGodel(u[i][2]), PendingPodOfGodel(u[j][2])
          PROVE  i = j
      <4>1. (i \in 1 .. Len(t) /\ u[i] = t[i]) \/ (i = k /\ u[i][2] = w[1])
        BY <1>6
      <4>2. (j \in 1 .. Len(t) /\ u[j] = t[j]) \/ (j = k /\ u[j][2] = w[1])
        BY <1>6
      <4> QED
        BY <1>5, <2>3, <3>2, <4>1, <4>2
    <3>3. ASSUME NEW i \in 1 .. Len(v), NEW j \in 1 .. Len(u),
                 PendingPodOfGodel(v[i]), PendingPodOfGodel(u[j][2])
          PROVE  FALSE
      <4>1. PendingPodOfGodel(w[i + 1]) /\ i + 1 \in 1 .. Len(w) /\ i + 1 # 1
        BY SMT, <1>1, <3>3
      <4>2. (j \in 1 .. Len(t) /\ u[j] = t[j]) \/ (j = k /\ u[j][2] = w[1])
        BY <1>6
      <4>3. CASE j \in 1 .. Len(t) /\ u[j] = t[j]
        BY <2>3, <3>3, <4>1, <4>3
      <4>4. CASE u[j][2] = w[1]
        BY <1>5, <2>3, <3>3, <4>1, <4>4
      <4> QED
        BY <4>2, <4>3, <4>4
    <3> QED
      BY <3>1, <3>2, <3>3 DEF OneEvent, v, u
  <2>5. PendingEvent(p) <=> \/ \E i \in 1 .. Len(w) : PendingPodOfGodel(w[i])
                            \/ \E i \in 1 .. Len(t) : PendingPodOfGodel(t[i][2])
    BY DEF PendingEvent, w, t
  <2>6. PendingEvent(p)' <=> \/ \E i \in 1 .. Len(v) : PendingPodOfGodel(v[i])
                             \/ \E i \in 1 .. Len(u) : PendingPodOfGodel(u[i][2])
    BY DEF PendingEvent, v, u
  <2>7. PendingEvent(p)' => PendingEvent(p)
    <3>1. ASSUME NEW i \in 1 .. Len(v), PendingPodOfGodel(v[i]) PROVE PendingEvent(p)
      BY <1>1, <2>5, <3>1
    <3>2. ASSUME NEW j \in 1 .. Len(u), PendingPodOfGodel(u[j][2]) PROVE PendingEvent(p)
      BY <1>5, <1>6, <2>5, <3>2
    <3> QED
      BY <2>6, <3>1, <3>2
  <2>8. api'[p] = api[p]
    BY <1>1
  <2> QED
    BY <1>0, <1>3, <2>1, <2>2, <2>4, <2>7, <2>8, EventKept
<1>8. ASSUME ~Overtaken(p)' PROVE Kept(p)'
  <2>1. Kept(p)
    <3>1. ~Overtaken(p)
      BY <1>0, <1>1, <1>8 DEF Overtaken, Steady, GroupOf
    <3> QED
      BY <3>1 DEF DispatchInv
  <2> SUFFICES ASSUME PendingPodOfGodel(View(p)'),
                      \A i \in 1 .. Len(v) : PendingPodOfGodel(v[i]),
                      \A i \in 1 .. Len(u) : PendingPodOfGodel(u[i][2])
               PROVE  Tracked(p)'
    BY DEF Kept, v, u
  <2>2. k \in 1 .. Len(u) /\ u[k][2] = new
    BY SMT, <1>2, <1>5
  <2>3. PendingPodOfGodel(new)
    BY <2>2
  <2>4. Exists(new)
    BY <1>1, <2>3, ObjectKinds
  <2>5. ASSUME NEW i \in 1 .. Len(w) PROVE PendingPodOfGodel(w[i])
    <3>1. CASE i = 1
      BY <1>5, <2>3, <3>1
    <3>2. CASE i # 1
      <4>1. i - 1 \in 1 .. Len(v) /\ (i - 1) + 1 = i
        BY SMT, <1>1, <3>2
      <4> QED
        BY <1>1, <4>1
    <3> QED
      BY <3>1, <3>2
  <2>6. ASSUME NEW i \in 1 .. Len(t) PROVE PendingPodOfGodel(t[i][2])
    <3>1. i \in 1 .. Len(u) /\ u[i] = t[i]
      BY SMT, <1>2, <1>5
    <3> QED
      BY <3>1
  <2>7. Tracked(p)
    BY <1>4, <2>1, <2>5, <2>6 DEF Kept, w, t
  <2> QED
    BY <1>0, <1>3, <2>4, <2>7, StillTracked
<1> QED
  BY <1>7, <1>8 DEF PodOK

\* dispatchInfo keeps its form.
LEMMA HandledInfo ==
  ASSUME info \in Infos, NEW p \in Pods, NEW old \in Objects, NEW new \in Objects, NEW hs,
         Notified(hs, p, old, new)
  PROVE  info' \in Infos
<1>1. DispatchedHandler(info, p, old, new) \in Infos
  <2>1. DispatchedPodOfGodel(new) => new.sched \in Schedulers
    BY ObjectKinds
  <2>2. Filtered(DispatchedPodOfGodel(old), DispatchedPodOfGodel(new)) = "add" =>
          DispatchedPodOfGodel(new)
    BY DEF Filtered
  <2> QED
    BY <2>1, <2>2, InfoTypes DEF DispatchedHandler
<1> QED
  BY <1>1 DEF Notified

LEMMA DeliverKept ==
  ASSUME DispatchInv, NEW p \in Pods, Deliver(p)
  PROVE  DispatchInv'
<1>0. /\ ObjectsOK /\ MemoryOK /\ TasksOK /\ info \in Infos
      /\ Notified(Handlers \ Lagging, p, lister[p], Head(watch[p]))
      /\ hand' = hand /\ task' = task /\ excused' = excused /\ env' = env
      /\ podGroup' = podGroup /\ stale' = stale /\ abnormal' = AbnormalHandler(abnormal, p, Head(watch[p]))
  BY DEF DispatchInv, Deliver, TasksOK, Infos
<1>1. Steady
  BY <1>0 DEF Steady
<1>2. ObjectsOK' /\ Head(watch[p]) \in Objects /\ lister[p] \in Objects
  BY <1>0, DeliverObjects DEF ObjectsOK
<1>3. MemOK(Mem)' /\ \A q \in Pods \ {p} : /\ Shrinks(Where(Mem, q), Where(Mem, q)')
                                           /\ Stays(Where(Mem, q), Where(Mem, q)')
  <2>0. PICK hs : hs = Handlers \ Lagging
    OBVIOUS
  <2>1. PICK n \in Objects : n = Head(watch[p])
    BY <1>2
  <2>2. Notified(hs, p, lister[p], n)
    BY <1>0, <2>0, <2>1
  <2> QED
    BY <1>0, <1>1, <2>2, NotifiedPlaces
<1>4. info' \in Infos
  <2>1. PICK hs : hs = Handlers \ Lagging
    OBVIOUS
  <2>2. PICK n \in Objects : n = Head(watch[p])
    BY <1>2
  <2>3. Notified(hs, p, lister[p], n)
    BY <1>0, <2>1, <2>2
  <2> QED
    BY <1>0, <1>2, <2>3, HandledInfo
<1>5. MemoryOK'
  BY <1>0, <1>3 DEF MemoryOK, AbnormalHandler
<1>6. TasksOK'
  BY <1>0, <1>4 DEF TasksOK, Infos
<1>7. ASSUME NEW q \in Pods PROVE PodOK(q)'
  <2>1. CASE q = p
    BY <1>1, <1>5, <2>1, DeliveredNow, DeliveredLate
  <2>2. CASE q # p
    <3>1. PodSame(q)
      BY <1>0, <2>2, DeliveredEvents
    <3> QED
      BY <1>0, <1>1, <1>3, <1>5, <2>2, <3>1, ShrinksKept
  <2> QED
    BY <2>1, <2>2
<1> QED
  BY <1>2, <1>5, <1>6, <1>7 DEF DispatchInv, PodOK

LEMMA NotifiedEvents ==
  ASSUME ObjectsOK, NEW h \in Handlers, NEW p \in Pods, Notify(h, p)
  PROVE  /\ Lagging' = Lagging /\ api' = api /\ watch' = watch /\ lister' = lister /\ h \in Lagging
         /\ Len(inbox[h][p]) \in Nat /\ Len(inbox[h][p]) >= 1
         /\ Len(inbox'[h][p]) = Len(inbox[h][p]) - 1
         /\ inbox'[h][p] = <<>> <=> Len(inbox[h][p]) = 1
         /\ \A i \in 1 .. Len(inbox'[h][p]) :
              inbox'[h][p][i] = inbox[h][p][i + 1] /\ i + 1 \in 1 .. Len(inbox[h][p])
         /\ Head(inbox[h][p]) = inbox[h][p][1] /\ inbox[h][p][1] \in Objects \X Objects
         /\ InOrder(inbox[h][p], lister[p])
         /\ \A k \in Lagging \ {h} : inbox'[k][p] = inbox[k][p]
         /\ \A q \in Pods \ {p} : PodSame(q)
<1>1. /\ h \in Lagging /\ inbox[h][p] # <<>> /\ inbox[h][p] \in Seq(Objects \X Objects)
      /\ inbox' = [inbox EXCEPT ![h][p] = Tail(inbox[h][p])] /\ InOrder(inbox[h][p], lister[p])
      /\ api' = api /\ watch' = watch /\ lister' = lister /\ Lagging' = Lagging /\ excused' = excused
      /\ inbox \in [Lagging -> [Pods -> Seq(Objects \X Objects)]]
  BY DEF Notify, ObjectsOK, Lagging
<1>2. /\ inbox'[h][p] = Tail(inbox[h][p])
      /\ \A k \in Lagging \ {h} : inbox'[k] = inbox[k]
      /\ \A q \in Pods \ {p} : inbox'[h][q] = inbox[h][q]
  BY <1>1
<1>3. /\ Head(inbox[h][p]) \in Objects \X Objects
      /\ Len(inbox[h][p]) \in Nat /\ Len(inbox[h][p]) >= 1 /\ Len(Tail(inbox[h][p])) = Len(inbox[h][p]) - 1
      /\ \A i \in 1 .. Len(Tail(inbox[h][p])) :
           Tail(inbox[h][p])[i] = inbox[h][p][i + 1] /\ i + 1 \in 1 .. Len(inbox[h][p])
      /\ Head(inbox[h][p]) = inbox[h][p][1]
      /\ Tail(inbox[h][p]) = <<>> <=> Len(inbox[h][p]) = 1
  BY ZenonT(30), <1>1, TailOf
<1>4. ASSUME NEW q \in Pods \ {p} PROVE PodSame(q)
  <2>1. \A k \in Lagging : inbox'[k][q] = inbox[k][q]
    BY <1>2
  <2> QED
    BY <1>1, <2>1 DEF PodSame
<1> QED
  BY <1>1, <1>2, <1>3, <1>4

\* The handler of pending pods is told of a version.
LEMMA NotifiedPending ==
  ASSUME DispatchInv, MemoryOK', Steady, NEW p \in Pods, Notify("pending", p)
  PROVE  PodOK(p)'
<1>0. /\ ObjectsOK /\ MemoryOK /\ "pending" \in Handlers
      /\ Notified({"pending"}, p, Head(inbox["pending"][p])[1], Head(inbox["pending"][p])[2])
      /\ hand' = hand /\ task' = task /\ excused' = excused
  BY DEF DispatchInv, Notify, Handlers
<1> DEFINE t == inbox["pending"][p]
           u == inbox'["pending"][p]
           new == t[1][2]
<1>1. /\ Lagging' = Lagging /\ api' = api /\ watch' = watch /\ lister' = lister /\ "pending" \in Lagging
      /\ Len(t) \in Nat /\ Len(t) >= 1 /\ Len(u) = Len(t) - 1 /\ (u = <<>> <=> Len(t) = 1)
      /\ \A i \in 1 .. Len(u) : u[i] = t[i + 1] /\ i + 1 \in 1 .. Len(t)
      /\ Head(t) = t[1] /\ t[1] \in Objects \X Objects /\ InOrder(t, lister[p])
      /\ \A k \in Lagging \ {"pending"} : inbox'[k][p] = inbox[k][p]
  BY <1>0, NotifiedEvents
<1>2. Told(p) = t /\ Told(p)' = u
  BY <1>1 DEF Told
<1>3. t # <<>> /\ new \in Objects
  BY SMT, <1>1
<1>4. /\ ~PendingPodOfGodel(new) => Shrinks(Where(Mem, p), Where(Mem, p)')
      /\ PendingPodOfGodel(new) /\ Where(Mem, p) = {} => \A x, y \in Where(Mem, p)' : x = y
      /\ PendingPodOfGodel(new) => Where(Mem, p)' # {}
  <2>0. PICK hs : hs = {"pending"}
    OBVIOUS
  <2>1. PICK n \in Objects : n = new
    BY <1>3
  <2>2. Notified(hs, p, t[1][1], n) /\ "pending" \in hs
    BY <1>0, <1>1, <2>0, <2>1
  <2>3. /\ ~PendingPodOfGodel(n) => Shrinks(Where(Mem, p), Where(Mem, p)')
        /\ PendingPodOfGodel(n) /\ Where(Mem, p) = {} => \A x, y \in Where(Mem, p)' : x = y
        /\ PendingPodOfGodel(n) => Where(Mem, p)' # {}
    BY <1>0, <2>2, NotifiedPlaces
  <2> QED
    BY <2>1, <2>3
<1>5. View(p)' = new
  <2>1. CASE Len(t) = 1
    <3>1. u = <<>> /\ t[1][2] = lister[p]
      BY <1>1, <1>3, <2>1 DEF InOrder
    <3> QED
      BY <1>1, <1>2, <3>1 DEF View
  <2>2. CASE Len(t) # 1
    <3>1. u # <<>> /\ 1 \in 1 .. Len(u) /\ 2 \in 2 .. Len(t)
      BY SMT, <1>1, <2>2
    <3>2. u[1] = t[2] /\ t[2][1] = t[1][2]
      BY SMT, <1>1, <3>1 DEF InOrder
    <3> QED
      BY <1>2, <3>1, <3>2 DEF View
  <2> QED
    BY <2>1, <2>2
<1>6. 1 \in 1 .. Len(t)
  BY SMT, <1>1
<1> DEFINE w == watch[p]
<1> HIDE DEF t, u, new
<1>7. ASSUME p \notin excused' PROVE OnePlace(p)' /\ DeletedForGood(p)'
  <2>1. OnePlace(p) /\ DeletedForGood(p)
    BY <1>0, <1>7 DEF DispatchInv
  <2>2. DeletedForGood(p)'
    <3> SUFFICES ASSUME Exists(api[p]), NEW k \in Lagging, NEW i \in 1 .. Len(inbox'[k][p])
                 PROVE  Exists(inbox'[k][p][i][2])
      BY <1>1, <2>1 DEF DeletedForGood
    <3>1. CASE k = "pending"
      <4>1. i \in 1 .. Len(u) /\ \A j \in 1 .. Len(t) : Exists(t[j][2])
        BY <1>1, <2>1, <3>1 DEF DeletedForGood, u, t
      <4>2. Exists(u[i][2])
        BY <1>1, <4>1
      <4> QED
        BY <3>1, <4>2 DEF u
    <3>2. CASE k # "pending"
      BY <1>1, <2>1, <3>2 DEF DeletedForGood
    <3> QED
      BY <3>1, <3>2
  <2>3. /\ \A i, j \in 1 .. Len(w) : PendingPodOfGodel(w[i]) /\ PendingPodOfGodel(w[j]) => i = j
        /\ \A i, j \in 1 .. Len(t) : PendingPodOfGodel(t[i][2]) /\ PendingPodOfGodel(t[j][2]) => i = j
        /\ \A i \in 1 .. Len(w), j \in 1 .. Len(t) : ~(PendingPodOfGodel(w[i]) /\ PendingPodOfGodel(t[j][2]))
    BY <1>2, <2>1 DEF OnePlace, OneEvent
  <2>4. OneEvent(p)'
    <3>1. ASSUME NEW i \in 1 .. Len(u), NEW j \in 1 .. Len(u),
                 PendingPodOfGodel(u[i][2]), PendingPodOfGodel(u[j][2])
          PROVE  i = j
      <4>1. /\ PendingPodOfGodel(t[i + 1][2]) /\ PendingPodOfGodel(t[j + 1][2])
            /\ i + 1 \in 1 .. Len(t) /\ j + 1 \in 1 .. Len(t)
        BY <1>1, <3>1
      <4>2. i + 1 = j + 1
        BY <2>3, <4>1
      <4> QED
        BY SMT, <4>2
    <3>2. ASSUME NEW i \in 1 .. Len(w), NEW j \in 1 .. Len(u),
                 PendingPodOfGodel(w[i]), PendingPodOfGodel(u[j][2])
          PROVE  FALSE
      BY <1>1, <2>3, <3>2
    <3> QED
      BY ZenonT(30), <1>1, <1>2, <2>3, <3>1, <3>2 DEF OneEvent
  <2>5. PendingEvent(p) <=> \/ \E i \in 1 .. Len(w) : PendingPodOfGodel(w[i])
                            \/ \E i \in 1 .. Len(t) : PendingPodOfGodel(t[i][2])
    BY <1>2 DEF PendingEvent
  <2>6. PendingEvent(p)' <=> \/ \E i \in 1 .. Len(w) : PendingPodOfGodel(w[i])
                             \/ \E i \in 1 .. Len(u) : PendingPodOfGodel(u[i][2])
    BY <1>1, <1>2 DEF PendingEvent
  <2>7. PendingPodOfGodel(new) => PendingEvent(p) /\ ~(PendingEvent(p)')
    <3> SUFFICES ASSUME PendingPodOfGodel(new)
                 PROVE  PendingEvent(p) /\ ~(PendingEvent(p)')
      OBVIOUS
    <3>0. PendingPodOfGodel(t[1][2])
      BY DEF new
    <3>1. ASSUME NEW i \in 1 .. Len(u), PendingPodOfGodel(u[i][2])
          PROVE  FALSE
      <4>1. PendingPodOfGodel(t[i + 1][2]) /\ i + 1 \in 1 .. Len(t) /\ i + 1 # 1
        BY SMT, <1>1, <3>1
      <4> QED
        BY <1>6, <2>3, <3>0, <4>1
    <3>2. ASSUME NEW i \in 1 .. Len(w), PendingPodOfGodel(w[i])
          PROVE  FALSE
      BY <1>6, <2>3, <3>0, <3>2
    <3> QED
      BY <1>6, <2>5, <2>6, <3>0, <3>1, <3>2
  <2>8. PendingEvent(p)' => PendingEvent(p)
    BY <1>1, <2>5, <2>6
  <2>9. api'[p] = api[p]
    BY <1>1
  <2> QED
    BY <1>0, <1>4, <2>1, <2>2, <2>4, <2>7, <2>8, <2>9, EventKept
<1>8. Kept(p)'
  <2>1. CASE PendingPodOfGodel(new)
    BY <1>0, <1>4, <2>1, StillTracked DEF Kept
  <2>2. CASE ~PendingPodOfGodel(new)
    BY <1>5, <2>2 DEF Kept
  <2> QED
    BY <2>1, <2>2
<1> QED
  BY <1>7, <1>8 DEF PodOK

\* Another handler is told of a version: only the deletion of a group's pod
\* takes it out of a queue, and a pod that is pending was not deleted.
LEMMA NotifiedOther ==
  ASSUME DispatchInv, MemoryOK', Steady, NEW h \in Handlers \ {"pending"}, NEW p \in Pods, Notify(h, p)
  PROVE  PodOK(p)'
<1>0. /\ ObjectsOK /\ MemoryOK /\ h \in Handlers
      /\ Notified({h}, p, Head(inbox[h][p])[1], Head(inbox[h][p])[2])
      /\ hand' = hand /\ task' = task /\ excused' = excused
  BY DEF DispatchInv, Notify
<1> DEFINE t == inbox[h][p]
           u == inbox'[h][p]
           new == t[1][2]
<1>1. /\ Lagging' = Lagging /\ api' = api /\ watch' = watch /\ lister' = lister /\ h \in Lagging
      /\ Len(t) \in Nat /\ Len(t) >= 1 /\ Len(u) = Len(t) - 1
      /\ \A i \in 1 .. Len(u) : u[i] = t[i + 1] /\ i + 1 \in 1 .. Len(t)
      /\ Head(t) = t[1] /\ t[1] \in Objects \X Objects
      /\ \A k \in Lagging \ {h} : inbox'[k][p] = inbox[k][p]
  BY <1>0, NotifiedEvents
<1>2. Told(p)' = Told(p) /\ View(p)' = View(p)
  <2>1. Told(p)' = Told(p)
    BY <1>1 DEF Told
  <2> QED
    BY <1>1, <2>1 DEF View
<1>3. new \in Objects /\ 1 \in 1 .. Len(t)
  BY SMT, <1>1
<1>4. /\ Shrinks(Where(Mem, p), Where(Mem, p)')
      /\ Exists(new) \/ h # "units" \/ GroupOf[p] = NoGroup => Stays(Where(Mem, p), Where(Mem, p)')
  <2>0. PICK hs : hs = {h}
    OBVIOUS
  <2>1. PICK n \in Objects : n = new
    BY <1>3
  <2>2. Notified(hs, p, t[1][1], n) /\ "pending" \notin hs /\ ("units" \in hs <=> h = "units")
    BY <1>0, <1>1, <2>0, <2>1
  <2>3. /\ Shrinks(Where(Mem, p), Where(Mem, p)')
        /\ Exists(n) \/ "units" \notin hs \/ GroupOf[p] = NoGroup => Stays(Where(Mem, p), Where(Mem, p)')
    BY <1>0, <2>2, NotifiedPlaces
  <2> QED
    BY <2>1, <2>2, <2>3
<1>5. /\ PendingEvent(p)' <=> PendingEvent(p)
      /\ OneEvent(p)' <=> OneEvent(p)
  BY <1>1, <1>2 DEF PendingEvent, OneEvent
<1> HIDE DEF t, u, new
<1>6. ASSUME p \notin excused' PROVE OnePlace(p)' /\ DeletedForGood(p)'
  <2>1. OnePlace(p) /\ DeletedForGood(p)
    BY <1>0, <1>6 DEF DispatchInv
  <2>2. DeletedForGood(p)'
    <3> SUFFICES ASSUME Exists(api[p]), NEW k \in Lagging, NEW i \in 1 .. Len(inbox'[k][p])
                 PROVE  Exists(inbox'[k][p][i][2])
      BY <1>1, <2>1 DEF DeletedForGood
    <3>1. CASE k = h
      <4>1. i \in 1 .. Len(u) /\ \A j \in 1 .. Len(t) : Exists(t[j][2])
        BY <1>1, <2>1, <3>1 DEF DeletedForGood, u, t
      <4>2. Exists(u[i][2])
        BY <1>1, <4>1
      <4> QED
        BY <3>1, <4>2 DEF u
    <3>2. CASE k # h
      BY <1>1, <2>1, <3>2 DEF DeletedForGood
    <3> QED
      BY <3>1, <3>2
  <2>3. OneEvent(p)' /\ api'[p] = api[p]
    BY <1>1, <1>5, <2>1 DEF OnePlace
  <2> QED
    BY <1>0, <1>4, <1>5, <2>1, <2>2, <2>3, EventKept
<1>7. ASSUME ~Overtaken(p)' PROVE Kept(p)'
  <2>0. ~Overtaken(p) /\ Kept(p)
    <3>1. ~Overtaken(p)
      BY <1>0, <1>1, <1>7 DEF Overtaken, Steady, GroupOf
    <3> QED
      BY <3>1 DEF DispatchInv
  <2> SUFFICES ASSUME PendingPodOfGodel(View(p)),
                      \A i \in 1 .. Len(watch[p]) : PendingPodOfGodel(watch[p][i]),
                      \A i \in 1 .. Len(Told(p)) : PendingPodOfGodel(Told(p)[i][2])
               PROVE  Tracked(p)'
    BY <1>1, <1>2 DEF Kept
  <2>1. Tracked(p)
    BY <2>0 DEF Kept
  <2>2. PendingPodOfGodel(api[p]) /\ api[p] \in Objects
    BY <1>0, GroupTypes, WaitingIsPending DEF ObjectsOK
  <2>3. Exists(api[p])
    BY <2>2, ObjectKinds
  <2>4. Exists(new) \/ h # "units" \/ GroupOf[p] = NoGroup
    <3> SUFFICES ASSUME h = "units", GroupOf[p] # NoGroup
                 PROVE  Exists(new)
      OBVIOUS
    <3>1. p \notin excused
      BY <1>1, <2>0 DEF Overtaken
    <3>2. DeletedForGood(p)
      BY <3>1 DEF DispatchInv
    <3>3. \A i \in 1 .. Len(t) : Exists(t[i][2])
      BY <1>1, <2>3, <3>2 DEF DeletedForGood, t
    <3> QED
      BY <1>3, <3>3 DEF new
  <2> QED
    BY <1>0, <1>4, <2>1, <2>4, StillTracked
<1> QED
  BY <1>6, <1>7 DEF PodOK

LEMMA NotifyKept ==
  ASSUME DispatchInv, NEW h \in Handlers, NEW p \in Pods, Notify(h, p)
  PROVE  DispatchInv'
<1>0. /\ ObjectsOK /\ MemoryOK /\ TasksOK /\ info \in Infos
      /\ Notified({h}, p, Head(inbox[h][p])[1], Head(inbox[h][p])[2])
      /\ hand' = hand /\ task' = task /\ excused' = excused /\ env' = env
      /\ podGroup' = podGroup /\ stale' = stale /\ abnormal' = abnormal
  BY DEF DispatchInv, Notify, TasksOK, Infos
<1>1. Steady
  BY <1>0 DEF Steady
<1>2. ObjectsOK' /\ Head(inbox[h][p]) \in Objects \X Objects
  BY SMT, <1>0, NotifyObjects, NotifiedEvents
<1>3. PICK hs : hs = {h}
  OBVIOUS
<1>4. PICK o \in Objects, n \in Objects : o = Head(inbox[h][p])[1] /\ n = Head(inbox[h][p])[2]
  BY <1>2
<1>5. Notified(hs, p, o, n)
  BY <1>0, <1>3, <1>4
<1>6. MemOK(Mem)' /\ \A q \in Pods \ {p} : /\ Shrinks(Where(Mem, q), Where(Mem, q)')
                                           /\ Stays(Where(Mem, q), Where(Mem, q)')
  BY <1>0, <1>1, <1>5, NotifiedPlaces
<1>7. info' \in Infos
  BY <1>0, <1>5, HandledInfo
<1>8. MemoryOK'
  BY <1>0, <1>6 DEF MemoryOK
<1>9. TasksOK'
  BY <1>0, <1>7 DEF TasksOK, Infos
<1>10. ASSUME NEW q \in Pods PROVE PodOK(q)'
  <2>1. CASE q = p
    <3>1. CASE h = "pending"
      BY <1>1, <1>8, <2>1, <3>1, NotifiedPending
    <3>2. CASE h # "pending"
      BY <1>1, <1>8, <2>1, <3>2, NotifiedOther
    <3> QED
      BY <3>1, <3>2
  <2>2. CASE q # p
    <3>1. PodSame(q)
      BY <1>0, <2>2, NotifiedEvents
    <3> QED
      BY <1>0, <1>1, <1>6, <1>8, <2>2, <3>1, ShrinksKept
  <2> QED
    BY <2>1, <2>2
<1> QED
  BY <1>2, <1>8, <1>9, <1>10 DEF DispatchInv, PodOK

-----------------------------------------------------------------------------
(* The invariant.                                                           *)

LEMMA NextInv ==
  ASSUME DispatchInv, [Next]_vars
  PROVE  DispatchInv'
<1>1. ASSUME NEW p \in Pods, PodStep(p) PROVE DispatchInv'
  <2>1. CASE Deliver(p) \/ \E h \in Handlers : Notify(h, p)
    BY <2>1, DeliverKept, NotifyKept
  <2>2. CASE UnitLoopPop(p) \/ PendingLoopPop(p) \/ \E i \in Slots : SortedLoop(p, i)
    BY <2>2, UnitLoopPopKept, PendingLoopPopKept, SortedLoopKept
  <2>3. CASE StaleDispatchedPodsSyncer(p) \/ AbnormalStatePodsSyncer(p)
    BY <2>3, ReconcilerKept
  <2> QED
    BY <1>1, <2>1, <2>2, <2>3 DEF PodStep
<1>2. ASSUME NEW i \in Slots, TaskStep(i) PROVE DispatchInv'
  BY <1>2, GetPodKept, AdoptSchedulerKept, SelectSchedulerKept, AssignSchedulerKept, SendPodKept
     DEF TaskStep
<1>3. ASSUME NEW s \in Schedulers,
             FallSilent(s) \/ Heartbeat(s) \/ PopulateSchedulers(s) \/ SyncUpSchedulersStatus(s)
             \/ deleteScheduler(s)
      PROVE  DispatchInv'
  BY <1>3, SchedulerStepKept
<1>4. CASE UNCHANGED vars
  <2>1. /\ UNCHANGED <<objects, queues, task, excused>> /\ info' = info /\ stale' = stale
        /\ abnormal' = abnormal /\ env' = env
    BY <1>4 DEF vars, objects, queues
  <2>2. MemoryOK /\ info \in Infos /\ stale \subseteq Pods /\ abnormal \subseteq Pods
    BY DEF DispatchInv, MemoryOK, TasksOK, Infos
  <2> QED
    BY <2>1, <2>2, FaultEnv, AsideKept
<1> QED
  BY <1>1, <1>2, <1>3, <1>4, UserStepKept, PodGroupKept, UnitLoopAddKept, PendingLoopAddKept,
     CollectKept, RestartKept DEF Next

\* Every reachable state of the dispatcher is sound: what the informer has
\* under way ends with the API server's version, a pod that nobody edited,
\* re-created or dispatched unnoticed is in one place and only while it
\* waits, and a pod the handler of pending pods has seen waiting is in a
\* queue or in somebody's hands.
THEOREM DispatchInvariant == Spec => []DispatchInv
<1>1. Init => DispatchInv
  BY InitInv
<1>2. DispatchInv /\ [Next]_vars => DispatchInv'
  BY NextInv
<1> QED
  BY <1>1, <1>2, PTL DEF Spec

\* No pending pod is lost between the informer, the two loops, the queues,
\* the units and the dispatching goroutines (eventhandler.go, dispatcher.go,
\* unit.go), through deletions, edits, failed and unanswered writes, PodGroup
\* changes, late handlers and restarts.
THEOREM PendingPodsAreKept == Spec => []NoPodLost
<1>1. DispatchInv => NoPodLost
  <2> SUFFICES ASSUME DispatchInv, NEW p \in Pods, Settled(p), PendingPodOfGodel(api[p]), ~Overtaken(p)
               PROVE  Tracked(p)
    BY DEF NoPodLost
  <2>1. Kept(p) /\ ObjectsOK
    BY DEF DispatchInv
  <2>2. watch[p] = <<>> /\ lister[p] = api[p]
    BY <2>1 DEF Settled, ObjectsOK, Latest
  <2>3. Told(p) = <<>>
    BY DEF Settled, Told
  <2>4. View(p) = api[p]
    BY <2>2, <2>3 DEF View
  <2> QED
    BY SMT, <2>1, <2>2, <2>3, <2>4 DEF Kept
<1> QED
  BY <1>1, DispatchInvariant, PTL

-----------------------------------------------------------------------------
(* The dispatcher implements PodOwnership.                                  *)

OwnerMap  == [p \in Pods |-> OwnerOf(api[p])]
ActiveNow == {s \in Schedulers : Active(s)}

LEMMA OwnerKinds ==
  ASSUME NEW o \in Objects
  PROVE  /\ ~Exists(o) => OwnerOf(o) = "absent"
         /\ Exists(o) => OwnerOf(o) # "absent"
         /\ PendingPod(o) => OwnerOf(o) = "waiting"
         /\ DispatchedPod(o) => OwnerOf(o) = o.sched /\ o.sched \in Schedulers
         /\ AssumedPod(o) => OwnerOf(o) = "placed"
         /\ Exists(o) /\ ~PendingPod(o) /\ ~DispatchedPod(o) /\ ~AssumedPod(o) =>
              OwnerOf(o) = "broken"
<1>1. /\ PendingPod(o) => Exists(o) /\ ~DispatchedPod(o) /\ ~AssumedPod(o)
      /\ DispatchedPod(o) => Exists(o) /\ ~AssumedPod(o) /\ o.sched \in Schedulers
      /\ AssumedPod(o) => Exists(o)
  BY ObjectKinds
<1> QED
  BY <1>1, ConstantsAssumption DEF OwnerOf

LEMMA WriteOwner ==
  ASSUME ObjectsOK, NEW p \in Pods, NEW o, Write(p, o)
  PROVE  OwnerMap' = [OwnerMap EXCEPT ![p] = OwnerOf(o)] /\ OwnerMap[p] = OwnerOf(api[p])
<1>1. api' = [api EXCEPT ![p] = o] /\ api \in [Pods -> Objects]
  BY DEF Write, ObjectsOK
<1>2. api' = [q \in Pods |-> IF q = p THEN o ELSE api[q]]
  BY <1>1
<1>3. OwnerMap' = [q \in Pods |-> OwnerOf(api'[q])]
  BY DEF OwnerMap
<1>4. \A q \in Pods : OwnerOf(api'[q]) = IF q = p THEN OwnerOf(o) ELSE OwnerOf(api[q])
  BY <1>2
<1> QED
  BY <1>3, <1>4 DEF OwnerMap

LEMMA UserOwnership ==
  ASSUME DispatchInv, NEW p \in Pods, UserStep(p)
  PROVE  Ownership!Next
<1>0. ObjectsOK /\ api[p] \in Objects
  BY DEF DispatchInv, ObjectsOK
<1>1. ASSUME gs' = gs PROVE ActiveNow' = ActiveNow
  BY <1>1 DEF ActiveNow, Active
<1>2. CASE EditPod(p)
  <2>1. /\ Write(p, api[p]) /\ PendingPod(api[p]) /\ excused' = excused \union {p} /\ gs' = gs
    BY <1>2 DEF EditPod, others
  <2>2. OwnerMap' = OwnerMap /\ OwnerMap[p] = "waiting"
    <3>1. OwnerMap' = [OwnerMap EXCEPT ![p] = OwnerMap[p]] /\ OwnerMap[p] = OwnerOf(api[p])
      BY <1>0, <2>1, WriteOwner
    <3>2. OwnerMap' = OwnerMap
      BY <3>1 DEF OwnerMap
    <3> QED
      BY <1>0, <2>1, <3>1, <3>2, OwnerKinds
  <2>3. Ownership!Edit(p)
    BY <1>1, <2>1, <2>2 DEF Ownership!Edit, OwnerMap, ActiveNow
  <2> QED
    BY <2>3 DEF Ownership!Next
<1>3. CASE BreakPod(p)
  <2>0. PICK o : o = [api[p] EXCEPT !.state = "dispatched"]
    OBVIOUS
  <2>1. /\ Write(p, o) /\ PendingPod(api[p]) /\ excused' = excused \union {p} /\ gs' = gs
    BY <1>3, <2>0 DEF BreakPod, others
  <2>2. o \in Objects /\ Exists(o) /\ ~PendingPod(o) /\ ~DispatchedPod(o) /\ ~AssumedPod(o)
    <3>1. PICK a \in Objects : a = api[p]
      BY <1>0
    <3> QED
      BY <2>0, <2>1, <3>1 DEF Objects, Exists, PendingPod, DispatchedPod, AssumedPod, PodStates
  <2>3. OwnerMap' = [OwnerMap EXCEPT ![p] = "broken"] /\ OwnerMap[p] = "waiting"
    BY SMT, <1>0, <2>1, <2>2, WriteOwner, OwnerKinds
  <2>4. Ownership!Edit(p)
    BY <1>1, <2>1, <2>3 DEF Ownership!Edit, Ownership!Give, OwnerMap, ActiveNow
  <2> QED
    BY <2>4 DEF Ownership!Next
<1>4. CASE DeletePod(p)
  <2>1. /\ Write(p, Gone) /\ Exists(api[p]) /\ excused' = excused /\ gs' = gs
    BY <1>4 DEF DeletePod, others
  <2>2. OwnerMap' = [OwnerMap EXCEPT ![p] = "absent"] /\ OwnerMap[p] # "absent"
    BY SMT, <1>0, <2>1, GoneObject, WriteOwner, OwnerKinds
  <2>3. Ownership!Delete(p)
    BY <1>1, <2>1, <2>2 DEF Ownership!Delete, Ownership!Give, OwnerMap, ActiveNow
  <2> QED
    BY <2>3 DEF Ownership!Next
<1>5. CASE CreatePod(p)
  <2>1. /\ Write(p, Fresh) /\ ~Exists(api[p]) /\ excused' = excused \union {p} /\ gs' = gs
    BY <1>5 DEF CreatePod, others
  <2>2. OwnerMap' = [OwnerMap EXCEPT ![p] = "waiting"] /\ OwnerMap[p] = "absent"
    BY SMT, <1>0, <2>1, FreshObject, WriteOwner, OwnerKinds
  <2>3. Ownership!Create(p)
    BY <1>1, <2>1, <2>2 DEF Ownership!Create, Ownership!Give, OwnerMap, ActiveNow
  <2> QED
    BY <2>3 DEF Ownership!Next
<1>6. CASE AssumePod(p)
  <2>0. PICK o : o = [api[p] EXCEPT !.state = "assumed", !.assumed = TRUE]
    OBVIOUS
  <2>1. /\ Write(p, o) /\ DispatchedPod(api[p]) /\ excused' = excused /\ gs' = gs
    BY <1>6, <2>0 DEF AssumePod, others
  <2>2. o \in Objects /\ AssumedPod(o)
    <3>1. PICK a \in Objects : a = api[p]
      BY <1>0
    <3> QED
      BY <2>0, <2>1, <3>1, AssumedObject
  <2>3. OwnerMap' = [OwnerMap EXCEPT ![p] = "placed"] /\ OwnerMap[p] \in Schedulers
    BY SMT, <1>0, <2>1, <2>2, WriteOwner, OwnerKinds
  <2>4. Ownership!Place(p)
    BY <1>1, <2>1, <2>3 DEF Ownership!Place, Ownership!Give, OwnerMap, ActiveNow
  <2> QED
    BY <2>4 DEF Ownership!Next
<1> QED
  BY <1>2, <1>3, <1>4, <1>5, <1>6 DEF UserStep

\* A goroutine that patches its pod: the pod waits, or it is excused.
LEMMA SendOwnership ==
  ASSUME DispatchInv, NEW i \in Slots, SendPodToScheduler(i)
  PROVE  Ownership!Next \/ UNCHANGED <<api, gs, excused>>
<1>1. /\ TasksOK /\ ObjectsOK /\ task[i].pc = "patch" /\ gs' = gs
  BY DEF DispatchInv, SendPodToScheduler, taskUnchanged
<1>2. PICK p \in Pods : p = task[i].pod
  BY <1>1, TaskTypes
<1>3. PICK s \in Schedulers : s = task[i].sched
  BY <1>1, TaskTypes
<1>4. PICK a \in Objects : a = api[p]
  BY <1>1 DEF ObjectsOK
<1>5. PICK o : o = [a EXCEPT !.state = "dispatched", !.sched = s]
  OBVIOUS
<1>6. ActiveNow' = ActiveNow
  BY <1>1 DEF ActiveNow, Active
<1>7. ASSUME Exists(a), Write(p, o), excused' = excused \/ excused' = excused \union {p}
      PROVE  Ownership!Next
  <2>1. /\ o \in Objects /\ Exists(o) /\ o.sched = s /\ ~PendingPod(o) /\ ~AssumedPod(o)
    BY ZenonT(30), <1>5, <1>7, DispatchedObject
  <2>2. OwnerOf(o) = s \/ OwnerOf(o) = "broken"
    BY <2>1, OwnerKinds
  <2>3. OwnerMap' = [OwnerMap EXCEPT ![p] = OwnerOf(o)] /\ OwnerMap[p] = OwnerOf(a)
    BY <1>1, <1>4, <1>7, WriteOwner
  <2>4. CASE p \in excused
    <3>1. excused' = excused /\ OwnerMap[p] # "absent"
      BY <1>7, <2>3, <2>4, OwnerKinds
    <3>2. Ownership!DispatchAgain(p, s)
      BY <1>6, <2>2, <2>3, <2>4, <3>1 DEF Ownership!DispatchAgain, Ownership!Give, OwnerMap, ActiveNow
    <3> QED
      BY <3>2 DEF Ownership!Next
  <2>5. CASE p \notin excused
    <3>1. PendingPod(a)
      <4>1. OnePlace(p)
        BY <2>5 DEF DispatchInv
      <4>2. "task" \in Held(p)
        BY <1>2, HeldTables DEF HeldTable
      <4>3. Spots(p) # {}
        BY <4>2 DEF Spots, Held
      <4> QED
        BY <1>4, <1>7, <4>1, <4>3 DEF OnePlace
    <3>2. DispatchedPod(o)
      <4>1. s # NoScheduler
        BY ConstantsAssumption
      <4> QED
        BY <1>5, <3>1, <4>1 DEF Objects, PendingPod, DispatchedPod
    <3>3. OwnerOf(o) = s /\ OwnerMap[p] = "waiting"
      BY <2>1, <2>3, <3>1, <3>2, OwnerKinds
    <3>4. Ownership!Dispatch(p, s) \/ Ownership!DispatchUnnoticed(p, s)
      BY <1>6, <1>7, <2>3, <3>3
         DEF Ownership!Dispatch, Ownership!DispatchUnnoticed, Ownership!Give, OwnerMap, ActiveNow
    <3> QED
      BY <3>4 DEF Ownership!Next
  <2> QED
    BY <2>4, <2>5
<1> QED
  <2>1. \/ Exists(a) /\ Write(p, o) /\ (excused' = excused \/ excused' = excused \union {p})
        \/ UNCHANGED <<objects, excused>>
    BY <1>2, <1>3, <1>4, <1>5 DEF SendPodToScheduler
  <2> QED
    BY <1>1, <1>7, <2>1 DEF objects

\* The reconciler takes a pod back from a scheduler that is not active, or
\* out of a state that means nothing.
LEMMA ReconcilerOwnership ==
  ASSUME DispatchInv, NEW p \in Pods, StaleDispatchedPodsSyncer(p) \/ AbnormalStatePodsSyncer(p)
  PROVE  Ownership!Next \/ UNCHANGED <<api, gs, excused>>
<1>1. ObjectsOK /\ gs' = gs /\ excused' = excused
  BY DEF DispatchInv, StaleDispatchedPodsSyncer, AbnormalStatePodsSyncer
<1>2. ActiveNow' = ActiveNow
  BY <1>1 DEF ActiveNow, Active
<1>3. CASE /\ Orphan(lister[p]) \/ AbnormalPodStateOfGodel(lister[p])
           /\ watch[p] = <<>> /\ Write(p, resetPodToPendingState(lister[p]))
  <2>1. PICK a \in Objects : a = api[p] /\ a = lister[p]
    BY <1>1, <1>3 DEF ObjectsOK, Latest
  <2>2. OwnerOf(a) \in (Schedulers \ ActiveNow) \union {"broken"} /\ Exists(a)
    <3>1. CASE Orphan(a)
      BY <3>1, ObjectKinds, OwnerKinds DEF Orphan, ActiveNow
    <3>2. CASE AbnormalPodStateOfGodel(a)
      <4>1. Exists(a) /\ ~PendingPod(a) /\ ~DispatchedPod(a) /\ ~AssumedPod(a)
        <5>1. a # Gone
          BY <3>2, GoneObject
        <5>2. Exists(a)
          BY <5>1, ObjectKinds
        <5> QED
          BY <3>2, <5>2 DEF AbnormalPodStateOfGodel, AbnormalPodState, PendingPod, DispatchedPod, AssumedPod,
                            Objects, PodStates, Exists
      <4> QED
        BY <4>1, OwnerKinds
    <3> QED
      BY <1>3, <2>1, <3>1, <3>2
  <2>3. PICK o \in Objects : o = resetPodToPendingState(a) /\ PendingPod(o)
    BY <2>2, ResetObject
  <2>4. OwnerMap' = [OwnerMap EXCEPT ![p] = "waiting"] /\ OwnerMap[p] = OwnerOf(a)
    <3>1. Write(p, o)
      BY <1>3, <2>1, <2>3
    <3>2. OwnerOf(o) = "waiting"
      BY <2>3, OwnerKinds
    <3> QED
      BY <1>1, <2>1, <3>1, <3>2, WriteOwner
  <2>5. Ownership!TakeBack(p)
    BY <1>1, <1>2, <2>2, <2>4 DEF Ownership!TakeBack, Ownership!Give, OwnerMap, ActiveNow
  <2> QED
    BY <2>5 DEF Ownership!Next
<1>4. CASE UNCHANGED objects
  BY <1>1, <1>4 DEF objects
<1> QED
  BY <1>3, <1>4 DEF StaleDispatchedPodsSyncer, AbnormalStatePodsSyncer, ResetOrRetry

\* The other steps write nothing.
LEMMA QuietOwnership ==
  ASSUME api' = api, excused' = excused
  PROVE  Ownership!Next
<1>1. OwnerMap' = OwnerMap
  BY DEF OwnerMap
<1>2. ActiveNow' \in SUBSET Schedulers
  BY DEF ActiveNow
<1>3. Ownership!SchedulersChange
  BY <1>1, <1>2 DEF Ownership!SchedulersChange, OwnerMap, ActiveNow
<1> QED
  BY <1>3 DEF Ownership!Next

LEMMA StepOwnership ==
  ASSUME DispatchInv, [Next]_vars
  PROVE  Ownership!Next
<1>1. ASSUME NEW p \in Pods, PodStep(p) PROVE Ownership!Next
  <2>1. CASE Deliver(p) \/ \E h \in Handlers : Notify(h, p)
    BY <2>1, QuietOwnership DEF Deliver, Notify
  <2>2. CASE UnitLoopPop(p) \/ PendingLoopPop(p) \/ \E i \in Slots : SortedLoop(p, i)
    BY <2>2, QuietOwnership DEF UnitLoopPop, PendingLoopPop, SortedLoop, loopUnchanged, objects
  <2>3. CASE StaleDispatchedPodsSyncer(p) \/ AbnormalStatePodsSyncer(p)
    BY <2>3, ReconcilerOwnership, QuietOwnership
  <2> QED
    BY <1>1, <2>1, <2>2, <2>3 DEF PodStep
<1>2. ASSUME NEW i \in Slots, TaskStep(i) PROVE Ownership!Next
  <2>1. CASE SendPodToScheduler(i)
    BY <2>1, SendOwnership, QuietOwnership
  <2>2. CASE GetPod(i) \/ AdoptScheduler(i) \/ SelectScheduler(i) \/ AssignScheduler(i)
    BY <2>2, QuietOwnership DEF GetPod, AdoptScheduler, SelectScheduler, AssignScheduler, objects
  <2> QED
    BY <1>2, <2>1, <2>2 DEF TaskStep
<1>3. ASSUME NEW s \in Schedulers,
             FallSilent(s) \/ Heartbeat(s) \/ PopulateSchedulers(s) \/ SyncUpSchedulersStatus(s)
             \/ deleteScheduler(s)
      PROVE  Ownership!Next
  BY <1>3, QuietOwnership
     DEF FallSilent, Heartbeat, PopulateSchedulers, SyncUpSchedulersStatus, deleteScheduler,
         schedUnchanged, objects
<1>4. CASE UNCHANGED vars
  BY <1>4, QuietOwnership DEF vars
<1>5. ASSUME NEW g \in Groups, AddPodGroup(g) \/ UpdatePodGroup(g) \/ DeletePodGroup(g)
      PROVE  Ownership!Next
  BY <1>5, QuietOwnership DEF AddPodGroup, UpdatePodGroup, DeletePodGroup, addPodGroup
<1>6. CASE UnitLoopAdd \/ PendingLoopAdd \/ CollectDispatchedPods
  BY <1>6, QuietOwnership DEF UnitLoopAdd, PendingLoopAdd, CollectDispatchedPods, loopUnchanged,
                              schedUnchanged, objects
<1>7. CASE Restart
  BY <1>7, QuietOwnership DEF Restart
<1> QED
  BY <1>1, <1>2, <1>3, <1>4, <1>5, <1>6, <1>7, UserOwnership DEF Next

\* The dispatcher implements PodOwnership, with however many pods, groups,
\* schedulers and goroutines: sendPodToScheduler gives a pod to a scheduler
\* only while it waits, and the reconciler takes one back only from a
\* scheduler that is not active or out of an abnormal state.
THEOREM DispatcherImplementsOwnership == Spec => OwnershipSpec
<1>1. Init => Ownership!Init
  <2> SUFFICES ASSUME Init PROVE Ownership!Init
    OBVIOUS
  <2>1. OwnerOf(Fresh) = "waiting"
    BY FreshObject, OwnerKinds
  <2>2. OwnerMap = [p \in Pods |-> "waiting"]
    BY <2>1 DEF Init, OwnerMap
  <2>3. ActiveNow = Schedulers /\ excused = {}
    BY DEF Init, ActiveNow, Active
  <2> QED
    BY <2>2, <2>3 DEF Ownership!Init, OwnerMap, ActiveNow
<1>2. DispatchInv /\ [Next]_vars => [Ownership!Next]_(Ownership!vars)
  BY StepOwnership
<1> QED
  BY <1>1, <1>2, DispatchInvariant, PTL DEF Spec, OwnershipSpec, Ownership!Spec

=============================================================================
