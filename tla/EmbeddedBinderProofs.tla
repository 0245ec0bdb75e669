------------------------ MODULE EmbeddedBinderProofs ------------------------
(***************************************************************************)
(* The places pods hold in the scheduler's cache are accounted for, for    *)
(* every request, retry limit and bound: PlacesInv is inductive.           *)
(***************************************************************************)
EXTENDS EmbeddedBinder, TLAPS

-----------------------------------------------------------------------------
(* The log of a pod.                                                        *)

LEMMA LogFacts ==
  ASSUME LogOK, NEW p \in Pods
  PROVE  /\ log[p] \in Seq(PodStates)
         /\ Len(log[p]) \in Nat /\ Len(log[p]) >= 1
         /\ Seen(p) = log[p][1] /\ Seen(p) \in PodStates
         /\ Server(p) = log[p][Len(log[p])] /\ Server(p) \in PodStates
  <1>1. log[p] \in Seq(PodStates) /\ log[p] # <<>>
    BY DEF LogOK
  <1>2. Len(log[p]) \in Nat /\ Len(log[p]) >= 1
    BY <1>1
  <1> QED
    BY <1>1, <1>2 DEF Seen, Server

(* A write leaves what the handler saw and makes the state the server's.    *)
LEMMA WriteFacts ==
  ASSUME LogOK, NEW p \in Pods, NEW s \in PodStates \ {"dispatched"},
         Write(p, s), UNCHANGED listed
  PROVE  /\ LogOK'
         /\ \A q \in Pods : Seen(q)' = Seen(q)
         /\ Server(p)' = s
         /\ \A q \in Pods : q # p => Server(q)' = Server(q)
  <1>1. /\ log[p] \in Seq(PodStates) /\ Len(log[p]) \in Nat /\ Len(log[p]) >= 1
        /\ Len(log[p]) <= MaxLag /\ MaxLag \in Nat
    BY LogFacts, ConstantsAssumption DEF Write
  <1>2. log' = [log EXCEPT ![p] = Append(log[p], s)] /\ DOMAIN log = Pods
    BY DEF Write, LogOK
  <1>3. /\ log'[p] = Append(log[p], s)
        /\ \A q \in Pods : q # p => log'[q] = log[q]
    BY <1>2
  <1>4. /\ log'[p] \in Seq(PodStates) /\ log'[p] # <<>>
        /\ Len(log'[p]) = Len(log[p]) + 1
        /\ log'[p][Len(log[p]) + 1] = s
        /\ \A i \in 1 .. Len(log[p]) : log'[p][i] = log[p][i]
    BY <1>1, <1>3
  <1>5. LogOK'
    <2>1. log' \in [Pods -> Seq(PodStates) \ {<<>>}]
      BY <1>2, <1>4 DEF LogOK
    <2>2. \A q \in Pods : listed[q] \in 1 .. Len(log'[q]) /\ Len(log'[q]) <= MaxLag + 1
      <3> TAKE q \in Pods
      <3>1. CASE q # p
        BY <3>1, <1>3 DEF LogOK
      <3>2. CASE q = p
        <4>1. listed[p] \in 1 .. Len(log[p])
          BY DEF LogOK
        <4> QED
          BY <4>1, <3>2, <1>1, <1>4
      <3> QED
        BY <3>1, <3>2
    <2>3. NeverDispatchedAgain'
      <3> SUFFICES ASSUME NEW q \in Pods, NEW i \in 2 .. Len(log'[q])
                   PROVE  log'[q][i] # "dispatched"
        BY DEF NeverDispatchedAgain
      <3>1. CASE q # p
        BY <3>1, <1>3 DEF LogOK, NeverDispatchedAgain
      <3>2. CASE q = p /\ i = Len(log[p]) + 1
        BY <3>2, <1>4
      <3>3. CASE q = p /\ i # Len(log[p]) + 1
        <4>1. i \in 2 .. Len(log[p]) /\ i \in 1 .. Len(log[p])
          BY <3>3, <1>1, <1>4
        <4> QED
          BY <4>1, <3>3, <1>4 DEF LogOK, NeverDispatchedAgain
      <3> QED
        BY <3>1, <3>2, <3>3
    <2> QED
      BY <2>1, <2>2, <2>3 DEF LogOK
  <1>6. \A q \in Pods : Seen(q)' = Seen(q)
    <2> TAKE q \in Pods
    <2>1. Seen(q) = log[q][1] /\ Seen(q)' = log'[q][1]
      <3>1. log[q] # <<>> /\ log'[q] # <<>>
        BY <1>5 DEF LogOK
      <3> QED
        BY <3>1 DEF Seen
    <2> QED
      BY <2>1, <1>1, <1>3, <1>4
  <1> QED
    BY <1>3, <1>4, <1>5, <1>6 DEF Server

(* The handler takes the first event off the log.                           *)
LEMMA TailFacts ==
  ASSUME LogOK, NEW p \in Pods, listed[p] > 1,
         log' = [log EXCEPT ![p] = Tail(@)], listed' = [listed EXCEPT ![p] = @ - 1]
  PROVE  /\ LogOK'
         /\ Seen(p)' = log[p][2] /\ log[p][2] \in PodStates \ {"dispatched"}
         /\ \A q \in Pods : q # p => Seen(q)' = Seen(q)
         /\ \A q \in Pods : Server(q)' = Server(q)
  <1>1. /\ log[p] \in Seq(PodStates) /\ Len(log[p]) \in Nat /\ Len(log[p]) >= 2
        /\ listed[p] \in Nat /\ listed[p] <= Len(log[p])
    BY LogFacts DEF LogOK
  <1>2. /\ log'[p] = Tail(log[p])
        /\ \A q \in Pods : q # p => log'[q] = log[q]
        /\ listed'[p] = listed[p] - 1
        /\ \A q \in Pods : q # p => listed'[q] = listed[q]
    BY DEF LogOK
  <1>3. /\ log'[p] \in Seq(PodStates)
        /\ Len(log'[p]) = Len(log[p]) - 1
        /\ \A i \in 1 .. Len(log[p]) - 1 : log'[p][i] = log[p][i + 1]
        /\ log'[p] # <<>>
    <2>1. log[p] # <<>>
      BY <1>1
    <2>2. Tail(log[p]) \in Seq(PodStates) /\ Len(Tail(log[p])) = Len(log[p]) - 1
      BY <2>1, <1>1
    <2>3. \A i \in 1 .. Len(log[p]) - 1 : Tail(log[p])[i] = log[p][i + 1]
      BY <2>1, <1>1
    <2>4. Tail(log[p]) # <<>>
      <3>1. \A s \in Seq(PodStates) : s = <<>> => Len(s) = 0
        OBVIOUS
      <3>2. \A k \in Nat : k >= 2 => k - 1 # 0
        OBVIOUS
      <3> QED
        BY <1>1, <2>2, <3>1, <3>2, Zenon
    <2> QED
      BY <2>2, <2>3, <2>4, <1>2
  <1>4. LogOK'
    <2>1. log' \in [Pods -> Seq(PodStates) \ {<<>>}] /\ listed' \in [Pods -> Nat]
      BY <1>1, <1>3 DEF LogOK
    <2>2. \A q \in Pods : listed'[q] \in 1 .. Len(log'[q]) /\ Len(log'[q]) <= MaxLag + 1
      <3> TAKE q \in Pods
      <3>1. CASE q # p
        BY <3>1, <1>2 DEF LogOK
      <3>2. CASE q = p
        <4>1. Len(log[p]) <= MaxLag + 1 /\ MaxLag \in Nat
          BY ConstantsAssumption DEF LogOK
        <4> QED
          BY <4>1, <3>2, <1>1, <1>2, <1>3
      <3> QED
        BY <3>1, <3>2
    <2>3. NeverDispatchedAgain'
      <3> SUFFICES ASSUME NEW q \in Pods, NEW i \in 2 .. Len(log'[q])
                   PROVE  log'[q][i] # "dispatched"
        BY DEF NeverDispatchedAgain
      <3>1. CASE q # p
        BY <3>1, <1>2 DEF LogOK, NeverDispatchedAgain
      <3>2. CASE q = p
        <4>1. i + 1 \in 2 .. Len(log[p]) /\ i \in 1 .. Len(log[p]) - 1
          BY <3>2, <1>1, <1>3
        <4> QED
          BY <4>1, <3>2, <1>3 DEF LogOK, NeverDispatchedAgain
      <3> QED
        BY <3>1, <3>2
    <2> QED
      BY <2>1, <2>2, <2>3 DEF LogOK
  <1>5. \A q \in Pods : log[q] # <<>> /\ log'[q] # <<>>
    BY <1>4 DEF LogOK
  <1>6. \A q \in Pods : q # p => Seen(q)' = Seen(q) /\ Server(q)' = Server(q)
    BY <1>2 DEF Seen, Server
  <1>7. Seen(p)' = log[p][2] /\ Server(p)' = Server(p)
    <2>1. Seen(p)' = log'[p][1]
      BY <1>5 DEF Seen
    <2>2. log'[p][1] = log[p][2] /\ log'[p][Len(log'[p])] = log[p][Len(log[p])]
      BY <1>1, <1>3
    <2> QED
      BY <2>1, <2>2 DEF Server
  <1>8. log[p][2] \in PodStates \ {"dispatched"}
    BY <1>1 DEF LogOK, NeverDispatchedAgain
  <1> QED
    BY <1>4, <1>6, <1>7, <1>8

-----------------------------------------------------------------------------
(* The call of a unit.                                                      *)

LEMMA RequestFacts ==
  ASSUME NEW u \in Units
  PROVE  /\ PodsOf[u] \in Seq(Pods) /\ Len(PodsOf[u]) \in Nat
         /\ MembersOf(u) = {PodsOf[u][i] : i \in 1 .. Len(PodsOf[u])}
         /\ MembersOf(u) \subseteq Pods
         /\ UniqueNodeNames(u) \subseteq Nodes
         /\ \A i, j \in 1 .. Len(PodsOf[u]) : PodsOf[u][i] = PodsOf[u][j] => i = j
  <1>1. PodsOf[u] \in Seq(Pods) /\ \A i, j \in DOMAIN PodsOf[u] : PodsOf[u][i] = PodsOf[u][j] => i = j
    BY ConstantsAssumption
  <1>2. Len(PodsOf[u]) \in Nat /\ DOMAIN PodsOf[u] = 1 .. Len(PodsOf[u])
    BY <1>1
  <1>3. MembersOf(u) = {PodsOf[u][i] : i \in 1 .. Len(PodsOf[u])}
    BY <1>2 DEF MembersOf
  <1>4. \A i \in 1 .. Len(PodsOf[u]) : PodsOf[u][i] \in Pods
    BY <1>1
  <1>5. MembersOf(u) \subseteq Pods
    BY <1>3, <1>4
  <1>6. UniqueNodeNames(u) \subseteq Nodes
    BY <1>5 DEF UniqueNodeNames, Nodes
  <1> QED
    BY <1>1, <1>2, <1>3, <1>5, <1>6

(* The pod a call is at belongs to the unit, and the call has not answered  *)
(* for it yet: the request lists it once.                                   *)
LEMMA NextPod ==
  ASSUME NEW u \in Units, NEW c, NEW own, CallOK(u, c, own), c.pc = "bind"
  PROVE  LET p == PodsOf[u][c.next]
         IN  /\ p \in MembersOf(u) /\ p \in Pods /\ p \notin c.ok /\ p \notin c.failed
             /\ NodeFor[p] \notin c.foreign
             /\ {PodsOf[u][i] : i \in 1 .. c.next} = Passed(u, c) \cup {p}
  <1> DEFINE p == PodsOf[u][c.next]
  <1>1. c.next \in 1 .. Len(PodsOf[u]) /\ c.next \in Nat /\ Len(PodsOf[u]) \in Nat
    BY RequestFacts DEF CallOK, Calls
  <1>2. p \in MembersOf(u) /\ p \in Pods
    BY <1>1, RequestFacts
  <1>3. p \notin Passed(u, c)
    <2> SUFFICES ASSUME NEW i \in 1 .. c.next - 1, PodsOf[u][i] = p
                 PROVE  FALSE
      BY DEF Passed
    <2>1. i \in 1 .. Len(PodsOf[u]) /\ i # c.next
      BY <1>1
    <2> QED
      BY <2>1, <1>1, RequestFacts
  <1>4. p \notin c.ok /\ p \notin c.failed
    BY <1>3 DEF CallOK
  <1>5. NodeFor[p] \in UniqueNodeNames(u) /\ UniqueNodeNames(u) \cap c.foreign = {}
    BY <1>2 DEF UniqueNodeNames, CallOK
  <1>6. {PodsOf[u][i] : i \in 1 .. c.next} = Passed(u, c) \cup {p}
    <2>1. 1 .. c.next = (1 .. c.next - 1) \cup {c.next}
      BY <1>1
    <2> QED
      BY <2>1 DEF Passed
  <1> QED
    BY <1>2, <1>4, <1>5, <1>6

(* Whatever an attempt comes to, the call stays in order; only an attempt   *)
(* that succeeded adds a pod to those it bound.                             *)
LEMMA AnsweredPod ==
  ASSUME NEW u \in Units, NEW c, NEW own, CallOK(u, c, own), c.pc = "bind",
         NEW d \in Calls(u), d.next = c.next + 1, d.check = c.check, d.foreign = c.foreign,
         d.pc = IF d.next > Len(PodsOf[u]) THEN "return" ELSE "bind",
         \/ d.ok = c.ok \cup {PodsOf[u][c.next]} /\ d.failed = c.failed
         \/ d.ok = c.ok /\ d.failed = c.failed \cup {PodsOf[u][c.next]}
  PROVE  CallOK(u, d, own)
  <1> DEFINE p == PodsOf[u][c.next]
  <1>1. c.next \in 1 .. Len(PodsOf[u]) /\ c.next \in Nat /\ Len(PodsOf[u]) \in Nat
    BY RequestFacts DEF CallOK, Calls
  <1>2. /\ p \notin c.ok /\ p \notin c.failed /\ NodeFor[p] \notin c.foreign
        /\ {PodsOf[u][i] : i \in 1 .. c.next} = Passed(u, c) \cup {p}
    BY NextPod
  <1>3. Passed(u, d) = Passed(u, c) \cup {p}
    <2>1. d.next - 1 = c.next
      BY <1>1
    <2> QED
      BY <2>1, <1>2 DEF Passed
  <1>4. c.ok \cap c.failed = {} /\ c.ok \cup c.failed = Passed(u, c)
    BY DEF CallOK
  <1>5. d.ok \cap d.failed = {} /\ d.ok \cup d.failed = Passed(u, d)
    BY <1>2, <1>3, <1>4
  <1>6. \A q \in d.ok : NodeFor[q] \notin d.foreign
    BY <1>2 DEF CallOK
  <1>7. /\ d.next >= 1
        /\ d.pc = "bind" => d.next \in 1 .. Len(PodsOf[u])
        /\ d.pc = "return" => d.next = Len(PodsOf[u]) + 1
        /\ d.pc \in {"bind", "return"}
    BY <1>1
  <1>8. /\ \A n \in d.foreign : own[n] = "other"
        /\ UniqueNodeNames(u) \cap d.foreign = {}
    BY DEF CallOK
  <1> QED
    BY <1>5, <1>6, <1>7, <1>8 DEF CallOK

LEMMA ReturnOK ==
  ASSUME NEW u \in Units, NEW e \in Calls(u), e.pc = "bind"
  PROVE  LET d == Return(e, u)
         IN  /\ d \in Calls(u) /\ d.next = e.next /\ d.check = e.check /\ d.foreign = e.foreign
             /\ d.pc = IF d.next > Len(PodsOf[u]) THEN "return" ELSE "bind"
             /\ d.ok = e.ok /\ d.failed = e.failed
  <1>1. CASE e.next > Len(PodsOf[u])
    <2> DEFINE d == [e EXCEPT !.pc = "return"]
    <2>1. /\ d \in Calls(u) /\ d.next = e.next /\ d.check = e.check /\ d.foreign = e.foreign
          /\ d.pc = "return" /\ d.ok = e.ok /\ d.failed = e.failed
      BY DEF Calls
    <2> QED
      BY <1>1, <2>1 DEF Return
  <1>2. CASE ~(e.next > Len(PodsOf[u]))
    BY <1>2 DEF Return
  <1> QED
    BY <1>1, <1>2

LEMMA BoundOK ==
  ASSUME NEW u \in Units, NEW c, NEW own, CallOK(u, c, own), c.pc = "bind"
  PROVE  LET p == PodsOf[u][c.next]
         IN  /\ CallOK(u, Bound(c, p, u), own)
             /\ Bound(c, p, u).ok = c.ok \cup {p}
             /\ Bound(c, p, u).pc \in {"bind", "return"}
  <1> DEFINE p == PodsOf[u][c.next]
             d == Bound(c, p, u)
  <1>1. c \in Calls(u) /\ p \in MembersOf(u) /\ c.next \in Nat
    BY NextPod DEF CallOK, Calls
  <1>2. /\ d \in Calls(u) /\ d.next = c.next + 1 /\ d.check = c.check /\ d.foreign = c.foreign
        /\ d.pc = IF d.next > Len(PodsOf[u]) THEN "return" ELSE "bind"
        /\ d.ok = c.ok \cup {p} /\ d.failed = c.failed
    <2> DEFINE e == [c EXCEPT !.ok = @ \cup {p}, !.next = @ + 1, !.attempt = 0]
    <2>1. /\ e \in Calls(u) /\ e.next = c.next + 1 /\ e.check = c.check /\ e.foreign = c.foreign
          /\ e.pc = "bind" /\ e.ok = c.ok \cup {p} /\ e.failed = c.failed
      <3>1. c.ok \cup {p} \in SUBSET MembersOf(u) /\ c.next + 1 \in Nat
        BY <1>1 DEF Calls
      <3>2. e \in Calls(u)
        BY <1>1, <3>1 DEF Calls
      <3> QED
        BY <1>1, <3>2 DEF Calls
    <2>2. d = Return(e, u)
      BY DEF Bound
    <2> HIDE DEF d, e
    <2> QED
      BY <2>1, <2>2, ReturnOK
  <1>3. CallOK(u, d, own)
    BY <1>2, AnsweredPod
  <1> QED
    BY <1>2, <1>3

LEMMA NotBoundOK ==
  ASSUME NEW u \in Units, NEW c, NEW own, CallOK(u, c, own), c.pc = "bind"
  PROVE  LET p == PodsOf[u][c.next]
         IN  /\ CallOK(u, NotBound(c, p, u), own)
             /\ NotBound(c, p, u).ok = c.ok
             /\ NotBound(c, p, u).pc \in {"bind", "return"}
  <1> DEFINE p == PodsOf[u][c.next]
             d == NotBound(c, p, u)
  <1>1. c \in Calls(u) /\ p \in MembersOf(u) /\ c.next \in Nat
    BY NextPod DEF CallOK, Calls
  <1>2. /\ d \in Calls(u) /\ d.next = c.next + 1 /\ d.check = c.check /\ d.foreign = c.foreign
        /\ d.pc = IF d.next > Len(PodsOf[u]) THEN "return" ELSE "bind"
        /\ d.ok = c.ok /\ d.failed = c.failed \cup {p}
    <2> DEFINE e == [c EXCEPT !.failed = @ \cup {p}, !.next = @ + 1, !.attempt = 0]
    <2>1. /\ e \in Calls(u) /\ e.next = c.next + 1 /\ e.check = c.check /\ e.foreign = c.foreign
          /\ e.pc = "bind" /\ e.ok = c.ok /\ e.failed = c.failed \cup {p}
      <3>1. c.failed \cup {p} \in SUBSET MembersOf(u) /\ c.next + 1 \in Nat
        BY <1>1 DEF Calls
      <3>2. e \in Calls(u)
        BY <1>1, <3>1 DEF Calls
      <3> QED
        BY <1>1, <3>2 DEF Calls
    <2>2. d = Return(e, u)
      BY DEF NotBound
    <2> HIDE DEF d, e
    <2> QED
      BY <2>1, <2>2, ReturnOK
  <1>3. CallOK(u, d, own)
    BY <1>2, AnsweredPod
  <1> QED
    BY <1>2, <1>3

LEMMA TransientOK ==
  ASSUME NEW u \in Units, NEW c, NEW own, CallOK(u, c, own), c.pc = "bind"
  PROVE  LET p == PodsOf[u][c.next]
         IN  /\ CallOK(u, Transient(c, p, u), own)
             /\ Transient(c, p, u).ok = c.ok
             /\ Transient(c, p, u).pc \in {"bind", "return"}
  <1> DEFINE p == PodsOf[u][c.next]
             d == [c EXCEPT !.attempt = @ + 1]
  <1>1. CASE Transient(c, p, u) = NotBound(c, p, u)
    BY <1>1, NotBoundOK
  <1>2. CASE Transient(c, p, u) = d
    <2>1. /\ d \in Calls(u) /\ d.next = c.next /\ d.check = c.check /\ d.foreign = c.foreign
          /\ d.pc = c.pc /\ d.ok = c.ok /\ d.failed = c.failed
      BY DEF CallOK, Calls
    <2>2. CallOK(u, d, own)
      BY <2>1 DEF CallOK, Passed
    <2> QED
      BY <1>2, <2>1, <2>2
  <1> QED
    BY <1>1, <1>2 DEF Transient

LEMMA CallsAreKept ==
  ASSUME CallsOK, owner \in [Nodes -> Owners], [Next]_vars
  PROVE  CallsOK' /\ owner' \in [Nodes -> Owners]
  <1> USE DEF CallsOK
  <1>1. ASSUME NEW u \in Units, NEW d, CallOK(u, d, owner), call' = [call EXCEPT ![u] = d], UNCHANGED owner
        PROVE  CallsOK' /\ owner' \in [Nodes -> Owners]
    <2>1. DOMAIN call' = Units /\ \A v \in Units : call'[v] = IF v = u THEN d ELSE call[v]
      BY <1>1
    <2>2. \A v \in Units : CallOK(v, call'[v], owner)
      BY <2>1, <1>1
    <2> QED
      BY <2>1, <2>2, <1>1
  <1>2. ASSUME NEW u \in Units, call' = [call EXCEPT ![u].pc = "done"], UNCHANGED owner
        PROVE  CallsOK' /\ owner' \in [Nodes -> Owners]
    <2> DEFINE c == call[u]
               d == [c EXCEPT !.pc = "done"]
    <2>1. /\ d \in Calls(u) /\ d.next = c.next /\ d.foreign = c.foreign
          /\ d.pc = "done" /\ d.ok = c.ok /\ d.failed = c.failed
      BY DEF CallOK, Calls
    <2>2. CallOK(u, d, owner)
      BY <2>1 DEF CallOK, Passed
    <2>3. call' = [call EXCEPT ![u] = d]
      BY <1>2
    <2> QED
      BY <2>2, <2>3, <1>1, <1>2
  <1>3. ASSUME NEW u \in Units, BindUnit(u)
        PROVE  CallsOK' /\ owner' \in [Nodes -> Owners]
    <2>1. CASE ~running
      BY <1>3, <2>1, <1>2 DEF BindUnit, CallFails
    <2>2. CASE running
      <3> DEFINE f == {n \in Nodes : owner[n] = "other"}
                 d == [NoCall EXCEPT !.pc = "validate", !.check = UniqueNodeNames(u), !.foreign = f]
      <3>1. /\ NoCall \in Calls(u) /\ NoCall.next = 1 /\ NoCall.ok = {} /\ NoCall.failed = {}
            /\ UniqueNodeNames(u) \in SUBSET UniqueNodeNames(u) /\ f \in SUBSET Nodes
        BY DEF NoCall, Calls
      <3>2. /\ d \in Calls(u) /\ d.pc = "validate" /\ d.check = UniqueNodeNames(u) /\ d.foreign = f
            /\ d.next = 1 /\ d.ok = {} /\ d.failed = {}
        <4> HIDE DEF f
        <4> QED
          BY <3>1 DEF Calls
      <3>3. Passed(u, d) = {}
        <4>1. 1 .. 1 - 1 = {}
          OBVIOUS
        <4> QED
          BY <3>2, <4>1 DEF Passed
      <3>4. CallOK(u, d, owner)
        <4>1. \A n \in f : owner[n] = "other"
          OBVIOUS
        <4> HIDE DEF d, f
        <4> QED
          BY <3>2, <3>3, <4>1 DEF CallOK
      <3> QED
        BY <3>4, <2>2, <1>3, <1>1 DEF BindUnit
    <2> QED
      BY <2>1, <2>2
  <1>4. ASSUME NEW u \in Units, ValidateNode(u)
        PROVE  CallsOK' /\ owner' \in [Nodes -> Owners]
    <2> DEFINE c == call[u]
    <2>1. c.pc = "validate" /\ CallOK(u, c, owner)
      BY <1>4 DEF ValidateNode
    <2>2. PICK n \in c.check :
            IF Valid(n)
            THEN call' = [call EXCEPT ![u].check = @ \ {n},
                                      ![u].pc = IF c.check = {n} THEN "bind" ELSE @]
            ELSE CallFails(u)
      BY <1>4 DEF ValidateNode
    <2>3. CASE ~Valid(n)
      BY <1>4, <2>2, <2>3, <1>2 DEF ValidateNode, CallFails
    <2>4. CASE Valid(n)
      <3> DEFINE d == [c EXCEPT !.check = @ \ {n}, !.pc = IF c.check = {n} THEN "bind" ELSE @]
      <3>1. c \in Calls(u) /\ n \in UniqueNodeNames(u)
        BY <2>1 DEF CallOK, Calls
      <3>2. /\ d \in Calls(u) /\ d.next = c.next /\ d.foreign = c.foreign /\ d.ok = c.ok
            /\ d.failed = c.failed /\ d.check = c.check \ {n}
            /\ d.pc = IF c.check = {n} THEN "bind" ELSE "validate"
        <4>1. c.check \ {n} \in SUBSET UniqueNodeNames(u)
          BY <3>1 DEF Calls
        <4> QED
          BY <3>1, <4>1, <2>1 DEF Calls
      <3>3. n \notin c.foreign
        BY <2>1, <2>4 DEF CallOK, Valid
      <3>4. c.next = 1 /\ c.next \in 1 .. Len(PodsOf[u])
        <4>1. c.next = 1
          BY <2>1 DEF CallOK
        <4>2. PICK q \in MembersOf(u) : TRUE
          BY <3>1 DEF UniqueNodeNames
        <4>3. PICK i \in 1 .. Len(PodsOf[u]) : q = PodsOf[u][i]
          BY <4>2, RequestFacts
        <4>4. Len(PodsOf[u]) \in Nat
          BY RequestFacts
        <4> QED
          BY <4>1, <4>3, <4>4
      <3>5. UniqueNodeNames(u) \cap c.foreign \subseteq c.check \ {n}
        BY <2>1, <3>3 DEF CallOK
      <3>6. CallOK(u, d, owner)
        <4>1. Passed(u, d) = Passed(u, c)
          BY <3>2 DEF Passed
        <4> QED
          <5> HIDE DEF c, d
          <5>1. CASE c.check = {n}
            <6>1. d.pc = "bind" /\ UniqueNodeNames(u) \cap d.foreign = {}
              BY <5>1, <3>2, <3>5
            <6> QED
              BY <6>1, <2>1, <3>2, <3>4, <4>1 DEF CallOK
          <5>2. CASE c.check # {n}
            <6>1. d.pc = "validate"
              BY <5>2, <3>2
            <6> QED
              BY <6>1, <2>1, <3>2, <3>4, <3>5, <4>1 DEF CallOK
          <5> QED
            BY <5>1, <5>2
      <3>7. call' = [call EXCEPT ![u] = d]
        BY <2>2, <2>4
      <3>8. UNCHANGED owner
        BY <1>4 DEF ValidateNode
      <3> QED
        BY <3>6, <3>7, <3>8, <1>1
    <2> QED
      BY <2>3, <2>4
  <1>5. ASSUME NEW u \in Units, TimeoutPasses(u)
        PROVE  CallsOK' /\ owner' \in [Nodes -> Owners]
    <2> DEFINE c == call[u]
               d == [c EXCEPT !.late = TRUE]
    <2>1. /\ d \in Calls(u) /\ d.next = c.next /\ d.foreign = c.foreign /\ d.check = c.check
          /\ d.pc = c.pc /\ d.ok = c.ok /\ d.failed = c.failed
      BY DEF CallOK, Calls
    <2>2. CallOK(u, d, owner)
      BY <2>1 DEF CallOK, Passed
    <2>3. call' = [call EXCEPT ![u] = d] /\ UNCHANGED owner
      BY <1>5 DEF TimeoutPasses
    <2> QED
      BY <2>2, <2>3, <1>1
  <1>6. ASSUME NEW u \in Units, BindPod(u)
        PROVE  CallsOK' /\ owner' \in [Nodes -> Owners]
    <2> DEFINE c == call[u]
               p == PodsOf[u][c.next]
    <2>1. c.pc = "bind" /\ CallOK(u, c, owner) /\ UNCHANGED owner
      BY <1>6 DEF BindPod
    <2>2. PICK d \in {Bound(c, p, u), NotBound(c, p, u), Transient(c, p, u)} :
            call' = [call EXCEPT ![u] = d]
      BY <1>6 DEF BindPod
    <2>3. CallOK(u, d, owner)
      <3>1. CallOK(u, Bound(c, p, u), owner)
        BY <2>1, BoundOK
      <3>2. CallOK(u, NotBound(c, p, u), owner)
        BY <2>1, NotBoundOK
      <3>3. CallOK(u, Transient(c, p, u), owner)
        BY <2>1, TransientOK
      <3> QED
        BY <2>2, <3>1, <3>2, <3>3
    <2> QED
      BY <2>1, <2>2, <2>3, <1>1
  <1>7. ASSUME NEW u \in Units, ReturnBindResult(u)
        PROVE  CallsOK' /\ owner' \in [Nodes -> Owners]
    BY <1>7, <1>2 DEF ReturnBindResult
  <1>8. ASSUME NEW n \in Nodes, Reshuffle(n)
        PROVE  CallsOK' /\ owner' \in [Nodes -> Owners]
    <2>1. PICK o \in Owners : owner' = [owner EXCEPT ![n] = o]
      BY <1>8 DEF Reshuffle, Owners
    <2>2. owner' \in [Nodes -> Owners] /\ \A m \in Nodes : m # n => owner'[m] = owner[m]
      BY <2>1
    <2>3. call' = [u \in Units |-> [call[u] EXCEPT !.foreign = @ \ {n}]]
      BY <1>8 DEF Reshuffle
    <2>4. ASSUME NEW u \in Units
          PROVE  CallOK(u, call'[u], owner')
      <3> DEFINE c == call[u]
                 d == [c EXCEPT !.foreign = @ \ {n}]
      <3>1. call'[u] = d /\ CallOK(u, c, owner)
        BY <2>3
      <3>2. c \in Calls(u) /\ c.foreign \ {n} \in SUBSET Nodes
        BY <3>1 DEF CallOK, Calls
      <3>3. /\ d \in Calls(u) /\ d.next = c.next /\ d.foreign = c.foreign \ {n} /\ d.ok = c.ok
            /\ d.check = c.check /\ d.pc = c.pc /\ d.failed = c.failed
        BY <3>2 DEF Calls
      <3>4. \A m \in d.foreign : owner'[m] = "other"
        BY <2>2, <3>1, <3>2, <3>3 DEF CallOK
      <3>5. Passed(u, d) = Passed(u, c)
        BY <3>3 DEF Passed
      <3>6. CallOK(u, d, owner')
        BY <3>1, <3>3, <3>4, <3>5 DEF CallOK
      <3> QED
        BY <3>1, <3>6
    <2> QED
      BY <2>2, <2>3, <2>4
  <1>9. ASSUME UNCHANGED <<call, owner>>
        PROVE  CallsOK' /\ owner' \in [Nodes -> Owners]
    BY <1>9
  <1> QED
    BY <1>3, <1>4, <1>5, <1>6, <1>7, <1>8, <1>9
    DEF Next, vars, CheckPodState, ListPod, HandlePodEvent, CleanupExpiredAssumedPods, DeletePod,
        ForgetInReconciler, PatchInReconciler, Stop, Start

-----------------------------------------------------------------------------
(* The places in the cache.                                                 *)

(* A step that leaves the logs and the cache alone may not drop the work on *)
(* an assumed pod.                                                          *)
LEMMA QuietStep ==
  ASSUME PlacesOK, UNCHANGED <<log, cacheVars>>, tasks' \subseteq Pods,
         work' \in {NoWork} \cup [pod : Pods, step : {"forget", "patch"}],
         \A q \in Pods : cached[q] = "assumed" /\ Working(q) => Working(q)'
  PROVE  PlacesOK'
  <1>1. \A q \in Pods : Seen(q)' = Seen(q) /\ Server(q)' = Server(q)
    BY DEF Seen, Server
  <1>2. UNCHANGED <<cached, finished>>
    BY DEF cacheVars
  <1>3. BoundPodsAreCounted'
    BY <1>1, <1>2 DEF PlacesOK, BoundPodsAreCounted
  <1>4. ReservationsEnd'
    BY <1>1, <1>2 DEF PlacesOK, ReservationsEnd
  <1> QED
    BY <1>2, <1>3, <1>4 DEF PlacesOK

LEMMA OneCall ==
  ASSUME PlacesInv, NEW u \in Units, NEW d, call' = [call EXCEPT ![u] = d]
  PROVE  call'[u] = d /\ \A v \in Units : v # u => call'[v] = call[v]
  BY DEF PlacesInv, CallsOK

LEMMA BindUnitKeeps ==
  ASSUME PlacesInv, NEW u \in Units, BindUnit(u)
  PROVE  PlacesOK'
  <1>1. CASE ~running
    <2>1. tasks' = tasks \cup MembersOf(u) /\ call' = [call EXCEPT ![u] = [call[u] EXCEPT !.pc = "done"]]
      BY <1>1 DEF BindUnit, CallFails
    <2>2. UNCHANGED <<log, cacheVars, work>> /\ tasks' \subseteq Pods
      BY <2>1, RequestFacts DEF BindUnit, PlacesInv, PlacesOK
    <2>3. ASSUME NEW q \in Pods, Working(q)
          PROVE  Working(q)'
      BY <2>3, <2>1, <2>2, OneCall DEF Working
    <2> QED
      BY <2>2, <2>3, QuietStep DEF PlacesInv, PlacesOK
  <1>2. CASE running
    <2> DEFINE d == [NoCall EXCEPT !.pc = "validate", !.check = UniqueNodeNames(u),
                                   !.foreign = {n \in Nodes : owner[n] = "other"}]
    <2>1. d.pc = "validate" /\ d.ok = {} /\ call' = [call EXCEPT ![u] = d] /\ UNCHANGED tasks
      BY <1>2 DEF BindUnit, NoCall
    <2>2. UNCHANGED <<log, cacheVars, work>> /\ tasks' \subseteq Pods
      BY <2>1 DEF BindUnit, PlacesInv, PlacesOK
    <2> HIDE DEF d
    <2>3. ASSUME NEW q \in Pods, Working(q)
          PROVE  Working(q)'
      BY <2>3, <2>1, <2>2, OneCall DEF Working
    <2> QED
      BY <2>2, <2>3, QuietStep DEF PlacesInv, PlacesOK
  <1> QED
    BY <1>1, <1>2

LEMMA ValidateNodeKeeps ==
  ASSUME PlacesInv, NEW u \in Units, ValidateNode(u)
  PROVE  PlacesOK'
  <1> DEFINE c == call[u]
  <1>1. PICK n \in c.check :
          IF Valid(n)
          THEN /\ call' = [call EXCEPT ![u].check = @ \ {n},
                                       ![u].pc = IF c.check = {n} THEN "bind" ELSE @]
               /\ UNCHANGED tasks
          ELSE CallFails(u)
    BY DEF ValidateNode
  <1>2. UNCHANGED <<log, cacheVars, work>> /\ c.pc = "validate" /\ c \in Calls(u)
    BY DEF ValidateNode, PlacesInv, CallsOK, CallOK
  <1>3. CASE Valid(n)
    <2>1. UNCHANGED tasks /\ tasks \subseteq Pods
      BY <1>1, <1>3 DEF PlacesInv, PlacesOK
    <2>2. /\ call'[u].ok = c.ok /\ call'[u].pc # "done"
          /\ \A v \in Units : v # u => call'[v] = call[v]
      <3>1. DOMAIN call = Units
        BY DEF PlacesInv, CallsOK
      <3>2. call' = [call EXCEPT ![u].check = @ \ {n},
                                 ![u].pc = IF c.check = {n} THEN "bind" ELSE @]
        BY <1>1, <1>3
      <3> QED
        BY <3>1, <3>2, <1>2 DEF Calls
    <2>3. ASSUME NEW q \in Pods, Working(q)
          PROVE  Working(q)'
      BY <1>2, <2>1, <2>2, <2>3 DEF Working
    <2> QED
      BY <1>2, <2>1, <2>3, QuietStep DEF PlacesInv, PlacesOK
  <1>4. CASE ~Valid(n)
    <2>1. tasks' = tasks \cup MembersOf(u) /\ call' = [call EXCEPT ![u] = [call[u] EXCEPT !.pc = "done"]]
      BY <1>1, <1>4 DEF CallFails
    <2>2. tasks' \subseteq Pods
      BY <2>1, RequestFacts DEF PlacesInv, PlacesOK
    <2>3. ASSUME NEW q \in Pods, Working(q)
          PROVE  Working(q)'
      BY <2>3, <1>2, <2>1, OneCall DEF Working
    <2> QED
      BY <1>2, <2>2, <2>3, QuietStep DEF PlacesInv, PlacesOK
  <1> QED
    BY <1>3, <1>4

LEMMA TimeoutKeeps ==
  ASSUME PlacesInv, NEW u \in Units, TimeoutPasses(u)
  PROVE  PlacesOK'
  <1> DEFINE d == [call[u] EXCEPT !.late = TRUE]
  <1>1. call' = [call EXCEPT ![u] = d] /\ UNCHANGED <<log, cacheVars, work, tasks>>
    BY DEF TimeoutPasses
  <1>2. d.ok = call[u].ok /\ d.pc = "bind"
    BY DEF TimeoutPasses, PlacesInv, CallsOK, CallOK, Calls
  <1> HIDE DEF d
  <1>3. ASSUME NEW q \in Pods, Working(q)
        PROVE  Working(q)'
    BY <1>3, <1>1, <1>2, OneCall DEF Working
  <1> QED
    BY <1>1, <1>3, QuietStep DEF PlacesInv, PlacesOK

LEMMA ReturnKeeps ==
  ASSUME PlacesInv, NEW u \in Units, ReturnBindResult(u)
  PROVE  PlacesOK'
  <1>1. /\ call' = [call EXCEPT ![u] = [call[u] EXCEPT !.pc = "done"]]
        /\ UNCHANGED <<log, cacheVars, work>> /\ tasks' = tasks \cup call[u].failed
    BY DEF ReturnBindResult
  <1>2. CallOK(u, call[u], owner) /\ call[u].pc = "return"
    BY DEF ReturnBindResult, PlacesInv, CallsOK
  <1>3. tasks' \subseteq Pods
    <2>1. call[u].failed \subseteq MembersOf(u)
      BY <1>2 DEF CallOK, Calls
    <2> QED
      BY <2>1, <1>1, RequestFacts DEF PlacesInv, PlacesOK
  <1>4. call[u].ok \cup call[u].failed = MembersOf(u)
    <2>1. call[u].next - 1 = Len(PodsOf[u])
      BY <1>2, RequestFacts DEF CallOK
    <2> QED
      BY <2>1, <1>2, RequestFacts DEF CallOK, Passed
  <1>5. ASSUME NEW q \in Pods, Working(q)
        PROVE  Working(q)'
    BY <1>5, <1>1, <1>4, OneCall DEF Working
  <1> QED
    BY <1>1, <1>3, <1>5, QuietStep DEF PlacesInv, PlacesOK

LEMMA ReshuffleKeeps ==
  ASSUME PlacesInv, NEW n \in Nodes, Reshuffle(n)
  PROVE  PlacesOK'
  <1>1. /\ call' = [u \in Units |-> [call[u] EXCEPT !.foreign = @ \ {n}]]
        /\ UNCHANGED <<log, cacheVars, work, tasks>>
    BY DEF Reshuffle
  <1>2. \A u \in Units : call'[u].pc = call[u].pc /\ call'[u].ok = call[u].ok
    BY <1>1 DEF PlacesInv, CallsOK, CallOK, Calls
  <1>3. ASSUME NEW q \in Pods, Working(q)
        PROVE  Working(q)'
    <2>1. UNCHANGED <<work, tasks>>
      BY <1>1
    <2> QED
      BY <1>3, <2>1, <1>2, Zenon DEF Working
  <1> QED
    BY <1>1, <1>3, QuietStep DEF PlacesInv, PlacesOK

(* The reconciler drops a task only of a pod that is not assumed.           *)
LEMMA CheckPodStateKeeps ==
  ASSUME PlacesInv, NEW p \in Pods, CheckPodState(p)
  PROVE  PlacesOK'
  <1>1. /\ work = NoWork /\ tasks' = tasks \ {p} /\ UNCHANGED <<log, call, cacheVars>>
        /\ work' \in {NoWork} \cup [pod : {p}, step : {"forget", "patch"}]
        /\ work' = NoWork => cached[p] # "assumed"
    <2>1. CASE Lister(p) = "dispatched"
      BY <2>1 DEF CheckPodState, NoWork
    <2>2. CASE Lister(p) # "dispatched" /\ (Lister(p) = "gone" \/ cached[p] = "assumed")
      BY <2>2 DEF CheckPodState, NoWork
    <2>3. CASE Lister(p) # "dispatched" /\ Lister(p) # "gone" /\ cached[p] # "assumed"
      BY <2>3 DEF CheckPodState, NoWork
    <2> QED
      BY <2>1, <2>2, <2>3
  <1>2. work' # NoWork => work'.pod = p
    BY <1>1
  <1>3. ASSUME NEW q \in Pods, cached[q] = "assumed", Working(q)
        PROVE  Working(q)'
    <2>1. CASE q = p
      BY <2>1, <1>1, <1>2, <1>3 DEF Working
    <2>2. CASE q # p /\ work.pod # q
      BY <2>2, <1>1, <1>3 DEF Working
    <2>3. CASE q # p /\ work.pod = q
      BY <2>3, <1>1, ConstantsAssumption DEF NoWork
    <2> QED
      BY <2>1, <2>2, <2>3
  <1> QED
    BY <1>1, <1>3, QuietStep DEF PlacesInv, PlacesOK

(* A bound pod gets its deadline in the same step; the event of a pod bound *)
(* without an answer is on the way.                                         *)
LEMMA BindPodKeeps ==
  ASSUME PlacesInv, NEW u \in Units, BindPod(u)
  PROVE  PlacesOK' /\ LogOK'
  <1>0. PICK c, p : c = call[u] /\ p = PodsOf[u][c.next]
    OBVIOUS
  <1>1. LogOK /\ PlacesOK /\ c.pc = "bind" /\ CallOK(u, c, owner) /\ p \in Pods /\ c \in Calls(u)
    <2>1. LogOK /\ PlacesOK /\ c.pc = "bind" /\ CallOK(u, c, owner)
      BY <1>0 DEF BindPod, PlacesInv, CallsOK
    <2>2. p \in Pods
      BY <2>1, <1>0, NextPod
    <2> QED
      BY <2>1, <2>2 DEF CallOK
  <1>2. UNCHANGED <<listed, cached, tasks, work>>
    BY DEF BindPod
  <1>3. PICK d : /\ call' = [call EXCEPT ![u] = d] /\ d.pc # "done"
                 /\ \/ d.ok = c.ok /\ finished' = finished /\ (log' = log \/ Write(p, "bound"))
                    \/ d.ok = c.ok \cup {p} /\ FinishReserving(p) /\ Write(p, "bound")
    <2>1. /\ Bound(c, p, u).ok = c.ok \cup {p} /\ Bound(c, p, u).pc # "done"
          /\ NotBound(c, p, u).ok = c.ok /\ NotBound(c, p, u).pc # "done"
          /\ Transient(c, p, u).ok = c.ok /\ Transient(c, p, u).pc # "done"
      <3>1. Bound(c, p, u).ok = c.ok \cup {p} /\ Bound(c, p, u).pc \in {"bind", "return"}
        BY <1>0, <1>1, BoundOK
      <3>2. NotBound(c, p, u).ok = c.ok /\ NotBound(c, p, u).pc \in {"bind", "return"}
        BY <1>0, <1>1, NotBoundOK
      <3>3. Transient(c, p, u).ok = c.ok /\ Transient(c, p, u).pc \in {"bind", "return"}
        BY <1>0, <1>1, TransientOK
      <3> QED
        BY <3>1, <3>2, <3>3
    <2>2. \/ /\ call' = [call EXCEPT ![u] = Bound(c, p, u)] /\ FinishReserving(p) /\ Write(p, "bound")
          \/ /\ \/ call' = [call EXCEPT ![u] = NotBound(c, p, u)]
                \/ call' = [call EXCEPT ![u] = Transient(c, p, u)]
             /\ finished' = finished /\ (log' = log \/ Write(p, "bound"))
      BY <1>0 DEF BindPod
    <2>3. CASE call' = [call EXCEPT ![u] = Bound(c, p, u)] /\ FinishReserving(p) /\ Write(p, "bound")
      BY <2>1, <2>3, Zenon
    <2>4. CASE call' = [call EXCEPT ![u] = NotBound(c, p, u)] /\ finished' = finished
                 /\ (log' = log \/ Write(p, "bound"))
      BY <2>1, <2>4, Zenon
    <2>5. CASE call' = [call EXCEPT ![u] = Transient(c, p, u)] /\ finished' = finished
                 /\ (log' = log \/ Write(p, "bound"))
      BY <2>1, <2>5, Zenon
    <2> QED
      BY <2>2, <2>3, <2>4, <2>5
  <1>4. /\ LogOK' /\ \A q \in Pods : Seen(q)' = Seen(q)
        /\ \A q \in Pods : q # p => Server(q)' = Server(q)
        /\ Server(p)' = Server(p) \/ Server(p)' = "bound"
    <2>1. CASE log' = log
      BY <2>1, <1>1, <1>2 DEF LogOK, NeverDispatchedAgain, Seen, Server
    <2>2. CASE Write(p, "bound")
      BY <2>2, <1>1, <1>2, WriteFacts DEF PodStates
    <2> QED
      BY <1>3, <2>1, <2>2
  <1>5. /\ finished \subseteq finished' /\ finished' \subseteq {q \in Pods : cached[q] = "assumed"}
        /\ cached[p] = "assumed" => d.ok = c.ok \/ p \in finished'
    BY <1>1, <1>3 DEF FinishReserving, PlacesOK
  <1>6. BoundPodsAreCounted'
    BY <1>1, <1>2, <1>4 DEF PlacesOK, BoundPodsAreCounted
  <1>7. ASSUME NEW q \in Pods, cached[q] = "assumed", Server(q)' # "gone"
        PROVE  Working(q)' \/ q \in finished' \/ Server(q)' # Seen(q)'
    <2>1. CASE q = p /\ Server(p)' = "bound"
      <3>1. Seen(p) # "bound"
        BY <2>1, <1>1, <1>7 DEF PlacesOK, BoundPodsAreCounted
      <3> QED
        BY <2>1, <3>1, <1>4
    <2>2. CASE Server(q)' = Server(q)
      <3>1. Working(q) \/ q \in finished \/ Server(q) # Seen(q)
        BY <1>1, <1>7, <2>2 DEF PlacesOK, ReservationsEnd
      <3>2. CASE q \in finished \/ Server(q) # Seen(q)
        BY <3>2, <2>2, <1>4, <1>5
      <3>3. CASE Working(q) /\ q \notin finished'
        <4>1. q \notin c.ok => q \notin d.ok
          BY <1>3, <1>5, <1>7, <3>3
        <4>2. call'[u] = d /\ \A v \in Units : v # u => call'[v] = call[v]
          BY <1>3, OneCall
        <4>3. CASE q \in tasks \/ work.pod = q
          BY <1>2, <4>3 DEF Working
        <4>4. ASSUME NEW v \in Units, q \in MembersOf(v), call[v].pc # "done", q \notin call[v].ok
              PROVE  call'[v].pc # "done" /\ q \notin call'[v].ok
          BY <1>0, <1>3, <4>1, <4>2, <4>4
        <4> QED
          BY <3>3, <4>3, <4>4 DEF Working
      <3> QED
        BY <3>1, <3>2, <3>3
    <2> QED
      BY <2>1, <2>2, <1>4
  <1> QED
    BY <1>1, <1>2, <1>4, <1>5, <1>6, <1>7 DEF PlacesOK, ReservationsEnd

(* The reconciler forgets an assumed pod only.                              *)
LEMMA ForgetKeeps ==
  ASSUME PlacesInv, ForgetInReconciler
  PROVE  PlacesOK' /\ LogOK'
  <1>1. PICK p : p = work.pod
    OBVIOUS
  <1>2. /\ PlacesOK /\ LogOK /\ work.step = "forget" /\ ForgetPod(p) /\ work' = NoWork
        /\ UNCHANGED <<log, listed, call, tasks>>
    BY <1>1 DEF PlacesInv, ForgetInReconciler
  <1>3. p \in Pods
    BY <1>1, <1>2 DEF PlacesOK, NoWork
  <1>4. LogOK' /\ \A q \in Pods : Seen(q)' = Seen(q) /\ Server(q)' = Server(q)
    BY <1>2 DEF LogOK, NeverDispatchedAgain, Seen, Server
  <1>5. /\ cached' \in [Pods -> {"no", "assumed", "added"}] /\ cached'[p] # "assumed"
        /\ \A q \in Pods : cached[q] = "added" => cached'[q] = "added"
        /\ \A q \in Pods : q # p => cached'[q] = cached[q] /\ (q \in finished' <=> q \in finished)
        /\ finished' \subseteq finished /\ (p \in finished' => cached'[p] = "assumed")
    <2>1. CASE cached[p] = "assumed"
      <3>1. cached' = [cached EXCEPT ![p] = "no"] /\ finished' = finished \ {p}
        BY <1>2, <2>1 DEF ForgetPod
      <3> QED
        BY <3>1, <2>1, <1>2, <1>3 DEF PlacesOK
    <2>2. CASE cached[p] # "assumed"
      <3>1. UNCHANGED <<cached, finished>>
        BY <1>2, <2>2 DEF ForgetPod, cacheVars
      <3> QED
        BY <3>1, <2>2, <1>2, <1>3 DEF PlacesOK
    <2> QED
      BY <2>1, <2>2
  <1>6. finished' \subseteq {q \in Pods : cached'[q] = "assumed"}
    BY <1>2, <1>5 DEF PlacesOK
  <1>7. BoundPodsAreCounted'
    BY <1>2, <1>4, <1>5 DEF PlacesOK, BoundPodsAreCounted
  <1>8. ASSUME NEW q \in Pods, cached'[q] = "assumed", Server(q)' # "gone"
        PROVE  Working(q)' \/ q \in finished' \/ Server(q)' # Seen(q)'
    <2>1. q # p /\ cached[q] = "assumed" /\ (q \in finished' <=> q \in finished)
      BY <1>5, <1>8
    <2>2. Working(q) \/ q \in finished \/ Server(q) # Seen(q)
      BY <1>2, <1>4, <1>8, <2>1 DEF PlacesOK, ReservationsEnd
    <2>3. Working(q) => Working(q)'
      BY <1>1, <1>2, <2>1 DEF Working
    <2> QED
      BY <2>1, <2>2, <2>3, <1>4
  <1> QED
    BY <1>2, <1>4, <1>5, <1>6, <1>7, <1>8 DEF PlacesOK, ReservationsEnd

(* A step that writes to the log of one pod and leaves the cache alone: the *)
(* event of what was written settles the pod.                               *)
LEMMA WriteKeeps ==
  ASSUME PlacesInv, NEW p \in Pods, NEW s \in {"assumed", "bound", "gone"}, Write(p, s),
         UNCHANGED <<listed, cacheVars>>, tasks' \subseteq Pods,
         work' \in {NoWork} \cup [pod : Pods, step : {"forget", "patch"}],
         \A q \in Pods : q # p /\ Working(q) => Working(q)'
  PROVE  PlacesOK' /\ LogOK'
  <1>1. PlacesOK /\ LogOK /\ UNCHANGED <<cached, finished>>
    BY DEF PlacesInv, cacheVars
  <1>2. /\ LogOK' /\ \A q \in Pods : Seen(q)' = Seen(q)
        /\ Server(p)' = s /\ \A q \in Pods : q # p => Server(q)' = Server(q)
    BY <1>1, WriteFacts DEF PodStates
  <1>3. BoundPodsAreCounted'
    BY <1>1, <1>2 DEF PlacesOK, BoundPodsAreCounted
  <1>4. ASSUME NEW q \in Pods, cached[q] = "assumed", Server(q)' # "gone"
        PROVE  Working(q)' \/ q \in finished \/ Server(q)' # Seen(q)'
    <2>1. CASE q = p
      <3>1. Seen(p) \notin {"assumed", "bound"}
        BY <2>1, <1>1, <1>4 DEF PlacesOK, BoundPodsAreCounted
      <3> QED
        BY <2>1, <3>1, <1>2, <1>4
    <2>2. CASE q # p
      <3>1. Working(q) \/ q \in finished \/ Server(q) # Seen(q)
        BY <1>1, <1>2, <1>4, <2>2 DEF PlacesOK, ReservationsEnd
      <3> QED
        BY <3>1, <2>2, <1>2
    <2> QED
      BY <2>1, <2>2
  <1> QED
    BY <1>1, <1>2, <1>3, <1>4 DEF PlacesOK, ReservationsEnd

LEMMA PatchKeeps ==
  ASSUME PlacesInv, PatchInReconciler
  PROVE  PlacesOK' /\ LogOK'
  <1>1. PICK p : p = work.pod
    OBVIOUS
  <1>2. /\ PlacesOK /\ LogOK /\ work.step = "patch" /\ work' = NoWork
        /\ UNCHANGED <<listed, call, cacheVars>>
        /\ \/ (IF Server(p) = "dispatched" THEN Write(p, "assumed") ELSE UNCHANGED log) /\ UNCHANGED tasks
           \/ tasks' = tasks \cup {p} /\ UNCHANGED log
    BY <1>1 DEF PlacesInv, PatchInReconciler
  <1>3. p \in Pods
    BY <1>1, <1>2 DEF PlacesOK, NoWork
  <1>4. tasks' \subseteq Pods /\ tasks \subseteq tasks'
    BY <1>2, <1>3 DEF PlacesOK
  <1>5. ASSUME NEW q \in Pods, q # p, Working(q)
        PROVE  Working(q)'
    BY <1>1, <1>2, <1>4, <1>5 DEF Working
  <1>6. CASE Write(p, "assumed")
    BY <1>2, <1>3, <1>4, <1>5, <1>6, WriteKeeps
  <1>7. CASE UNCHANGED log /\ (p \in tasks' \/ Server(p) # "dispatched")
    <2>1. LogOK' /\ \A q \in Pods : Seen(q)' = Seen(q) /\ Server(q)' = Server(q)
      BY <1>2, <1>7 DEF LogOK, NeverDispatchedAgain, Seen, Server
    <2>2. UNCHANGED <<cached, finished>>
      BY <1>2 DEF cacheVars
    <2>3. BoundPodsAreCounted'
      BY <1>2, <2>1, <2>2 DEF PlacesOK, BoundPodsAreCounted
    <2>4. ASSUME NEW q \in Pods, cached[q] = "assumed", Server(q)' # "gone"
          PROVE  Working(q)' \/ q \in finished \/ Server(q)' # Seen(q)'
      <3>1. Working(q) \/ q \in finished \/ Server(q) # Seen(q)
        BY <1>2, <2>1, <2>4 DEF PlacesOK, ReservationsEnd
      <3>2. CASE q # p
        BY <3>1, <3>2, <1>5, <2>1
      <3>3. CASE q = p /\ p \in tasks'
        BY <3>3 DEF Working
      <3>4. CASE q = p /\ Server(p) # "dispatched"
        <4>1. Seen(p) \notin {"assumed", "bound"}
          BY <3>4, <1>2, <2>4 DEF PlacesOK, BoundPodsAreCounted
        <4>2. Server(p) \in PodStates
          BY <1>2, <1>3, LogFacts
        <4> QED
          BY <3>4, <4>1, <4>2, <2>1, <2>4 DEF PodStates
      <3> QED
        BY <3>2, <3>3, <3>4, <1>7
    <2> QED
      BY <1>2, <1>4, <2>1, <2>2, <2>3, <2>4 DEF PlacesOK, ReservationsEnd
  <1> QED
    BY <1>2, <1>6, <1>7

LEMMA DeleteKeeps ==
  ASSUME PlacesInv, NEW p \in Pods, DeletePod(p)
  PROVE  PlacesOK' /\ LogOK'
  <1>1. Write(p, "gone") /\ UNCHANGED <<listed, call, cacheVars, tasks, work>>
    BY DEF DeletePod
  <1>2. ASSUME NEW q \in Pods, Working(q)
        PROVE  Working(q)'
    BY <1>1, <1>2 DEF Working
  <1> QED
    BY <1>1, <1>2, WriteKeeps DEF PlacesInv, PlacesOK

(* The handler settles the pod, unless it saw a deletion of a pod that is   *)
(* then gone: nothing becomes dispatched again.                             *)
LEMMA HandleKeeps ==
  ASSUME PlacesInv, NEW p \in Pods, HandlePodEvent(p)
  PROVE  PlacesOK' /\ LogOK'
  <1>1. /\ PlacesOK /\ LogOK /\ listed[p] > 1 /\ UNCHANGED <<call, tasks, work>>
        /\ log' = [log EXCEPT ![p] = Tail(@)] /\ listed' = [listed EXCEPT ![p] = @ - 1]
    BY DEF PlacesInv, HandlePodEvent
  <1>2. PICK new : new = log[p][2]
    OBVIOUS
  <1>3. /\ LogOK' /\ Seen(p)' = new /\ new \in {"assumed", "bound", "gone"}
        /\ \A q \in Pods : q # p => Seen(q)' = Seen(q)
        /\ \A q \in Pods : Server(q)' = Server(q)
    <2>1. /\ LogOK' /\ Seen(p)' = log[p][2] /\ log[p][2] \in PodStates \ {"dispatched"}
          /\ \A q \in Pods : q # p => Seen(q)' = Seen(q)
          /\ \A q \in Pods : Server(q)' = Server(q)
      BY <1>1, TailFacts, Zenon
    <2> QED
      BY <2>1, <1>2 DEF PodStates
  <1>4. /\ cached' \in [Pods -> {"no", "assumed", "added"}]
        /\ \A q \in Pods : q # p => cached'[q] = cached[q]
        /\ new \in {"assumed", "bound"} => cached'[p] = "added"
        /\ cached'[p] = "assumed" => cached[p] = "assumed" /\ new = "gone"
    <2>1. CASE new \in {"assumed", "bound"}
      <3>1. cached' = [cached EXCEPT ![p] = "added"]
        BY <2>1, <1>2 DEF HandlePodEvent
      <3> QED
        BY <3>1, <2>1, <1>1 DEF PlacesOK
    <2>2. CASE new = "gone" /\ Seen(p) \in {"assumed", "bound"}
      <3>1. cached' = [cached EXCEPT ![p] = "no"]
        BY <2>2, <1>2 DEF HandlePodEvent
      <3> QED
        BY <3>1, <2>2, <1>1 DEF PlacesOK
    <2>3. CASE new = "gone" /\ Seen(p) \notin {"assumed", "bound"}
      <3>1. cached' = cached
        BY <2>3, <1>2 DEF HandlePodEvent
      <3> QED
        BY <3>1, <2>3, <1>1 DEF PlacesOK
    <2> QED
      BY <1>3, <2>1, <2>2, <2>3
  <1>5. finished' = IF cached'[p] = "assumed" THEN finished ELSE finished \ {p}
    BY DEF HandlePodEvent
  <1>6. finished' \subseteq {q \in Pods : cached'[q] = "assumed"}
    BY <1>1, <1>4, <1>5 DEF PlacesOK
  <1>7. BoundPodsAreCounted'
    <2> SUFFICES ASSUME NEW q \in Pods, Seen(q)' \in {"assumed", "bound"}
                 PROVE  cached'[q] = "added"
      BY DEF BoundPodsAreCounted
    <2> QED
      BY <1>1, <1>3, <1>4 DEF PlacesOK, BoundPodsAreCounted
  <1>8. ASSUME NEW q \in Pods, cached'[q] = "assumed", Server(q)' # "gone"
        PROVE  Working(q)' \/ q \in finished' \/ Server(q)' # Seen(q)'
    <2>1. Working(q) => Working(q)'
      BY <1>1 DEF Working
    <2>2. CASE q = p
      BY <2>2, <1>3, <1>4, <1>8
    <2>3. CASE q # p
      <3>1. cached[q] = "assumed" /\ Server(q) # "gone"
        BY <2>3, <1>3, <1>4, <1>8
      <3>2. Working(q) \/ q \in finished \/ Server(q) # Seen(q)
        BY <1>1, <3>1 DEF PlacesOK, ReservationsEnd
      <3> QED
        BY <3>2, <2>1, <2>3, <1>3, <1>5
    <2> QED
      BY <2>2, <2>3
  <1> QED
    BY <1>1, <1>3, <1>4, <1>6, <1>7, <1>8 DEF PlacesOK, ReservationsEnd

LEMMA CleanupKeeps ==
  ASSUME PlacesInv, NEW p \in Pods, CleanupExpiredAssumedPods(p)
  PROVE  PlacesOK' /\ LogOK'
  <1>1. /\ PlacesOK /\ LogOK /\ p \in finished /\ cached' = [cached EXCEPT ![p] = "no"]
        /\ finished' = finished \ {p} /\ UNCHANGED <<log, listed, call, tasks, work>>
    BY DEF PlacesInv, CleanupExpiredAssumedPods
  <1>2. LogOK' /\ \A q \in Pods : Seen(q)' = Seen(q) /\ Server(q)' = Server(q)
    BY <1>1 DEF LogOK, NeverDispatchedAgain, Seen, Server
  <1>3. /\ cached' \in [Pods -> {"no", "assumed", "added"}] /\ cached'[p] = "no" /\ cached[p] = "assumed"
        /\ \A q \in Pods : q # p => cached'[q] = cached[q]
        /\ finished' \subseteq {q \in Pods : cached'[q] = "assumed"}
    BY <1>1 DEF PlacesOK
  <1>4. BoundPodsAreCounted'
    BY <1>1, <1>2, <1>3 DEF PlacesOK, BoundPodsAreCounted
  <1>5. ASSUME NEW q \in Pods, cached'[q] = "assumed", Server(q)' # "gone"
        PROVE  Working(q)' \/ q \in finished' \/ Server(q)' # Seen(q)'
    <2>1. Working(q) => Working(q)'
      BY <1>1 DEF Working
    <2>2. q # p /\ cached[q] = "assumed" /\ Server(q) # "gone"
      BY <1>2, <1>3, <1>5
    <2>3. Working(q) \/ q \in finished \/ Server(q) # Seen(q)
      BY <1>1, <2>2 DEF PlacesOK, ReservationsEnd
    <2> QED
      BY <2>1, <2>2, <2>3, <1>1, <1>2
  <1> QED
    BY <1>1, <1>2, <1>3, <1>4, <1>5 DEF PlacesOK, ReservationsEnd

LEMMA InitOK == Init => PlacesInv
  <1> SUFFICES ASSUME Init PROVE PlacesInv
    OBVIOUS
  <1>1. LogOK
    <2>1. <<"dispatched">> \in Seq(PodStates) \ {<<>>} /\ Len(<<"dispatched">>) = 1
      BY DEF PodStates
    <2>2. \A p \in Pods : log[p] = <<"dispatched">> /\ listed[p] = 1
      BY DEF Init
    <2>3. log \in [Pods -> Seq(PodStates) \ {<<>>}] /\ listed \in [Pods -> Nat]
      BY <2>1 DEF Init
    <2>4. \A p \in Pods : listed[p] \in 1 .. Len(log[p]) /\ Len(log[p]) <= MaxLag + 1
      <3>1. 1 \in 1 .. 1 /\ 1 <= MaxLag + 1
        BY ConstantsAssumption
      <3>2. \A p \in Pods : Len(log[p]) = 1 /\ listed[p] = 1
        BY <2>1, <2>2, Zenon
      <3> QED
        BY <3>1, <3>2, Zenon
    <2>5. NeverDispatchedAgain
      BY <2>1, <2>2 DEF NeverDispatchedAgain
    <2> QED
      BY <2>3, <2>4, <2>5 DEF LogOK
  <1>2. CallsOK
    <2>1. DOMAIN call = Units /\ \A u \in Units : call[u] = NoCall
      BY DEF Init
    <2>2. ASSUME NEW u \in Units
          PROVE  CallOK(u, NoCall, owner)
      <3>1. /\ NoCall \in Calls(u) /\ NoCall.next = 1 /\ NoCall.ok = {} /\ NoCall.failed = {}
            /\ NoCall.pc = "idle" /\ NoCall.foreign = {}
        BY DEF NoCall, Calls
      <3>2. Passed(u, NoCall) = {}
        <4>1. 1 .. 1 - 1 = {}
          OBVIOUS
        <4> QED
          BY <3>1, <4>1 DEF Passed
      <3> QED
        BY <3>1, <3>2 DEF CallOK
    <2> QED
      BY <2>1, <2>2 DEF CallsOK
  <1>3. owner \in [Nodes -> Owners]
    BY DEF Init, Owners
  <1>4. PlacesOK
    <2>1. \A p \in Pods : Seen(p) = "dispatched" /\ cached[p] = "assumed"
      BY DEF Init, Seen
    <2>2. \A p \in Pods : Server(p) = "dispatched"
      BY DEF Init, Server
    <2>3. BoundPodsAreCounted
      BY <2>1 DEF BoundPodsAreCounted
    <2>4. ReservationsEnd
      <3>1. \A u \in Units : call[u].pc # "done" /\ call[u].ok = {}
        BY DEF Init, NoCall
      <3>2. \A p \in Pods : Working(p)
        BY <3>1, ConstantsAssumption DEF Working
      <3> QED
        BY <3>2 DEF ReservationsEnd
    <2> QED
      BY <2>3, <2>4 DEF PlacesOK, Init
  <1> QED
    BY <1>1, <1>2, <1>3, <1>4 DEF PlacesInv

LEMMA Inductive == PlacesInv /\ [Next]_vars => PlacesInv'
  <1> SUFFICES ASSUME PlacesInv, [Next]_vars PROVE PlacesInv'
    OBVIOUS
  <1>1. CallsOK' /\ owner' \in [Nodes -> Owners]
    BY CallsAreKept DEF PlacesInv
  <1>2. ASSUME UNCHANGED <<log, listed>>
        PROVE  LogOK'
    BY <1>2 DEF PlacesInv, LogOK, NeverDispatchedAgain
  <1>3. ASSUME NEW u \in Units,
               BindUnit(u) \/ ValidateNode(u) \/ TimeoutPasses(u) \/ BindPod(u) \/ ReturnBindResult(u)
        PROVE  PlacesOK' /\ LogOK'
    <2>1. BindPod(u) \/ UNCHANGED <<log, listed>>
      BY <1>3 DEF BindUnit, ValidateNode, TimeoutPasses, ReturnBindResult
    <2> QED
      BY <1>2, <1>3, <2>1, BindUnitKeeps, ValidateNodeKeeps, TimeoutKeeps, BindPodKeeps, ReturnKeeps
  <1>4. ASSUME NEW p \in Pods, ListPod(p)
        PROVE  PlacesOK' /\ LogOK'
    <2>1. /\ UNCHANGED <<log, call, cacheVars, tasks, work>> /\ listed[p] < Len(log[p])
          /\ listed' = [listed EXCEPT ![p] = @ + 1] /\ LogOK
      BY <1>4 DEF ListPod, PlacesInv
    <2>2. \A q \in Pods : Working(q) => Working(q)'
      BY <2>1 DEF Working
    <2>3. LogOK'
      <3>1. listed' \in [Pods -> Nat]
        BY <2>1 DEF LogOK
      <3>2. \A q \in Pods : listed'[q] \in 1 .. Len(log[q])
        <4> TAKE q \in Pods
        <4>1. listed[q] \in 1 .. Len(log[q]) /\ listed[q] \in Nat /\ Len(log[q]) \in Nat
          BY <2>1, LogFacts DEF LogOK
        <4>2. listed'[q] = IF q = p THEN listed[q] + 1 ELSE listed[q]
          BY <2>1 DEF LogOK
        <4> QED
          BY <4>1, <4>2, <2>1
      <3> QED
        BY <2>1, <3>1, <3>2 DEF LogOK, NeverDispatchedAgain
    <2> QED
      BY <2>1, <2>2, <2>3, QuietStep DEF PlacesInv, PlacesOK
  <1>5. ASSUME NEW p \in Pods,
               \/ CheckPodState(p) \/ HandlePodEvent(p) \/ CleanupExpiredAssumedPods(p) \/ DeletePod(p)
        PROVE  PlacesOK' /\ LogOK'
    <2>1. CheckPodState(p) => UNCHANGED <<log, listed>>
      BY DEF CheckPodState
    <2> QED
      BY <1>2, <1>5, <2>1, CheckPodStateKeeps, HandleKeeps, CleanupKeeps, DeleteKeeps
  <1>6. ASSUME NEW n \in Nodes, Reshuffle(n)
        PROVE  PlacesOK' /\ LogOK'
    <2>1. UNCHANGED <<log, listed>>
      BY <1>6 DEF Reshuffle
    <2> QED
      BY <1>2, <1>6, <2>1, ReshuffleKeeps
  <1>7. ASSUME UNCHANGED <<log, listed, call, cacheVars, tasks, work>>
        PROVE  PlacesOK' /\ LogOK'
    <2>1. \A q \in Pods : Working(q) => Working(q)'
      BY <1>7 DEF Working
    <2> QED
      BY <1>2, <1>7, <2>1, QuietStep DEF PlacesInv, PlacesOK
  <1>8. Stop \/ Start \/ UNCHANGED vars => UNCHANGED <<log, listed, call, cacheVars, tasks, work>>
    BY DEF Stop, Start, vars, cacheVars
  <1>9. PlacesOK' /\ LogOK'
    BY <1>3, <1>4, <1>5, <1>6, <1>7, <1>8, ForgetKeeps, PatchKeeps DEF Next
  <1> QED
    BY <1>1, <1>9 DEF PlacesInv

LEMMA InvImplies == PlacesInv => PlacesAreAccounted
  <1> SUFFICES ASSUME PlacesInv PROVE PlacesAreAccounted
    OBVIOUS
  <1>1. BoundPodsAreCounted /\ ReservationsEnd
    BY DEF PlacesInv, PlacesOK
  <1>2. ForeignNodesAreSpared
    BY DEF PlacesInv, CallsOK, CallOK, ForeignNodesAreSpared
  <1>3. TypeOK
    BY DEF PlacesInv, LogOK, PlacesOK, CallsOK, CallOK, Passed, TypeOK
  <1> QED
    BY <1>1, <1>2, <1>3 DEF PlacesAreAccounted

(* Whatever the requests, the retry limit and the order of failed calls,    *)
(* late events, reshuffles and restarts of the binder: a bound pod stays    *)
(* counted in the scheduler's cache, an assumed one is worked on or         *)
(* expires, and no call binds to a node that was another's all along.       *)
THEOREM PlacesAlwaysAccounted == Spec => []PlacesAreAccounted
  BY InitOK, Inductive, InvImplies, PTL DEF Spec
=============================================================================
