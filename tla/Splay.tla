--------------------------------- MODULE Splay ---------------------------------
(***************************************************************************)
(* The splay tree in which a node keeps its pods ordered, with the sum of   *)
(* the requests of every subtree.  The tree is an array of items with links *)
(* by index (0 is no item, 1 and 2 are the sentinels); deleting moves the   *)
(* last item into the hole.  A sum is kept as what it is a sum of: how      *)
(* often every object is counted.                                           *)
(***************************************************************************)
EXTENDS Integers, Sequences, FiniteSets, SequencesExt

CONSTANTS
  Objects       \* the pods: numbers, in the order of PodInfo.Compare

VARIABLES
  tree,     \* the splay tree
  stored    \* what has been inserted and not deleted

vars == <<tree, stored>>

minv == 1
maxv == 2
MinObj == 0
MaxObj == 1000
NilObj == -1

Nothing == [o \in Objects |-> 0]

newNode(o, p) == [l |-> 0, r |-> 0, p |-> p, key |-> o]

(* NewSplay: the sentinels alone.                                           *)
NewSplay ==
  [root |-> minv,
   items |-> (0 :> newNode(NilObj, -1)) @@ (1 :> [newNode(MinObj, 0) EXCEPT !.r = maxv])
               @@ (2 :> newNode(MaxObj, 1)),
   infos |-> [i \in 0 .. 2 |-> Nothing],
   hash |-> [o \in {} |-> 0],
   count |-> 2]

(* chooseChildIndex: TRUE is to the right.                                  *)
GoesRight(t, o, n) == n = minv \/ (n # maxv /\ o > t.items[n].key)

(* maintain and PodMaintainableInfo.Maintain; sentinels are not counted.    *)
maintain(t, i) ==
  LET n == t.items[i]
      Part(c, sentinel) == IF c \in {0, sentinel} THEN Nothing ELSE t.infos[c]
      left == Part(n.l, minv)
      right == Part(n.r, maxv)
  IN  IF i \in {minv, maxv} THEN t
      ELSE [t EXCEPT !.infos[i] = [o \in Objects |-> left[o] + right[o] + (IF o = n.key THEN 1 ELSE 0)]]

(* Replace the child x of y by c, unless y is 0.                            *)
SetChild(t, y, x, c) ==
  IF y = 0 THEN t
  ELSE IF t.items[y].r = x THEN [t EXCEPT !.items[y].r = c] ELSE [t EXCEPT !.items[y].l = c]

SetParent(t, c, y) == IF c = 0 THEN t ELSE [t EXCEPT !.items[c].p = y]

rotateTopOnly(t, x) ==
  LET y == t.items[x].p
      z == t.items[y].p
      isRight == t.items[y].r = x
      moved == IF isRight THEN t.items[x].l ELSE t.items[x].r
      a == SetParent(SetParent(SetChild(t, z, y, x), x, z), moved, y)
      b == IF isRight THEN [a EXCEPT !.items[y].r = moved, !.items[x].l = y]
           ELSE [a EXCEPT !.items[y].l = moved, !.items[x].r = y]
  IN  maintain([b EXCEPT !.items[y].p = x], x)

rotate(t, x) ==
  LET y == t.items[x].p
      z == t.items[y].p
      isRight == t.items[y].r = x
      moved == IF isRight THEN t.items[x].l ELSE t.items[x].r
      a == SetParent(SetParent(SetChild(t, z, y, x), x, z), moved, y)
      b == IF isRight THEN [a EXCEPT !.items[y].r = moved, !.items[x].l = y]
           ELSE [a EXCEPT !.items[y].l = moved, !.items[x].r = y]
  IN  maintain(maintain([b EXCEPT !.items[y].p = x], y), x)

(* splay: rotate x up until its parent is k.                                *)
RECURSIVE splay(_, _, _)
splay(t, x, k) ==
  LET y == t.items[x].p
      z == t.items[y].p
      zigzag == (t.items[y].r = x) # (t.items[z].r = y)
      first == IF z = k THEN t ELSE rotate(t, IF zigzag THEN x ELSE y)
  IN  IF y = k THEN (IF k = 0 THEN [t EXCEPT !.root = x] ELSE t)
      ELSE splay(rotate(first, x), x, k)

-----------------------------------------------------------------------------
RECURSIVE Leaf(_, _, _, _)
Leaf(t, o, p, n) ==
  IF n = 0 THEN p ELSE Leaf(t, o, n, IF GoesRight(t, o, n) THEN t.items[n].r ELSE t.items[n].l)

Insert(t, o) ==
  LET p == Leaf(t, o, 0, t.root)
      n == t.count + 1
      grown == [t EXCEPT !.items = @ @@ (n :> newNode(o, p)), !.count = n,
                         !.infos = @ @@ (n :> [x \in Objects |-> IF x = o THEN 1 ELSE 0]),
                         !.hash = @ @@ (o :> n)]
  IN  IF o \in DOMAIN t.hash THEN t
      ELSE splay(IF GoesRight(t, o, p) THEN [grown EXCEPT !.items[p].r = n]
                 ELSE [grown EXCEPT !.items[p].l = n], n, 0)

RECURSIVE Extreme(_, _, _)
Extreme(t, n, toRight) ==
  LET next == IF toRight THEN t.items[n].r ELSE t.items[n].l
  IN  IF next = 0 THEN n ELSE Extreme(t, next, toRight)

(* The last item takes the place of the one that was deleted.               *)
FillHole(t, i) ==
  LET last == t.count
      node == t.items[last]
      linked == SetParent(SetParent(SetChild(t, node.p, last, i), node.l, i), node.r, i)
      filled == IF i = last THEN t
                ELSE [linked EXCEPT !.items[i] = node, !.infos[i] = t.infos[last],
                                    !.hash[node.key] = i,
                                    !.root = IF @ = last THEN i ELSE @]
  IN  [filled EXCEPT !.items = [j \in 0 .. last - 1 |-> @[j]],
                     !.infos = [j \in 0 .. last - 1 |-> @[j]], !.count = last - 1]

(* The item between its neighbours is cut off, and the sums above it made   *)
(* good.                                                                    *)
Unlink(t, pre, nxt) == maintain(maintain([t EXCEPT !.items[nxt].l = 0], nxt), pre)

Delete(t, o) ==
  LET i == t.hash[o]
      top == splay(t, i, 0)
      pre == Extreme(top, top.items[i].l, TRUE)
      nxt == Extreme(top, top.items[i].r, FALSE)
      cut == Unlink(splay(splay(top, pre, 0), nxt, pre), pre, nxt)
  IN  IF o \notin DOMAIN t.hash THEN t
      ELSE FillHole([cut EXCEPT !.hash = [x \in DOMAIN @ \ {o} |-> @[x]]], i)

RECURSIVE AtLeast(_, _, _, _)
AtLeast(t, bound, p, next) ==
  IF p = 0 THEN next
  ELSE IF GoesRight(t, bound, p) THEN AtLeast(t, bound, t.items[p].r, next)
  ELSE AtLeast(t, bound, t.items[p].l, p)

(* Partition: everything strictly below the bound becomes one subtree.      *)
Partition(t, bound) ==
  LET top == splay(t, minv, 0)
      next == AtLeast(top, bound, minv, 0)
      cut == splay(top, next, minv)
      below == cut.items[next].l
  IN  [tree |-> cut, info |-> IF below = 0 THEN Nothing ELSE cut.infos[below]]

RECURSIVE Walk(_, _, _, _)
Walk(t, i, lower, upper) ==
  LET n == t.items[i]
      own == IF i \in {minv, maxv} \/ n.key <= lower THEN <<>> ELSE <<n.key>>
  IN  IF i = 0 THEN <<>>
      ELSE IF i \notin {minv, maxv} /\ n.key >= upper THEN Walk(t, n.l, lower, upper)
      ELSE Walk(t, n.l, lower, upper) \o own \o Walk(t, n.r, lower, upper)

(* GetVictimCandidates over ConditionRange: what lies between two bounds; a *)
(* node above the upper one is not passed to its right.                     *)
GetVictimCandidates(t, lower, upper) == Walk(t, t.root, lower, upper)

RECURSIVE InOrder(_, _)
InOrder(t, i) ==
  IF i = 0 THEN <<>>
  ELSE InOrder(t, t.items[i].l) \o (IF i \in {minv, maxv} THEN <<>> ELSE <<t.items[i].key>>)
         \o InOrder(t, t.items[i].r)

(* Range: every object, in order.                                           *)
Range_(t) == InOrder(t, t.root)

-----------------------------------------------------------------------------
Init == tree = NewSplay /\ stored = {}

AddPodInfo(o) ==
  /\ tree' = Insert(tree, o)
  /\ stored' = stored \cup {o}

RemovePodInfo(o) ==
  /\ tree' = Delete(tree, o)
  /\ stored' = stored \ {o}

(* GetMaintainableInfoByPartition, which changes the shape of the tree.     *)
GetMaintainableInfoByPartition(bound) ==
  /\ tree' = Partition(tree, bound).tree
  /\ UNCHANGED stored

Bounds == Objects \cup {x + 1 : x \in Objects}

Next ==
  \/ \E o \in Objects : AddPodInfo(o) \/ RemovePodInfo(o)
  \/ \E bound \in Bounds : GetMaintainableInfoByPartition(bound)

Spec == Init /\ [][Next]_vars

-----------------------------------------------------------------------------
Sorted(S) == SetToSortSeq(S, <)

TypeOK ==
  /\ tree.root \in 1 .. tree.count
  /\ DOMAIN tree.items = 0 .. tree.count
  /\ stored \subseteq Objects

(* The links form one ordered tree over what is stored: walking it yields   *)
(* every object once and in order, parents and children point at each       *)
(* other, and the index finds the item of every key (Insert, Delete, which  *)
(* moves the last item into the hole, and Partition).                       *)
TreeIsSound ==
  /\ Range_(tree) = Sorted(stored)
  /\ tree.items[tree.root].p = 0
  /\ \A i \in 1 .. tree.count : \A c \in {tree.items[i].l, tree.items[i].r} \ {0} : tree.items[c].p = i
  /\ DOMAIN tree.hash = stored
  /\ \A o \in stored : tree.items[tree.hash[o]].key = o
  /\ tree.count = Cardinality(stored) + 2

(* What a partition returns is the sum over exactly the objects below the   *)
(* bound, whatever was inserted, deleted and partitioned before: sums next  *)
(* to a sentinel are too small at times, but never where they are read.     *)
PartitionIsExact ==
  \A bound \in Bounds :
    Partition(tree, bound).info = [o \in Objects |-> IF o \in stored /\ o < bound THEN 1 ELSE 0]

(* The candidates for eviction between two priorities are exactly the pods  *)
(* between them, the lowest first.                                          *)
CandidatesAreExact ==
  \A lower \in {MinObj} \cup Objects, upper \in Bounds :
    GetVictimCandidates(tree, lower, upper) = Sorted({o \in stored : lower < o /\ o < upper})

(* The tree is a set of pods in order that can be cut at any priority.      *)
TreeIsExact == TypeOK /\ TreeIsSound /\ PartitionIsExact /\ CandidatesAreExact
=============================================================================
