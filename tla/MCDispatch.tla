----------------------------- MODULE MCDispatch -----------------------------
(***************************************************************************)
(* The dispatcher with two pods, two schedulers and two dispatching        *)
(* goroutines.                                                             *)
(***************************************************************************)
EXTENDS Dispatcher, TLC

CONSTANTS p1, p2, g1, s1, s2, None

TwoPods == {p1, p2}
OneGroup == {g1}
TwoSchedulers == {s1, s2}
NoNodes == {}
TwoSlots == {1, 2}

\* Two pods of one group and a handler that lags; schedulers stay alive.
Pair == [groupOf |-> p1 :> g1 @@ p2 :> g1, minMember |-> 2, lagging |-> {"pending"}, maxLag |-> 1,
  faults |-> {"edit", "break", "delete", "deleteGroup", "fail", "lostAnswer", "crash"}, maxFaults |-> 1]

\* A group of one beside a pod on its own; handlers keep up and anything may go
\* wrong.
Mixed == [Pair EXCEPT !.groupOf = p1 :> g1 @@ p2 :> None, !.minMember = 1, !.lagging = {},
  !.faults = @ \cup {"silent"}]

\* The same pods with the handler of unitInfos behind the others.
Late == [Mixed EXCEPT !.lagging = {"units"}, !.faults = {"edit", "delete", "crash"}]

PairMixedOrLate == {Pair, Mixed, Late}
=============================================================================
