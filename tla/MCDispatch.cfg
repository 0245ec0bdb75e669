SPECIFICATION Spec
CONSTANTS
  p1 = p1
  p2 = p2
  g1 = g1
  s1 = s1
  s2 = s2
  None = None
  Pods <- TwoPods
  Groups <- OneGroup
  NoGroup <- None
  NoPod <- None
  Schedulers <- TwoSchedulers
  NoScheduler <- None
  WithNodes <- NoNodes
  Slots <- TwoSlots
  Scenarios <- PairMixedOrLate
INVARIANTS NoPodLost UnitStaysTogether
 
CHECK_DEADLOCK FALSE
