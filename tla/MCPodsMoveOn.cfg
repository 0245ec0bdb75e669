SPECIFICATION Spec
CONSTANTS
  s1 = s1
  s2 = s2
  p1 = p1
  p2 = p2
  g1 = g1
  None = None
PROPERTIES UnitsAreRetried OrphansAreTakenBack PodsAreDispatched
CHECK_DEADLOCK FALSE
