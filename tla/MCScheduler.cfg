SPECIFICATION PartsSpec
CONSTANTS
  n1 = n1
  n2 = n2
  n3 = n3
  p1 = p1
  p2 = p2
  p3 = p3
  None = None
  PodsOf <- mc_PodsOf
  NodeFor <- mc_NodeFor
  MaxBindRetries = 2
  MaxTrouble = 2
  MaxLag = 2
INVARIANTS PlacesAreAccounted SnapshotIsSound  EvictionsAreBounded PlacedPodsReachVolumes   PlaceholderIsUsedOnce
PROPERTIES  PreemptionIsJustified
CHECK_DEADLOCK FALSE
