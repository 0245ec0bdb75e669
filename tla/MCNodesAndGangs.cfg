SPECIFICATION PartsSpec
CONSTANTS
  n1 = n1
  n2 = n2
  s1 = s1
  s2 = s2
  None = None
  Gone = Gone
  Kinds <- mc_Kinds
  Nodes <- mc_Nodes
  Schedulers <- mc_Schedulers
  MaxLag = 1
  MaxChanges = 1
INVARIANTS PartitionFollowsAnnotation
PROPERTIES MachinesFindALiveScheduler CompleteGangIsSettled
CHECK_DEADLOCK FALSE
