SPECIFICATION PartsSpec
CONSTANTS
  None = None
  Names <- mc_Names
  Uids <- mc_Uids
  NameOf <- mc_NameOf
  Preemptors <- mc_Preemptors
  Nodes <- mc_Nodes
  SteadyNodes <- mc_SteadyNodes
  NoNode = "none"
  NoPod <- None
  Relist = FALSE
  MaxLag = 1
  MaxRetryAttempts = 1
INVARIANTS  CacheHoldsTheClaims TreeIsExact 
PROPERTIES RefreshCopiesNodes OffersFollowCache
CHECK_DEADLOCK FALSE
