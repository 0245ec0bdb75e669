CONSTANTS
    a = a
    b = b
    a1 = a1
    a2 = a2
    b1 = b1
    n1 = n1
    n2 = n2
    NoNode = NoNode
    NoPod = NoPod
    Names = {a}
    Uids = {a1, a2}
    NameOf <- MCNameOfOne
    Preemptors = {}
    Nodes = {n1, n2}
    SteadyNodes = {n1, n2}
    Relist = TRUE
    MaxLag = 2
    MaxRetryAttempts = 2
SPECIFICATION Spec
INVARIANTS
    StoresAgree
    CacheFollowsInformer
    FollowInv
PROPERTIES
    AssumptionEndsForACause
CHECK_DEADLOCK FALSE
