CONSTANTS
    a = a
    b = b
    a1 = a1
    a2 = a2
    b1 = b1
    n1 = n1
    n2 = n2
    NoNode = NoNode
    NoPod = NoPod
    Names = {a, b}
    Uids = {a1, b1}
    NameOf <- MCNameOfTwo
    Preemptors = {b1}
    Nodes = {n1}
    SteadyNodes = {n1}
    Relist = FALSE
    MaxLag = 1
    MaxRetryAttempts = 2
SPECIFICATION FairSpec
INVARIANTS
    MarkedPodsAreCached
PROPERTIES
    AssumptionsExpire
    MarkersExpire
CHECK_DEADLOCK FALSE
