SPECIFICATION Spec
CONSTANTS
    p1 = p1
    p2 = p2
    g1 = g1
    NoUnit = NoUnit
    Pods = {p1, p2}
    Groups = {g1}
    Scenarios <- GangGoesScenarios
INVARIANTS
    NoPodLost
