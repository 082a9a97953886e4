SPECIFICATION Spec
CONSTANTS
    None = None
    k1 = k1
    k2 = k2
    p1 = p1
    Capps <- OneCapp
    Clusters = {k1, k2}
    LocalCluster = k2
    Placements = {p1}
    Configs <- ListP1
    Decisions <- DecideAny
    Sites = {p1}
    Env = {"decisionChange"}
    MaxFaults = 0
    MaxOps = 3
INVARIANT OneCluster
CHECK_DEADLOCK FALSE
