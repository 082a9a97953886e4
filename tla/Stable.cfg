SPECIFICATION Spec
CONSTANTS
    None = None
    k1 = k1
    k2 = k2
    p1 = p1
    Capps <- OneCapp
    Clusters = {k1, k2}
    LocalCluster = k2
    Placements = {p1}
    Configs <- ListP1
    Decisions <- DecideLate
    Sites = {p1, k2}
    Env = {"clusterLeave", "volumes"}
    MaxFaults = 1
    MaxOps = 3
INVARIANTS WorkReachable PlacementSettled PublishedOrPending
PROPERTY ImplementsStrictLifecycle
CHECK_DEADLOCK FALSE
