SPECIFICATION Spec
CONSTANTS
    None = None
    k1 = k1
    k2 = k2
    p1 = p1
    Capps <- Hyphenated
    Clusters = {k1, k2}
    LocalCluster = k2
    Placements = {p1}
    Configs <- ListP1
    Decisions <- DecideK1
    Sites = {k1}
    Env = {}
    MaxFaults = 0
    MaxOps = 2
PROPERTY OwnWork
CHECK_DEADLOCK FALSE
