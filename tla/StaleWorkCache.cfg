SPECIFICATION Spec
CONSTANTS
    None = None
    k1 = k1
    k2 = k2
    p1 = p1
    Capps <- OneCapp
    Clusters = {k1, k2}
    LocalCluster = k2
    Placements = {p1}
    Configs <- ListP1
    Decisions <- DecideK1
    Sites = {k1}
    Env = {"mwLag"}
    MaxFaults = 0
    MaxOps = 3
INVARIANT NoOrphan
CHECK_DEADLOCK FALSE
