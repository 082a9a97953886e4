SPECIFICATION Spec
CONSTANTS
    None = None
    k1 = k1
    k2 = k2
    p1 = p1
    Capps <- OneCapp
    Clusters = {k1, k2}
    LocalCluster = k2
    Placements = {p1}
    Configs <- ListAny
    Decisions <- DecideK1
    Sites = {p1}
    Env = {"configChange"}
    MaxFaults = 0
    MaxOps = 2
INVARIANT SiteIsCluster
CHECK_DEADLOCK FALSE
