SPECIFICATION FairSpec
CONSTANTS
    None = None
    k1 = k1
    k2 = k2
    p1 = p1
    Capps <- OneCapp
    Clusters = {k1}
    LocalCluster = k1
    Placements = {p1}
    Configs <- ListAny
    Decisions <- DecideOne
    Sites = {None}
    Env = {"configChange"}
    MaxFaults = 1
    MaxOps = 4
INVARIANT NoCappForgotten
PROPERTIES Converges SchedulableDeletionCompletes
CHECK_DEADLOCK FALSE
