SPECIFICATION FairSpec
CONSTANTS
    None = None
    k1 = k1
    k2 = k2
    p1 = p1
    Capps <- TwoCapps
    Clusters = {k1}
    LocalCluster = k1
    Placements = {}
    Configs <- ListNone
    Decisions <- DecideOne
    Sites = {k1}
    Env = {"volumes"}
    MaxFaults = 1
    MaxOps = 2
PROPERTY Converges
CHECK_DEADLOCK FALSE
