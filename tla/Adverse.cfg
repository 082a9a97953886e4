SPECIFICATION Spec
CONSTANTS
    None = None
    k1 = k1
    k2 = k2
    p1 = p1
    Capps <- OneCapp
    Clusters = {k1, k2}
    LocalCluster = k2
    Placements = {p1}
    Configs <- ListP1
    Decisions <- DecideAny
    Sites = {None}
    Env = {"decisionChange", "configChange", "userAnnotates", "clusterLeave", "mwLag"}
    MaxFaults = 1
    MaxOps = 3
INVARIANTS TypeOK ConsistentCopies RevisionsOrdered
PROPERTIES NoLostUpdate CreatedUnderFinalizer NeverRollsBack ImplementsLifecycle
CHECK_DEADLOCK FALSE
