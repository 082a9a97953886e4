SPECIFICATION Spec
CONSTANTS
    None = None
    c1 = c1
    c2 = c2
    h1 = h1
    h2 = h2
    bad = bad
    m1 = m1
    m2 = m2
    Capps = {c1}
    Users <- TwoUsers
    Operator <- Manager
    ExcludedServiceAccountNamespace = "rcs-deployer-system"
    Specs <- ContendedOrRejectable
    Configs <- AnyConfig
    Clusters = {}
    Hostnames = {h1, h2, bad}
    Malformed = {bad}
    ClusterLocal = {}
    Matches <- PatternMatches
    Broken = {"("}
    Quantities = {m1, m2}
    MaxOps = 3
INVARIANTS TypeOK RequestsConsistent LastUpdater QuantitiesKept DefaultsSettle NotLockedOut
PROPERTY HostnameVetted
CHECK_DEADLOCK FALSE
