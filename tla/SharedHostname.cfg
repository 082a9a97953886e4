SPECIFICATION Spec
CONSTANTS
    None = None
    c1 = c1
    c2 = c2
    h1 = h1
    h2 = h2
    bad = bad
    m1 = m1
    m2 = m2
    Capps = {c1, c2}
    Users <- OneUser
    Operator <- Manager
    ExcludedServiceAccountNamespace = "rcs-deployer-system"
    Specs <- Named
    Configs <- PlainOnly
    Clusters = {"k1"}
    Hostnames = {h1}
    Malformed = {bad}
    ClusterLocal = {}
    Matches <- PatternMatches
    Broken = {"("}
    Quantities = {m1, m2}
    MaxOps = 2
INVARIANT HostnamesUnique
CHECK_DEADLOCK FALSE
