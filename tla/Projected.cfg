SPECIFICATION Spec
CONSTANTS
    None = None
    a = a
    b = b
    s = s
    t = t
    ConfigMaps = {a, b}
    Secrets = {s, t}
    Specs <- ProjectedOnly
    Bindings <- AdminAndViewer
    MaxOps = 1
    MaxFaults = 0
INVARIANT NothingDangling
