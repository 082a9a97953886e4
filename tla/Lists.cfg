SPECIFICATION FairSpec
CONSTANTS
    None = None
    a = a
    b = b
    s = s
    t = t
    ConfigMaps = {a, b}
    Secrets = {s, t}
    Specs <- TwoSpecs
    Bindings <- AdminAndViewer
    MaxOps = 3
    MaxFaults = 1
INVARIANTS TypeOK ListMatchesCapp DirectlyReferencedPublished
PROPERTY Refreshed
