CONSTANTS
    c1 = c1  c2 = c2  pA = pA  pB = pB
    Namespaces = {"ns1", "ns2"}
    Names = {"net", "default"}
    Providers = {pA, pB}
    NoProvider = NoProvider
    NoRef = NoRef
    Networks <- SameNameNetworks
    Clusters = {c1, c2}
    NetworkTypes <- MCTypes
    Specs <- InlineSpecs
    EditableProfiles <- NoProfiles
    WorkNames = {"net", "default"}
    WorkName <- SameName
    NoWork = NoWork
    NoRequest = NoRequest
    MayDropClusters = FALSE
    CacheReadsFail = FALSE
    RecreatesEarly = FALSE
    MaxEdits = 2
    MaxFaults = 0
SPECIFICATION Spec
CHECK_DEADLOCK FALSE
INVARIANT SettledImpliesPlaced
