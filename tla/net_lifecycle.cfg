CONSTANTS
    c1 = c1  c2 = c2  pA = pA  pB = pB
    Namespaces = {"ns1", "ns2"}
    Names = {"net", "default"}
    Providers = {pA, pB}
    NoProvider = NoProvider
    NoRef = NoRef
    Networks <- TwoNetworks
    Clusters = {c1, c2}
    NetworkTypes <- MCTypes
    Specs <- GrowingSpecs
    EditableProfiles <- DefaultProfile
    WorkNames = {"net", "default"}
    WorkName <- SameName
    NoWork = NoWork
    NoRequest = NoRequest
    MayDropClusters = FALSE
    CacheReadsFail = TRUE
    RecreatesEarly = TRUE
    MaxEdits = 4
    MaxFaults = 1
SPECIFICATION Spec
CHECK_DEADLOCK FALSE
INVARIANTS TypeOK NoOrphanWork
PROPERTIES ControllerKeepsUserEdits ImplementsPlacement
