CONSTANTS
    c1 = c1  c2 = c2  pA = pA  pB = pB
    Namespaces = {"ns1", "ns2"}
    Names = {"net", "default"}
    Providers = {pA, pB}
    NoProvider = NoProvider
    NoRef = NoRef
    Networks <- OneNetwork
    Clusters = {c1, c2}
    NetworkTypes <- MCTypes
    Specs <- RefSpecs
    EditableProfiles <- AllProfiles
    WorkNames = {"net", "default"}
    WorkName <- SameName
    NoWork = NoWork
    NoRequest = NoRequest
    MayDropClusters = TRUE
    CacheReadsFail = FALSE
    RecreatesEarly = FALSE
    MaxEdits = 4
    MaxFaults = 1
SPECIFICATION FairSpec
CHECK_DEADLOCK FALSE
INVARIANT SettledImpliesPlaced
PROPERTIES DeletionCompletes EventuallyPlaced
