CONSTANTS
    c1 = c1  c2 = c2  c3 = c3  ip1 = ip1  ip2 = ip2  pA = pA  pB = pB
    Namespaces = {"ns1"}
    Names = {"slice", "default"}
    Providers = {pA, pB}
    NoProvider = NoProvider
    NoRef = NoRef
    Clusters = {c1, c2, c3}
    IPAddresses = {ip1, ip2}
    NoMonitoring = NoMonitoring
    Overlays <- OneSlice
    Specs <- ConvergingSpecs
    EditableProfiles <- DefaultProfile
    WorkNames = {"slice", "default"}
    WorkName <- SameName
    ProviderName <- OwnName
    NoWork = NoWork
    NoRequest = NoRequest
    ClientTypes = {Unset, "rest", "l2sm"}
    Unset = Unset
    MayDropClusters = TRUE
    CacheReadsFail = FALSE
    RecreatesEarly = FALSE
    MaxEdits = 4
    MaxFaults = 1
SPECIFICATION FairSpec
CHECK_DEADLOCK FALSE
INVARIANT SettledImpliesMeshed
PROPERTIES DeletionCompletes EventuallyMeshed
