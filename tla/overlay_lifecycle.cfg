CONSTANTS
    c1 = c1  c2 = c2  c3 = c3  ip1 = ip1  ip2 = ip2  pA = pA  pB = pB
    Namespaces = {"ns1"}
    Names = {"slice", "default"}
    Providers = {pA}
    NoProvider = NoProvider
    NoRef = NoRef
    Clusters = {c1, c2}
    IPAddresses = {ip1, ip2}
    NoMonitoring = NoMonitoring
    Overlays <- TwoSlices
    Specs <- GrowingSpecs
    EditableProfiles <- DefaultProfile
    WorkNames = {"slice", "default"}
    WorkName <- SameName
    ProviderName <- OwnName
    NoWork = NoWork
    NoRequest = NoRequest
    ClientTypes = {Unset, "rest"}
    Unset = Unset
    MayDropClusters = FALSE
    CacheReadsFail = TRUE
    RecreatesEarly = TRUE
    MaxEdits = 4
    MaxFaults = 1
SPECIFICATION Spec
CHECK_DEADLOCK FALSE
INVARIANTS TypeOK NoOrphanWork
PROPERTY ImplementsPlacement
