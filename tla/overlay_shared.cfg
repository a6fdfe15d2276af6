CONSTANTS
    c1 = c1  c2 = c2  c3 = c3  ip1 = ip1  ip2 = ip2  pA = pA  pB = pB
    Namespaces = {"ns1"}
    Names = {"slice", "default"}
    Providers = {pA}
    NoProvider = NoProvider
    NoRef = NoRef
    Clusters = {c1}
    IPAddresses = {ip1, ip2}
    NoMonitoring = NoMonitoring
    Overlays <- TwoSlices
    Specs <- SharedSpecs
    EditableProfiles <- DefaultProfile
    WorkNames = {"slice", "default"}
    WorkName <- SameName
    ProviderName <- OwnName
    NoWork = NoWork
    NoRequest = NoRequest
    ClientTypes = {Unset}
    Unset = Unset
    MayDropClusters = FALSE
    CacheReadsFail = FALSE
    RecreatesEarly = FALSE
    MaxEdits = 3
    MaxFaults = 0
SPECIFICATION Spec
CHECK_DEADLOCK FALSE
INVARIANT SharedProviderKeepsDevicesApart
