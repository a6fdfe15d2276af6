CONSTANTS
    Width = 5
    ClusterNames = {a, b, c, d}
    NoName = NoName
    NotIPv4 = NotIPv4
    MaxClusters = 4
    MaxSubnets = 20
    Namespaces = {"ns"}
    Names = {"default"}
    Providers = {p1}
    NoProvider = NoProvider
    NoRef = NoRef
    Clusters = {c1, c2, c3}
    IPAddresses = {}
    NoMonitoring = NoMonitoring
    NoInput = NoInput
    NoFile = NoFile
    Garbled = Garbled
    Topologies <- TwoTopologies
    OldFile = OldFile
    CutFile = CutFile
    defaultProvider = defaultProvider
    Slices <- ToolSlices
    c1 = c1  c2 = c2  c3 = c3  p1 = p1
    Admins = {u, v}
    Certificates = {x, y}
    NoSecret = NoSecret
    NoCall = NoCall
    MaxRuns = 3
    MaxFaults = 1
    MaxLabel = 3
    MaxSubdomain = 4
    MaxName = 5
SPECIFICATION Spec
CHECK_DEADLOCK FALSE
INVARIANTS EveryClusterHasItsAddress AlignedAllocationUsable PodRangesDisjoint
           OutputAsAsked OverlayMatchesDevices WorkNameUsable
PROPERTY SecretsImplementStore
