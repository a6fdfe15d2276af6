CONSTANTS
    Width = 3
    ClusterNames = {a, b, c, d}
    NoName = NoName
    NotIPv4 = NotIPv4
    MaxClusters = 2
SPECIFICATION Spec
CHECK_DEADLOCK FALSE
INVARIANT AllocationUsable
