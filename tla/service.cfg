CONSTANTS
    c1 = c1  c2 = c2  c3 = c3  ip1 = ip1
    Namespaces = {"default"}
    Names = {"slice", "default"}
    Providers <- ServiceProviders
    NoProvider = NoProvider
    NoRef = NoRef
    Clusters = {c1, c2, c3}
    IPAddresses = {ip1}
    NoMonitoring = NoMonitoring
    Nil = Nil
    Clients = {k1, k2}
    Requests <- SliceRequests
    Malformed = Malformed
    NetworkTypes = {"vnet"}
    Ports <- TwoPorts
    SchemaPort <- SchemaPorts
    DefaultPort <- DefaultPorts
    Nothing = Nothing
    NoCall = NoCall
    MaxCalls = 3
    MaxFaults = 1
SPECIFICATION Spec
CHECK_DEADLOCK FALSE
INVARIANTS TypeOK DevicesAsRequested
PROPERTY ImplementsStore
