--------------------------- MODULE SliceTopology ---------------------------
(***************************************************************************)
(* What ApplySlice computes from the spec of a SliceOverlay: the links     *)
(* between its clusters, the monitoring address of each, and the           *)
(* NetworkEdgeDevice (NED) that each cluster gets in a ManifestWork.       *)
(*                                                                         *)
(* Lists whose order nobody reads (links, neighbours) are sets.  The n-th  *)
(* address of a monitoring CIDR is <<base, n>>: MonitoringAllocation has   *)
(* the arithmetic.                                                         *)
(***************************************************************************)
EXTENDS Integers, Sequences, SliceTypes

CONSTANTS
    Clusters,      \* managed clusters
    IPAddresses,   \* addresses a cluster can be reached at
    NoMonitoring   \* a nil *MonitorSpec; in a NED, also a nil LpmIp

\* An empty name or address and a missing monitor are told from the others.
ASSUME TopologyAssumption ==
    /\ Empty \notin Clusters
    /\ Empty \notin IPAddresses
    /\ NoMonitoring \notin Nat \X Nat

\* A cluster of the slice, with the gateway address if its user gave one.
OverlayCluster == [name : Clusters, gateway : IPAddresses \cup {Empty}]

\* The monitoring network: its base address and how many hosts it has, none
\* if the CIDR does not parse, is not IPv4 or is too small.
MonitorSpec == [base : Nat, usableHosts : Nat]

SliceOverlaySpec == [nodes       : Seq(OverlayCluster),
                     links       : SUBSET (Clusters \X Clusters),
                     monitoring  : MonitorSpec \cup {NoMonitoring},
                     providerRef : ProviderReference \cup {NoRef},
                     provider    : Providers \cup {NoProvider}]

\* getSliceClusterNames
NodeNames(spec) == {spec.nodes[i].name : i \in 1..Len(spec.nodes)}

\* A link for every pair of positions.
GenerateTopology(nodes) ==
    {<<nodes[p[1]].name, nodes[p[2]].name>> :
        p \in {q \in (1..Len(nodes)) \X (1..Len(nodes)) : q[1] < q[2]}}

\* The links of the spec, or a full mesh where the spec has none.
sliceLinks(spec) ==
    IF spec.links = {} /\ Len(spec.nodes) > 1
    THEN GenerateTopology(spec.nodes)
    ELSE spec.links

\* allocateMonitoringNodeIPs returns an error: too many clusters or one twice.
\* (So it does for an empty name, which no member of Clusters is.)
AllocationFails(spec) ==
    /\ spec.monitoring # NoMonitoring
    /\ Len(spec.nodes) > 0
    /\ \/ Len(spec.nodes) > spec.monitoring.usableHosts
       \/ \E i, j \in 1..Len(spec.nodes) :
             i # j /\ spec.nodes[i].name = spec.nodes[j].name

\* The monitoring address of cluster c, NoMonitoring if it has none.
monitoredNode(spec, c) ==
    IF spec.monitoring = NoMonitoring \/ c \notin NodeNames(spec)
    THEN NoMonitoring
    ELSE <<spec.monitoring.base,
           CHOOSE i \in 1..Len(spec.nodes) : spec.nodes[i].name = c>>

\* The other ends of c's links.  A link of c to itself counts once, as the
\* switch in ApplySlice takes its first case.
LinkedTo(spec, c) ==
    {d \in Clusters : <<c, d>> \in sliceLinks(spec) \/ <<d, c>> \in sliceLinks(spec)}

\* A link to a cluster outside the slice finds the zero value in clusterMaps:
\* a neighbour without name or address.
Neighbor(spec, addresses, c, d) ==
    IF d \in NodeNames(spec)
    THEN [node |-> d, domain |-> addresses[d],
          lpmIp |-> IF monitoredNode(spec, c) = NoMonitoring
                    THEN NoMonitoring ELSE monitoredNode(spec, d)]
    ELSE [node |-> Empty, domain |-> Empty, lpmIp |-> NoMonitoring]

\* What a cluster is told of a neighbour, and the device it gets.
NeighborSpec == [node   : Clusters \cup {Empty},
                 domain : IPAddresses \cup {Empty},
                 lpmIp  : (Nat \X Nat) \cup {NoMonitoring}]

NetworkEdgeDevice == [provider  : Providers,
                      neighbors : SUBSET NeighborSpec,
                      monitor   : (Nat \X Nat) \cup {NoMonitoring}]

\* ConstructNED, as ApplySlice calls it: NEDValues.NodeConfig is always nil, so
\* the device has no node configuration.
NED(spec, addresses, provider, c) ==
    [provider  |-> provider,
     neighbors |-> {Neighbor(spec, addresses, c, d) : d \in LinkedTo(spec, c)},
     monitor   |-> monitoredNode(spec, c)]

=============================================================================
