------------------------ MODULE MonitoringAllocation ------------------------
(***************************************************************************)
(* allocateMonitoringNodeIPs: one address of the monitoring network for    *)
(* every cluster of a SliceOverlay, in the order of spec.topology.nodes.   *)
(***************************************************************************)
EXTENDS Addresses, Sequences, FiniteSets

CONSTANTS
    ClusterNames,   \* names of clusters
    NoName,         \* an empty name, which the CRD does not rule out
    NotIPv4,        \* a monitoring CIDR that does not parse, or is IPv6
    MaxClusters     \* bound on the length of spec.topology.nodes

VARIABLES
    cidr,       \* spec.monitoring.networkCIDR
    clusters,   \* the names of spec.topology.nodes
    allocated,  \* the map under construction: cluster name to address
    i,          \* clusters handled so far
    pc          \* "check", "loop", or how the function returned

vars == <<cidr, clusters, allocated, i, pc>>

Return(how) == pc' = how /\ UNCHANGED <<allocated, i>>

usableHosts == BlockSize(cidr.ones) - 2

\* The checks before the loop, in the code's order.
NothingToAllocate ==
    /\ pc = "check"
    /\ clusters = << >>
    /\ Return("ok")

\* Mutant of Fits: the broadcast address counts as usable.
FitsWithBroadcast ==
    /\ BlockSize(cidr.ones) >= 4
    /\ Len(clusters) <= BlockSize(cidr.ones) - 1

Fits ==
    /\ BlockSize(cidr.ones) >= 4
    /\ Len(clusters) <= usableHosts

RejectCIDR ==
    /\ pc = "check"
    /\ clusters # << >>
    /\ cidr # NotIPv4 => ~Fits
    /\ Return("error")

AcceptCIDR ==
    /\ pc = "check"
    /\ clusters # << >>
    /\ cidr # NotIPv4
    /\ Fits
    /\ pc' = "loop"
    /\ UNCHANGED <<allocated, i>>

\* baseUint + uint32(i+1), from the address as written, not the network's.
hostAddress(offset) == Add(cidr.ip, offset)

RejectName ==
    /\ pc = "loop"
    /\ i < Len(clusters)
    /\ clusters[i + 1] \in {NoName} \cup DOMAIN allocated
    /\ Return("error")

\* Mutant of Allocate: a repeated name takes the place of the first.
AllocateAgain ==
    /\ pc = "loop"
    /\ i < Len(clusters)
    /\ clusters[i + 1] # NoName
    /\ allocated' = [c \in DOMAIN allocated \cup {clusters[i + 1]} |->
                       IF c = clusters[i + 1] THEN hostAddress(i + 1)
                       ELSE allocated[c]]
    /\ i' = i + 1
    /\ UNCHANGED pc

Allocate ==
    /\ pc = "loop"
    /\ i < Len(clusters)
    /\ clusters[i + 1] \notin {NoName} \cup DOMAIN allocated
    /\ allocated' = [c \in DOMAIN allocated \cup {clusters[i + 1]} |->
                       IF c = clusters[i + 1] THEN hostAddress(i + 1)
                       ELSE allocated[c]]
    /\ i' = i + 1
    /\ UNCHANGED pc

Done ==
    /\ pc = "loop"
    /\ i = Len(clusters)
    /\ Return("ok")

Init ==
    /\ cidr \in CIDR \cup {NotIPv4}
    /\ clusters \in UNION {[1..n -> ClusterNames \cup {NoName}] : n \in 0..MaxClusters}
    /\ allocated = << >>
    /\ i = 0
    /\ pc = "check"

Next ==
    /\ UNCHANGED <<cidr, clusters>>
    /\ \/ NothingToAllocate
       \/ RejectCIDR
       \/ AcceptCIDR
       \/ RejectName
       \/ Allocate
       \/ Done

Spec == Init /\ [][Next]_vars

-----------------------------------------------------------------------------
(* Properties. *)

\* On success every cluster of the slice has an address of its own: the
\* uint32 addition never comes back to an address already given, and no
\* cluster of the list is left out.
EveryClusterHasItsAddress ==
    pc = "ok" =>
        /\ DOMAIN allocated = {clusters[j] : j \in 1..Len(clusters)}
        /\ Cardinality({allocated[c] : c \in DOMAIN allocated}) = Len(clusters)

\* When the CIDR is written with its network address (10.0.0.0/24), no
\* cluster gets the network's own or its broadcast address, or one outside:
\* the check against usableHosts is exact up to the last address.
AlignedAllocationUsable ==
    cidr # NotIPv4 /\ cidr.ip = NetworkAddress(cidr) =>
        \A c \in DOMAIN allocated : allocated[c] \in UsableAddresses(cidr)

\* What the error message of the check promises of any accepted CIDR: it has
\* usableHosts usable addresses, and the clusters get those.
AllocationUsable ==
    cidr # NotIPv4 =>
        \A c \in DOMAIN allocated : allocated[c] \in UsableAddresses(cidr)
=============================================================================
