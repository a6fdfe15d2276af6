------------------------------- MODULE Tools -------------------------------
(***************************************************************************)
(* The calculations and tools that do not interact with the controllers,   *)
(* side by side: every behaviour is one of them, the variables of the      *)
(* others keeping a value of rest.                                         *)
(***************************************************************************)
EXTENDS Addresses, SliceTopology

CONSTANTS
    ClusterNames, NoName, NotIPv4, MaxClusters, MaxSubnets,
    NoInput, NoFile, Garbled, Topologies, OldFile, CutFile, defaultProvider, Slices,
    Admins, Certificates, NoSecret, NoCall, MaxRuns, MaxFaults,
    MaxLabel, MaxSubdomain, MaxName

ASSUME ToolsAssumption ==
    /\ NoName \notin ClusterNames
    /\ NotIPv4 \notin CIDR
    /\ NoSecret \notin [certValue : Certificates, rv : Nat]
    /\ {MaxClusters, MaxSubnets, MaxRuns, MaxFaults, MaxName} \subseteq Nat
    /\ {MaxLabel, MaxSubdomain} \subseteq Nat
    /\ 0 < MaxLabel /\ MaxLabel <= MaxSubdomain
    /\ defaultProvider \notin Providers \cup {NoProvider}
    /\ Slices # {} /\ Slices \subseteq SliceOverlaySpec

\* The recursion by which the Integers module defines powers of 2, which the
\* provers do not know.
ASSUME PowersAssumption ==
    \A n \in 0..Width + MaxSubnets : 2^(n + 1) = 2 * 2^n

VARIABLES
    tool,
    cidr, clusters, allocated, i, pc,
    networkCIDR, numberClusters, networks, j, pcSubnets,
    resource, output, input, values, file, pcGenerator, slice,
    secrets, version, pcSecrets, call, existing, answer, runs, faults,
    name, builder, at, work

Monitoring == INSTANCE MonitoringAllocation
Subnets == INSTANCE SubnetPlan WITH i <- j, pc <- pcSubnets, MaxClusters <- MaxSubnets
Generator == INSTANCE OverlayGenerator WITH pc <- pcGenerator
Secrets == INSTANCE CertificateSecrets WITH pc <- pcSecrets
WorkName == INSTANCE WorkNames

monitoring == <<cidr, clusters, allocated, i, pc>>
subnets == <<networkCIDR, numberClusters, networks, j, pcSubnets>>
generator == <<resource, output, input, values, file, pcGenerator, slice>>
certs == <<secrets, version, pcSecrets, call, existing, answer, runs, faults>>
names == <<name, builder, at, work>>
vars == <<tool, monitoring, subnets, generator, certs, names>>

MonitoringRests ==
    cidr = NotIPv4 /\ clusters = << >> /\ allocated = << >> /\ i = 0 /\ pc = "rest"

SubnetsRest ==
    /\ networkCIDR = [ip |-> 0, ones |-> 0] /\ numberClusters = 0
    /\ networks = << >> /\ j = 1 /\ pcSubnets = "rest"

GeneratorRests ==
    /\ resource = "Overlay" /\ output = FALSE /\ input = NoInput
    /\ values = NoFile /\ file = OldFile /\ pcGenerator = "rest"
    /\ slice = CHOOSE s \in Slices : TRUE

NamesRest == name = << >> /\ builder = << >> /\ at = 1 /\ work = <<"a">>

Init ==
    /\ \/ tool = "monitoring" /\ Monitoring!Init /\ SubnetsRest /\ GeneratorRests /\ NamesRest
       \/ tool = "subnets" /\ MonitoringRests /\ Subnets!Init /\ GeneratorRests /\ NamesRest
       \/ tool = "generator" /\ MonitoringRests /\ SubnetsRest /\ Generator!Init /\ NamesRest
       \/ tool = "names" /\ MonitoringRests /\ SubnetsRest /\ GeneratorRests /\ WorkName!Init
       \/ tool = "secrets" /\ MonitoringRests /\ SubnetsRest /\ GeneratorRests /\ NamesRest
    /\ Secrets!Init

Next ==
    /\ UNCHANGED tool
    /\ \/ /\ tool = "monitoring" /\ Monitoring!Next
          /\ UNCHANGED <<subnets, generator, certs, names>>
       \/ /\ tool = "subnets" /\ Subnets!Next
          /\ UNCHANGED <<monitoring, generator, certs, names>>
       \/ /\ tool = "generator" /\ Generator!Next
          /\ UNCHANGED <<monitoring, subnets, certs, names>>
       \/ /\ tool = "names" /\ WorkName!sanitizeManifestWorkName
          /\ UNCHANGED <<monitoring, subnets, generator, certs>>
       \/ /\ tool = "secrets" /\ Secrets!Next
          /\ UNCHANGED <<monitoring, subnets, generator, names>>

Spec == Init /\ [][Next]_vars

-----------------------------------------------------------------------------
(* The properties, each stated in the module of its tool. *)

\* On success every cluster has a monitoring address of its own.
EveryClusterHasItsAddress == Monitoring!EveryClusterHasItsAddress

\* From an aligned monitoring CIDR every cluster gets a host's address.
AlignedAllocationUsable == Monitoring!AlignedAllocationUsable

\* The pod ranges of the clusters are disjoint parts of the network's CIDR.
PodRangesDisjoint == Subnets!PodRangesDisjoint

\* generate-cr writes its output only when an Overlay was asked for and its
\* topology read, and that Overlay unless the write is cut short.
OutputAsAsked == Generator!OutputAsAsked

\* The Overlay of a slice joins the clusters that its devices join.
OverlayMatchesDevices == Generator!OverlayMatchesDevices

\* Overlapping runs of apply-cert act as single writes of certificates.
SecretsImplementStore == Secrets!ImplementsStore

\* The name of a ManifestWork is valid whatever the object's name.
WorkNameUsable == WorkName!WorkNameUsable
=============================================================================
