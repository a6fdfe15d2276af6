----------------------------- MODULE SubnetPlan -----------------------------
(***************************************************************************)
(* ApplyCIDRs: cuts the CIDR of a network into one subnet per cluster.  No *)
(* controller calls it yet; its tests do.                                  *)
(***************************************************************************)
EXTENDS Addresses, Sequences

CONSTANTS MaxClusters   \* bound on numberClusters

VARIABLES
    networkCIDR, numberClusters,  \* the arguments
    networks,                     \* the L2Networks built so far
    i,                            \* the loop variable
    pc                            \* "split", "loop", or how the function returned

vars == <<networkCIDR, numberClusters, networks, i, pc>>

\* len(fmt.Sprintf("%b", n)): 1 for 0, else the position of the highest bit.
bitLength(n) == CHOOSE b \in 1..n + 1 : n < 2^b /\ (b = 1 \/ 2^(b - 1) <= n)

\* Mutant of newPrefix: the last subnet number may not fit.
newPrefixShort == networkCIDR.ones + bitLength(numberClusters) - 1

\* Subnet numbers run from 1 to numberClusters, so 0 is left out.
newPrefix == networkCIDR.ones + bitLength(numberClusters)

\* The CIDR is IPv4: of an IPv6 one, To4 is nil and Uint32 panics.
Split ==
    /\ pc = "split"
    /\ pc' = IF newPrefix > Width THEN "error" ELSE "loop"
    /\ UNCHANGED <<networks, i>>

AddNetwork ==
    /\ pc = "loop"
    /\ i <= numberClusters
    /\ LET subnet == Add(NetworkAddress(networkCIDR), i * BlockSize(newPrefix))
       IN networks' = Append(networks,
              [NetworkCIDR     |-> networkCIDR,
               PodAddressRange |-> [ip |-> subnet, ones |-> newPrefix]])
    /\ i' = i + 1
    /\ UNCHANGED pc

Done ==
    /\ pc = "loop"
    /\ i > numberClusters
    /\ pc' = "ok"
    /\ UNCHANGED <<networks, i>>

Init ==
    /\ networkCIDR \in CIDR
    /\ numberClusters \in 0..MaxClusters
    /\ networks = << >>
    /\ i = 1
    /\ pc = "split"

Next ==
    /\ UNCHANGED <<networkCIDR, numberClusters>>
    /\ (Split \/ AddNetwork \/ Done)

Spec == Init /\ [][Next]_vars

-----------------------------------------------------------------------------
(* Properties. *)

\* The pod ranges of the clusters lie inside the network, do not overlap, and
\* leave out the block at the network address, up to the widest split that
\* fits: the uint32 arithmetic never runs past the end of the network.
PodRangesDisjoint ==
    \A j \in 1..Len(networks) :
        LET range == AddressesOf(networks[j].PodAddressRange)
        IN  /\ range \subseteq AddressesOf(networkCIDR)
            /\ NetworkAddress(networkCIDR) \notin range
            /\ \A k \in 1..j - 1 :
                  range \cap AddressesOf(networks[k].PodAddressRange) = {}
=============================================================================
