----------------------------- MODULE Addresses -----------------------------
(***************************************************************************)
(* IPv4 addresses and CIDRs as numbers, at a width that is 32 in the       *)
(* program and smaller in the runs.  A CIDR keeps the address it was       *)
(* written with: net.ParseCIDR("10.0.0.7/24") returns both 10.0.0.7 and    *)
(* the network 10.0.0.0/24, and the two callers use different ones.        *)
(***************************************************************************)
EXTENDS Integers

CONSTANTS Width   \* bits of an address

ASSUME WidthAssumption == Width \in Nat \ {0}

Address == 0 .. 2^Width - 1

CIDR == [ip : Address, ones : 0..Width]

\* Number of addresses behind a prefix of the given length.
BlockSize(ones) == 2^(Width - ones)

\* ip.Mask(ipNet.Mask)
NetworkAddress(cidr) == cidr.ip - (cidr.ip % BlockSize(cidr.ones))

Broadcast(cidr) == NetworkAddress(cidr) + BlockSize(cidr.ones) - 1

\* The addresses of the network; the first and the last are not for hosts.
AddressesOf(cidr) == NetworkAddress(cidr) .. Broadcast(cidr)
UsableAddresses(cidr) == AddressesOf(cidr) \ {NetworkAddress(cidr), Broadcast(cidr)}

\* uint32 addition
Add(address, offset) == (address + offset) % 2^Width

=============================================================================
