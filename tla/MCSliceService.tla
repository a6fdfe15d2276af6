--------------------------- MODULE MCSliceService ---------------------------
(***************************************************************************)
(* An instance of SliceService for TLC.                                    *)
(***************************************************************************)
EXTENDS SliceService

CONSTANTS c1, c2, c3, ip1

TwoPorts == {"sdn", "of"}
DefaultPorts == [p \in TwoPorts |-> IF p = "sdn" THEN "30808" ELSE "30663"]
SchemaPorts == [p \in TwoPorts |-> IF p = "sdn" THEN "30808" ELSE "6633"]

Provider1 == ProviderMessage("default", "dom", [p \in TwoPorts |-> IF p = "of" THEN "1" ELSE Empty])
Provider2 == ProviderMessage(Empty, Empty, [p \in TwoPorts |-> Empty])

\* A gateway with an address and no name, one with a name and no address.
Triangle == <<ClusterMessage(c1, NodeMessage(Empty, ip1)),
              ClusterMessage(c2, NodeMessage("n", Empty)), ClusterMessage(c3, Nil)>>

Mesh == SliceMessage(Provider1, Triangle, << >>)
\* Another slice of the same provider, hence of the same name.
Chain == SliceMessage(Provider1, Triangle, <<LinkMessage(c1, c2), LinkMessage(c3, c2)>>)
Plain == SliceMessage(Provider2, Triangle, <<LinkMessage(c3, c1)>>)
Network == L2NetworkMessage("slice", Nil, "vnet", Triangle)

SliceRequests ==
    {CreateSliceRequest(Mesh, Empty), CreateSliceRequest(Chain, "default"),
     CreateSliceRequest(Plain, Empty), DeleteSliceRequest(Chain, Empty),
     DeleteSliceRequest(Nil, "default"),
     CreateNetworkRequest(Network, Empty), CreateNetworkRequest(Nil, Empty),
     DeleteNetworkRequest(Network, "default"),
     CreateNetworkRequest(Malformed, Empty), Request("AddCluster", Nil, Empty)}

ServiceProviders ==
    {[name |-> "default", domain |-> <<"dom">>, ports |-> [Provider1.ports EXCEPT !["sdn"] = "30808"]],
     [name |-> Empty, domain |-> << >>, ports |-> SchemaPorts]}
=============================================================================
