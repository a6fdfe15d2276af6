---------------------- MODULE MCSliceNetworkController ----------------------
(***************************************************************************)
(* Instances of SliceNetworkController for TLC.                            *)
(***************************************************************************)
EXTENDS SliceNetworkController

CONSTANTS c1, c2, pA, pB

Net(ns, nm) == [namespace |-> ns, name |-> nm]

\* Specs that differ in one aspect each.
SpecOf(cs, type, ref, provider) ==
    [clusters |-> cs, type |-> type, providerRef |-> ref, provider |-> provider]

OneNetwork == {Net("ns1", "net")}
TwoNetworks == {Net("ns1", "net"), Net("ns1", "default")}
SameNameNetworks == {Net("ns1", "net"), Net("ns2", "net")}

\* Growing cluster lists, a list in another order, a changed type, one left
\* empty, a provider left to the default profile.
GrowingSpecs == {SpecOf(<<c1>>, "vnet", NoRef, pA),
                 SpecOf(<<c1, c2>>, Empty, NoRef, NoProvider),
                 SpecOf(<<c2, c1>>, "vlink", NoRef, pB)}

InlineSpecs == {s \in GrowingSpecs : s.provider # NoProvider}

\* Every form of reference: none, one that leaves out the name, one that
\* leaves out the namespace, one that names both.
RefSpecs == {SpecOf(<<c1>>, "vnet", NoRef, NoProvider),
             SpecOf(<<c1>>, "vnet", Net("ns2", Empty), NoProvider),
             SpecOf(<<c2, c1>>, "vnet", Net(Empty, "net"), NoProvider),
             SpecOf(<<c1>>, "vnet", NoRef, pA)}

NoProfiles == {}
DefaultProfile == {Net("ns1", "default")}
AllProfiles == {Net("ns1", "default"), Net("ns2", "default"), Net("ns1", "net")}

MCTypes == {"vnet", "vlink", Empty}

\* sanitizeManifestWorkName leaves these short lower-case names alone.
SameName == [n \in Names |-> n]
=============================================================================
