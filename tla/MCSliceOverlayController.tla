---------------------- MODULE MCSliceOverlayController ----------------------
(***************************************************************************)
(* Instances of SliceOverlayController for TLC.                            *)
(***************************************************************************)
EXTENDS SliceOverlayController

CONSTANTS c1, c2, c3, ip1, ip2, pA, pB

Slice(ns, nm) == [namespace |-> ns, name |-> nm]
Node(c, gateway) == [name |-> c, gateway |-> gateway]
Monitor(base, hosts) == [base |-> base, usableHosts |-> hosts]

SpecOf(nodes, links, monitoring, provider) ==
    [nodes |-> nodes, links |-> links, monitoring |-> monitoring,
     providerRef |-> NoRef, provider |-> provider]

OneSlice == {Slice("ns1", "slice")}
TwoSlices == {Slice("ns1", "slice"), Slice("ns1", "default")}

\* No cluster yet, one, two in either order; addresses given or not.
GrowingSpecs ==
    {SpecOf(<< >>, {}, NoMonitoring, pA),
     SpecOf(<<Node(c1, Empty)>>, {}, Monitor(0, 2), pA),
     SpecOf(<<Node(c2, ip1), Node(c1, ip2)>>, {}, NoMonitoring, NoProvider)}

\* A full mesh, a chain, and a star with monitoring and a link out of the
\* slice, in other orders; the last one has more clusters than addresses.
ConvergingSpecs ==
    {SpecOf(<<Node(c1, Empty), Node(c2, ip1), Node(c3, Empty)>>, {},
            Monitor(0, 6), pA),
     SpecOf(<<Node(c3, Empty), Node(c1, Empty), Node(c2, Empty)>>,
            {<<c1, c2>>, <<c2, c3>>}, Monitor(8, 6), NoProvider),
     SpecOf(<<Node(c2, ip2), Node(c1, ip1)>>, {<<c1, c2>>, <<c2, c3>>},
            Monitor(0, 2), pA),
     SpecOf(<<Node(c1, Empty), Node(c2, ip1)>>, {}, Monitor(0, 1), pA)}

SharedSpecs == {SpecOf(<<Node(c1, ip1)>>, {}, NoMonitoring, NoProvider)}

DefaultProfile == {Slice("ns1", "default")}

\* Every configuration has a name of its own.
OwnName == [p \in Providers |-> p]

\* sanitizeManifestWorkName leaves these short lower-case names alone.
SameName == [n \in Names |-> n]
=============================================================================
