------------------------------ MODULE MCTools ------------------------------
(***************************************************************************)
(* An instance of Tools for TLC.                                           *)
(***************************************************************************)
EXTENDS Tools

CONSTANTS c1, c2, c3, p1

SliceSpec(nodes, links, provider) ==
    [nodes |-> [n \in 1..Len(nodes) |-> [name |-> nodes[n], gateway |-> Empty]],
     links |-> links, monitoring |-> NoMonitoring, providerRef |-> NoRef,
     provider |-> provider]

\* No cluster, one, a mesh, a chain, and links out of the slice.
ToolSlices ==
    {SliceSpec(nodes, links, provider) :
        nodes \in {<< >>, <<c1>>, <<c2, c1>>, <<c1, c3, c2>>},
        links \in {{}, {<<c1, c2>>}, {<<c2, c1>>, <<c2, c3>>}},
        provider \in {p1, NoProvider}}

TwoTopologies == {[nodes |-> <<c1, c2>>, links |-> {<<c1, c2>>}], [nodes |-> <<c3>>, links |-> {}]}
=============================================================================
