----------------------- MODULE SliceTopology_proofs -----------------------
(***************************************************************************)
(* What the NED of a cluster says of the other clusters of its slice, for  *)
(* every spec.                                                             *)
(***************************************************************************)
EXTENDS SliceTopology, TLAPS

\* No cluster is listed twice.
ListsOnce(spec) ==
    \A i, j \in 1..Len(spec.nodes) : spec.nodes[i].name = spec.nodes[j].name => i = j

LEMMA NodeTypes ==
    ASSUME NEW spec \in SliceOverlaySpec
    PROVE  /\ Len(spec.nodes) \in Nat
           /\ \A i \in 1..Len(spec.nodes) : spec.nodes[i].name \in Clusters
           /\ NodeNames(spec) \subseteq Clusters
<1>1. spec.nodes \in Seq(OverlayCluster)
  BY DEF SliceOverlaySpec
<1>2. \A i \in 1..Len(spec.nodes) : spec.nodes[i] \in OverlayCluster
  BY <1>1
<1> QED BY <1>1, <1>2 DEF OverlayCluster, NodeNames

\* The clusters that ApplySlice joins to c are those that a link of the spec
\* joins to it, and all others where the spec has no link.
LEMMA LinkedByLinks ==
    ASSUME NEW spec \in SliceOverlaySpec, ListsOnce(spec),
           NEW c \in NodeNames(spec), NEW d \in NodeNames(spec)
    PROVE  d \in LinkedTo(spec, c) <=>
              \/ <<c, d>> \in spec.links \/ <<d, c>> \in spec.links
              \/ spec.links = {} /\ c # d
<1>1. Len(spec.nodes) \in Nat
  BY NodeTypes
<1>2. PICK i \in 1..Len(spec.nodes) : spec.nodes[i].name = c
  BY DEF NodeNames
<1>3. PICK j \in 1..Len(spec.nodes) : spec.nodes[j].name = d
  BY DEF NodeNames
<1>4. d \in Clusters
  BY NodeTypes
<1>5. CASE spec.links # {}
  BY <1>4, <1>5 DEF LinkedTo, sliceLinks
<1>6. CASE spec.links = {} /\ ~(Len(spec.nodes) > 1)
  <2>1. i = j
    BY <1>1, <1>6
  <2> QED BY <1>2, <1>3, <1>6, <2>1 DEF LinkedTo, sliceLinks
<1>7. CASE spec.links = {} /\ Len(spec.nodes) > 1
  <2>1. \A e, f : <<e, f>> \in GenerateTopology(spec.nodes) <=>
           \E k, l \in 1..Len(spec.nodes) :
              k < l /\ e = spec.nodes[k].name /\ f = spec.nodes[l].name
    <3> TAKE e, f
    <3>1. ASSUME <<e, f>> \in GenerateTopology(spec.nodes)
          PROVE  \E k, l \in 1..Len(spec.nodes) :
                    k < l /\ e = spec.nodes[k].name /\ f = spec.nodes[l].name
      <4>1. PICK q \in (1..Len(spec.nodes)) \X (1..Len(spec.nodes)) :
               q[1] < q[2] /\ <<e, f>> = <<spec.nodes[q[1]].name, spec.nodes[q[2]].name>>
        BY <3>1 DEF GenerateTopology
      <4> QED BY <4>1
    <3>2. ASSUME NEW k \in 1..Len(spec.nodes), NEW l \in 1..Len(spec.nodes),
                 k < l, e = spec.nodes[k].name, f = spec.nodes[l].name
          PROVE  <<e, f>> \in GenerateTopology(spec.nodes)
      <4>1. PICK q : q = <<k, l>>
        OBVIOUS
      <4>2. q \in (1..Len(spec.nodes)) \X (1..Len(spec.nodes)) /\ q[1] = k /\ q[2] = l
        BY <4>1
      <4> QED BY <3>2, <4>2 DEF GenerateTopology
    <3> QED BY <3>1, <3>2
  <2>2. sliceLinks(spec) = GenerateTopology(spec.nodes)
    BY <1>7 DEF sliceLinks
  <2>3. c # d => <<c, d>> \in sliceLinks(spec) \/ <<d, c>> \in sliceLinks(spec)
    <3> SUFFICES ASSUME c # d
                 PROVE  <<c, d>> \in sliceLinks(spec) \/ <<d, c>> \in sliceLinks(spec)
      OBVIOUS
    <3>1. i < j \/ j < i
      BY <1>1, <1>2, <1>3
    <3> QED BY <1>2, <1>3, <2>1, <2>2, <3>1
  <2>4. c = d => <<c, d>> \notin sliceLinks(spec)
    <3> SUFFICES ASSUME c = d, NEW k \in 1..Len(spec.nodes), NEW l \in 1..Len(spec.nodes),
                        k < l, c = spec.nodes[k].name, d = spec.nodes[l].name
                 PROVE  FALSE
      BY <2>1, <2>2
    <3>1. k = l
      BY DEF ListsOnce
    <3> QED BY <1>1, <3>1
  <2> QED BY <1>4, <1>7, <2>3, <2>4 DEF LinkedTo
<1> QED BY <1>5, <1>6, <1>7

LEMMA MonitoredNode ==
    ASSUME NEW spec \in SliceOverlaySpec, spec.monitoring # NoMonitoring,
           NEW c \in NodeNames(spec)
    PROVE  /\ monitoredNode(spec, c) # NoMonitoring
           /\ \E i \in 1..Len(spec.nodes) :
                 /\ spec.nodes[i].name = c
                 /\ monitoredNode(spec, c) = <<spec.monitoring.base, i>>
<1> DEFINE i == CHOOSE i \in 1..Len(spec.nodes) : spec.nodes[i].name = c
<1>1. \E k \in 1..Len(spec.nodes) : spec.nodes[k].name = c
  BY DEF NodeNames
<1>2. i \in 1..Len(spec.nodes) /\ spec.nodes[i].name = c
  BY <1>1
<1>3. monitoredNode(spec, c) = <<spec.monitoring.base, i>>
  BY DEF monitoredNode
<1>4. spec.nodes \in Seq(OverlayCluster) /\ spec.monitoring.base \in Nat
  BY DEF SliceOverlaySpec, MonitorSpec
<1>5. Len(spec.nodes) \in Nat
  BY <1>4
<1> HIDE DEF i
<1>6. i \in Nat
  BY <1>2, <1>5
<1>7. <<spec.monitoring.base, i>> \in Nat \X Nat
  BY <1>4, <1>6
<1> QED BY <1>2, <1>3, <1>7, TopologyAssumption

\* What the device of c says of a cluster d of the slice.
LEMMA NeighborOf ==
    ASSUME NEW spec \in SliceOverlaySpec, NEW a, NEW p,
           NEW c \in NodeNames(spec), NEW d \in NodeNames(spec)
    PROVE  /\ (\E v \in NED(spec, a, p, c).neighbors : v.node = d)
                 <=> d \in LinkedTo(spec, c)
           /\ \A v \in NED(spec, a, p, c).neighbors :
                 v.node = d => v.domain = a[d] /\ v.lpmIp = monitoredNode(spec, d)
<1>1. d \in Clusters /\ d # Empty
  BY NodeTypes, TopologyAssumption
<1>2. NED(spec, a, p, c).neighbors = {Neighbor(spec, a, c, e) : e \in LinkedTo(spec, c)}
  BY DEF NED
<1>3. \A e : Neighbor(spec, a, c, e).node = IF e \in NodeNames(spec) THEN e ELSE Empty
  BY DEF Neighbor
<1>4. Neighbor(spec, a, c, d).domain = a[d]
  BY DEF Neighbor
<1>5. Neighbor(spec, a, c, d).lpmIp = monitoredNode(spec, d)
  <2>1. CASE spec.monitoring = NoMonitoring
    BY <2>1 DEF Neighbor, monitoredNode
  <2>2. CASE spec.monitoring # NoMonitoring
    BY <2>2, MonitoredNode DEF Neighbor
  <2> QED BY <2>1, <2>2
<1>6. \A v \in NED(spec, a, p, c).neighbors :
         v.node = d => v = Neighbor(spec, a, c, d) /\ d \in LinkedTo(spec, c)
  BY <1>1, <1>2, <1>3
<1> QED BY <1>2, <1>3, <1>4, <1>5, <1>6
=============================================================================
