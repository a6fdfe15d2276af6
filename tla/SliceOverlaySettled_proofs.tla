-------------------- MODULE SliceOverlaySettled_proofs --------------------
(***************************************************************************)
(* No wake-up of the SliceOverlay controller is lost, and the NEDs that a  *)
(* finished pass leaves behind fit together.                               *)
(***************************************************************************)
EXTENDS SliceOverlayController_proofs, ProviderResolver_proofs, SliceTopology_proofs

-----------------------------------------------------------------------------
(* The invariant. *)

\* No user lists a cluster twice, which the CRD does not ask for.
SpecsListOnce == \A s \in Specs : ListsOnce(s)

\* Then no version lists one twice.
ListsOK ==
    /\ \A o \in Overlays : \A i \in 1..Len(log[o]) : ListsOnce(log[o][i].spec)
    /\ ListsOnce(obj.spec)

\* Something is under way that will make the controller look at o again: a
\* request, a version that the cache has yet to see, or a profile event.
Waiting(o) ==
    \/ o \in queue
    \/ Len(log[o]) > 1
    \/ /\ Cached(o).phase # "absent"
       /\ \E p \in profileEvents : concernsProfile(p, o.namespace, Cached(o).spec)

CachedProvider(o) == resolveProvider(CachedProfiles, o.namespace, Cached(o).spec)

\* Every cluster of spec has an address, its gateway if it has one.
Addressed(spec, addresses) ==
    \A i \in 1..Len(spec.nodes) :
        /\ addresses[spec.nodes[i].name] # Empty
        /\ spec.nodes[i].gateway \in {Empty, addresses[spec.nodes[i].name]}

\* Each cluster holds the device that the caches ask for, all of them made
\* from the same addresses.
Done(o) ==
    /\ Cached(o).finalizer
    /\ NodeNames(Cached(o).spec) # {} => CachedProvider(o) \in Providers
    /\ \E addresses \in [Clusters -> IPAddresses \cup {Empty}] :
          /\ Addressed(Cached(o).spec, addresses)
          /\ \A c \in NodeNames(Cached(o).spec) :
                works[WorkKey(o, c)]
                  = DesiredWork(o, Cached(o).spec, addresses, CachedProvider(o), c)

\* While the manager runs, a SliceOverlay that the cache has is waited for,
\* worked on, or done.
NotifiedOK ==
    MDClient # "none" =>
        \A o \in Overlays :
            Waiting(o) \/ req = o \/ Cached(o).phase = "absent" \/ Done(o)

\* The addresses that the first loop of ApplySlice collected.
GatewaysOK ==
    \A i \in 1..Len(obj.spec.nodes) :
        pc = "apply" \/ (pc = "address" /\ i < pos) =>
            obj.spec.nodes[i].gateway \in {Empty, clusterMaps[obj.spec.nodes[i].name]}

\* The pass under way places what the caches ask for, unless they changed
\* since it started; then it is not the last one.
PassOK ==
    pc \in {"resolve", "address", "apply"} =>
        /\ Claims(obj)
        /\ \/ Waiting(req)
           \/ /\ obj = Cached(req)
              /\ pc # "resolve" => prov = CachedProvider(req)
              /\ pc = "apply" =>
                    \A i \in 1..Len(obj.spec.nodes) :
                        i < pos => works[WorkKey(req, obj.spec.nodes[i].name)]
                                     = DesiredWork(req, obj.spec, clusterMaps, prov,
                                                   obj.spec.nodes[i].name)

WakeInv == ListsOK /\ NotifiedOK /\ GatewaysOK /\ PassOK

-----------------------------------------------------------------------------
(* Works that are being deleted: the invariant. *)

\* None of the clusters that version v of o lists has a work of o.
NoWorkOf(o, v) == \A c \in NodeNames(v.spec) : works[WorkKey(o, c)] = NoWork

\* Once the finalizer of a deleted SliceOverlay is gone, the deletion is the
\* oldest version that the cache may still show, and its works are gone.
SeenOK ==
    \A o \in Overlays : \A i \in 1..Len(log[o]) :
        log[o][i].phase = "terminating" /\ ~Stored(o).finalizer =>
            i = 1 /\ NoWorkOf(o, log[o][1])

\* The same for a deletion that is run once more from a stale copy.
RepeatOK ==
    pc \in {"delete", "release"} /\ ~Stored(req).finalizer => NoWorkOf(req, obj)

\* Users wait for the works of a deleted SliceOverlay to go before they
\* create it again, and a deletion that runs late marks no new work.
LeavingOK ==
    \A o \in Overlays : \A c \in Clusters :
        WorkKey(o, c) \in leaving => Stored(o).phase # "live"

LeavingInv == SeenOK /\ RepeatOK /\ LeavingOK

-----------------------------------------------------------------------------
(* No version lists a cluster twice. *)

LEMMA ListsIntro ==
    ASSUME \A o \in Overlays : \A i \in 1..Len(log'[o]) : ListsOnce(log'[o][i].spec),
           ListsOnce(obj'.spec)
    PROVE  ListsOK'
  BY DEF ListsOK

LEMMA WriteLists ==
    ASSUME Types, ListsOK, NEW o \in Overlays, NEW v \in Version, Write(o, v),
           ListsOnce(v.spec)
    PROVE  \A m \in Overlays : \A i \in 1..Len(log'[m]) : ListsOnce(log'[m][i].spec)
<1>1. log[o] \in Seq(Version) /\ log[o] # << >>
  BY LogTypes
<1>2. /\ Len(Append(log[o], v)) = Len(log[o]) + 1 /\ Len(log[o]) \in Nat
      /\ Append(log[o], v)[Len(log[o]) + 1] = v
      /\ \A i \in 1..Len(log[o]) : Append(log[o], v)[i] = log[o][i]
  BY <1>1, AppendFacts
<1>3. log'[o] = Append(log[o], v) /\ \A m \in Overlays : m # o => log'[m] = log[m]
  BY DEF Types, TypeOK, Write
<1>4. ASSUME NEW i \in 1..Len(log'[o]) PROVE ListsOnce(log'[o][i].spec)
  <2>1. CASE i = Len(log[o]) + 1
    BY <1>2, <1>3, <2>1
  <2>2. CASE i # Len(log[o]) + 1
    <3>1. i \in 1..Len(log[o])
      BY <1>2, <1>3, <1>4, <2>2
    <3> QED BY <1>2, <1>3, <3>1 DEF ListsOK
  <2> QED BY <2>1, <2>2
<1> QED BY <1>3, <1>4 DEF ListsOK

LEMMA StoredLists ==
    ASSUME Types, ListsOK, NEW o \in Overlays
    PROVE  /\ Stored(o) \in Version /\ Stored(o).rv + 1 \in Nat
           /\ ListsOnce(Stored(o).spec) /\ ListsOnce(Cached(o).spec)
<1>1. /\ Stored(o) \in Version /\ Stored(o).rv \in Nat
      /\ Len(log[o]) \in Nat /\ Len(log[o]) >= 1
  BY LogTypes
<1>2. Len(log[o]) \in 1..Len(log[o]) /\ 1 \in 1..Len(log[o])
  BY <1>1
<1> QED BY <1>1, <1>2 DEF ListsOK, Stored, Cached

LEMMA NoSpecLists == ListsOnce(NoSpec) /\ \A k : ListsOnce(Absent(k).spec)
  BY DEF ListsOnce, NoSpec, Absent

LEMMA FreshLists ==
    ASSUME Types, ListsOK, FreshCaches, obj' = obj \/ obj' = Absent(0)
    PROVE  ListsOK'
<1>1. \A o \in Overlays : log'[o] = <<Stored(o)>>
  BY DEF FreshCaches
<1>2. \A o \in Overlays : \A i \in 1..Len(log'[o]) : log'[o][i] = Stored(o)
  BY <1>1
<1>3. ListsOnce(obj'.spec)
  BY NoSpecLists DEF ListsOK
<1> QED BY <1>2, <1>3, StoredLists DEF ListsOK, ListsOnce

\* Users submit such specs, and nobody else makes one.
LEMMA UserLists ==
    ASSUME SpecsListOnce, IndInv, ListsOK, Users
    PROVE  ListsOK'
<1>1. Types
  BY DEF IndInv
<1>2. ASSUME NEW o \in Overlays, NEW v \in Version, Write(o, v), ListsOnce(v.spec),
             OverlayEditOnly
      PROVE  ListsOK'
  BY <1>1, <1>2, WriteLists DEF OverlayEditOnly, worker, ListsOK, ListsOnce
<1>3. \A o \in Overlays : Stored(o) \in Version /\ Stored(o).rv + 1 \in Nat
                            /\ ListsOnce(Stored(o).spec)
  BY <1>1, StoredLists
<1>4. ListsOnce(NoSpec)
  BY NoSpecLists
<1>5. CASE \E o \in Overlays, s \in Specs : CreateOverlay(o, s)
  <2>1. PICK o \in Overlays, s \in Specs : CreateOverlay(o, s)
    BY <1>5
  <2> DEFINE v == [phase |-> "live", finalizer |-> FALSE, rv |-> Stored(o).rv + 1, spec |-> s]
  <2>2. v \in Version /\ v.spec = s
    BY <1>3, OverlaySpecsAssumption DEF Version
  <2>3. Write(o, v) /\ OverlayEditOnly
    BY <2>1 DEF CreateOverlay
  <2> HIDE DEF v
  <2> QED BY <1>2, <2>2, <2>3 DEF SpecsListOnce
<1>6. CASE \E o \in Overlays, s \in Specs : UpdateOverlay(o, s)
  <2>1. PICK o \in Overlays, s \in Specs : UpdateOverlay(o, s)
    BY <1>6
  <2> DEFINE v == [Stored(o) EXCEPT !.rv = @ + 1, !.spec = s]
  <2>2. v \in Version /\ v.spec = s
    BY <1>3, OverlaySpecsAssumption DEF Version
  <2>3. Write(o, v) /\ OverlayEditOnly
    BY <2>1 DEF UpdateOverlay
  <2> HIDE DEF v
  <2> QED BY <1>2, <2>2, <2>3 DEF SpecsListOnce
<1>7. CASE \E o \in Overlays : DeleteOverlay(o)
  <2>1. PICK o \in Overlays : DeleteOverlay(o)
    BY <1>7
  <2> DEFINE v == [Stored(o) EXCEPT !.rv = @ + 1, !.phase = "terminating"]
             w == Absent(Stored(o).rv + 1)
  <2>2. v \in Version /\ v.spec = Stored(o).spec
    BY <1>3 DEF Version
  <2>3. w \in Version /\ w.spec = NoSpec
    BY <1>3, SpecTypes DEF Absent
  <2>4. (Write(o, v) \/ Write(o, w)) /\ OverlayEditOnly
    BY <2>1 DEF DeleteOverlay
  <2> HIDE DEF v, w
  <2> QED BY <1>2, <1>3, <1>4, <2>2, <2>3, <2>4
<1>8. CASE \/ \E p \in EditableProfiles, v \in Providers \cup {NoProvider} :
                WriteProfile(p, v)
           \/ \E c \in Clusters, a \in IPAddresses \cup {Empty} : MoveCluster(c, a)
  <2>1. UNCHANGED <<log, worker>>
    BY <1>8 DEF WriteProfile, MoveCluster
  <2> QED BY <2>1 DEF worker, ListsOK, ListsOnce
<1>9. CASE \E t \in ClientTypes : Redeploy(t)
  <2>1. CASE UNCHANGED <<log, worker>>
    BY <2>1 DEF worker, ListsOK, ListsOnce
  <2>2. CASE Stop
    BY <1>1, <2>2, FreshLists DEF Stop, Idle
  <2> QED BY <1>9, <2>1, <2>2 DEF Redeploy
<1> QED BY <1>5, <1>6, <1>7, <1>8, <1>9 DEF Users

LEMMA WorkerLists ==
    ASSUME IndInv, ListsOK, ReconcileStep
    PROVE  ListsOK'
<1>1. Types /\ obj \in Version /\ obj.rv + 1 \in Nat
  <2>1. Types /\ obj \in Version
    BY DEF IndInv, Types, TypeOK
  <2>2. obj.rv + 1 \in Nat
    BY <2>1 DEF Version
  <2> QED BY <2>1, <2>2
<1>2. obj' = obj \/ obj' = Absent(0) => ListsOnce(obj'.spec)
  BY NoSpecLists DEF ListsOK
<1>3. CASE UNCHANGED log /\ (obj' = obj \/ obj' = Absent(0))
  BY <1>2, <1>3, ListsIntro DEF ListsOK
<1>4. CASE AddFinalizer
  <2> DEFINE v == [obj EXCEPT !.finalizer = TRUE, !.rv = @ + 1]
  <2>1. v \in Version /\ v.spec = obj.spec
    BY <1>1 DEF Version
  <2>2. Write(req, v) /\ req \in Overlays /\ (obj' = v \/ obj' = Absent(0))
    BY <1>1, <1>4 DEF AddFinalizer, ReplyLost, ReturnError, Idle, Types, TypeOK
  <2> HIDE DEF v
  <2>3. ListsOnce(v.spec) /\ ListsOnce(obj'.spec)
    BY <2>1, <2>2, NoSpecLists DEF ListsOK
  <2> QED BY <1>1, <2>1, <2>2, <2>3, WriteLists, ListsIntro
<1>5. CASE RemoveFinalizer
  <2> DEFINE v == WithoutFinalizer(obj)
  <2>1. v \in Version /\ ListsOnce(v.spec)
    <3>1. Absent(obj.rv + 1) \in Version
      BY <1>1, SpecTypes
    <3>2. CASE obj.phase = "terminating"
      BY <3>1, <3>2, NoSpecLists DEF WithoutFinalizer
    <3>3. CASE obj.phase # "terminating"
      BY <1>1, <3>3 DEF WithoutFinalizer, Version, ListsOK
    <3> QED BY <3>2, <3>3
  <2>2. Write(req, v) /\ req \in Overlays /\ obj' = Absent(0)
    BY <1>1, <1>5 DEF RemoveFinalizer, ReplyLost, ReturnError, Idle, Types, TypeOK
  <2> HIDE DEF v
  <2> QED BY <1>1, <1>2, <2>1, <2>2, WriteLists, ListsIntro
<1>6. CASE ResolveProvider \/ ResolveAddress \/ ApplyManifestWork \/ DeleteManifestWork
           \/ RestDeleteSlice \/ UpdateRefused \/ CallFails
  BY <1>3, <1>6
     DEF ResolveProvider, ResolveAddress, NoEndpoint, ApplyManifestWork,
         DeleteManifestWork, RestDeleteSlice, UpdateRefused, CallFails, NextNode,
         ReplyLost, ReturnError, Idle, worker
<1> QED BY <1>4, <1>5, <1>6 DEF ReconcileStep

LEMMA NextLists ==
    ASSUME SpecsListOnce, IndInv, ListsOK, [Next]_vars
    PROVE  ListsOK'
<1>1. Types
  BY DEF IndInv
<1>2. CASE Informers
  <2>1. obj' = obj
    BY <1>2 DEF Informers, DeliverOverlay, DeliverProfile, requestsForProviderProfile,
                requestsListError, worker
  <2>2. CASE UNCHANGED log
    BY <2>1, <2>2, ListsIntro DEF ListsOK
  <2>3. CASE \E o \in Overlays : DeliverOverlay(o)
    <3>1. PICK o \in Overlays : DeliverOverlay(o)
      BY <2>3
    <3>2. /\ log[o] \in Seq(Version) /\ Len(log[o]) > 1
          /\ log'[o] = Tail(log[o]) /\ \A m \in Overlays : m # o => log'[m] = log[m]
      BY <1>1, <3>1 DEF DeliverOverlay, Types, TypeOK
    <3>3. /\ Len(Tail(log[o])) = Len(log[o]) - 1 /\ Len(log[o]) \in Nat
          /\ \A i \in 1..Len(log[o]) - 1 : Tail(log[o])[i] = log[o][i + 1]
      BY <3>2, TailFacts
    <3>4. \A i \in 1..Len(log'[o]) : i + 1 \in 1..Len(log[o]) /\ log'[o][i] = log[o][i + 1]
      BY <3>2, <3>3
    <3> QED BY <2>1, <3>2, <3>4, ListsIntro DEF ListsOK
  <2> QED BY <1>2, <2>2, <2>3
          DEF Informers, DeliverProfile, requestsForProviderProfile, requestsListError
<1>3. CASE \E o \in Overlays : StartReconcile(o)
  <2>1. PICK o \in Overlays : StartReconcile(o)
    BY <1>3
  <2>2. UNCHANGED log /\ (obj' = obj \/ obj' = Cached(o))
    BY <2>1 DEF StartReconcile, Begin, worker
  <2>3. ListsOnce(obj'.spec)
    BY <1>1, <2>2, StoredLists DEF ListsOK
  <2> QED BY <2>2, <2>3, ListsIntro DEF ListsOK
<1>4. CASE Crash
  BY <1>1, <1>4, FreshLists DEF Crash, Stop, Idle
<1>5. CASE StartManager
  BY <1>1, <1>5, FreshLists DEF StartManager, worker
<1>6. CASE UNCHANGED vars \/ \E k \in WorkKeys : Expire(k)
  BY <1>6, ListsIntro DEF vars, worker, Expire, ListsOK
<1> QED BY <1>2, <1>3, <1>4, <1>5, <1>6, UserLists, WorkerLists DEF Next

-----------------------------------------------------------------------------
(* The first loop of ApplySlice collects the gateways. *)

LEMMA GatewaysFrame ==
    ASSUME GatewaysOK, UNCHANGED <<pc, obj, clusterMaps, pos>>
    PROVE  GatewaysOK'
  BY DEF GatewaysOK

LEMMA ResolveAddressGateways ==
    ASSUME IndInv, ListsOK, GatewaysOK, ResolveAddress
    PROVE  GatewaysOK'
<1> DEFINE n == obj.spec.nodes[pos]
           N == Len(obj.spec.nodes)
<1>1. Types /\ pc = "address" /\ pos \in 1..N
  BY DEF IndInv, ResolveAddress, Types, TypeOK
<1>2. obj.spec.nodes \in Seq(OverlayCluster) /\ N \in Nat
  BY <1>1 DEF Types, TypeOK, Version, SliceOverlaySpec
<1>3. \A i \in 1..N : obj.spec.nodes[i] \in OverlayCluster
  BY <1>2
<1>4. CASE Idle
  BY <1>4 DEF Idle, GatewaysOK
<1>5. CASE /\ clusterMaps' = [clusterMaps EXCEPT ![n.name] = resolvedIP(n)]
           /\ obj' = obj
           /\ \/ pc' = "address" /\ pos' = pos + 1
              \/ pc' = "apply" /\ pos = N
  <2> SUFFICES ASSUME NEW i \in 1..N, i <= pos
               PROVE  obj.spec.nodes[i].gateway
                        \in {Empty, clusterMaps'[obj.spec.nodes[i].name]}
    BY <1>1, <1>2, <1>5 DEF GatewaysOK
  <2>1. \A j \in 1..N : obj.spec.nodes[j].name \in Clusters
    BY <1>3 DEF OverlayCluster
  <2>2. clusterMaps \in [Clusters -> IPAddresses \cup {Empty}]
    BY <1>1 DEF Types, TypeOK
  <2>3. CASE i = pos
    BY <1>1, <1>5, <2>1, <2>2, <2>3 DEF resolvedIP, DefaultIfEmpty
  <2>4. CASE i # pos
    <3>1. obj.spec.nodes[i].name # n.name
      BY <1>1, <2>4 DEF ListsOK, ListsOnce
    <3>2. i < pos
      BY <1>1, <1>2, <2>4
    <3>3. obj.spec.nodes[i].gateway \in {Empty, clusterMaps[obj.spec.nodes[i].name]}
      BY <1>1, <3>2 DEF GatewaysOK
    <3> QED BY <1>5, <2>1, <2>2, <3>1, <3>3
  <2> QED BY <2>3, <2>4
<1> QED BY <1>1, <1>4, <1>5 DEF ResolveAddress, NoEndpoint, ReturnError, LastNode

LEMMA NextGateways ==
    ASSUME IndInv, ListsOK, GatewaysOK, [Next]_vars
    PROVE  GatewaysOK'
<1>1. Types /\ pc \in {"idle", "claim", "resolve"} => pos = 1
  BY DEF IndInv, IdleOK
<1>2. CASE pc' \notin {"address", "apply"}
  BY <1>2 DEF GatewaysOK
<1>3. CASE UNCHANGED <<pc, worker>>
  BY <1>3, GatewaysFrame DEF worker
<1>4. CASE ResolveProvider
  <2>1. pos' = 1 /\ pc' # "apply"
    BY <1>4 DEF IndInv, IdleOK, ResolveProvider, ReturnError, Idle
  <2>2. \A i \in 1..Len(obj'.spec.nodes) : ~(i < 1)
    OBVIOUS
  <2> QED BY <2>1, <2>2 DEF GatewaysOK
<1>5. CASE ApplyManifestWork
  <2>1. pc = "apply" /\ (Idle \/ UNCHANGED <<pc, obj, clusterMaps>>)
    BY <1>5 DEF ApplyManifestWork, NextNode, ReplyLost, ReturnError
  <2> QED BY <1>2, <2>1 DEF GatewaysOK, Idle
<1>6. CASE Users
  <2>1. UNCHANGED <<pc, worker>> \/ Idle
    BY <1>6 DEF Users, CreateOverlay, UpdateOverlay, DeleteOverlay, OverlayEditOnly,
                WriteProfile, MoveCluster, Redeploy, Stop
  <2> QED BY <1>2, <1>3, <2>1 DEF Idle
<1>7. CASE Informers \/ StartManager \/ (\E k \in WorkKeys : Expire(k)) \/ UNCHANGED vars
  BY <1>3, <1>7 DEF Informers, DeliverOverlay, DeliverProfile, StartManager,
                    requestsForProviderProfile, requestsListError, Expire, vars, worker
<1>8. CASE Crash \/ RestDeleteSlice \/ RemoveFinalizer \/ UpdateRefused \/ CallFails
  BY <1>2, <1>8 DEF Crash, Stop, RestDeleteSlice, RemoveFinalizer, UpdateRefused,
                    CallFails, ReplyLost, ReturnError, Idle
<1>9. CASE \E o \in Overlays : StartReconcile(o)
  <2>1. pc' \in {"release", "delete", "resolve", "claim"} \/ UNCHANGED <<pc, worker>>
    BY <1>9 DEF StartReconcile, Begin, FirstStep
  <2> QED BY <1>2, <1>3, <2>1
<1>10. CASE AddFinalizer \/ DeleteManifestWork
  BY <1>2, <1>10 DEF AddFinalizer, DeleteManifestWork, NextNode, ReplyLost, ReturnError, Idle
<1> QED BY <1>4, <1>5, <1>6, <1>7, <1>8, <1>9, <1>10, ResolveAddressGateways
        DEF Next, ReconcileStep

-----------------------------------------------------------------------------
(* No wake-up is lost: lemmas. *)

Woken == NotifiedOK /\ PassOK

\* SliceOverlays of different work names share no work.
LEMMA KeysApart ==
    ASSUME DistinctWorkNames, NEW m \in Overlays, NEW o \in Overlays, m # o
    PROVE  \A c, d : WorkKey(m, c) # WorkKey(o, d)
  BY DEF DistinctWorkNames, WorkKey

LEMMA CachedTypes ==
    ASSUME Types, NEW o \in Overlays
    PROVE  /\ o.namespace \in Namespaces
           /\ Cached(o).spec \in SliceOverlaySpec
           /\ Cached(o).spec.providerRef \in ProviderReference \cup {NoRef}
           /\ NodeNames(Cached(o).spec) \subseteq Clusters
           /\ \A c \in Clusters : WorkKey(o, c) \in WorkKeys
           /\ CachedProfiles \in [NamespacedName -> Providers \cup {NoProvider}]
<1>1. o.namespace \in Namespaces /\ o.name \in Names
  BY OverlayKeysAssumption DEF NamespacedName
<1>2. Cached(o).spec \in SliceOverlaySpec
  BY LogTypes DEF Version
<1>3. /\ Cached(o).spec.providerRef \in ProviderReference \cup {NoRef}
      /\ Cached(o).spec.nodes \in Seq(OverlayCluster)
  BY <1>2 DEF SliceOverlaySpec
<1>4. \A i \in 1..Len(Cached(o).spec.nodes) : Cached(o).spec.nodes[i] \in OverlayCluster
  BY <1>3
<1>5. NodeNames(Cached(o).spec) \subseteq Clusters
  BY <1>4 DEF NodeNames, OverlayCluster
<1>6. \A c \in Clusters : WorkKey(o, c) \in WorkKeys
  BY <1>1, OverlayKeysAssumption DEF WorkKey, WorkKeys
<1>7. CachedProfiles \in [NamespacedName -> Providers \cup {NoProvider}]
  <2>1. \A p \in NamespacedName : plog[p][1] \in Providers \cup {NoProvider}
    BY DEF Types, TypeOK
  <2> QED BY <2>1 DEF CachedProfiles
<1> QED BY <1>1, <1>2, <1>3, <1>5, <1>6, <1>7

\* What is done stays done while neither the caches nor the works of o change.
LEMMA DoneFrame ==
    ASSUME Types, NEW o \in Overlays, Done(o), Cached(o)' = Cached(o),
           CachedProvider(o)' = CachedProvider(o),
           \A c \in Clusters : works'[WorkKey(o, c)] = works[WorkKey(o, c)]
    PROVE  Done(o)'
<1>1. PICK a \in [Clusters -> IPAddresses \cup {Empty}] :
         /\ Addressed(Cached(o).spec, a)
         /\ \A c \in NodeNames(Cached(o).spec) :
               works[WorkKey(o, c)]
                 = DesiredWork(o, Cached(o).spec, a, CachedProvider(o), c)
  BY DEF Done
<1>2. \A c \in NodeNames(Cached(o).spec) : c \in Clusters
  BY CachedTypes
<1>3. PICK s, p : /\ s = Cached(o).spec /\ p = CachedProvider(o) /\ Cached(o).finalizer
                  /\ NodeNames(s) # {} => p \in Providers
  BY DEF Done
<1>4. Cached(o)'.spec = s /\ CachedProvider(o)' = p /\ Cached(o)'.finalizer
  BY <1>3
<1>5. Addressed(s, a) /\ \A c \in NodeNames(s) : works'[WorkKey(o, c)] = DesiredWork(o, s, a, p, c)
  BY <1>1, <1>2, <1>3
<1> QED BY <1>3, <1>4, <1>5 DEF Done

\* A change of what the controller reads leaves a wake-up behind.
LEMMA InputStep ==
    ASSUME IndInv, Woken, UNCHANGED <<pc, worker, works, MDClient>>,
           \A o \in Overlays :
              \/ Waiting(o)'
              \/ /\ ~Waiting(o) /\ Cached(o)' = Cached(o)
                 /\ Cached(o).phase # "absent" =>
                      CachedProvider(o)' = CachedProvider(o)
    PROVE  Woken'
<1>1. Types
  BY DEF IndInv
<1>2. NotifiedOK'
  <2> SUFFICES ASSUME MDClient # "none", NEW o \in Overlays, ~Waiting(o)'
               PROVE  (req = o)' \/ (Cached(o).phase = "absent")' \/ Done(o)'
    BY DEF NotifiedOK
  <2>1. /\ ~Waiting(o) /\ Cached(o)' = Cached(o)
        /\ Cached(o).phase # "absent" => CachedProvider(o)' = CachedProvider(o)
    OBVIOUS
  <2>2. req = o \/ Cached(o).phase = "absent" \/ Done(o)
    BY <2>1 DEF Woken, NotifiedOK
  <2>3. req' = req /\ works' = works
    BY DEF worker
  <2> QED BY <1>1, <2>1, <2>2, <2>3, DoneFrame
<1>3. PassOK'
  <2> SUFFICES ASSUME pc \in {"resolve", "address", "apply"}, ~Waiting(req)'
               PROVE  PassOK'
    BY DEF worker, PassOK, Woken, Claims
  <2>1. PICK o \in Overlays : o = req
    BY <1>1 DEF Types, TypeOK
  <2>2. ~Waiting(o)'
    BY <2>1 DEF worker
  <2>3. /\ ~Waiting(o) /\ Cached(o)' = Cached(o)
        /\ Cached(o).phase # "absent" => CachedProvider(o)' = CachedProvider(o)
    BY <2>2
  <2>4. UNCHANGED <<pc, req, obj, prov, clusterMaps, pos, works>>
    BY DEF worker
  <2>5. /\ Claims(obj) /\ obj = Cached(o) /\ (pc # "resolve" => prov = CachedProvider(o))
        /\ pc = "apply" =>
              \A i \in 1..Len(obj.spec.nodes) :
                  i < pos => works[WorkKey(o, obj.spec.nodes[i].name)]
                               = DesiredWork(o, obj.spec, clusterMaps, prov,
                                             obj.spec.nodes[i].name)
    BY <2>1, <2>3 DEF Woken, PassOK
  <2>6. Cached(req)' = Cached(o)' /\ CachedProvider(req)' = CachedProvider(o)'
    BY <2>1, <2>4
  <2>7. CachedProvider(o)' = CachedProvider(o)
    BY <2>3, <2>5 DEF Claims
  <2> QED BY <2>1, <2>3, <2>4, <2>5, <2>6, <2>7 DEF PassOK, Claims
<1> QED BY <1>2, <1>3 DEF Woken

\* A step of the pass for r concerns no other SliceOverlay.
LEMMA OthersStep ==
    ASSUME IndInv, Woken, NEW r \in Overlays, r = req,
           UNCHANGED <<plog, profileEvents, MDClient>>, queue \subseteq queue',
           \A m \in Overlays : m # r => log'[m] = log[m],
           \A m \in Overlays : m # r =>
              \A c \in Clusters : works'[WorkKey(m, c)] = works[WorkKey(m, c)],
           req' = r \/ Waiting(r)' \/ Done(r)',
           PassOK'
    PROVE  Woken'
<1>1. Types
  BY DEF IndInv
<1>2. ASSUME MDClient # "none", NEW m \in Overlays, m # r
      PROVE  Waiting(m)' \/ (Cached(m).phase = "absent")' \/ Done(m)'
  <2>1. log'[m] = log[m]
    BY <1>2
  <2>2. Cached(m)' = Cached(m) /\ CachedProvider(m)' = CachedProvider(m)
    BY <2>1 DEF Cached, CachedProvider, CachedProfiles
  <2>3. Waiting(m) \/ Cached(m).phase = "absent" \/ Done(m)
    BY <1>2 DEF Woken, NotifiedOK
  <2>4. Waiting(m) => Waiting(m)'
    BY <2>1, <2>2 DEF Waiting
  <2> QED BY <1>1, <1>2, <2>2, <2>3, <2>4, DoneFrame
<1>3. NotifiedOK'
  BY <1>2 DEF NotifiedOK
<1> QED BY <1>3 DEF Woken

\* The works of other SliceOverlays are out of reach of the pass for r.
LEMMA OwnKeysOnly ==
    ASSUME Types, DistinctWorkNames, NEW r \in Overlays, NEW c, NEW w,
           works' = [works EXCEPT ![WorkKey(r, c)] = w]
    PROVE  \A m \in Overlays : m # r =>
              \A d \in Clusters : works'[WorkKey(m, d)] = works[WorkKey(m, d)]
<1> SUFFICES ASSUME NEW m \in Overlays, m # r, NEW d \in Clusters
             PROVE  works'[WorkKey(m, d)] = works[WorkKey(m, d)]
  OBVIOUS
<1>1. WorkKey(m, d) # WorkKey(r, c) /\ WorkKey(m, d) \in WorkKeys
  BY KeysApart, CachedTypes
<1>2. works \in [WorkKeys -> OverlayWork \cup {NoWork}]
  BY DEF Types, TypeOK
<1> QED BY <1>1, <1>2

-----------------------------------------------------------------------------
(* Every step keeps the works that are being deleted in their place.  What  *)
(* the three conjuncts say is carried over step by step; the writes to the  *)
(* API server come first.                                                   *)

\* A write to o that gives up the finalizer comes when the cache is up to
\* date and the works are gone; one that makes o live, when none is leaving.
LEMMA WriteLeaving ==
    ASSUME IndInv, LeavingInv, NEW o \in Overlays, NEW v \in Version, Write(o, v),
           UNCHANGED <<works, leaving>>,
           ~v.finalizer =>
              /\ v.phase # "terminating"
              /\ ~Stored(o).finalizer \/ (Len(log[o]) = 1 /\ NoWorkOf(o, log[o][1])),
           v.phase = "live" =>
              Stored(o).phase = "live" \/ \A c \in Clusters : WorkKey(o, c) \notin leaving,
           \/ pc' \notin {"delete", "release"}
           \/ UNCHANGED <<pc, req, obj>> /\ v.finalizer = Stored(o).finalizer
    PROVE  LeavingInv'
<1>1. Types
  BY DEF IndInv
<1>2. log[o] \in Seq(Version) /\ log[o] # << >> /\ log' = [log EXCEPT ![o] = Append(log[o], v)]
  BY <1>1 DEF Types, TypeOK, Write
<1>3. log'[o] = Append(log[o], v) /\ \A m \in Overlays : m # o => log'[m] = log[m]
  BY <1>1, <1>2 DEF Types, TypeOK
<1>4. /\ Len(log'[o]) = Len(log[o]) + 1 /\ Len(log[o]) \in Nat /\ Len(log[o]) >= 1
      /\ log'[o][Len(log[o]) + 1] = v
      /\ \A i \in 1..Len(log[o]) : log'[o][i] = log[o][i]
  BY <1>2, <1>3, AppendFacts
<1>5. Stored(o)' = v /\ \A m \in Overlays : m # o => Stored(m)' = Stored(m)
  BY <1>1, WriteStored
<1>6. SeenOK'
  <2> SUFFICES ASSUME NEW m \in Overlays, NEW i \in 1..Len(log'[m]),
                      log'[m][i].phase = "terminating", ~Stored(m)'.finalizer
               PROVE  i = 1 /\ \A c \in NodeNames(log'[m][1].spec) : works[WorkKey(m, c)] = NoWork
    BY DEF SeenOK, NoWorkOf, NodeNames, WorkKey
  <2>1. CASE m # o
    BY <1>3, <1>5, <2>1 DEF LeavingInv, SeenOK, NoWorkOf
  <2>2. CASE m = o
    <3>1. i # Len(log[o]) + 1
      BY <1>4, <1>5, <2>2
    <3>2. i \in 1..Len(log[o]) /\ log[o][i].phase = "terminating"
      BY <1>4, <2>2, <3>1
    <3>3. log'[o][1] = log[o][1]
      BY <1>4
    <3>4. CASE ~Stored(o).finalizer
      BY <2>2, <3>2, <3>3, <3>4 DEF LeavingInv, SeenOK, NoWorkOf
    <3>5. CASE Len(log[o]) = 1 /\ NoWorkOf(o, log[o][1])
      BY <2>2, <3>2, <3>3, <3>5 DEF NoWorkOf
    <3> QED BY <1>5, <2>2, <3>4, <3>5
  <2> QED BY <2>1, <2>2
<1>7. RepeatOK'
  <2> SUFFICES ASSUME pc' \in {"delete", "release"}, ~Stored(req)'.finalizer, req' = req
               PROVE  NoWorkOf(req, obj)
    BY DEF RepeatOK, NoWorkOf, NodeNames, WorkKey, Stored
  <2>1. UNCHANGED <<pc, req, obj>> /\ v.finalizer = Stored(o).finalizer
    OBVIOUS
  <2>2. req \in Overlays
    BY <1>1, <2>1 DEF Types, TypeOK
  <2>3. ~Stored(req).finalizer
    BY <1>5, <2>1, <2>2
  <2> QED BY <2>1, <2>3 DEF LeavingInv, RepeatOK
<1>8. LeavingOK'
  <2> SUFFICES ASSUME NEW m \in Overlays, NEW c \in Clusters, WorkKey(m, c) \in leaving
               PROVE  Stored(m)'.phase # "live"
    BY DEF LeavingOK, WorkKey
  <2>1. Stored(m).phase # "live"
    BY DEF LeavingInv, LeavingOK
  <2> QED BY <1>5, <2>1
<1> QED BY <1>6, <1>7, <1>8 DEF LeavingInv

LEMMA UserLeaving ==
    ASSUME IndInv, LeavingInv, ~RecreatesEarly, NEW o \in Overlays,
           \/ \E s \in Specs : CreateOverlay(o, s) \/ UpdateOverlay(o, s)
           \/ DeleteOverlay(o)
    PROVE  LeavingInv'
<1>1. Types /\ LogsOK
  BY DEF IndInv
<1>2. Stored(o) \in Version /\ Stored(o).rv \in Nat /\ EntryOK(Stored(o))
  BY <1>1, LogTypes, CachedBeforeStored
<1>3. OverlayEditOnly
  BY DEF CreateOverlay, UpdateOverlay, DeleteOverlay
<1>4. UNCHANGED <<works, leaving, pc, req, obj>>
  BY <1>3 DEF OverlayEditOnly, worker
<1>5. ASSUME NEW s \in Specs, CreateOverlay(o, s) PROVE LeavingInv'
  <2> DEFINE v == [phase |-> "live", finalizer |-> FALSE,
                   rv |-> Stored(o).rv + 1, spec |-> s]
  <2>1. v \in Version
    BY <1>2, OverlaySpecsAssumption DEF Version
  <2>2. /\ Stored(o).phase = "absent" /\ Write(o, v)
        /\ \A c \in Clusters : WorkKey(o, c) \notin leaving
    BY <1>5 DEF CreateOverlay
  <2>3. Stored(o).finalizer = FALSE
    BY <1>2, <2>2 DEF EntryOK, Version
  <2>4. v.phase = "live" /\ v.finalizer = FALSE
    OBVIOUS
  <2> HIDE DEF v
  <2> QED BY <1>4, <2>1, <2>2, <2>3, <2>4, WriteLeaving
<1>6. ASSUME NEW s \in Specs, UpdateOverlay(o, s) PROVE LeavingInv'
  <2> DEFINE v == [Stored(o) EXCEPT !.rv = @ + 1, !.spec = s]
  <2>1. v \in Version
    BY <1>2, NextRv, OverlaySpecsAssumption, Zenon DEF Version
  <2>2. v.phase = Stored(o).phase /\ v.finalizer = Stored(o).finalizer
    BY <1>2 DEF Version
  <2>3. Write(o, v)
    BY <1>6 DEF UpdateOverlay
  <2> HIDE DEF v
  <2>4. ~v.finalizer => v.phase # "terminating"
    BY <1>2, <2>2 DEF EntryOK
  <2> QED BY <1>4, <2>1, <2>2, <2>3, <2>4, WriteLeaving
<1>7. ASSUME DeleteOverlay(o), Stored(o).finalizer PROVE LeavingInv'
  <2> DEFINE v == [Stored(o) EXCEPT !.rv = @ + 1, !.phase = "terminating"]
  <2>1. v \in Version
    BY <1>2, NextRv, Zenon DEF Version
  <2>2. v.phase = "terminating" /\ v.finalizer = Stored(o).finalizer
    BY <1>2 DEF Version
  <2>3. Write(o, v)
    BY <1>7 DEF DeleteOverlay
  <2> HIDE DEF v
  <2> QED BY <1>4, <1>7, <2>1, <2>2, <2>3, WriteLeaving
<1>8. ASSUME DeleteOverlay(o), ~Stored(o).finalizer PROVE LeavingInv'
  <2> DEFINE v == Absent(Stored(o).rv + 1)
  <2>1. v \in Version
    BY <1>2, SpecTypes
  <2>2. v.phase = "absent" /\ v.finalizer = FALSE
    BY DEF Absent
  <2>3. Write(o, v) /\ Stored(o).finalizer = FALSE
    BY <1>2, <1>8 DEF DeleteOverlay, Version
  <2> HIDE DEF v
  <2> QED BY <1>4, <2>1, <2>2, <2>3, WriteLeaving
<1> QED BY <1>5, <1>6, <1>7, <1>8

LEMMA FinalizerLeaving ==
    ASSUME IndInv, LeavingInv, AddFinalizer \/ RemoveFinalizer
    PROVE  LeavingInv'
<1>1. UNCHANGED <<works, leaving>> /\ pc' \notin {"delete", "release"}
  BY DEF AddFinalizer, RemoveFinalizer, ReplyLost, ReturnError, Idle
<1>2. pc \in {"claim", "release"} /\ Stored(req).rv = obj.rv
  BY DEF AddFinalizer, RemoveFinalizer
<1>3. /\ req \in Overlays /\ obj \in Version /\ obj.rv \in Nat
      /\ obj = Stored(req) /\ Len(log[req]) = 1
      /\ log[req][1] = obj /\ EntryOK(obj)
  BY <1>2, AcceptedUpdate
<1>4. PICK o \in Overlays : o = req
  BY <1>3
<1>5. CASE AddFinalizer
  <2> DEFINE v == [obj EXCEPT !.finalizer = TRUE, !.rv = @ + 1]
  <2>1. v \in Version
    BY <1>3, NextRv, Zenon DEF Version
  <2>2. v.phase = Stored(o).phase /\ v.finalizer
    BY <1>3, <1>4 DEF Version
  <2>3. Write(o, v)
    BY <1>4, <1>5 DEF AddFinalizer
  <2> HIDE DEF v
  <2> QED BY <1>1, <2>1, <2>2, <2>3, WriteLeaving
<1>6. CASE RemoveFinalizer
  <2> DEFINE v == Absent(obj.rv + 1)
  <2>1. pc = "release" /\ obj.phase = "terminating"
    BY <1>6 DEF RemoveFinalizer, IndInv, DeleteOK
  <2>2. v \in Version
    BY <1>3, NextRv, SpecTypes
  <2>3. v.phase = "absent"
    BY DEF Absent
  <2>4. Write(o, v)
    BY <1>4, <1>6, <2>1 DEF RemoveFinalizer, WithoutFinalizer
  <2>5. Len(log[o]) = 1 /\ NoWorkOf(o, log[o][1])
    BY <1>3, <1>4, <2>1 DEF IndInv, ProgressOK, NoWorkOf, NodeNames
  <2> HIDE DEF v
  <2> QED BY <1>1, <2>2, <2>3, <2>4, <2>5, WriteLeaving
<1> QED BY <1>5, <1>6

\* A step that writes nothing, and that starts no deletion.
LEMMA QuietLeaving ==
    ASSUME LeavingInv, UNCHANGED <<log, works>>, leaving' \subseteq leaving,
           pc' \notin {"delete", "release"} \/ UNCHANGED <<pc, req, obj>>
    PROVE  LeavingInv'
<1>1. SeenOK'
  BY DEF LeavingInv, SeenOK, NoWorkOf, NodeNames, WorkKey, Stored
<1>2. RepeatOK'
  BY DEF LeavingInv, RepeatOK, NoWorkOf, NodeNames, WorkKey, Stored
<1>3. LeavingOK'
  BY DEF LeavingInv, LeavingOK, WorkKey, Stored
<1> QED BY <1>1, <1>2, <1>3 DEF LeavingInv

LEMMA DeliverOverlayLeaving ==
    ASSUME IndInv, LeavingInv, NEW o \in Overlays, DeliverOverlay(o)
    PROVE  LeavingInv'
<1>1. Types
  BY DEF IndInv
<1>2. log[o] \in Seq(Version) /\ Len(log[o]) > 1 /\ log' = [log EXCEPT ![o] = Tail(log[o])]
  BY <1>1 DEF Types, TypeOK, DeliverOverlay
<1>3. UNCHANGED <<works, leaving, pc, req, obj>>
  BY DEF DeliverOverlay, worker
<1>4. log'[o] = Tail(log[o]) /\ \A m \in Overlays : m # o => log'[m] = log[m]
  BY <1>1, <1>2 DEF Types, TypeOK
<1>5. /\ Len(log'[o]) = Len(log[o]) - 1 /\ Len(log[o]) \in Nat
      /\ \A i \in 1..Len(log[o]) - 1 : log'[o][i] = log[o][i + 1]
  BY <1>2, <1>4, TailFacts
<1>6. \A m \in Overlays : Stored(m)' = Stored(m)
  BY <1>1, StoredFrame DEF Informers
<1>7. SeenOK'
  <2> SUFFICES ASSUME NEW m \in Overlays, NEW i \in 1..Len(log'[m]),
                      log'[m][i].phase = "terminating", ~Stored(m).finalizer
               PROVE  i = 1 /\ \A c \in NodeNames(log'[m][1].spec) : works[WorkKey(m, c)] = NoWork
    BY <1>3, <1>6 DEF SeenOK, NoWorkOf, NodeNames, WorkKey
  <2>1. CASE m # o
    BY <1>4, <2>1 DEF LeavingInv, SeenOK, NoWorkOf
  <2>2. CASE m = o
    <3>1. i + 1 \in 1..Len(log[o]) /\ i + 1 # 1 /\ log[o][i + 1].phase = "terminating"
      BY <1>5, <2>2
    <3> QED BY <2>2, <3>1 DEF LeavingInv, SeenOK
  <2> QED BY <2>1, <2>2
<1>8. RepeatOK'
  <2> SUFFICES ASSUME pc \in {"delete", "release"}, ~Stored(req)'.finalizer
               PROVE  NoWorkOf(req, obj)
    BY <1>3 DEF RepeatOK, NoWorkOf, NodeNames, WorkKey, Stored
  <2>1. PICK r \in Overlays : r = req
    BY <1>1 DEF Types, TypeOK
  <2>2. Stored(req)' = Stored(r)'
    BY <1>3, <2>1 DEF Stored
  <2> QED BY <1>6, <2>1, <2>2 DEF LeavingInv, RepeatOK
<1>9. LeavingOK'
  BY <1>3, <1>6 DEF LeavingInv, LeavingOK, WorkKey
<1> QED BY <1>7, <1>8, <1>9 DEF LeavingInv

\* A deletion that starts from a stale copy has nothing left to delete.
LEMMA StartReconcileLeaving ==
    ASSUME IndInv, LeavingInv, NEW o \in Overlays, StartReconcile(o)
    PROVE  LeavingInv'
<1>1. UNCHANGED <<log, works, leaving>>
  BY DEF StartReconcile
<1>2. CASE pc' \notin {"delete", "release"} \/ UNCHANGED <<pc, req, obj>>
  BY <1>1, <1>2, QuietLeaving
<1>3. CASE Cached(o).phase = "terminating" /\ req' = o /\ obj' = Cached(o)
  <2>1. SeenOK'
    BY <1>1 DEF LeavingInv, SeenOK, NoWorkOf, NodeNames, WorkKey, Stored
  <2>2. LeavingOK'
    BY <1>1 DEF LeavingInv, LeavingOK, WorkKey, Stored
  <2>3. ~Stored(o).finalizer => NoWorkOf(o, Cached(o))
    <3>1. 1 \in 1..Len(log[o])
      BY LogTypes DEF IndInv
    <3> QED BY <1>3, <3>1 DEF LeavingInv, SeenOK, Cached
  <2>4. RepeatOK'
    BY <1>1, <1>3, <2>3 DEF RepeatOK, NoWorkOf, NodeNames, WorkKey, Stored
  <2> QED BY <2>1, <2>2, <2>4 DEF LeavingInv
<1> QED BY <1>2, <1>3 DEF StartReconcile, Begin, FirstStep, worker

\* The pass for r writes works of r only, and no deletion is under way.
LEMMA ApplyManifestWorkLeaving ==
    ASSUME IndInv, LeavingInv, DistinctWorkNames, ApplyManifestWork
    PROVE  LeavingInv'
<1>1. Types /\ pc = "apply" /\ Stored(req).finalizer
  BY DEF IndInv, ApplyManifestWork, PlaceOK, Keeps
<1>2. PICK r \in Overlays : r = req
  BY <1>1 DEF Types, TypeOK
<1>3. /\ UNCHANGED <<log, leaving>> /\ pc' \notin {"delete", "release"}
      /\ \/ works' = works
         \/ \E w : works' = [works EXCEPT ![WorkKey(r, obj.spec.nodes[pos].name)] = w]
  BY <1>1, <1>2 DEF ApplyManifestWork, applyWork, NextNode, Idle, ReplyLost, ReturnError
<1>4. \A m \in Overlays : m # r =>
         \A c \in Clusters : works'[WorkKey(m, c)] = works[WorkKey(m, c)]
  BY <1>1, <1>3, OwnKeysOnly
<1>5. SeenOK'
  <2> SUFFICES ASSUME NEW m \in Overlays, NEW i \in 1..Len(log[m]),
                      log[m][i].phase = "terminating", ~Stored(m).finalizer
               PROVE  i = 1 /\ \A c \in NodeNames(log[m][1].spec) : works'[WorkKey(m, c)] = NoWork
    BY <1>3 DEF SeenOK, NoWorkOf, NodeNames, WorkKey, Stored
  <2>1. m # r
    BY <1>1, <1>2
  <2>2. i = 1 /\ \A c \in NodeNames(log[m][1].spec) : works[WorkKey(m, c)] = NoWork
    BY DEF LeavingInv, SeenOK, NoWorkOf
  <2>3. NodeNames(log[m][1].spec) \subseteq Clusters
    BY <1>1, CachedTypes DEF Cached
  <2> QED BY <1>4, <2>1, <2>2, <2>3
<1>6. RepeatOK'
  BY <1>3 DEF RepeatOK
<1>7. LeavingOK'
  BY <1>3 DEF LeavingInv, LeavingOK, WorkKey, Stored
<1> QED BY <1>5, <1>6, <1>7 DEF LeavingInv

\* A work is marked only while its SliceOverlay is stored as being deleted.
LEMMA DeleteManifestWorkLeaving ==
    ASSUME IndInv, LeavingInv, DistinctWorkNames, DeleteManifestWork
    PROVE  LeavingInv'
<1> DEFINE k0 == WorkKey(req, obj.spec.nodes[pos].name)
<1>1. Types /\ DeleteOK /\ pc = "delete"
  BY DEF IndInv, DeleteManifestWork
<1>2. /\ works' = [works EXCEPT ![k0] = NoWork] /\ UNCHANGED log
      /\ leaving' = leaving \/ (works[k0] # NoWork /\ leaving' = leaving \cup {k0})
  BY DEF DeleteManifestWork, deleteWork
<1>3. /\ req \in Overlays /\ pos \in 1..Len(obj.spec.nodes)
      /\ obj.spec.nodes[pos].name \in NodeNames(obj.spec)
  <2>1. pos \in 1..Len(obj.spec.nodes)
    BY <1>1 DEF DeleteManifestWork, Types, TypeOK
  <2> QED BY <1>1, <2>1, WorkKeyType, CopyTypes
<1>4. \A k \in WorkKeys : works[k] = NoWork => works'[k] = NoWork
  BY <1>1, <1>2 DEF Types, TypeOK
<1>5. SeenOK'
  <2> SUFFICES ASSUME NEW m \in Overlays, NEW i \in 1..Len(log[m]),
                      log[m][i].phase = "terminating", ~Stored(m).finalizer
               PROVE  i = 1 /\ \A c \in NodeNames(log[m][1].spec) : works'[WorkKey(m, c)] = NoWork
    BY <1>2 DEF SeenOK, NoWorkOf, NodeNames, WorkKey, Stored
  <2>1. i = 1 /\ \A c \in NodeNames(log[m][1].spec) : works[WorkKey(m, c)] = NoWork
    BY DEF LeavingInv, SeenOK, NoWorkOf
  <2>2. \A c \in NodeNames(log[m][1].spec) : WorkKey(m, c) \in WorkKeys
    BY <1>1, CachedTypes DEF Cached
  <2> QED BY <1>4, <2>1, <2>2
<1>6. ASSUME ReplyLost PROVE RepeatOK'
  <2>1. pc' = "idle"
    BY <1>6 DEF ReplyLost, ReturnError, Idle
  <2> QED BY <2>1 DEF RepeatOK
<1>7. RepeatOK'
  <2>1. CASE UNCHANGED <<req, obj>>
    <3> SUFFICES ASSUME ~Stored(req).finalizer, NEW c \in NodeNames(obj.spec)
                 PROVE  works'[WorkKey(req, c)] = NoWork
      BY <1>2, <2>1 DEF RepeatOK, NoWorkOf, NodeNames, WorkKey, Stored
    <3>1. works[WorkKey(req, c)] = NoWork
      BY <1>1 DEF LeavingInv, RepeatOK, NoWorkOf
    <3>2. WorkKey(req, c) \in WorkKeys
      BY <1>1, WorkKeyType DEF NodeNames
    <3> QED BY <1>4, <3>1, <3>2
  <2> QED BY <1>6, <2>1 DEF DeleteManifestWork, NextNode, worker
<1>8. LeavingOK'
  <2> SUFFICES ASSUME NEW m \in Overlays, NEW c \in Clusters, WorkKey(m, c) \in leaving'
               PROVE  Stored(m).phase # "live"
    BY <1>2 DEF LeavingOK, WorkKey, Stored
  <2>1. CASE WorkKey(m, c) \in leaving
    BY <2>1 DEF LeavingInv, LeavingOK
  <2>2. CASE WorkKey(m, c) = k0 /\ works[k0] # NoWork
    <3>1. m = req
      BY <1>3, <2>2, KeysApart
    <3>2. Stored(req).finalizer
      BY <1>1, <1>3, <2>2 DEF LeavingInv, RepeatOK, NoWorkOf
    <3>3. Stored(req).phase = "terminating"
      BY <1>1, <3>2 DEF DeleteOK
    <3> QED BY <3>1, <3>3
  <2> QED BY <1>2, <2>1, <2>2
<1> QED BY <1>5, <1>7, <1>8 DEF LeavingInv

\* A manager that starts or stops reads the stored versions again.
LEMMA FreshLeaving ==
    ASSUME IndInv, LeavingInv, FreshCaches, UNCHANGED works, leaving' = leaving,
           pc' \notin {"delete", "release"}
    PROVE  LeavingInv'
<1>1. Types /\ LogsOK
  BY DEF IndInv
<1>2. \A o \in Overlays : log'[o] = <<Stored(o)>> /\ Stored(o)' = Stored(o)
  BY <1>1, FreshCachesFacts DEF FreshCaches
<1>3. SeenOK'
  <2> SUFFICES ASSUME NEW o \in Overlays, NEW i \in 1..Len(log'[o]),
                      log'[o][i].phase = "terminating"
               PROVE  Stored(o).finalizer
    BY <1>2 DEF SeenOK
  <2>1. Len(<<Stored(o)>>) = 1 /\ <<Stored(o)>>[1] = Stored(o)
    OBVIOUS
  <2>2. log'[o][i] = Stored(o)
    BY <1>2, <2>1
  <2> QED BY <1>1, <2>2, CachedBeforeStored DEF EntryOK
<1>4. RepeatOK'
  BY DEF RepeatOK
<1>5. LeavingOK'
  BY <1>2 DEF LeavingInv, LeavingOK, WorkKey
<1> QED BY <1>3, <1>4, <1>5 DEF LeavingInv

LEMMA ManagerLeaving ==
    ASSUME IndInv, LeavingInv, Stop \/ StartManager
    PROVE  LeavingInv'
<1>1. IndInv /\ StartManager => pc = "idle"
  BY DEF IndInv, Types, TypeOK, StartManager
<1> QED BY <1>1, FreshLeaving DEF Stop, Idle, StartManager

LEMMA InitLeavingInv == Init => LeavingInv
<1> SUFFICES ASSUME Init PROVE LeavingInv
  OBVIOUS
<1>1. ASSUME NEW o \in Overlays, NEW i \in 1..Len(log[o])
      PROVE  log[o][i].phase # "terminating"
  BY DEF Init, Absent
<1> QED BY <1>1 DEF Init, LeavingInv, SeenOK, RepeatOK, LeavingOK

LEMMA NextLeavingInv ==
    ASSUME ~RecreatesEarly, DistinctWorkNames, IndInv, LeavingInv, [Next]_vars
    PROVE  LeavingInv'
<1>1. CASE \E o \in Overlays :
              \/ \E s \in Specs : CreateOverlay(o, s) \/ UpdateOverlay(o, s)
              \/ DeleteOverlay(o)
  BY <1>1, UserLeaving
<1>2. CASE \E o \in Overlays : DeliverOverlay(o)
  BY <1>2, DeliverOverlayLeaving
<1>3. CASE \E o \in Overlays : StartReconcile(o)
  BY <1>3, StartReconcileLeaving
<1>4. CASE \/ \E p \in EditableProfiles, v \in Providers \cup {NoProvider} : WriteProfile(p, v)
           \/ \E c \in Clusters, a \in IPAddresses \cup {Empty} : MoveCluster(c, a)
           \/ \E p \in NamespacedName : \/ DeliverProfile(p) \/ requestsForProviderProfile(p)
                                        \/ requestsListError(p)
           \/ \E k \in WorkKeys : Expire(k)
           \/ UNCHANGED vars
  <2>1. UNCHANGED <<log, works, pc, req, obj>> /\ leaving' \subseteq leaving
    BY <1>4 DEF WriteProfile, MoveCluster, DeliverProfile, requestsForProviderProfile,
                requestsListError, Expire, vars, worker
  <2> QED BY <2>1, QuietLeaving
<1>5. CASE ResolveProvider \/ ResolveAddress \/ UpdateRefused \/ CallFails \/ RestDeleteSlice
  <2>1. /\ UNCHANGED <<log, works, leaving>>
        /\ pc' \notin {"delete", "release"} \/ UNCHANGED <<pc, req, obj>>
    BY <1>5 DEF ResolveProvider, ResolveAddress, NoEndpoint, UpdateRefused, CallFails,
                RestDeleteSlice, ReplyLost, ReturnError, Idle
  <2> QED BY <2>1, QuietLeaving
<1>6. CASE \E t \in ClientTypes : Redeploy(t)
  <2>1. CASE Stop
    BY <2>1, ManagerLeaving
  <2>2. CASE UNCHANGED <<log, pc, worker, works, leaving>>
    BY <2>2, QuietLeaving DEF worker
  <2> QED BY <1>6, <2>1, <2>2 DEF Redeploy
<1>7. CASE Crash \/ StartManager
  BY <1>7, ManagerLeaving DEF Crash
<1> QED BY <1>1, <1>2, <1>3, <1>4, <1>5, <1>6, <1>7, FinalizerLeaving,
           ApplyManifestWorkLeaving, DeleteManifestWorkLeaving
           DEF Next, Users, Informers, ReconcileStep

-----------------------------------------------------------------------------
(* Every step keeps the wake-ups: users, informers and handlers. *)

LEMMA WriteLengthens ==
    ASSUME Types, NEW o \in Overlays, NEW v, Write(o, v)
    PROVE  /\ Len(log'[o]) > 1
           /\ \A m \in Overlays : m # o => log'[m] = log[m]
<1>1. log[o] \in Seq(Version) /\ log[o] # << >> /\ log' = [log EXCEPT ![o] = Append(log[o], v)]
  BY DEF Types, TypeOK, Write
<1>2. Len(Append(log[o], v)) = Len(log[o]) + 1 /\ Len(log[o]) \in Nat /\ Len(log[o]) >= 1
  BY <1>1
<1>3. log'[o] = Append(log[o], v) /\ \A m \in Overlays : m # o => log'[m] = log[m]
  BY <1>1 DEF Types, TypeOK
<1> QED BY <1>2, <1>3

LEMMA UserWriteWakes ==
    ASSUME IndInv, Woken, NEW o \in Overlays, NEW v, Write(o, v), OverlayEditOnly
    PROVE  Woken'
<1>1. Types
  BY DEF IndInv
<1>2. Len(log'[o]) > 1 /\ \A m \in Overlays : m # o => log'[m] = log[m]
  BY <1>1, WriteLengthens
<1>3. UNCHANGED <<plog, profileEvents, queue, pc, worker, works, MDClient>>
  BY DEF OverlayEditOnly, process
<1>4. Waiting(o)'
  BY <1>2 DEF Waiting
<1>5. ASSUME NEW m \in Overlays, m # o
      PROVE  \/ Waiting(m)'
             \/ /\ ~Waiting(m) /\ Cached(m)' = Cached(m)
                /\ CachedProvider(m)' = CachedProvider(m)
  <2>1. log'[m] = log[m]
    BY <1>2, <1>5
  <2>2. Cached(m)' = Cached(m) /\ CachedProvider(m)' = CachedProvider(m)
    BY <1>3, <2>1 DEF Cached, CachedProvider, CachedProfiles
  <2>3. Waiting(m)' <=> Waiting(m)
    BY <1>3, <2>1, <2>2 DEF Waiting
  <2> QED BY <2>2, <2>3
<1> QED BY <1>3, <1>4, <1>5, InputStep

LEMMA SameInputsWake ==
    ASSUME IndInv, Woken, CachedProfiles' = CachedProfiles,
           UNCHANGED <<log, profileEvents, queue, pc, worker, works, MDClient>>
    PROVE  Woken'
<1>1. \A o \in Overlays : Cached(o)' = Cached(o) /\ CachedProvider(o)' = CachedProvider(o)
  BY DEF Cached, CachedProvider
<1>2. \A o \in Overlays : Waiting(o)' <=> Waiting(o)
  BY <1>1 DEF Waiting
<1> QED BY <1>1, <1>2, InputStep

LEMMA WriteProfileWakes ==
    ASSUME IndInv, Woken, NEW p \in EditableProfiles,
           NEW v \in Providers \cup {NoProvider}, WriteProfile(p, v)
    PROVE  Woken'
<1>1. Types /\ p \in NamespacedName
  BY OverlayKeysAssumption DEF IndInv
<1>2. UNCHANGED <<log, profileEvents, queue, pc, worker, works, MDClient>>
  BY DEF WriteProfile, process
<1>3. /\ plog[p] \in Seq(Providers \cup {NoProvider}) /\ plog[p] # << >>
      /\ plog' = [plog EXCEPT ![p] = Append(plog[p], v)]
  BY <1>1 DEF Types, TypeOK, WriteProfile
<1>4. Append(plog[p], v)[1] = plog[p][1]
  BY <1>3
<1>5. \A q \in NamespacedName : plog'[q][1] = plog[q][1]
  BY <1>1, <1>3, <1>4 DEF Types, TypeOK
<1>6. CachedProfiles' = CachedProfiles
  BY <1>5 DEF CachedProfiles
<1> QED BY <1>2, <1>6, SameInputsWake

LEMMA DeliverOverlayWakes ==
    ASSUME IndInv, Woken, NEW o \in Overlays, DeliverOverlay(o)
    PROVE  Woken'
<1>1. Types
  BY DEF IndInv
<1>2. /\ UNCHANGED <<plog, profileEvents, pc, worker, works, MDClient>>
      /\ queue' = queue \cup {o}
      /\ \A m \in Overlays : m # o => log'[m] = log[m]
  BY <1>1 DEF DeliverOverlay, Types, TypeOK, process
<1>3. Waiting(o)'
  BY <1>2 DEF Waiting
<1>4. ASSUME NEW m \in Overlays, m # o
      PROVE  \/ Waiting(m)'
             \/ /\ ~Waiting(m) /\ Cached(m)' = Cached(m)
                /\ CachedProvider(m)' = CachedProvider(m)
  <2>1. Cached(m)' = Cached(m) /\ CachedProvider(m)' = CachedProvider(m)
    BY <1>2, <1>4 DEF Cached, CachedProvider, CachedProfiles
  <2>2. Waiting(m) => Waiting(m)'
    BY <1>2, <1>4, <2>1 DEF Waiting
  <2> QED BY <2>1, <2>2
<1> QED BY <1>2, <1>3, <1>4, InputStep

\* The cached profile changes and with it the providers of the SliceOverlays
\* that the event concerns, and of no others.
LEMMA DeliverProfileWakes ==
    ASSUME IndInv, Woken, NEW p \in NamespacedName, DeliverProfile(p)
    PROVE  Woken'
<1>1. Types
  BY DEF IndInv
<1>2. /\ UNCHANGED <<log, queue, pc, worker, works, MDClient>>
      /\ profileEvents' = profileEvents \cup {p}
      /\ plog[p] \in Seq(Providers \cup {NoProvider}) /\ Len(plog[p]) > 1
      /\ plog' = [plog EXCEPT ![p] = Tail(plog[p])]
  BY <1>1 DEF DeliverProfile, Types, TypeOK, process
<1>3. Tail(plog[p])[1] \in Providers \cup {NoProvider}
  BY <1>2
<1>4. PICK v \in Providers \cup {NoProvider} : v = Tail(plog[p])[1]
  BY <1>3
<1>5. CachedProfiles' = [CachedProfiles EXCEPT ![p] = v]
  BY <1>1, <1>2, <1>4 DEF CachedProfiles, Types, TypeOK
<1>6. ASSUME NEW o \in Overlays
      PROVE  \/ Waiting(o)'
             \/ /\ ~Waiting(o) /\ Cached(o)' = Cached(o)
                /\ Cached(o).phase # "absent" =>
                     CachedProvider(o)' = CachedProvider(o)
  <2>1. Cached(o)' = Cached(o)
    BY <1>2 DEF Cached
  <2>2. Waiting(o) => Waiting(o)'
    BY <1>2, <2>1 DEF Waiting
  <2>3. CASE Cached(o).phase # "absent" /\ CachedProvider(o)' # CachedProvider(o)
    <3>1. concernsProfile(p, o.namespace, Cached(o).spec)
      BY <1>1, <1>5, <2>1, <2>3, CachedTypes, WatchCoversResolution DEF CachedProvider
    <3>2. p \in profileEvents'
      BY <1>2
    <3> QED BY <2>1, <2>3, <3>1, <3>2 DEF Waiting
  <2> QED BY <2>1, <2>2, <2>3
<1> QED BY <1>2, <1>6, InputStep

\* An event is handled: its SliceOverlays are requested instead.
LEMMA HandlerWakes ==
    ASSUME IndInv, Woken, NEW p \in NamespacedName, requestsForProviderProfile(p)
    PROVE  Woken'
<1>1. /\ UNCHANGED <<log, plog, pc, worker, works, MDClient>>
      /\ profileEvents' = profileEvents \ {p}
      /\ queue' = queue \cup {o \in Overlays :
                                /\ Cached(o).phase # "absent"
                                /\ concernsProfile(p, o.namespace, Cached(o).spec)}
  BY DEF requestsForProviderProfile, process
<1>2. \A o \in Overlays : Cached(o)' = Cached(o) /\ CachedProvider(o)' = CachedProvider(o)
  BY <1>1 DEF Cached, CachedProvider, CachedProfiles
<1>3. ASSUME NEW o \in Overlays, Waiting(o) PROVE Waiting(o)'
  <2>1. CASE o \in queue \/ Len(log[o]) > 1
    BY <1>1, <2>1 DEF Waiting
  <2>2. CASE Cached(o).phase # "absent"
             /\ \E q \in profileEvents : concernsProfile(q, o.namespace, Cached(o).spec)
    <3>1. PICK q \in profileEvents : concernsProfile(q, o.namespace, Cached(o).spec)
      BY <2>2
    <3>2. CASE q = p
      BY <1>1, <2>2, <3>1, <3>2 DEF Waiting
    <3>3. CASE q # p
      BY <1>1, <1>2, <2>2, <3>1, <3>3 DEF Waiting
    <3> QED BY <3>2, <3>3
  <2> QED BY <1>3, <2>1, <2>2 DEF Waiting
<1> QED BY <1>1, <1>2, <1>3, InputStep

-----------------------------------------------------------------------------
(* Every step keeps the wake-ups: Reconcile. *)

LEMMA StartReconcileWakes ==
    ASSUME IndInv, Woken, NEW o \in Overlays, StartReconcile(o)
    PROVE  Woken'
<1>1. Types /\ LogsOK /\ pc = "idle" /\ req = NoRequest
  BY DEF IndInv, StartReconcile, Types, TypeOK
<1>2. UNCHANGED <<log, plog, profileEvents, works, MDClient>> /\ queue' = queue \ {o}
  BY DEF StartReconcile, process
<1>3. MDClient # "none"
  BY <1>1 DEF StartReconcile, Types, TypeOK
<1>4. \A m \in Overlays : Cached(m)' = Cached(m) /\ CachedProvider(m)' = CachedProvider(m)
  BY <1>2 DEF Cached, CachedProvider, CachedProfiles
<1>5. ASSUME NEW m \in Overlays, m # o
      PROVE  Waiting(m)' \/ (Cached(m).phase = "absent")' \/ Done(m)'
  <2>1. m # NoRequest
    BY OverlayKeysAssumption
  <2>2. Waiting(m) \/ Cached(m).phase = "absent" \/ Done(m)
    BY <1>1, <1>3, <2>1 DEF Woken, NotifiedOK
  <2>3. Waiting(m) => Waiting(m)'
    BY <1>2, <1>4, <1>5 DEF Waiting
  <2> QED BY <1>1, <1>2, <1>4, <2>2, <2>3, DoneFrame
<1>6. CASE Cached(o).phase = "absent" /\ UNCHANGED <<pc, worker>>
  BY <1>1, <1>4, <1>5, <1>6 DEF Woken, NotifiedOK, PassOK
<1>7. CASE /\ pc' \in {"delete", "release", "claim"}
              \/ (pc' = "resolve" /\ Claims(Cached(o)))
           /\ req' = o /\ obj' = Cached(o)
  <2>1. NotifiedOK'
    BY <1>5, <1>7 DEF NotifiedOK
  <2>2. PassOK'
    <3>1. obj' = Cached(req)'
      BY <1>4, <1>7
    <3> QED BY <1>7, <3>1 DEF PassOK, Claims
  <2> QED BY <2>1, <2>2 DEF Woken
<1>8. Cached(o).phase # "live" /\ ~Cached(o).finalizer => Cached(o).phase = "absent"
  BY <1>1, LogTypes, CachedBeforeStored DEF EntryOK, Version
<1> QED BY <1>6, <1>7, <1>8 DEF StartReconcile, Begin, FirstStep, Claims

\* A pass that ends in an error is repeated.
LEMMA ErrorWakes ==
    ASSUME IndInv, Woken, pc # "idle", ReturnError,
           UNCHANGED <<plog, profileEvents, MDClient>>,
           \A m \in Overlays : m # req => log'[m] = log[m],
           \A m \in Overlays : m # req =>
              \A c \in Clusters : works'[WorkKey(m, c)] = works[WorkKey(m, c)]
    PROVE  Woken'
<1>1. PICK r \in Overlays : r = req
  BY DEF IndInv, Types, TypeOK
<1>2. Waiting(r)' /\ queue \subseteq queue'
  BY <1>1 DEF ReturnError, Waiting
<1>3. PassOK'
  BY DEF ReturnError, Idle, PassOK
<1> QED BY <1>1, <1>2, <1>3, OthersStep

LEMMA AddFinalizerWakes ==
    ASSUME IndInv, Woken, AddFinalizer
    PROVE  Woken'
<1> DEFINE v == [obj EXCEPT !.finalizer = TRUE, !.rv = @ + 1]
<1>1. Types /\ pc = "claim" /\ obj \in Version
  BY DEF IndInv, AddFinalizer, Types, TypeOK
<1>2. PICK r \in Overlays : r = req
  BY <1>1 DEF Types, TypeOK
<1>3. /\ Write(r, v) /\ UNCHANGED <<plog, profileEvents, works, MDClient>>
      /\ \/ pc' = "resolve" /\ obj' = v /\ UNCHANGED <<req, queue>>
         \/ ReplyLost
  BY <1>2 DEF AddFinalizer, process
<1>4. obj.phase = "live"
  BY <1>1 DEF IndInv, ClaimOK
<1>5. Claims(v)
  BY <1>1, <1>4 DEF Claims, Version
<1> HIDE DEF v
<1>6. Len(log'[r]) > 1 /\ \A m \in Overlays : m # r => log'[m] = log[m]
  BY <1>1, <1>3, WriteLengthens
<1>7. Waiting(r)'
  BY <1>6 DEF Waiting
<1>8. CASE ReplyLost
  BY <1>1, <1>2, <1>3, <1>6, <1>8, ErrorWakes DEF ReplyLost
<1>9. CASE pc' = "resolve" /\ obj' = v /\ UNCHANGED <<req, queue>>
  <2>1. PassOK'
    <3>1. Waiting(req)'
      BY <1>2, <1>7, <1>9
    <3> QED BY <1>5, <1>9, <3>1 DEF PassOK, Claims
  <2> QED BY <1>2, <1>3, <1>6, <1>7, <1>9, <2>1, OthersStep
<1> QED BY <1>3, <1>8, <1>9

LEMMA RemoveFinalizerWakes ==
    ASSUME IndInv, Woken, RemoveFinalizer
    PROVE  Woken'
<1>1. Types /\ pc = "release"
  BY DEF IndInv, RemoveFinalizer
<1>2. PICK r \in Overlays : r = req
  BY <1>1 DEF Types, TypeOK
<1>3. /\ Write(r, WithoutFinalizer(obj)) /\ UNCHANGED <<plog, profileEvents, works, MDClient>>
      /\ Idle /\ queue \subseteq queue'
  BY <1>2 DEF RemoveFinalizer, ReplyLost, ReturnError, process
<1>4. Len(log'[r]) > 1 /\ \A m \in Overlays : m # r => log'[m] = log[m]
  BY <1>1, <1>3, WriteLengthens
<1>5. Waiting(r)'
  BY <1>4 DEF Waiting
<1>6. PassOK'
  BY <1>3 DEF Idle, PassOK
<1> QED BY <1>2, <1>3, <1>4, <1>5, <1>6, OthersStep

\* The provider of the caches; a slice without clusters is done with it.
LEMMA ResolveProviderWakes ==
    ASSUME IndInv, Woken, ResolveProvider
    PROVE  Woken'
<1> DEFINE p == resolveProvider(CachedProfiles, req.namespace, obj.spec)
<1>1. Types /\ pc = "resolve"
  BY DEF IndInv, ResolveProvider
<1>2. PICK r \in Overlays : r = req
  BY <1>1 DEF Types, TypeOK
<1>3. UNCHANGED <<log, plog, profileEvents, works, MDClient>>
  BY DEF ResolveProvider, process
<1>4. /\ Cached(r)' = Cached(r) /\ CachedProvider(r)' = CachedProvider(r)
      /\ queue' = queue => (Waiting(r)' <=> Waiting(r))
  BY <1>3 DEF Cached, CachedProvider, CachedProfiles, Waiting
<1>5. Claims(obj) /\ (Waiting(r) \/ obj = Cached(r))
  BY <1>1, <1>2 DEF Woken, PassOK
<1>6. CASE ReturnError
  BY <1>1, <1>3, <1>6, ErrorWakes
<1>7. CASE obj.spec.nodes = << >> /\ Idle /\ queue' = queue
  <2>1. PassOK'
    BY <1>7 DEF Idle, PassOK
  <2>2. Waiting(r) => Waiting(r)'
    BY <1>4, <1>7
  <2>3. obj = Cached(r) => Done(r)'
    <3> SUFFICES ASSUME obj = Cached(r) PROVE Done(r)'
      OBVIOUS
    <3>1. Cached(r)' = obj /\ Cached(r)'.finalizer
      BY <1>4, <1>5 DEF Claims
    <3>2. PICK s : s = obj.spec
      OBVIOUS
    <3>3. s.nodes = << >> /\ Cached(r)'.spec = s
      BY <1>7, <3>1, <3>2
    <3>4. NodeNames(s) = {} /\ \A a : Addressed(s, a)
      BY <3>3 DEF NodeNames, Addressed
    <3>5. clusterMaps \in [Clusters -> IPAddresses \cup {Empty}]
      BY <1>1 DEF Types, TypeOK
    <3> QED BY <3>1, <3>3, <3>4, <3>5 DEF Done
  <2> QED BY <1>2, <1>3, <1>5, <1>7, <2>1, <2>2, <2>3, OthersStep
<1>8. CASE prov' = p /\ pc' = "address" /\ UNCHANGED <<req, obj, queue>>
  <2>1. obj = Cached(r) => p = CachedProvider(r)
    BY <1>2 DEF CachedProvider
  <2>2. /\ Cached(req)' = Cached(r)' /\ CachedProvider(req)' = CachedProvider(r)'
        /\ Waiting(req)' = Waiting(r)'
    BY <1>2, <1>8
  <2> HIDE DEF p
  <2>3. PassOK'
    BY <1>4, <1>5, <1>8, <2>1, <2>2 DEF PassOK, Claims
  <2> QED BY <1>2, <1>3, <1>8, <2>3, OthersStep
<1> QED BY <1>6, <1>7, <1>8 DEF ResolveProvider

LEMMA ResolveAddressWakes ==
    ASSUME IndInv, Woken, ResolveAddress
    PROVE  Woken'
<1>1. Types /\ pc = "address"
  BY DEF IndInv, ResolveAddress
<1>2. PICK r \in Overlays : r = req
  BY <1>1 DEF Types, TypeOK
<1>3. UNCHANGED <<log, plog, profileEvents, works, MDClient>>
  BY DEF ResolveAddress, process
<1>4. /\ Cached(r)' = Cached(r) /\ CachedProvider(r)' = CachedProvider(r)
      /\ queue' = queue => (Waiting(r)' <=> Waiting(r))
  BY <1>3 DEF Cached, CachedProvider, CachedProfiles, Waiting
<1>5. /\ Claims(obj)
      /\ Waiting(r) \/ (obj = Cached(r) /\ prov = CachedProvider(r))
  BY <1>1, <1>2 DEF Woken, PassOK
<1>6. CASE ReturnError
  BY <1>1, <1>3, <1>6, ErrorWakes
<1>7. CASE /\ pc' = "address" \/ (pc' = "apply" /\ pos' = 1)
           /\ UNCHANGED <<req, obj, prov, queue>>
  <2>1. /\ Cached(req)' = Cached(r)' /\ CachedProvider(req)' = CachedProvider(r)'
        /\ Waiting(req)' = Waiting(r)'
    BY <1>2, <1>7
  <2>2. pc' = "apply" => \A i \in 1..Len(obj'.spec.nodes) : ~(i < pos')
    BY <1>7
  <2>3. PassOK'
    BY <1>4, <1>5, <1>7, <2>1, <2>2 DEF PassOK, Claims
  <2> QED BY <1>2, <1>3, <1>7, <2>3, OthersStep
<1> QED BY <1>1, <1>6, <1>7 DEF ResolveAddress, NoEndpoint

\* The last cluster of a pass that nothing overtook: all of them are placed.
LEMMA ApplyManifestWorkWakes ==
    ASSUME IndInv, LeavingInv, Woken, GatewaysOK, ListsOK, DistinctWorkNames,
           ApplyManifestWork
    PROVE  Woken'
<1> DEFINE N == Len(obj.spec.nodes)
           name(i) == obj.spec.nodes[i].name
           Key(i) == WorkKey(req, name(i))
           w(i) == DesiredWork(req, obj.spec, clusterMaps, prov, name(i))
<1>1. Types /\ pc = "apply"
  BY DEF IndInv, ApplyManifestWork
<1>2. PICK r \in Overlays : r = req
  BY <1>1 DEF Types, TypeOK
<1>3. /\ works' = IF Key(pos) \in leaving THEN works ELSE [works EXCEPT ![Key(pos)] = w(pos)]
      /\ UNCHANGED <<log, plog, profileEvents, MDClient>>
      /\ \/ pos = N /\ Idle /\ queue' = queue
         \/ pos # N /\ NextNode /\ queue' = queue
         \/ ReplyLost
  BY DEF ApplyManifestWork, applyWork, Collected, LastNode, process
<1>4. \A m \in Overlays : m # r =>
         \A c \in Clusters : works'[WorkKey(m, c)] = works[WorkKey(m, c)]
  BY <1>1, <1>2, <1>3, OwnKeysOnly
<1>5. /\ Cached(r)' = Cached(r) /\ CachedProvider(r)' = CachedProvider(r)
      /\ queue' = queue => (Waiting(r)' <=> Waiting(r))
  BY <1>3 DEF Cached, CachedProvider, CachedProfiles, Waiting
<1>6. /\ Claims(obj)
      /\ \/ Waiting(r)
         \/ /\ obj = Cached(r) /\ prov = CachedProvider(r)
            /\ \A i \in 1..N : i < pos => works[Key(i)] = w(i)
  BY <1>1, <1>2 DEF Woken, PassOK
<1>7. N \in Nat /\ pos \in 1..N /\ \A i \in 1..N : Key(i) \in WorkKeys
  BY <1>1, AppliedWork, WorkKeyType
<1>8. works \in [WorkKeys -> OverlayWork \cup {NoWork}]
  BY <1>1 DEF Types, TypeOK
<1>9. \A i \in 1..N : i # pos => Key(i) # Key(pos)
  BY <1>7 DEF ListsOK, ListsOnce, WorkKey
<1>10. /\ clusterMaps \in [Clusters -> IPAddresses \cup {Empty}]
       /\ \A i \in 1..N : clusterMaps[name(i)] # Empty
       /\ \A i \in 1..N : obj.spec.nodes[i].gateway \in {Empty, clusterMaps[name(i)]}
  BY <1>1 DEF Types, TypeOK, NodeNames, GatewaysOK
<1>11. ~Waiting(r) => works' = [works EXCEPT ![Key(pos)] = w(pos)]
  <2> SUFFICES ASSUME ~Waiting(r) PROVE Key(pos) \notin leaving
    BY <1>3
  <2>1. Stored(r) = Cached(r)
    <3>1. Len(log[r]) \in Nat /\ Len(log[r]) >= 1 /\ ~(1 < Len(log[r]))
      BY <1>1, LogTypes DEF Waiting
    <3>2. \A k \in Nat : k >= 1 => k = 1 \/ 1 < k
      OBVIOUS
    <3>3. Len(log[r]) = 1
      BY <3>1, <3>2, Zenon
    <3> QED BY <3>3 DEF Stored, Cached
  <2>2. Stored(r).phase = "live"
    BY <1>6, <2>1 DEF Claims
  <2>3. name(pos) \in Clusters
    BY <1>1, <1>7, CopyTypes
  <2> QED BY <1>2, <2>2, <2>3 DEF LeavingInv, LeavingOK
<1> HIDE DEF w, Key
<1>12. ~Waiting(r) => \A i \in 1..N : i <= pos => works'[Key(i)] = w(i)
  <2> SUFFICES ASSUME ~Waiting(r), NEW i \in 1..N, i <= pos
               PROVE  works'[Key(i)] = w(i)
    OBVIOUS
  <2>1. CASE i = pos
    BY <1>11, <1>7, <1>8, <2>1
  <2>2. CASE i # pos
    <3>1. i < pos
      BY <1>7, <2>2
    <3>2. works[Key(i)] = w(i)
      BY <1>6, <3>1
    <3> QED BY <1>11, <1>7, <1>8, <1>9, <2>2, <3>2
  <2> QED BY <2>1, <2>2
<1>13. CASE ReplyLost
  BY <1>1, <1>2, <1>3, <1>4, <1>13, ErrorWakes DEF ReplyLost
<1>14. CASE pos = N /\ Idle /\ queue' = queue
  <2>1. PassOK'
    BY <1>14 DEF Idle, PassOK
  <2>2. Waiting(r)' \/ Done(r)'
    <3> SUFFICES ASSUME ~Waiting(r) PROVE Done(r)'
      BY <1>5, <1>14
    <3>1. PICK s, p, a : s = obj.spec /\ p = prov /\ a = clusterMaps /\ p \in Providers
      BY <1>1 DEF Types, TypeOK
    <3>2. Cached(r)'.finalizer /\ Cached(r)'.spec = s /\ CachedProvider(r)' = p
      BY <1>5, <1>6, <3>1 DEF Claims
    <3>3. \A c \in NodeNames(s) : works'[WorkKey(r, c)] = DesiredWork(r, s, a, p, c)
      BY <1>2, <1>7, <1>12, <1>14, <3>1 DEF NodeNames, Key, w
    <3>4. Addressed(s, a) /\ a \in [Clusters -> IPAddresses \cup {Empty}]
      BY <1>10, <3>1 DEF Addressed
    <3> QED BY <3>1, <3>2, <3>3, <3>4 DEF Done
  <2> QED BY <1>2, <1>3, <1>4, <1>14, <2>1, <2>2, OthersStep
<1>15. CASE /\ pos # N /\ pos' = pos + 1
            /\ UNCHANGED <<pc, req, obj, prov, clusterMaps, queue>>
  <2>1. \A i \in 1..N : i < pos + 1 => i <= pos
    BY <1>7
  <2>2. ~Waiting(r) => \A i \in 1..N :
           i < pos + 1 => works'[WorkKey(r, name(i))]
                            = DesiredWork(r, obj.spec, clusterMaps, prov, name(i))
    BY <1>2, <1>12, <2>1 DEF Key, w
  <2>3. /\ Cached(req)' = Cached(r)' /\ CachedProvider(req)' = CachedProvider(r)'
        /\ Waiting(req)' = Waiting(r)'
    BY <1>2, <1>15
  <2>4. PassOK'
    BY <1>1, <1>2, <1>5, <1>6, <1>15, <2>2, <2>3 DEF PassOK, Claims
  <2> QED BY <1>2, <1>3, <1>4, <1>15, <2>4, OthersStep
<1> QED BY <1>3, <1>13, <1>14, <1>15 DEF NextNode

LEMMA DeleteManifestWorkWakes ==
    ASSUME IndInv, Woken, DistinctWorkNames, DeleteManifestWork
    PROVE  Woken'
<1>1. Types /\ pc = "delete"
  BY DEF IndInv, DeleteManifestWork
<1>2. PICK r \in Overlays : r = req
  BY <1>1 DEF Types, TypeOK
<1>3. /\ works' = [works EXCEPT ![WorkKey(r, obj.spec.nodes[pos].name)] = NoWork]
      /\ UNCHANGED <<log, plog, profileEvents, MDClient>>
      /\ \/ pc' \in {"delete", "release"} /\ req' = r /\ queue' = queue
         \/ ReplyLost
  BY <1>1, <1>2 DEF DeleteManifestWork, deleteWork, NextNode, worker, process
<1>4. \A m \in Overlays : m # r =>
         \A c \in Clusters : works'[WorkKey(m, c)] = works[WorkKey(m, c)]
  BY <1>1, <1>3, OwnKeysOnly
<1>5. CASE ReplyLost
  BY <1>1, <1>2, <1>3, <1>4, <1>5, ErrorWakes DEF ReplyLost
<1>6. CASE pc' \in {"delete", "release"} /\ req' = r /\ queue' = queue
  <2>1. PassOK'
    BY <1>6 DEF PassOK
  <2> QED BY <1>2, <1>3, <1>4, <1>6, <2>1, OthersStep
<1> QED BY <1>3, <1>5, <1>6

\* A manager that is down owes nothing, and one that starts looks at
\* everything.
LEMMA ManagerWakes ==
    ASSUME IndInv, Stop \/ StartManager
    PROVE  Woken'
<1>1. CASE Stop
  BY <1>1 DEF Stop, Idle, Woken, NotifiedOK, PassOK
<1>2. CASE StartManager
  <2>1. PassOK'
    BY <1>2 DEF StartManager, IndInv, Types, TypeOK, PassOK
  <2>2. ASSUME NEW o \in Overlays PROVE Waiting(o)' \/ (Cached(o).phase = "absent")'
    <3>1. log'[o] = <<Stored(o)>>
      BY <1>2 DEF StartManager, FreshCaches
    <3>2. <<Stored(o)>>[1] = Stored(o)
      OBVIOUS
    <3>3. Cached(o)' = Stored(o)
      BY <3>1, <3>2 DEF Cached
    <3>4. Stored(o).phase # "absent" => o \in queue'
      BY <1>2 DEF StartManager
    <3> QED BY <3>3, <3>4 DEF Waiting
  <2> QED BY <2>1, <2>2 DEF Woken, NotifiedOK
<1> QED BY <1>1, <1>2

-----------------------------------------------------------------------------
LEMMA InitWakeInv == Init => WakeInv
<1> SUFFICES ASSUME Init PROVE WakeInv
  OBVIOUS
<1>1. \A o \in Overlays : \A i \in 1..Len(log[o]) : log[o][i] = Absent(0)
  BY DEF Init
<1>2. ListsOK
  BY <1>1, NoSpecLists DEF Init, ListsOK
<1>3. NotifiedOK /\ GatewaysOK /\ PassOK
  BY DEF Init, NotifiedOK, GatewaysOK, PassOK
<1> QED BY <1>2, <1>3 DEF WakeInv

LEMMA NextWoken ==
    ASSUME ~CacheReadsFail, DistinctWorkNames, IndInv, LeavingInv, Woken, ListsOK,
           GatewaysOK, [Next]_vars
    PROVE  Woken'
<1>1. CASE Users
  <2>1. CASE \E c \in Clusters, a \in IPAddresses \cup {Empty} : MoveCluster(c, a)
    BY <2>1, SameInputsWake DEF MoveCluster, CachedProfiles, process
  <2>2. CASE \E t \in ClientTypes : Redeploy(t)
    <3>1. CASE Stop
      BY <3>1, ManagerWakes
    <3>2. CASE UNCHANGED <<log, plog, endpoint, profileEvents, queue, pc, worker, works, leaving, MDClient>>
      BY <3>2, SameInputsWake DEF CachedProfiles
    <3> QED BY <2>2, <3>1, <3>2 DEF Redeploy
  <2> QED BY <1>1, <2>1, <2>2, UserWriteWakes, WriteProfileWakes
          DEF Users, CreateOverlay, UpdateOverlay, DeleteOverlay
<1>2. CASE Informers
  BY <1>2, DeliverOverlayWakes, DeliverProfileWakes, HandlerWakes
     DEF Informers, requestsListError
<1>3. CASE \E o \in Overlays : StartReconcile(o)
  BY <1>3, StartReconcileWakes
<1>4. CASE UpdateRefused \/ CallFails \/ RestDeleteSlice
  BY <1>4, ErrorWakes DEF UpdateRefused, CallFails, RestDeleteSlice, ReplyLost, process
<1>5. CASE Crash \/ StartManager
  BY <1>5, ManagerWakes DEF Crash
<1>6. CASE UNCHANGED vars \/ \E k \in WorkKeys : Expire(k)
  BY <1>6, SameInputsWake DEF vars, worker, process, Expire, CachedProfiles
<1> QED
  BY <1>1, <1>2, <1>3, <1>4, <1>5, <1>6, AddFinalizerWakes,
     ResolveProviderWakes, ResolveAddressWakes, ApplyManifestWorkWakes,
     DeleteManifestWorkWakes, RemoveFinalizerWakes DEF Next, ReconcileStep

LEMMA NextWakeInv ==
    ASSUME ~CacheReadsFail, DistinctWorkNames, SpecsListOnce, IndInv, LeavingInv,
           WakeInv, [Next]_vars
    PROVE  WakeInv'
  BY NextWoken, NextLists, NextGateways DEF WakeInv, Woken

-----------------------------------------------------------------------------
(* The NEDs of one pass fit together. *)

\* A slice that is done, with caches that are up to date, is meshed.
LEMMA DoneIsMeshed ==
    ASSUME Types, ListsOK, NEW o \in Overlays, Done(o), Cached(o) = Stored(o),
           CachedProvider(o) = StoredProvider(o)
    PROVE  Meshed(o)
<1>1. PICK s, p : s = Stored(o).spec /\ p = StoredProvider(o)
  OBVIOUS
<1>2. s \in SliceOverlaySpec /\ ListsOnce(s)
  BY <1>1, CachedTypes, StoredLists
<1>3. PICK a \in [Clusters -> IPAddresses \cup {Empty}] :
         /\ Addressed(s, a)
         /\ \A c \in NodeNames(s) : works[WorkKey(o, c)] = DesiredWork(o, s, a, p, c)
  BY <1>1 DEF Done
<1>4. \A c \in NodeNames(s) :
         /\ works[WorkKey(o, c)].slice = o
         /\ Device(o, c) = NED(s, a, p, c)
  <2>1. \A c : /\ DesiredWork(o, s, a, p, c).slice = o
               /\ DesiredWork(o, s, a, p, c).ned = NED(s, a, p, c)
    BY DEF DesiredWork
  <2> QED BY <1>3, <2>1 DEF Device
<1>5. \A c \in NodeNames(s) : works[WorkKey(o, c)] # NoWork
  <2> SUFFICES ASSUME NEW c \in NodeNames(s) PROVE works[WorkKey(o, c)] # NoWork
    OBVIOUS
  <2>1. p \in Providers
    BY <1>1 DEF Done
  <2>2. c \in Clusters /\ o.namespace \in Namespaces
    BY <1>1, CachedTypes
  <2>3. NED(s, a, p, c) \in NetworkEdgeDevice
    BY <1>2, <2>1, <2>2, NEDType
  <2>4. DesiredWork(o, s, a, p, c) \in OverlayWork
    BY <2>1, <2>2, <2>3 DEF DesiredWork, OverlayWork
  <2> QED BY <1>3, <2>4, OverlayWorksAssumption
<1>6. \A c \in NodeNames(s) : Device(o, c).provider = p /\ Device(o, c).monitor = monitoredNode(s, c)
  BY <1>4 DEF NED
<1>7. ASSUME NEW c \in NodeNames(s), NEW d \in NodeNames(s)
      PROVE  /\ (Sees(o, c, d) # {}) <=> Linked(s, c, d)
             /\ \A v \in Sees(o, c, d) : v.domain = a[d] /\ v.lpmIp = Device(o, d).monitor
  BY <1>2, <1>4, <1>6, <1>7, NeighborOf, LinkedByLinks DEF Sees, Linked
<1>8. \A d \in NodeNames(s) : a[d] # Empty
  BY <1>3 DEF NodeNames, Addressed
<1>9. \A i \in 1..Len(s.nodes) : /\ s.nodes[i].name \in NodeNames(s)
                                 /\ s.nodes[i].gateway \in {Empty, a[s.nodes[i].name]}
  BY <1>3 DEF NodeNames, Addressed
<1>10. ASSUME s.monitoring # NoMonitoring, NEW c \in NodeNames(s), NEW d \in NodeNames(s), c # d
       PROVE  Device(o, c).monitor # Device(o, d).monitor
  <2>1. PICK i \in 1..Len(s.nodes) :
           s.nodes[i].name = c /\ monitoredNode(s, c) = <<s.monitoring.base, i>>
    BY <1>2, <1>10, MonitoredNode
  <2>2. PICK j \in 1..Len(s.nodes) :
           s.nodes[j].name = d /\ monitoredNode(s, d) = <<s.monitoring.base, j>>
    BY <1>2, <1>10, MonitoredNode
  <2>3. i # j
    BY <1>10, <2>1, <2>2
  <2> QED BY <1>6, <2>1, <2>2, <2>3
<1>11. Stored(o).finalizer
  BY DEF Done
<1> QED BY <1>1, <1>4, <1>5, <1>6, <1>7, <1>8, <1>9, <1>10, <1>11 DEF Meshed

LEMMA SettledIsMeshed ==
    ASSUME IndInv, WakeInv
    PROVE  SettledImpliesMeshed
<1> SUFFICES ASSUME NEW o \in Overlays, Settled(o), Stored(o).phase # "absent"
             PROVE  Meshed(o)
  BY DEF SettledImpliesMeshed
<1>1. Cached(o) = Stored(o)
  BY DEF Settled, Cached, Stored
<1>2. CachedProvider(o) = StoredProvider(o)
  <2>1. \A p \in NamespacedName : plog[p][1] = StoredProfile(p)
    BY DEF Settled, StoredProfile
  <2> QED BY <1>1, <2>1 DEF CachedProvider, StoredProvider, CachedProfiles
<1>3. ~Waiting(o) /\ req # o /\ MDClient # "none"
  BY DEF Settled, Waiting
<1>4. Done(o)
  BY <1>1, <1>3 DEF WakeInv, NotifiedOK
<1> QED BY <1>1, <1>2, <1>4, DoneIsMeshed DEF IndInv, WakeInv

\* No wake-up is lost and no pass ends half done: the NEDs of a SliceOverlay
\* that nothing is pending for fit together and are under the provider that is
\* stored, for any number of SliceOverlays, clusters, profiles, edits, moves,
\* failures, crashes and changes of the client type.  The watch handler must
\* be able to list its cache, no two SliceOverlays may share a work name, and
\* nobody may create a SliceOverlay again before the works of the deleted one
\* have gone, or list a cluster twice.  The CRD lets the last one through, but
\* a list with two gateways for one cluster has no mesh that fits.
THEOREM NoLostSlice ==
    ~CacheReadsFail /\ ~RecreatesEarly /\ DistinctWorkNames /\ SpecsListOnce =>
        (Spec => []SettledImpliesMeshed)
<1> SUFFICES ASSUME ~CacheReadsFail, ~RecreatesEarly, DistinctWorkNames, SpecsListOnce
             PROVE  Spec => []SettledImpliesMeshed
  OBVIOUS
<1>1. IndInv /\ LeavingInv /\ [Next]_vars => LeavingInv'
  BY NextLeavingInv
<1>2. IndInv /\ LeavingInv /\ WakeInv /\ [Next]_vars => WakeInv'
  BY NextWakeInv
<1>3. IndInv /\ WakeInv => SettledImpliesMeshed
  BY SettledIsMeshed
<1> QED BY <1>1, <1>2, <1>3, InitLeavingInv, InitWakeInv, IndInvHolds, PTL DEF Spec
=============================================================================
