---------------------- MODULE SliceOverlayController ----------------------
(***************************************************************************)
(* The SliceOverlay controller of the hub.  It follows the protocol of     *)
(* SliceNetworkController (claim with a finalizer, resolve the provider,   *)
(* one ManifestWork per cluster, clean up before release) on its own       *)
(* queue, with two differences that matter: ApplySlice first collects the  *)
(* address of every cluster, from the spec or from the ManagedCluster,     *)
(* which nothing watches, and only then writes the works; and the works of *)
(* one slice refer to each other, as each NED names its neighbours.        *)
(*                                                                         *)
(* The manager process that runs the controller is part of the model: it   *)
(* is started with a client type from its environment, which decides       *)
(* whether the calls below go to OCM or to the REST client, a stub whose   *)
(* every operation is an error.  The state of the other controller under   *)
(* the REST client follows the same lines.                                 *)
(*                                                                         *)
(* CRD validation refuses a SliceOverlay without topology; its list of     *)
(* clusters may be empty.                                                  *)
(***************************************************************************)
EXTENDS SliceTopology, ProviderResolver

CONSTANTS
    Overlays,         \* the SliceOverlays under study, by namespaced name
    Specs,            \* the specs users submit
    EditableProfiles, \* the ProviderProfiles users write
    WorkNames,        \* names of ManifestWorks
    WorkName,         \* sanitizeManifestWorkName, as a function on Names
    ProviderName,     \* the name in a provider configuration
    NoWork,           \* no ManifestWork under this key
    NoRequest,        \* the worker holds no request
    ClientTypes,      \* values of MULTI_DOMAIN_CLIENT_TYPE
    Unset,            \* the variable is not set
    MayDropClusters,  \* may an update remove a cluster from the topology?
    CacheReadsFail,   \* may a List of the informer cache fail?
    RecreatesEarly,   \* may users create a SliceOverlay while works of a
                      \* deleted one of that name have yet to go?
    MaxEdits,         \* bound on edits of users and of cluster administrators
    MaxFaults         \* bound on failed calls and crashes

ASSUME OverlaySpecsAssumption == Specs \subseteq SliceOverlaySpec

ASSUME OverlayKeysAssumption ==
    /\ Overlays \subseteq NamespacedName
    /\ EditableProfiles \subseteq NamespacedName
    /\ WorkName \in [Names -> WorkNames]
    /\ NoRequest \notin Overlays

ASSUME OverlayTypesAssumption ==
    /\ MayDropClusters \in BOOLEAN
    /\ CacheReadsFail \in BOOLEAN
    /\ RecreatesEarly \in BOOLEAN
    /\ MaxEdits \in Nat
    /\ MaxFaults \in Nat
    /\ Unset \in ClientTypes

WorkKeys == Clusters \X WorkNames
WorkKey(o, cluster) == <<cluster, WorkName[o.name]>>

\* The NED wrapped in a ManifestWork.  slice, which no field of the work holds,
\* is the overlay it was written for; namespace and name give its place on the
\* managed cluster.
OverlayWork == [slice     : Overlays,
                namespace : Namespaces,
                name      : {ProviderName[p] : p \in Providers},
                ned       : NetworkEdgeDevice]

ASSUME OverlayWorksAssumption == NoWork \notin OverlayWork

VARIABLES
    log,           \* log[o]: versions of o from the cached one to the stored one
    plog,          \* plog[p]: the same for the configuration of profile p
    endpoint,      \* endpoint[c]: the address of ManagedCluster c, Empty if none resolves
    profileEvents, \* profiles whose change is cached but not yet mapped to requests
    queue,         \* the work queue, a set of requests
    pc,            \* what the worker does next
    req,           \* the request it holds
    obj,           \* its copy of the SliceOverlay
    prov,          \* the provider it resolved
    clusterMaps,   \* the addresses it collected
    pos,           \* the position in topology.nodes of its next call
    works,         \* the ManifestWorks on the hub that are not being deleted
    leaving,       \* keys of works that are deleted and held by the work agent
    env,           \* MULTI_DOMAIN_CLIENT_TYPE in the deployment of the manager
    MDClient,      \* the client of the running manager, "none" if none runs
    edits, faults  \* edits and faults so far

worker == <<req, obj, prov, clusterMaps, pos>>
process == <<env, MDClient>>
vars == <<log, plog, endpoint, profileEvents, queue, pc, req, obj, prov,
          clusterMaps, pos, works, leaving, process, edits, faults>>

-----------------------------------------------------------------------------
(* Versions of an object, as in SliceNetworkController. *)

NoSpec == [nodes |-> << >>, links |-> {}, monitoring |-> NoMonitoring,
           providerRef |-> NoRef, provider |-> NoProvider]

Absent(rv) == [phase |-> "absent", finalizer |-> FALSE, rv |-> rv,
               spec |-> NoSpec]

Version == [phase     : {"absent", "live", "terminating"},
            finalizer : BOOLEAN,
            rv        : Nat,
            spec      : SliceOverlaySpec]

Stored(o) == log[o][Len(log[o])]
Cached(o) == log[o][1]
StoredProfile(p) == plog[p][Len(plog[p])]
CachedProfiles == [p \in NamespacedName |-> plog[p][1]]

Write(o, version) == log' = [log EXCEPT ![o] = Append(@, version)]

WithoutFinalizer(v) == IF v.phase = "terminating"
                       THEN Absent(v.rv + 1)
                       ELSE [v EXCEPT !.finalizer = FALSE, !.rv = v.rv + 1]

NoAddresses == [c \in Clusters |-> Empty]

-----------------------------------------------------------------------------
(* Users of the API server, and the administrators of managed clusters. *)

UserEdit == edits < MaxEdits /\ edits' = edits + 1

OverlayEditOnly ==
    UNCHANGED <<plog, endpoint, profileEvents, queue, pc, worker, works, leaving, process,
                faults>>

CreateOverlay(o, s) ==
    /\ UserEdit
    /\ Stored(o).phase = "absent"
    /\ RecreatesEarly \/ \A c \in Clusters : WorkKey(o, c) \notin leaving
    /\ Write(o, [phase |-> "live", finalizer |-> FALSE,
                 rv |-> Stored(o).rv + 1, spec |-> s])
    /\ OverlayEditOnly

UpdateOverlay(o, s) ==
    /\ UserEdit
    /\ Stored(o).phase # "absent"
    /\ s # Stored(o).spec
    /\ MayDropClusters \/ NodeNames(Stored(o).spec) \subseteq NodeNames(s)
    /\ Write(o, [Stored(o) EXCEPT !.rv = @ + 1, !.spec = s])
    /\ OverlayEditOnly

DeleteOverlay(o) ==
    /\ UserEdit
    /\ Stored(o).phase = "live"
    /\ Write(o, IF Stored(o).finalizer
                THEN [Stored(o) EXCEPT !.rv = @ + 1, !.phase = "terminating"]
                ELSE Absent(Stored(o).rv + 1))
    /\ OverlayEditOnly

WriteProfile(p, v) ==
    /\ UserEdit
    /\ v # StoredProfile(p)
    /\ plog' = [plog EXCEPT ![p] = Append(@, v)]
    /\ UNCHANGED <<log, endpoint, profileEvents, queue, pc, worker, works, leaving, process, faults>>

\* A ManagedCluster joins, moves, or loses its client endpoint.
MoveCluster(c, a) ==
    /\ UserEdit
    /\ a # endpoint[c]
    /\ endpoint' = [endpoint EXCEPT ![c] = a]
    /\ UNCHANGED <<log, plog, profileEvents, queue, pc, worker, works, leaving, process, faults>>

-----------------------------------------------------------------------------
(* Informers and event handlers (SetupWithManager). *)

DeliverOverlay(o) ==
    /\ MDClient # "none"
    /\ Len(log[o]) > 1
    /\ log' = [log EXCEPT ![o] = Tail(@)]
    /\ queue' = queue \cup {o}
    /\ UNCHANGED <<plog, endpoint, profileEvents, pc, worker, works, leaving, process, edits, faults>>

DeliverProfile(p) ==
    /\ MDClient # "none"
    /\ Len(plog[p]) > 1
    /\ plog' = [plog EXCEPT ![p] = Tail(@)]
    /\ profileEvents' = profileEvents \cup {p}
    /\ UNCHANGED <<log, endpoint, queue, pc, worker, works, leaving, process, edits, faults>>

requestsForProviderProfile(p) ==
    /\ p \in profileEvents
    /\ profileEvents' = profileEvents \ {p}
    /\ queue' = queue \cup {o \in Overlays :
                              /\ Cached(o).phase # "absent"
                              /\ concernsProfile(p, o.namespace, Cached(o).spec)}
    /\ UNCHANGED <<log, plog, endpoint, pc, worker, works, leaving, process, edits, faults>>

requestsListError(p) ==
    /\ CacheReadsFail
    /\ faults < MaxFaults
    /\ p \in profileEvents
    /\ profileEvents' = profileEvents \ {p}
    /\ faults' = faults + 1
    /\ UNCHANGED <<log, plog, endpoint, queue, pc, worker, works, leaving, process, edits>>

-----------------------------------------------------------------------------
(* Reconcile. *)

Idle ==
    /\ pc' = "idle"
    /\ req' = NoRequest
    /\ obj' = Absent(0)
    /\ prov' = NoProvider
    /\ clusterMaps' = NoAddresses
    /\ pos' = 1

\* Mutant of ReturnError: the error is logged and nil returned.
ReturnNil == Idle /\ queue' = queue

ReturnError == Idle /\ queue' = queue \cup {req}

ReplyLost ==
    /\ faults < MaxFaults
    /\ faults' = faults + 1
    /\ ReturnError

\* The worker goes to work on the cached o.
Begin(o, step) ==
    /\ pc' = step
    /\ req' = o
    /\ obj' = Cached(o)
    /\ UNCHANGED <<prov, clusterMaps, pos>>

\* Mutant of DeletesNothing: the deletion loop is entered without looking
\* whether there is a cluster.
DeletesAlways(spec) == FALSE

\* DeleteSlice of a slice without clusters returns nil at once.
DeletesNothing(spec) == MDClient = "ocm" /\ spec.nodes = << >>

\* Mutant of FirstStep: works are placed before the finalizer is set.
FirstStepUnclaimed(o) == "resolve"

FirstStep(o) == IF Cached(o).finalizer THEN "resolve" ELSE "claim"

\* Get the SliceOverlay from the cache and branch; there is nothing to do for
\* one that is gone, or deleted and already released.
StartReconcile(o) ==
    /\ pc = "idle"
    /\ o \in queue
    /\ queue' = queue \ {o}
    /\ \/ Cached(o).phase # "live" /\ ~Cached(o).finalizer /\ UNCHANGED <<pc, worker>>
       \/ /\ Cached(o).phase = "terminating" /\ Cached(o).finalizer
          /\ Begin(o, IF DeletesNothing(Cached(o).spec) THEN "release" ELSE "delete")
       \/ Cached(o).phase = "live" /\ Begin(o, FirstStep(o))
    /\ UNCHANGED <<log, plog, endpoint, profileEvents, works, leaving, process, edits, faults>>

\* AddFinalizer, r.Update accepted.
AddFinalizer ==
    /\ pc = "claim"
    /\ Stored(req).rv = obj.rv
    /\ LET claimed == [obj EXCEPT !.finalizer = TRUE, !.rv = @ + 1]
       IN /\ Write(req, claimed)
          /\ \/ /\ pc' = "resolve"
                /\ obj' = claimed
                /\ UNCHANGED <<req, prov, clusterMaps, pos, queue, faults>>
             \/ ReplyLost
    /\ UNCHANGED <<plog, endpoint, profileEvents, works, leaving, process, edits>>

\* resolveOverlayProvider, and the start of ApplySlice: the REST client's is
\* an error, OCM's has nothing to do for a slice without clusters.
ResolveProvider ==
    /\ pc = "resolve"
    /\ LET p == resolveProvider(CachedProfiles, req.namespace, obj.spec)
       IN \/ (p = NoProvider \/ MDClient = "rest") /\ ReturnError
          \/ /\ p # NoProvider /\ MDClient = "ocm" /\ obj.spec.nodes = << >>
             /\ Idle /\ UNCHANGED queue
          \/ /\ p # NoProvider /\ MDClient = "ocm" /\ obj.spec.nodes # << >>
             /\ pc' = "address"
             /\ prov' = p
             /\ UNCHANGED <<req, obj, clusterMaps, pos, queue>>
    /\ UNCHANGED <<log, plog, endpoint, profileEvents, works, leaving, process, edits, faults>>

LastNode == pos = Len(obj.spec.nodes)
NextNode == pos' = pos + 1 /\ UNCHANGED <<pc, req, obj, prov, clusterMaps>>

\* getManagedClusterIPAddress, unless the spec has the address.
resolvedIP(node) == DefaultIfEmpty(node.gateway, endpoint[node.name])

\* Mutant of NoEndpoint: a cluster without address ends the pass quietly.
NoEndpointQuietly == Idle /\ UNCHANGED queue

\* A cluster that has no address fails the pass.
NoEndpoint == ReturnError

\* The first loop of ApplySlice, for one cluster; after the last one the
\* monitoring addresses are allocated.
ResolveAddress ==
    /\ pc = "address"
    /\ LET node == obj.spec.nodes[pos]
       IN \/ resolvedIP(node) = Empty /\ NoEndpoint
          \/ /\ resolvedIP(node) # Empty
             /\ ~LastNode
             /\ clusterMaps' = [clusterMaps EXCEPT ![node.name] = resolvedIP(node)]
             /\ pos' = pos + 1
             /\ UNCHANGED <<pc, req, obj, prov, queue>>
          \/ /\ resolvedIP(node) # Empty
             /\ LastNode /\ ~AllocationFails(obj.spec)
             /\ clusterMaps' = [clusterMaps EXCEPT ![node.name] = resolvedIP(node)]
             /\ pc' = "apply" /\ pos' = 1
             /\ UNCHANGED <<req, obj, prov, queue>>
          \/ /\ resolvedIP(node) # Empty
             /\ LastNode /\ AllocationFails(obj.spec)
             /\ ReturnError
    /\ UNCHANGED <<log, plog, endpoint, profileEvents, works, leaving, process, edits, faults>>

\* The work of cluster c: the NED and where it goes on the managed cluster.
DesiredWork(o, spec, addresses, provider, c) ==
    [slice |-> o, namespace |-> o.namespace, name |-> ProviderName[provider],
     ned |-> NED(spec, addresses, provider, c)]

\* Mutant of Collected: each NED is built from the addresses of the moment.
CollectedNow ==
    LET given == {obj.spec.nodes[i].gateway : i \in 1..Len(obj.spec.nodes)}
    IN  [d \in Clusters |-> IF clusterMaps[d] \in given \cup {Empty}
                            THEN clusterMaps[d] ELSE endpoint[d]]

\* All NEDs are built from the addresses collected before the loop.
Collected == clusterMaps

\* applyManifestWork and Delete, as in SliceNetworkController.
applyWork(key, work) ==
    /\ works' = IF key \in leaving THEN works ELSE [works EXCEPT ![key] = work]
    /\ UNCHANGED leaving

deleteWork(key) ==
    /\ works' = [works EXCEPT ![key] = NoWork]
    /\ \/ UNCHANGED leaving
       \/ works[key] # NoWork /\ leaving' = leaving \cup {key}

\* The second loop of ApplySlice, for one cluster.
ApplyManifestWork ==
    /\ pc = "apply"
    /\ LET c == obj.spec.nodes[pos].name
       IN applyWork(WorkKey(req, c), DesiredWork(req, obj.spec, Collected, prov, c))
    /\ \/ LastNode /\ Idle /\ UNCHANGED <<queue, faults>>
       \/ ~LastNode /\ NextNode /\ UNCHANGED <<queue, faults>>
       \/ ReplyLost
    /\ UNCHANGED <<log, plog, endpoint, profileEvents, process, edits>>

\* DeleteSlice for one cluster; a work that is not there is no error.
DeleteManifestWork ==
    /\ pc = "delete" /\ MDClient = "ocm"
    /\ deleteWork(WorkKey(req, obj.spec.nodes[pos].name))
    /\ \/ LastNode /\ pc' = "release" /\ UNCHANGED <<worker, queue, faults>>
       \/ ~LastNode /\ NextNode /\ UNCHANGED <<queue, faults>>
       \/ ReplyLost
    /\ UNCHANGED <<log, plog, endpoint, profileEvents, process, edits>>

\* Mutant of RestDeleteSlice: the stub reports success.
RestDeleteSliceDone ==
    /\ pc = "delete" /\ MDClient = "rest"
    /\ pc' = "release"
    /\ UNCHANGED <<log, plog, endpoint, profileEvents, queue, worker, works, leaving, process, edits, faults>>

\* DeleteSlice of the REST client: "rest client migration pending".
RestDeleteSlice ==
    /\ pc = "delete" /\ MDClient = "rest"
    /\ ReturnError
    /\ UNCHANGED <<log, plog, endpoint, profileEvents, works, leaving, process, edits, faults>>

\* RemoveFinalizer, r.Update accepted.
RemoveFinalizer ==
    /\ pc = "release"
    /\ Stored(req).rv = obj.rv
    /\ Write(req, WithoutFinalizer(obj))
    /\ \/ Idle /\ UNCHANGED <<queue, faults>>
       \/ ReplyLost
    /\ UNCHANGED <<plog, endpoint, profileEvents, works, leaving, process, edits>>

\* r.Update refused: the object changed, or is gone, since it was cached.
UpdateRefused ==
    /\ pc \in {"claim", "release"}
    /\ Stored(req).rv # obj.rv
    /\ ReturnError
    /\ UNCHANGED <<log, plog, endpoint, profileEvents, works, leaving, process, edits, faults>>

\* A call fails without taking effect; a gateway in the spec needs no call.
CallFails ==
    /\ \/ pc \in {"claim", "apply", "delete", "release"}
       \/ pc = "address" /\ obj.spec.nodes[pos].gateway = Empty
    /\ ReplyLost
    /\ UNCHANGED <<log, plog, endpoint, profileEvents, works, leaving, process, edits>>

\* The work agent of a managed cluster lets a deleted work go.
Expire(k) ==
    /\ k \in leaving
    /\ leaving' = leaving \ {k}
    /\ UNCHANGED <<log, plog, endpoint, profileEvents, queue, pc, worker, works, process,
                   edits, faults>>

-----------------------------------------------------------------------------
(* The manager process. *)

\* The client type of the environment, ocm if it has none.
GetMultiDomainClientType == IF env = Unset THEN "ocm" ELSE env

\* The client for that type; any other type is an error.
NewClient(clientType) == IF clientType \in {"rest", "ocm"} THEN clientType ELSE "none"

FreshCaches ==
    /\ log' = [o \in Overlays |-> <<Stored(o)>>]
    /\ plog' = [p \in NamespacedName |-> <<StoredProfile(p)>>]

\* The process ends, and with it its caches, queue and the pass under way.
Stop ==
    /\ MDClient # "none"
    /\ MDClient' = "none"
    /\ profileEvents' = {}
    /\ queue' = {}
    /\ Idle
    /\ FreshCaches
    /\ UNCHANGED <<endpoint, works, leaving>>

Crash ==
    /\ faults < MaxFaults
    /\ faults' = faults + 1
    /\ Stop
    /\ UNCHANGED <<env, edits>>

\* An administrator changes the client type, which replaces the process.
Redeploy(t) ==
    /\ UserEdit
    /\ t # env
    /\ env' = t
    /\ Stop \/ (MDClient = "none" /\ UNCHANGED <<log, plog, endpoint, profileEvents, queue,
                                              pc, worker, works, leaving, MDClient>>)
    /\ UNCHANGED faults

\* main: the client is made, then the caches are filled, and every object in
\* them is an event.  With an unknown client type main exits, over and over.
StartManager ==
    /\ MDClient = "none"
    /\ MDClient' = NewClient(GetMultiDomainClientType)
    /\ MDClient' # "none"
    /\ FreshCaches
    /\ profileEvents' = {p \in NamespacedName : StoredProfile(p) # NoProvider}
    /\ queue' = {o \in Overlays : Stored(o).phase # "absent"}
    /\ UNCHANGED <<endpoint, pc, worker, works, leaving, env, edits, faults>>

-----------------------------------------------------------------------------
Init ==
    /\ log = [o \in Overlays |-> <<Absent(0)>>]
    /\ plog = [p \in NamespacedName |-> <<NoProvider>>]
    /\ endpoint = NoAddresses
    /\ profileEvents = {}
    /\ queue = {}
    /\ pc = "idle"
    /\ req = NoRequest
    /\ obj = Absent(0)
    /\ prov = NoProvider
    /\ clusterMaps = NoAddresses
    /\ pos = 1
    /\ works = [k \in WorkKeys |-> NoWork]
    /\ leaving = {}
    /\ env = Unset
    /\ MDClient = "none"
    /\ edits = 0
    /\ faults = 0

Users ==
    \/ \E o \in Overlays, s \in Specs : CreateOverlay(o, s)
    \/ \E o \in Overlays, s \in Specs : UpdateOverlay(o, s)
    \/ \E o \in Overlays : DeleteOverlay(o)
    \/ \E p \in EditableProfiles, v \in Providers \cup {NoProvider} :
          WriteProfile(p, v)
    \/ \E c \in Clusters, a \in IPAddresses \cup {Empty} : MoveCluster(c, a)
    \/ \E t \in ClientTypes : Redeploy(t)

Informers ==
    \/ \E o \in Overlays : DeliverOverlay(o)
    \/ \E p \in NamespacedName : DeliverProfile(p)
    \/ \E p \in NamespacedName : requestsForProviderProfile(p)
    \/ \E p \in NamespacedName : requestsListError(p)

\* The calls of the Reconcile under way.
ReconcileStep ==
    \/ AddFinalizer
    \/ ResolveProvider
    \/ ResolveAddress
    \/ ApplyManifestWork
    \/ DeleteManifestWork
    \/ RestDeleteSlice
    \/ RemoveFinalizer
    \/ UpdateRefused
    \/ CallFails

Next ==
    \/ Users
    \/ Informers
    \/ \E o \in Overlays : StartReconcile(o)
    \/ ReconcileStep
    \/ Crash
    \/ StartManager
    \/ \E k \in WorkKeys : Expire(k)

Spec == Init /\ [][Next]_vars

\* As in SliceNetworkController; the kubelet starts the manager again.
\* Nothing is assumed of ManagedClusters or of the client type.
Fairness ==
    /\ \A o \in Overlays : WF_vars(DeliverOverlay(o))
    /\ \A p \in NamespacedName : WF_vars(DeliverProfile(p))
    /\ \A p \in NamespacedName : WF_vars(requestsForProviderProfile(p))
    /\ \A o \in Overlays : SF_vars(StartReconcile(o))
    /\ WF_vars(ReconcileStep)
    /\ WF_vars(StartManager)

FairSpec == Spec /\ Fairness

-----------------------------------------------------------------------------
(* Properties. *)

\* The variables hold values of their types.  A loop over the clusters stays
\* inside the list of the copy it works from, also when that list is empty,
\* and no work is written before its provider and all addresses are known.
TypeOK ==
    /\ log \in [Overlays -> Seq(Version)]
    /\ plog \in [NamespacedName -> Seq(Providers \cup {NoProvider})]
    /\ \A o \in Overlays : log[o] # << >>
    /\ \A p \in NamespacedName : plog[p] # << >>
    /\ endpoint \in [Clusters -> IPAddresses \cup {Empty}]
    /\ profileEvents \subseteq NamespacedName
    /\ queue \subseteq Overlays
    /\ pc \in {"idle", "claim", "resolve", "address", "apply", "delete", "release"}
    /\ req \in Overlays \cup {NoRequest}
    /\ (pc = "idle") <=> (req = NoRequest)
    /\ obj \in Version
    /\ prov \in Providers \cup {NoProvider}
    /\ clusterMaps \in [Clusters -> IPAddresses \cup {Empty}]
    /\ pos \in Nat
    /\ works \in [WorkKeys -> OverlayWork \cup {NoWork}]
    /\ leaving \subseteq WorkKeys
    /\ env \in ClientTypes
    /\ MDClient \in {"none", "ocm", "rest"}
    /\ edits \in 0..MaxEdits
    /\ faults \in 0..MaxFaults
    /\ MDClient = "none" => pc = "idle" /\ queue = {}
    /\ pc \in {"address", "apply"} \/ (pc = "delete" /\ MDClient = "ocm") =>
          pos \in 1..Len(obj.spec.nodes)
    /\ pc = "apply" => /\ prov \in Providers
                       /\ \A c \in NodeNames(obj.spec) : clusterMaps[c] # Empty

\* The cleanup the finalizer stands for (Reconcile, DeleteSlice): a
\* ManifestWork that nobody deleted belongs to a SliceOverlay that is still
\* stored, holds the finalizer and has the work's cluster in its topology, also
\* when the client that placed it is not the one that is asked to delete it.
NoOrphanWork ==
    \A k \in WorkKeys :
        works[k] # NoWork =>
            LET o == works[k].slice
            IN  Stored(o).finalizer /\ k[1] \in NodeNames(Stored(o).spec)

\* What the controller shows of the abstract protocol.
Status(o) == IF ~Stored(o).finalizer THEN "free"
             ELSE IF Stored(o).phase = "live" THEN "claimed" ELSE "leaving"

Holder(k) == IF works[k] = NoWork THEN NoRequest ELSE works[k].slice

Placement == INSTANCE ClaimedPlacement
    WITH Owners <- Overlays, Places <- WorkKeys, Nobody <- NoRequest,
         status <- [o \in Overlays |-> Status(o)],
         holder <- [k \in WorkKeys |-> Holder(k)]

\* This Reconcile implements the same claimed placement as the other one.
ImplementsPlacement == Placement!Spec

\* Nothing is pending that could make the controller look at o again.
Settled(o) ==
    /\ MDClient # "none"
    /\ o \notin queue
    /\ req # o
    /\ Len(log[o]) = 1
    /\ \A p \in NamespacedName : Len(plog[p]) = 1
    /\ profileEvents = {}

Device(o, c) == works[WorkKey(o, c)].ned

\* What the NED of cluster c says of neighbour d.
Sees(o, c, d) == {v \in Device(o, c).neighbors : v.node = d}

\* What the API says of a link: the two clusters are neighbours; with no
\* links given, every two clusters are.
Linked(spec, c, d) ==
    \/ <<c, d>> \in spec.links \/ <<d, c>> \in spec.links
    \/ spec.links = {} /\ c # d

\* The provider that the stored spec and profiles lead to.
StoredProvider(o) ==
    resolveProvider([p \in NamespacedName |-> StoredProfile(p)], o.namespace, Stored(o).spec)

\* The NEDs of the slice fit together: there is one for every cluster, none in
\* a work that is being deleted; they are under the slice's provider,
\* they are the stored spec's graph, all of them give the same address for a
\* cluster, which is its gateway if it has one, and the monitoring address
\* that a cluster's neighbours use is the one the cluster was given, which no
\* other cluster has.
Meshed(o) ==
    LET spec == Stored(o).spec
        S == NodeNames(spec)
    IN  /\ Stored(o).finalizer
        /\ \A c \in S : /\ works[WorkKey(o, c)] # NoWork
                        /\ works[WorkKey(o, c)].slice = o
                        /\ Device(o, c).provider = StoredProvider(o)
        /\ \A c, d \in S : (Sees(o, c, d) # {}) <=> Linked(spec, c, d)
        /\ \A c, d, e \in S : \A v \in Sees(o, c, d), w \in Sees(o, e, d) :
              v.domain = w.domain /\ v.domain # Empty
        /\ \A i \in 1..Len(spec.nodes) : \A c \in S : \A v \in Sees(o, c, spec.nodes[i].name) :
              spec.nodes[i].gateway \in {Empty, v.domain}
        /\ \A c, d \in S : \A v \in Sees(o, c, d) : v.lpmIp = Device(o, d).monitor
        /\ \A c, d \in S : spec.monitoring # NoMonitoring /\ c # d
                             => Device(o, c).monitor # Device(o, d).monitor

\* No wake-up is lost and no pass ends half done: when the controller has
\* nothing left to do for a SliceOverlay that exists, its NEDs fit together,
\* whatever failed, moved or was edited while they were written one by one.  It
\* is so as long as nobody creates a SliceOverlay anew before the works of the
\* deleted one are gone (~RecreatesEarly, see SliceNetworkController).
SettledImpliesMeshed ==
    \A o \in Overlays :
        Settled(o) /\ Stored(o).phase # "absent" => Meshed(o)

\* A deleted SliceOverlay does not hang on its finalizer, even if its
\* provider or the address of one of its clusters cannot be resolved, and even
\* if it was deleted while the manager ran with the REST client, which can
\* delete nothing, or could not start: it goes once OCM is back.
DeletionCompletes ==
    <>[](GetMultiDomainClientType = "ocm") =>
        \A o \in Overlays :
            (Stored(o).phase = "terminating") ~> (Stored(o).phase # "terminating")

\* What ApplySlice cannot do without.
Feasible(o) ==
    LET spec == Stored(o).spec
    IN  /\ GetMultiDomainClientType = "ocm"
        /\ StoredProvider(o) # NoProvider
        /\ \A i \in 1..Len(spec.nodes) : resolvedIP(spec.nodes[i]) # Empty
        /\ ~AllocationFails(spec)

\* Retries stand in for the watch on ManagedClusters that the controller does
\* not have: a slice that waits for the address of a cluster is placed once
\* there is one, with no event to wake the controller.  No retry waits for a
\* work to go, so that this holds only if ~RecreatesEarly.
EventuallyMeshed ==
    \A o \in Overlays :
        <>[](Stored(o).phase = "absent" \/ ~Feasible(o) \/ Meshed(o))

\* ProviderProfiles are there to be shared (SliceOverlaySpec.ProviderRef):
\* two slices of a namespace that use one provider each keep their own NED on
\* a cluster they have in common.
SharedProviderKeepsDevicesApart ==
    \A k, l \in WorkKeys :
        k # l /\ k[1] = l[1] /\ works[k] # NoWork /\ works[l] # NoWork =>
            <<works[k].namespace, works[k].name>> # <<works[l].namespace, works[l].name>>
=============================================================================
