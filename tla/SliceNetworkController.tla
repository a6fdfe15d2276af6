---------------------- MODULE SliceNetworkController ----------------------
(***************************************************************************)
(* The SliceNetwork controller of the hub: users write SliceNetworks and   *)
(* ProviderProfiles to the API server, the controller's informers follow   *)
(* with a delay, and its single worker reconciles one SliceNetwork at a    *)
(* time by writing one ManifestWork into the hub namespace of every        *)
(* cluster the SliceNetwork lists (OCMClient).  A finalizer on the         *)
(* SliceNetwork keeps it in the API server until its works are deleted.    *)
(*                                                                         *)
(* The worker reads SliceNetworks and ProviderProfiles from the informer   *)
(* cache, which may be stale, and writes to the API server, which refuses  *)
(* an update of any but the latest version.  ManifestWorks are read and    *)
(* written directly.  Any call may fail, with or without having taken      *)
(* effect, and the manager may crash between any two calls.                *)
(***************************************************************************)
EXTENDS Integers, Sequences, ProviderResolver

CONSTANTS
    Networks,         \* the SliceNetworks under study, by namespaced name
    Clusters,         \* managed clusters, each a hub namespace for its works
    NetworkTypes,     \* values of spec.type
    Specs,            \* the specs users submit
    EditableProfiles, \* the ProviderProfiles users write
    WorkNames,        \* names of ManifestWorks
    WorkName,         \* sanitizeManifestWorkName, as a function on Names
    NoWork,           \* no ManifestWork under this key
    NoRequest,        \* the worker holds no request
    MayDropClusters,  \* may an update remove a cluster from spec.clusters?
    CacheReadsFail,   \* may a List of the informer cache fail?
    RecreatesEarly,   \* may users create a SliceNetwork while works of a
                      \* deleted one of that name have yet to go?
    MaxEdits,         \* bound on the number of user edits
    MaxFaults         \* bound on failed calls and crashes

SliceNetworkSpec == [clusters    : Seq(Clusters),
                     type        : NetworkTypes,
                     providerRef : ProviderReference \cup {NoRef},
                     provider    : Providers \cup {NoProvider}]

\* The L2Network wrapped in a ManifestWork; network gives its name and
\* namespace on the managed cluster.
L2Network == [network : Networks, type : NetworkTypes, provider : Providers]

WorkKeys == Clusters \X WorkNames
WorkKey(n, cluster) == <<cluster, WorkName[n.name]>>

\* CRD validation: spec.clusters has MinItems=1.
ASSUME SpecsAssumption ==
    /\ Specs \subseteq SliceNetworkSpec
    /\ \A s \in Specs : s.clusters # << >>

ASSUME KeysAssumption ==
    /\ Networks \subseteq NamespacedName
    /\ EditableProfiles \subseteq NamespacedName
    /\ WorkName \in [Names -> WorkNames]
    /\ NoRequest \notin Networks
    /\ NoWork \notin L2Network

ASSUME TypesAssumption ==
    /\ "vnet" \in NetworkTypes
    /\ MayDropClusters \in BOOLEAN
    /\ CacheReadsFail \in BOOLEAN
    /\ RecreatesEarly \in BOOLEAN
    /\ MaxEdits \in Nat
    /\ MaxFaults \in Nat

VARIABLES
    log,           \* log[n]: versions of n from the cached one to the stored one
    plog,          \* plog[p]: the same for the configuration of profile p
    profileEvents, \* profiles whose change is cached but not yet mapped to requests
    queue,         \* the work queue, a set of requests
    pc,            \* what the worker does next
    req,           \* the request it holds
    obj,           \* its copy of the SliceNetwork
    prov,          \* the provider it resolved
    pos,           \* the position in spec.clusters of its next call
    works,         \* the ManifestWorks on the hub that are not being deleted
    leaving,       \* keys of works that are deleted and held by the work agent
    edits, faults  \* user edits and faults so far

worker == <<req, obj, prov, pos>>
vars == <<log, plog, profileEvents, queue, pc, req, obj, prov, pos, works,
          leaving, edits, faults>>

-----------------------------------------------------------------------------
(* Versions of an object, and the API server's and the cache's view of it. *)

NoSpec == [clusters |-> << >>, type |-> "vnet", providerRef |-> NoRef,
           provider |-> NoProvider]

Absent(rv) == [phase |-> "absent", finalizer |-> FALSE, rv |-> rv,
               spec |-> NoSpec]

Version == [phase     : {"absent", "live", "terminating"},
            finalizer : BOOLEAN,
            rv        : Nat,             \* metadata.resourceVersion
            spec      : SliceNetworkSpec]

Stored(n) == log[n][Len(log[n])]
Cached(n) == log[n][1]
StoredProfile(p) == plog[p][Len(plog[p])]
CachedProfiles == [p \in NamespacedName |-> plog[p][1]]

\* A write appends a version; the watch delivers it later.
Write(n, version) == log' = [log EXCEPT ![n] = Append(@, version)]

\* What an object looks like without its last finalizer: gone if it was
\* being deleted.
WithoutFinalizer(v) == IF v.phase = "terminating"
                       THEN Absent(v.rv + 1)
                       ELSE [v EXCEPT !.finalizer = FALSE, !.rv = v.rv + 1]

ClusterSet(v) == {v.spec.clusters[i] : i \in 1..Len(v.spec.clusters)}

-----------------------------------------------------------------------------
(* Users of the API server. *)

UserEdit == edits < MaxEdits /\ edits' = edits + 1

NetworkEditOnly ==
    UNCHANGED <<plog, profileEvents, queue, pc, worker, works, leaving, faults>>

CreateNetwork(n, s) ==
    /\ UserEdit
    /\ Stored(n).phase = "absent"
    /\ RecreatesEarly \/ \A c \in Clusters : WorkKey(n, c) \notin leaving
    /\ Write(n, [phase |-> "live", finalizer |-> FALSE,
                 rv |-> Stored(n).rv + 1, spec |-> s])
    /\ NetworkEditOnly

UpdateNetwork(n, s) ==
    /\ UserEdit
    /\ Stored(n).phase # "absent"
    /\ s # Stored(n).spec
    /\ MayDropClusters \/ ClusterSet(Stored(n)) \subseteq ClusterSet([spec |-> s])
    /\ Write(n, [Stored(n) EXCEPT !.rv = @ + 1, !.spec = s])
    /\ NetworkEditOnly

\* A delete removes the object at once, or marks it if a finalizer holds it.
DeleteNetwork(n) ==
    /\ UserEdit
    /\ Stored(n).phase = "live"
    /\ Write(n, IF Stored(n).finalizer
                THEN [Stored(n) EXCEPT !.rv = @ + 1, !.phase = "terminating"]
                ELSE Absent(Stored(n).rv + 1))
    /\ NetworkEditOnly

\* Creating, changing or (with v = NoProvider) deleting a ProviderProfile.
WriteProfile(p, v) ==
    /\ UserEdit
    /\ v # StoredProfile(p)
    /\ plog' = [plog EXCEPT ![p] = Append(@, v)]
    /\ UNCHANGED <<log, profileEvents, queue, pc, worker, works, leaving, faults>>

-----------------------------------------------------------------------------
(* Informers and event handlers (SetupWithManager). *)

\* For(&SliceNetwork{}): every event on a SliceNetwork requests its reconcile.
DeliverNetwork(n) ==
    /\ Len(log[n]) > 1
    /\ log' = [log EXCEPT ![n] = Tail(@)]
    /\ queue' = queue \cup {n}
    /\ UNCHANGED <<plog, profileEvents, pc, worker, works, leaving, edits, faults>>

DeliverProfile(p) ==
    /\ Len(plog[p]) > 1
    /\ plog' = [plog EXCEPT ![p] = Tail(@)]
    /\ profileEvents' = profileEvents \cup {p}
    /\ UNCHANGED <<log, queue, pc, worker, works, leaving, edits, faults>>

\* Watches(&ProviderProfile{}): the handler lists the cached SliceNetworks
\* when it runs, not when the profile changed.
requestsForProviderProfile(p) ==
    /\ p \in profileEvents
    /\ profileEvents' = profileEvents \ {p}
    /\ queue' = queue \cup {n \in Networks :
                              /\ Cached(n).phase # "absent"
                              /\ concernsProfile(p, n.namespace, Cached(n).spec)}
    /\ UNCHANGED <<log, plog, pc, worker, works, leaving, edits, faults>>

\* When the List fails the handler returns no requests: the event is lost.
requestsListError(p) ==
    /\ CacheReadsFail
    /\ faults < MaxFaults
    /\ p \in profileEvents
    /\ profileEvents' = profileEvents \ {p}
    /\ faults' = faults + 1
    /\ UNCHANGED <<log, plog, queue, pc, worker, works, leaving, edits>>

-----------------------------------------------------------------------------
(* Reconcile.  An error return puts the request back into the queue.  A    *)
(* failed read of the cached SliceNetwork returns before anything happens  *)
(* and requeues, which leaves the state as it was.                         *)

Idle ==
    /\ pc' = "idle"
    /\ req' = NoRequest
    /\ obj' = Absent(0)
    /\ prov' = NoProvider
    /\ pos' = 1

\* Mutant of ReturnError: the error is logged and nil returned.
ReturnNil == Idle /\ queue' = queue

ReturnError == Idle /\ queue' = queue \cup {req}

\* A call took effect but its reply was lost: the caller sees an error.
ReplyLost ==
    /\ faults < MaxFaults
    /\ faults' = faults + 1
    /\ ReturnError

\* Mutant of StartReconcile: a claimed SliceNetwork counts as done.
StartReconcileOnce(n) ==
    /\ pc = "idle"
    /\ n \in queue
    /\ queue' = queue \ {n}
    /\ \/ /\ \/ Cached(n).phase = "absent"
             \/ Cached(n).phase = "live" /\ Cached(n).finalizer
          /\ UNCHANGED <<pc, worker>>
       \/ /\ Cached(n).phase = "terminating" \/ ~Cached(n).finalizer
          /\ Cached(n).phase # "absent"
          /\ pc' = IF Cached(n).phase = "live" THEN "claim" ELSE "delete"
          /\ req' = n /\ obj' = Cached(n)
          /\ UNCHANGED <<prov, pos>>
    /\ UNCHANGED <<log, plog, profileEvents, works, leaving, edits, faults>>

\* Mutant of StartReconcile: works are placed without waiting for the finalizer.
StartReconcileUnclaimed(n) ==
    /\ pc = "idle"
    /\ n \in queue
    /\ queue' = queue \ {n}
    /\ \/ /\ Cached(n).phase = "absent"
          /\ UNCHANGED <<pc, worker>>
       \/ /\ Cached(n).phase # "absent"
          /\ pc' = IF Cached(n).phase = "live" THEN "resolve" ELSE "delete"
          /\ req' = n /\ obj' = Cached(n)
          /\ UNCHANGED <<prov, pos>>
    /\ UNCHANGED <<log, plog, profileEvents, works, leaving, edits, faults>>

\* Get the SliceNetwork from the cache and branch on what it says; there is
\* nothing to do for one that is gone, or deleted and already released.
StartReconcile(n) ==
    /\ pc = "idle"
    /\ n \in queue
    /\ queue' = queue \ {n}
    /\ \/ /\ Cached(n).phase # "live"
          /\ ~Cached(n).finalizer
          /\ UNCHANGED <<pc, worker>>
       \/ /\ Cached(n).phase = "terminating"
          /\ Cached(n).finalizer
          /\ pc' = "delete"
          /\ req' = n /\ obj' = Cached(n)
          /\ UNCHANGED <<prov, pos>>
       \/ /\ Cached(n).phase = "live"
          /\ pc' = IF Cached(n).finalizer THEN "resolve" ELSE "claim"
          /\ req' = n /\ obj' = Cached(n)
          /\ UNCHANGED <<prov, pos>>
    /\ UNCHANGED <<log, plog, profileEvents, works, leaving, edits, faults>>

\* Mutant of AddFinalizer: the update carries no resourceVersion.
AddFinalizerUnversioned ==
    /\ pc = "claim"
    /\ LET claimed == [obj EXCEPT !.finalizer = TRUE, !.rv = Stored(req).rv + 1]
       IN /\ Write(req, claimed)
          /\ pc' = "resolve"
          /\ obj' = claimed
          /\ UNCHANGED <<req, prov, pos, queue, faults>>
    /\ UNCHANGED <<plog, profileEvents, works, leaving, edits>>

\* AddFinalizer, r.Update accepted.
AddFinalizer ==
    /\ pc = "claim"
    /\ Stored(req).rv = obj.rv
    /\ LET claimed == [obj EXCEPT !.finalizer = TRUE, !.rv = @ + 1]
       IN /\ Write(req, claimed)
          /\ \/ /\ pc' = "resolve"
                /\ obj' = claimed
                /\ UNCHANGED <<req, prov, pos, queue, faults>>
             \/ ReplyLost
    /\ UNCHANGED <<plog, profileEvents, works, leaving, edits>>

\* resolveNetworkProvider, from the cached profiles.
ResolveProvider ==
    /\ pc = "resolve"
    /\ LET p == resolveProvider(CachedProfiles, req.namespace, obj.spec)
       IN \/ /\ p # NoProvider
             /\ prov' = p
             /\ pc' = "apply"
             /\ UNCHANGED <<req, obj, pos, queue>>
          \/ /\ p = NoProvider
             /\ ReturnError
    /\ UNCHANGED <<log, plog, profileEvents, works, leaving, edits, faults>>

\* ConstructL2NetworkFromL2smmd
DesiredL2Network(n, spec, provider) ==
    [network |-> n, type |-> DefaultIfEmpty(spec.type, "vnet"),
     provider |-> provider]

\* Mutant of NextCluster: off by one at the end of the list.
NextClusterPastEnd(finally) ==
    IF pos > Len(obj.spec.clusters)
    THEN finally
    ELSE /\ pos' = pos + 1
         /\ UNCHANGED <<pc, req, obj, prov>>

\* The loop of ApplyNetwork and of DeleteNetwork over spec.clusters: after
\* the call for the last cluster the worker goes on with finally.
NextCluster(finally) ==
    IF pos = Len(obj.spec.clusters)
    THEN finally
    ELSE /\ pos' = pos + 1
         /\ UNCHANGED <<pc, req, obj, prov>>

\* applyManifestWork: the work is created, or whatever is stored under its
\* key overwritten, after as many conflict retries as it takes.  A work that
\* is being deleted is updated as well, without an error, and goes all the same.
applyWork(key, work) ==
    /\ works' = IF key \in leaving THEN works ELSE [works EXCEPT ![key] = work]
    /\ UNCHANGED leaving

\* Delete: the work is gone at once or, once the work agent has put its
\* finalizer on it, only marked.  A work that is marked or not there stays so.
deleteWork(key) ==
    /\ works' = [works EXCEPT ![key] = NoWork]
    /\ \/ UNCHANGED leaving
       \/ works[key] # NoWork /\ leaving' = leaving \cup {key}

\* ApplyNetwork for one cluster.
ApplyManifestWork ==
    /\ pc = "apply"
    /\ applyWork(WorkKey(req, obj.spec.clusters[pos]),
                 DesiredL2Network(req, obj.spec, prov))
    /\ \/ NextCluster(Idle) /\ UNCHANGED <<queue, faults>>
       \/ ReplyLost
    /\ UNCHANGED <<log, plog, profileEvents, edits>>

\* DeleteNetwork for one cluster; a work that is not there is no error.
DeleteManifestWork ==
    /\ pc = "delete"
    /\ deleteWork(WorkKey(req, obj.spec.clusters[pos]))
    /\ \/ /\ NextCluster(pc' = "release" /\ UNCHANGED worker)
          /\ UNCHANGED <<queue, faults>>
       \/ ReplyLost
    /\ UNCHANGED <<log, plog, profileEvents, edits>>

\* RemoveFinalizer, r.Update accepted.
RemoveFinalizer ==
    /\ pc = "release"
    /\ Stored(req).rv = obj.rv
    /\ Write(req, WithoutFinalizer(obj))
    /\ \/ Idle /\ UNCHANGED <<queue, faults>>
       \/ ReplyLost
    /\ UNCHANGED <<plog, profileEvents, works, leaving, edits>>

\* r.Update refused: the object changed, or is gone, since it was cached.
UpdateRefused ==
    /\ pc \in {"claim", "release"}
    /\ Stored(req).rv # obj.rv
    /\ ReturnError
    /\ UNCHANGED <<log, plog, profileEvents, works, leaving, edits, faults>>

\* Mutant of CallFails: a failed delete is logged and the loop goes on.
CallFailsLogged ==
    /\ pc = "delete"
    /\ faults < MaxFaults
    /\ faults' = faults + 1
    /\ NextCluster(pc' = "release" /\ UNCHANGED worker)
    /\ UNCHANGED <<log, plog, profileEvents, queue, works, leaving, edits>>

\* A call to the API server fails without taking effect.  For ManifestWorks
\* this includes a create that finds the work there and an update that runs
\* out of conflict retries.
CallFails ==
    /\ pc \in {"claim", "apply", "delete", "release"}
    /\ ReplyLost
    /\ UNCHANGED <<log, plog, profileEvents, works, leaving, edits>>

\* The manager crashes and starts again: the worker's locals and the queue
\* are gone, and the informers list everything that is stored.
Restart ==
    /\ faults < MaxFaults
    /\ faults' = faults + 1
    /\ log' = [n \in Networks |-> <<Stored(n)>>]
    /\ plog' = [p \in NamespacedName |-> <<StoredProfile(p)>>]
    /\ profileEvents' = {p \in NamespacedName : StoredProfile(p) # NoProvider}
    /\ queue' = {n \in Networks : Stored(n).phase # "absent"}
    /\ Idle
    /\ UNCHANGED <<works, leaving, edits>>

\* The work agent of a managed cluster has removed what a work put there and
\* lets the work go.
Expire(k) ==
    /\ k \in leaving
    /\ leaving' = leaving \ {k}
    /\ UNCHANGED <<log, plog, profileEvents, queue, pc, worker, works, edits, faults>>

-----------------------------------------------------------------------------
Init ==
    /\ log = [n \in Networks |-> <<Absent(0)>>]
    /\ plog = [p \in NamespacedName |-> <<NoProvider>>]
    /\ profileEvents = {}
    /\ queue = {}
    /\ pc = "idle"
    /\ req = NoRequest
    /\ obj = Absent(0)
    /\ prov = NoProvider
    /\ pos = 1
    /\ works = [k \in WorkKeys |-> NoWork]
    /\ leaving = {}
    /\ edits = 0
    /\ faults = 0

Users ==
    \/ \E n \in Networks, s \in Specs : CreateNetwork(n, s)
    \/ \E n \in Networks, s \in Specs : UpdateNetwork(n, s)
    \/ \E n \in Networks : DeleteNetwork(n)
    \/ \E p \in EditableProfiles, v \in Providers \cup {NoProvider} :
          WriteProfile(p, v)

Informers ==
    \/ \E n \in Networks : DeliverNetwork(n)
    \/ \E p \in NamespacedName : DeliverProfile(p)
    \/ \E p \in NamespacedName : requestsForProviderProfile(p)
    \/ \E p \in NamespacedName : requestsListError(p)

\* The calls of the Reconcile under way.
ReconcileStep ==
    \/ AddFinalizer
    \/ ResolveProvider
    \/ ApplyManifestWork
    \/ DeleteManifestWork
    \/ RemoveFinalizer
    \/ UpdateRefused
    \/ CallFails

Next ==
    \/ Users
    \/ Informers
    \/ \E n \in Networks : StartReconcile(n)
    \/ ReconcileStep
    \/ Restart
    \/ \E k \in WorkKeys : Expire(k)

Spec == Init /\ [][Next]_vars

\* Watches deliver, handlers run and a Reconcile goes on.  The work queue is
\* first in first out, so a request waits for finitely many others: strong
\* fairness, since other requests make the worker busy again and again.
Fairness ==
    /\ \A n \in Networks : WF_vars(DeliverNetwork(n))
    /\ \A p \in NamespacedName : WF_vars(DeliverProfile(p))
    /\ \A p \in NamespacedName : WF_vars(requestsForProviderProfile(p))
    /\ \A n \in Networks : SF_vars(StartReconcile(n))
    /\ WF_vars(ReconcileStep)

FairSpec == Spec /\ Fairness

-----------------------------------------------------------------------------
(* Properties. *)

\* The variables hold values of their types, and a Reconcile under way has a
\* request and stays inside the cluster list of the object it read.
TypeOK ==
    /\ log \in [Networks -> Seq(Version)]
    /\ plog \in [NamespacedName -> Seq(Providers \cup {NoProvider})]
    /\ \A n \in Networks : log[n] # << >>
    /\ \A p \in NamespacedName : plog[p] # << >>
    /\ profileEvents \subseteq NamespacedName
    /\ queue \subseteq Networks
    /\ pc \in {"idle", "claim", "resolve", "apply", "delete", "release"}
    /\ req \in Networks \cup {NoRequest}
    /\ obj \in Version
    /\ prov \in Providers \cup {NoProvider}
    /\ pos \in Nat
    /\ works \in [WorkKeys -> L2Network \cup {NoWork}]
    /\ leaving \subseteq WorkKeys
    /\ edits \in 0..MaxEdits
    /\ faults \in 0..MaxFaults
    /\ (pc = "idle") <=> (req = NoRequest)
    /\ pc # "idle" => pos \in 1..Len(obj.spec.clusters)
    /\ pc = "apply" => prov # NoProvider

\* The cleanup the finalizer stands for (Reconcile, the deletion branch): a
\* ManifestWork that nobody deleted belongs to a SliceNetwork that is still
\* stored, holds the finalizer and lists the work's cluster, whatever stale
\* copy Reconcile worked from and wherever it failed or crashed.  Otherwise no
\* later Reconcile would ever delete the work.
NoOrphanWork ==
    \A k \in WorkKeys :
        works[k] # NoWork =>
            LET n == works[k].network
            IN  /\ Stored(n).finalizer
                /\ k[1] \in ClusterSet(Stored(n))

\* Nothing is pending that could make the controller look at n again.
Settled(n) ==
    /\ n \notin queue
    /\ req # n
    /\ Len(log[n]) = 1
    /\ \A p \in NamespacedName : Len(plog[p]) = 1
    /\ profileEvents = {}

\* The provider that the stored profiles give n.
StoredProvider(n) ==
    resolveProvider([p \in NamespacedName |-> StoredProfile(p)], n.namespace,
                    Stored(n).spec)

\* Every cluster n lists has a work, which is not being deleted, with the
\* L2Network that n's stored spec asks for.
Placed(n) ==
    /\ Stored(n).finalizer
    /\ StoredProvider(n) # NoProvider
    /\ \A c \in ClusterSet(Stored(n)) :
          works[WorkKey(n, c)] =
              DesiredL2Network(n, Stored(n).spec, StoredProvider(n))

\* No wake-up is lost between the work queue, the two watches and the stale
\* cache: when the controller has nothing left to do for a SliceNetwork that
\* exists, each listed cluster has its L2Network with the current type and
\* the provider of the current ProviderProfile.  It is so as long as nobody
\* creates a SliceNetwork anew before the works of the deleted one are gone
\* (~RecreatesEarly): an apply that meets a work on its way out succeeds, and
\* nothing wakes the controller when the work then goes.
SettledImpliesPlaced ==
    \A n \in Networks :
        Settled(n) /\ Stored(n).phase # "absent" => Placed(n)

\* Reconcile compares the user's spec with the cluster state and makes the
\* cluster state reflect it: when nothing is left to do for n, its works are
\* in the clusters it lists and in no other.
ClusterStateReflectsSpec ==
    \A n \in Networks :
        Settled(n) =>
            {k[1] : k \in {w \in WorkKeys : works[w] # NoWork /\ works[w].network = n}}
                \subseteq ClusterSet(Stored(n))

\* The controller writes SliceNetworks back from a cached copy, and yet never
\* undoes an edit: a step that is not a user's leaves the stored spec and
\* phase of every SliceNetwork alone, except that a deleted one goes away.
ControllerKeepsUserEdits ==
    [][edits' = edits =>
         \A n \in Networks :
            \/ /\ Stored(n)'.spec = Stored(n).spec
               /\ Stored(n)'.phase = Stored(n).phase
            \/ /\ Stored(n).phase = "terminating"
               /\ Stored(n)'.phase = "absent"]_vars

\* What the controller shows of the abstract protocol: the finalizer is the
\* claim, a deletion timestamp is the leaving, and a ManifestWork, until it is
\* deleted, is the place.
Status(n) == IF ~Stored(n).finalizer THEN "free"
             ELSE IF Stored(n).phase = "live" THEN "claimed" ELSE "leaving"

Holder(k) == IF works[k] = NoWork THEN NoRequest ELSE works[k].network

Placement == INSTANCE ClaimedPlacement
    WITH Owners <- Networks, Places <- WorkKeys, Nobody <- NoRequest,
         status <- [n \in Networks |-> Status(n)],
         holder <- [k \in WorkKeys |-> Holder(k)]

\* Reconcile implements the claimed placement: works are placed under the
\* finalizer only, deleted only for a deleted SliceNetwork, and the finalizer
\* goes only after the last of them.
ImplementsPlacement == Placement!Spec

\* A deleted SliceNetwork does not hang on its finalizer: with finitely many
\* faults its cleanup ends and the API server lets it go.
DeletionCompletes ==
    \A n \in Networks :
        (Stored(n).phase = "terminating") ~> (Stored(n).phase # "terminating")

\* A SliceNetwork that has a provider ends up placed, once users and faults
\* leave it alone: Reconcile retries every failure and the watches cover
\* every input of the placement but one, the end of a work that is on its way
\* out, so that this too holds only if ~RecreatesEarly.
EventuallyPlaced ==
    \A n \in Networks :
        <>[](\/ Stored(n).phase = "absent"
             \/ StoredProvider(n) = NoProvider
             \/ Placed(n))
=============================================================================
