# A verification project for L2S-CES

L2S-CES is the hub side of L2S-M for several Kubernetes clusters. Users write
`SliceNetwork`s, `SliceOverlay`s and `ProviderProfile`s into the API server of a
hub cluster; two controllers turn each slice into `ManifestWork`s, one in the hub
namespace of every managed cluster the slice lists, and Open Cluster Management
(OCM) carries them to the clusters. This directory holds TLA+ models of that
program, TLC configurations that check them, and TLAPS proofs about them.

## Inventory

| Part | State it keeps | Operations | What makes it correct |
|---|---|---|---|
| SliceNetwork controller (`internal/controller/slicenetwork_controller.go`) | work queue, informer caches; finalizer on the SliceNetwork; works on the hub | `Reconcile`, the two watches, `requestsForProviderProfile` | no work outlives its SliceNetwork; the works follow spec and profiles; deletion ends |
| SliceOverlay controller (`sliceoverlay_controller.go`) | the same, for SliceOverlays | the same, with `ApplySlice` / `DeleteSlice` | the same, and neighbours that agree across clusters |
| Provider resolution (`provider_resolver.go`) | none | `resolveNetworkProvider`, `resolveOverlayProvider` | agrees with the watch on profiles |
| OCM client (`pkg/mdclient/ocmclient.go`) | ManifestWorks | apply and delete of networks and slices, `applyManifestWork`, address lookup and allocation, name sanitising | one work per slice and cluster; addresses usable and distinct |
| REST client, client factory (`restclient.go`, `mdclient.go`) | cluster configurations | the same operations, all returning errors; `NewClient` | a slice is never released while its works are there |
| Generators (`pkg/l2sminterface`, `pkg/topologygenerator`, `cmd/generate-cr`) | none | L2Network, NED, Overlay construction, `ApplyCIDRs`, full mesh; `generate-cr` | disjoint subnets; symmetric neighbours; Overlay and NEDs agree |
| gRPC server (`cmd/server`, `internal/server`) | calls under way | `CreateNetwork`, `DeleteNetwork`, `CreateSlice`, `DeleteSlice`: one call each to the API server | an answer tells what was stored; the devices are those of the message |
| Certificates (`pkg/operator`, `cmd/apply-cert`) | secrets | get, then create or update; list | a certificate reported as applied is in place |
| Manager (`cmd/main.go`, `internal/env`) | client type, default ports | start with a client type, crash, redeployment | cleanup survives a change of client |
| Generated code | - | protobuf, gRPC stubs, deep copies | - |

How they interact. Reconcile reads SliceNetworks and profiles from informer
caches that lag behind the API server, and writes SliceNetworks back with
optimistic locking (`resourceVersion`). It calls the OCM client, which reads and
writes ManifestWorks directly. Watch events on SliceNetworks and ProviderProfiles
put requests into a deduplicating work queue served by one worker. A Reconcile
that returns an error is retried.

The gRPC server writes the same SliceNetworks and SliceOverlays, as one more user.
The work agent of a managed cluster, which is OCM's, writes the ManifestWorks too: it
holds them with a finalizer of its own while their content is on the cluster.

What is hard here: every decision is taken on a cached copy; a finalizer protocol
of several API calls can fail, lose a reply or crash between any two of them; a
profile change must find its way to every slice that uses it, through a second
copy of the reference rules; ManifestWorks and secrets are read, changed and written
back while others write them; a gRPC client that stops waiting does not stop its
handler. PROJECT.json lists these hazards at their lines.

## Modules

| Module | Models |
|---|---|
| `SliceTypes` | names, references and `DefaultIfEmpty`, shared by the controllers |
| `ProviderResolver` | `resolveProvider` and the match loop `concernsProfile` of the profile watch |
| `SliceNetworkController` | the controller, its users, informers, handlers, faults |
| `SliceTopology` | links, monitoring addresses and NEDs that `ApplySlice` computes |
| `SliceOverlayController` | the second controller, ManagedClusters that move unwatched, the manager process and both clients |
| `ManifestWorks` | `applyManifestWork` and the deletes request by request, against other callers and the work agent |
| `SliceService` | the gRPC server, its messages, clients and crashes, up to the devices |
| `CertificateSecrets` | `apply-cert` and `GetClusterCertificates` |
| `OverlayGenerator` | `generate-cr` and `ConstructOverlayFromL2smmd` |
| `WorkNames` | `sanitizeManifestWorkName` |
| `Addresses`, `MonitoringAllocation`, `SubnetPlan` | IPv4 arithmetic, `allocateMonitoringNodeIPs`, `ApplyCIDRs` |
| `ClaimedPlacement` | abstract: what the finalizer protocol promises; both controllers implement it |
| `AtomicStore` | abstract: calls that act as single writes; `ManifestWorks`, `SliceService` and `CertificateSecrets` implement it |
| `Tools` | the calculations and command-line tools side by side, one per behaviour |
| `MCSliceNetworkController`, `MCSliceOverlayController`, `MCSliceService`, `MCTools` | instances for TLC |
| `ProviderResolver_proofs` | the watch and the resolver agree |
| `SliceNetworkController_proofs` | types, no orphaned works, no undone edits, refinement of `ClaimedPlacement`, no lost wake-up |
| `SliceTopology_proofs` | lemmas about links, monitoring addresses and NEDs |
| `SliceOverlayController_proofs` | types, no orphaned works, refinement of `ClaimedPlacement` |
| `SliceOverlaySettled_proofs` | no lost wake-up, devices that fit together |
| `ManifestWorks_proofs` | no stranded content, refinement of `AtomicStore` |
| `SliceService_proofs` | types, refinement of `AtomicStore`, devices that follow the message |
| `Tools_proofs` | addresses, pod ranges, names, Overlays, and the refinement of `AtomicStore` by `apply-cert` |

How they compose. Each controller takes a call of the OCM client for one write of a
work; `ManifestWorks` models what is inside such a call and is proved to act as one
write (`AtomicStore`). `SliceService` takes the controllers for what they do to an
object's life, the finalizer; `SliceOverlayController` and `SliceService` share
`SliceTopology`, so that a message can be followed to the devices made from it.

### SliceNetworkController

State. `log[n]` is the sequence of versions of SliceNetwork `n` from the one in
the cache (its head, `Cached(n)`) to the one in the API server (its last,
`Stored(n)`); a write appends, the watch drops the head. `plog[p]` is the same for
the provider configuration of profile `p`. `profileEvents` are profile events that
are cached but whose handler has not run. `queue` is the work queue. `pc`, `req`,
`obj`, `prov`, `pos` are the program counter and the locals of the one Reconcile
under way. `works` are the ManifestWorks by cluster namespace and name.

A version has a phase (`absent`, `live`, or `terminating` once it carries a
deletion timestamp), the finalizer, a resource version and the spec. A provider
configuration is one opaque value. The work name is a function `WorkName` of the
SliceNetwork's name, which is what `sanitizeManifestWorkName` computes.

Actions. Users create, update and delete SliceNetworks and write profiles.
`DeliverNetwork` and `DeliverProfile` are the informers; the map function
`requestsForProviderProfile` is a step of its own because it lists the cache when
it runs, and `requestsListError` is its early return. Reconcile is cut at its
calls: `StartReconcile` (the Get and the branches), `AddFinalizer`,
`ResolveProvider`, `ApplyManifestWork` and `DeleteManifestWork` (one iteration of
`ApplyNetwork` and `DeleteNetwork`), `RemoveFinalizer`. `UpdateRefused` is a
conflict or a vanished object. `CallFails` is a call that fails without effect,
`ReplyLost` one that took effect and still returns an error. `Restart` empties
queue and worker and refills the caches and the queue from what is stored.

Simplifications, and why they are sound for the properties. A failing Get of the
cached SliceNetwork requeues and changes nothing, so it is no step. `MDClient ==
nil` cannot happen in a manager that started (`SetupWithManager`). The get, create
or update of `applyManifestWork` is one write, which `WorksRefinement` proves it
acts as; its error returns are `CallFails` and `ReplyLost`. A deleted work is gone from
`works` at once; if the work agent has put its finalizer on it, which it may have done
at any time, its key is in `leaving` until the agent lets it go (`Expire`). An apply
that meets a key in `leaving` succeeds and leaves nothing behind, which is the update of
a work with a deletion timestamp; what the agent does step by step is in
`ManifestWorks`. `RecreatesEarly` says whether users may create a SliceNetwork while
works of a deleted one of that name are leaving. A
restart lists from an up-to-date API server. The REST client is in
`SliceOverlayController` only; the two Reconciles treat their client alike.

### SliceTopology and SliceOverlayController

The SliceOverlay controller has the Reconcile of the other one, on its own queue
and types, and the module has the same actions, those of leaving works included. What
differs is the client.
`ApplySlice` has two loops: `ResolveAddress` is one iteration of the first, which
takes the address of a cluster from its gateway or from the ManagedCluster
(`endpoint`, changed by `MoveCluster` at any time and watched by nobody) and keeps
it in `clusterMaps`; monitoring addresses are allocated after the last one.
`ApplyManifestWork` is one iteration of the second, which writes a NED built by
`SliceTopology` from the collected addresses. A slice may list no cluster: both
loops are then skipped. A topology that is nil cannot occur, as CRD validation
requires one. Neighbour and link lists are sets, since nothing reads their order.
The field `slice` of a work is not in the program: it records which SliceOverlay
the work was written for, and only properties read it. Cluster names are not empty
(`allocateMonitoringNodeIPs` refuses an empty one, `ocmclient.go:350`) and, in the runs,
distinct within a slice; what the code does otherwise is among the hazards.

`Meshed`, which `SettledImpliesMeshed` and `EventuallyMeshed` promise of a slice, asks
of each device the provider that the stored spec and profiles give, the links of the
spec, gateways where the spec has them, and that the address and the monitoring address
under which two neighbours know a cluster are the same and, for monitoring, no other
cluster's.

The manager process is part of this module. `env` is the value of
`MULTI_DOMAIN_CLIENT_TYPE`, `MDClient` the client of the running process. `Crash` and
`Redeploy` end the process and lose queue, caches and the pass under way; between
them and `StartManager` users go on and nothing is delivered. `StartManager` makes
the client with `NewClient`, fails for an unknown type (`l2sm` in `overlay_converges`)
and otherwise fills the caches and the queue. With the REST client every pass ends in
an error: at the start of `ApplySlice`, or in `RestDeleteSlice`.

### ManifestWorks

The callers are the threads that may meet at one work: the two controllers for equally
named slices, and replicas of a manager that was started without leader election. `Get`,
`Create`, `Update` and `DeleteWork` are the requests of `applyManifestWork` and of the
delete loops. The update writes the copy that was got; the API server refuses it if
the `resourceVersion` has changed, and `RetryOnConflict` tries again up to `Steps`
attempts. AlreadyExists and NotFound are not retried. A request may fail, or take
effect and lose its reply. The work agent is external and modelled from what OCM lets
a client of the hub see: it adopts a work with a finalizer, then deploys its content,
reports status (which changes the `resourceVersion`), and removes the finalizer of a
deleted work after it has cleaned the cluster.

### SliceService

A message is a record of the fields the server reads, or `Nil`; getters of `Nil` give
zero values, as the generated ones do. `Invoke` is the client stub and starts a
handler; `Handle` is decoding, the dispatch of the service description and the method:
conversion (`sliceNetworkFromProto`, `sliceOverlayFromProto`) and one call to the API
server. Handlers overlap. At a `Deadline` the client stops waiting and the handler
may go on; at a `Crash` the handlers' process is gone, but calls that it had sent still
reach the API server. A reply that is lost is a call that was given up just before it.
The API server checks names, cluster lists and types and fills in the CRD's default
ports; the environment's default ports come later, when a device is made. A slice whose
message has no provider gets one from a ProviderProfile (`ProviderResolver`) before that,
so `DevicesAsRequested` says nothing of the SDN controller of its devices. The
controllers are `Claim` and `Release`. `origin` records the message an object was made
from and is read by properties only.

### CertificateSecrets, OverlayGenerator, WorkNames

`apply-cert` is modelled by its requests; it does not retry a conflict. `generate-cr`
is modelled by its steps, with the results the code ignores: `takeArguments`' error and
that of `os.WriteFile`, which may fail to open the output, or empty it and write a part
(`CutFile`); the exit status is 0 all the same. The YAML text is left out; an Overlay is its provider, nodes
and links. A name is a sequence of kinds of characters, and the lengths 63 and 253
are constants; `sanitizeManifestWorkName` writes one character a step.

### MonitoringAllocation and SubnetPlan

Both functions are loops, modelled iteration by iteration over every input of a
small address space. `net.ParseCIDR` returns the address as written and the
network; `allocateMonitoringNodeIPs` counts from the former and `ApplyCIDRs` from
the latter, and the models keep that difference. `uint32` sums are taken modulo
the width. `ApplyCIDRs` is given an IPv4 CIDR that parses, since it returns the parser's
error unchanged; of an IPv6 CIDR it would panic, as `To4` gives nil
(`l2network_generator.go:73`), without a range. `allocateMonitoringNodeIPs` also gets a
CIDR that it refuses.

## Runs

| Run | Question | Bounds |
|---|---|---|
| `net_lifecycle` | `TypeOK`, `NoOrphanWork`, `ControllerKeepsUserEdits`, `ImplementsPlacement` | 2 networks, 2 clusters, 3 specs, 4 edits, 1 fault |
| `net_converges` | `SettledImpliesPlaced`, `DeletionCompletes`, `EventuallyPlaced` | 1 network with every form of reference, 3 profiles, 4 edits, 1 fault, clusters may be dropped |
| `overlay_lifecycle` | `TypeOK`, `NoOrphanWork`, `ImplementsPlacement` | 2 slices, 2 clusters, 3 specs (one without clusters), 4 edits (redeployments included), 1 fault |
| `overlay_converges` | `SettledImpliesMeshed`, `DeletionCompletes`, `EventuallyMeshed` | 1 slice, 3 clusters, 4 topologies, 2 addresses, 2 provider configurations, 3 client types, 4 edits, 1 fault, clusters may be dropped |
| `works_race` | `ImplementsStore`, `NoStrandedContent` | 2 callers, 1 work, 2 contents, 2 attempts, 4 calls, 1 fault, 2 status reports |
| `service` | `TypeOK`, `DevicesAsRequested`, `ImplementsStore` | 2 clients, 10 requests, 3 calls, 1 fault |
| `tools` | `EveryClusterHasItsAddress`, `AlignedAllocationUsable`, `PodRangesDisjoint`, `OutputAsAsked`, `OverlayMatchesDevices`, `WorkNameUsable`, `SecretsImplementStore` | 5-bit addresses, up to 4 clusters and 20 subnets; names of up to 5 characters, label 3, subdomain 4; 2 administrators, 4 clusters, 3 runs, 1 fault |
| `net_drop` | `ClusterStateReflectsSpec`: violated | 2 edits, no fault |
| `net_collision` | `SettledImpliesPlaced`: violated | same name in two namespaces, 2 edits, no fault |
| `overlay_shared` | `SharedProviderKeepsDevicesApart`: violated | 2 slices, 3 edits, no fault |
| `monitoring_unaligned` | `AllocationUsable`: violated | 3-bit addresses, 2 clusters |
| `works_leaving` | `AppliedStays`: violated | 1 caller, 3 calls, 5 attempts, no fault |

Four edits allow create, grow, delete and create again, with a profile change, a moving
cluster or a redeployment in place of any of them; that is where a stale cached copy of
the first incarnation meets the second. One fault already puts a lost reply, a failed
call or a crash at any point, and the proofs have no such bound. Three clusters are
the least for two NEDs to disagree about a third. Four calls are the least for a create,
a delete and two updates of one work to overlap, and two status reports use up the
attempts of an update. Three gRPC calls put a create, the delete given up by its
client and a second create in every order. Five address bits hold networks with 0, 2,
6, 14 and 30 usable addresses around the bound on clusters, and wrap at the end of the
address space; a label of 3 in a subdomain of 4 leaves names that are cut, names that
are valid though longer than a label, and names that are too long for both. `tools` holds
the programs that interact with nothing else: each behaviour is one of them, and the
others rest. Deadlock checking is off: an idle controller or server waits for users, and
a function that returned takes no further step.

Fairness (`FairSpec`). Watches deliver and handlers run (weak fairness): informers
retry. A Reconcile under way goes on (weak fairness). A queued request is served
(strong fairness): the queue is first in first out, and other requests keep making
the worker busy. Users and faults are never required to act, and both are bounded,
which stands for "eventually left alone". Nothing is assumed of ManagedClusters:
`EventuallyMeshed` speaks of slices whose clusters have addresses. The kubelet starts
a manager that ended again (weak fairness of `StartManager`). Nothing is assumed of the
client type either: `DeletionCompletes` of SliceOverlays speaks of a manager that is
finally left with the OCM client. Nor is the work agent made to act: no property waits
for `Expire`.

`RecreatesEarly` holds in `net_lifecycle` and `overlay_lifecycle`: cleanup, edits and the
refinement must not depend on when works go. It does not hold in `net_converges` and
`overlay_converges`: there users create a slice anew once the works of the old one are
gone. With `RecreatesEarly = TRUE` in `net_converges.cfg` or `overlay_converges.cfg` TLC
finds `SettledImpliesPlaced` or `SettledImpliesMeshed` violated, which is the finding of
`works_leaving` seen from the controller. Works leave in these runs too,
also while the deletion they belong to is repeated, interrupted or waits for the
finalizer.

What the violations show:

- `net_drop`: remove a cluster from `spec.clusters` and its ManifestWork stays,
  also after the SliceNetwork is deleted, because both loops only know the current
  list. The comment above Reconcile wants the cluster state to reflect the spec.
- `net_collision`: the work of a SliceNetwork is named without its namespace;
  equally named SliceNetworks of two namespaces take each other's work.
- `overlay_shared`: a NED is named after the provider; two slices of a namespace
  that share a ProviderProfile put one object into two works of a cluster.
- `monitoring_unaligned`: `10.0.0.254/24` is accepted for two clusters and hands
  out the broadcast address and one of the next network.
- `works_leaving`: `applyManifestWork` updates a work that is being deleted and waits
  for the work agent, and reports success; the work then goes away, and nothing
  watches ManifestWorks. A SliceNetwork that is deleted and created again before the
  agent is done stays without its work, and its Reconcile returned nil.

Some disagreements were met that no run checks, as they show in a single line. The
comment on `OverlayCluster.Gateway` (`sliceoverlay_types.go:42`) says that a gateway
also becomes the address in the cluster's own node configuration, and `ApplySlice`
never sets one. The unit test of `ApplyCIDRs` (`l2network_generator_test.go:137`)
reads the subnet from `NetworkCIDR`, which the code sets to the whole network; the
subnet is in `PodAddressRange`. The `.proto` file gives a `Slice` a monitor, which the
generated code lacks. `generate-cr` without an output prints a slice of bytes as
numbers. The default OpenFlow port is 6633 in the CRD and 30663 in the environment; the
latter is used only for a slice without any provider. A slice made through gRPC is named
after its provider, so that a second slice of a provider is refused and `DeleteSlice`
deletes whichever is there. A cluster with certificates in two namespaces has the one
that is listed last.

## Proofs

Every safety property that a passing run checks is also a theorem, for every value of
the constants: any number of slices, clusters, clients, edits, faults and crashes, any
width of an address. The inductive invariants were model-checked before they
were proved.

| Theorem | Statement | Where |
|---|---|---|
| `WatchCoversResolution`, `WatchIsExact` | the watch handler requests exactly the slices whose provider a profile decides | `ProviderResolver_proofs` |
| `TypeCorrect` | `Spec => []TypeOK` | `SliceNetworkController_proofs` |
| `NoOrphans` | `~MayDropClusters => (Spec => []NoOrphanWork)` | |
| `KeepsUserEdits` | `Spec => ControllerKeepsUserEdits` | |
| `Refinement` | `~MayDropClusters /\ DistinctWorkNames => (Spec => ImplementsPlacement)` | |
| `NoLostWakeUp` | `~CacheReadsFail /\ ~RecreatesEarly /\ DistinctWorkNames => (Spec => []SettledImpliesPlaced)` | |
| `OverlayTypeCorrect`, `NoOrphanDevices`, `OverlayRefinement` | the first, second and fourth of these, for SliceOverlays | `SliceOverlayController_proofs` |
| `NoLostSlice` | `~CacheReadsFail /\ ~RecreatesEarly /\ DistinctWorkNames /\ SpecsListOnce => (Spec => []SettledImpliesMeshed)` | `SliceOverlaySettled_proofs` |
| `NothingStranded`, `WorksRefinement` | `Spec => []NoStrandedContent`, `Spec => ImplementsStore` | `ManifestWorks_proofs` |
| `ServiceTypeCorrect`, `ServiceRefinement` | `Spec => []TypeOK`, `Spec => ImplementsStore` | `SliceService_proofs` |
| `DevicesFollowRequests` | `MessagesListOnce => (Spec => []DevicesAsRequested)` | |
| `EveryClusterItsAddress`, `AlignedClustersGetHosts` | `Spec => []EveryClusterHasItsAddress`, `Spec => []AlignedAllocationUsable` | `Tools_proofs` |
| `PodRangesApart` | `Spec => []PodRangesDisjoint` | |
| `WorkNamesUsable` | `Spec => []WorkNameUsable` | |
| `GeneratorWritesWhatIsAsked`, `OverlayAgreesWithDevices` | `Spec => []OutputAsAsked`, `Spec => []OverlayMatchesDevices` | |
| `CertificatesRefinement` | `Spec => SecretsImplementStore` | |

Hypotheses. `~MayDropClusters` (users only add clusters), `DistinctWorkNames` and
`~RecreatesEarly` (no slice is created anew while works of its predecessor have yet to
go) are there because the program fails without them: `net_drop`, `net_collision` and
`works_leaving` show it. Where `~RecreatesEarly` is no hypothesis the theorem holds in
either case.
`~CacheReadsFail` leaves out the early return of the watch handler when its List fails,
which drops a profile's event; PROJECT.json has it as a hazard. `SpecsListOnce` and
`MessagesListOnce` say that no spec and no message lists a cluster twice. The CRD does
not ask for it; a cluster that is listed twice is linked to itself in a full mesh and
has two gateways of which one counts, so that a claim about "its" device means little.
Each theorem's hypotheses hold in the run that checks its property, so that none is
empty.

Assumptions on constants are named in the modules that declare them, and TLC evaluates
them in every run: names and the values that stand for nil or an error are told apart
from real ones, specs and messages have the types of the API, every spec of a
SliceNetwork lists a cluster (CRD validation). `PowersAssumption` (`Tools`) is not about
the program: it is the recursion by which the `Integers` module defines `2^n`, which
the provers do not know. All that the proofs use of powers follows from it.

### The controllers

`NoOrphanWork` is not inductive: removing the finalizer is safe only
because the removed version is the stored one, the works deleted are those of the
stored cluster list, and no Reconcile will later start from an older, live version
that is still on its way to the cache. `IndInv` says so. `LogOK` orders the
versions the cache has yet to see: resource versions grow, a live claimed version
is followed only by claimed ones with at least its clusters, and a terminating one
only by terminating or unclaimed ones. `ObjOK` ties the worker's copy to the stored
version of equal resource version. `CopyOK` says that the copy is no newer than
the cache until the worker writes, so that an accepted update means the cache was
up to date (`AcceptedUpdate`) and the log it extends has one version. `PlaceOK`,
`DeleteOK` and `ProgressOK` follow the two loops; `WorksOK` is the goal. Each
action has a lemma that it preserves `IndInv`; all user writes go through
`UserWriteStep`. The refinement maps the finalizer to the claim, the deletion
timestamp to leaving and the works to the places held; a Reconcile that repeats a
finished deletion from a stale copy maps to stuttering, because `DeleteOK` and
`WorksOK` leave it no work to delete. The SliceOverlay controller has the same
invariant, with the process and the client added: a copy means nothing once the manager
is gone, and the REST client changes no work.

No lost wake-up. `SettledImpliesPlaced` speaks of a controller at rest; the invariant has
to speak of one at work. `NotifiedOK`: a slice that the cache holds is waited for (a
request, an undelivered version or an unhandled profile event will bring the controller
back to it), or worked on, or done as the *caches* ask. `PassOK`: the pass under way
works from what the caches hold now, and the works behind its loop variable are what
they ask for, unless the slice is waited for again. A profile event that reaches the
cache may so undo "done" only together with an event that concerns the slice, which is
where `WatchCoversResolution` comes in: the handler's match loop must find every slice
whose resolved provider the profile decides. For SliceOverlays "done" also says that the
devices were made from one set of addresses, and `GatewaysOK` follows that set through
the first loop of `ApplySlice`; `SliceTopology_proofs` then gives that such devices fit
together (`LinkedByLinks`, `NeighborOf`, `MonitoredNode`).

An apply leaves a work behind only if none of its slice is leaving, and users who wait
before they create a slice anew are not enough for that: a Reconcile that works from a
stale copy may repeat the deletion when the new slice is already there. `LeavingInv`
says that it then marks nothing. Once the finalizer is gone the deletion is the oldest
version that the cache may still show, and the clusters that it lists have no work of
the slice (`SeenOK`); the same holds of the copy in the worker's hands (`RepeatOK`); so
that no work of a live slice is leaving (`LeavingOK`).

### ManifestWorks

The finalizer of the work agent could be lost in an
update that writes an older copy back. `IInv` excludes it: resource versions only grow
(`VersionsOK`), so a copy with the stored `resourceVersion` is the stored work
(`CopyOK`), and an accepted update changes the content alone. Every write goes through
`StoreStep` or `RemoveStep`. For the refinement `ProtocolOK` ties the request a caller
makes next to the call it answers; the write of a request is then the moment at which
the call takes effect, and an error answer after it is a failure with effect.

### SliceService

An answer could be given to the wrong call: handlers outlive their clients' deadlines,
and their clients call again. `CallsOK` says that ids of calls are given once (`IdsOK`)
and that the handler with the id a client waits for serves that client's request
(`AwaitedOK`). A handler whose client stopped waiting, or whose process is gone, is
mapped to a late call of `AtomicStore`. `StoredFrom` says that an object is what some
request converts to under that request's key; what the conversion and the CRD's defaults
make of a message is then a matter of operators, and `DeviceFollows` of those of
`SliceTopology`.

### Tools

The invariants follow the loops. `Allocated(i)`: after `i` clusters, these have the `i`
addresses after the one that the CIDR is written with, and no name came twice. That the
addresses differ although the sum wraps is `AddressesDiffer`, from the check against
`usableHosts`; that they are hosts' addresses if the CIDR is aligned is `AlignedAddress`.
`PlanOK` does the same for `ApplyCIDRs`; `BitLength` shows that the bit length counts up
to `numberClusters`, and `Carve` that so many subnets lie one after another in the
network. Powers of 2 need induction over numbers, which is done by the least
counterexample (`Least`, from the well-founded order of the naturals): the library's
induction theorems themselves take an operator, which the provers cannot instantiate.
`NamesOK` says that the loop of `sanitizeManifestWorkName` writes letters, digits and
dashes; `TrimTrims` and `TruncateTrims` do the rest. `SecretsOK` ties the request that
`apply-cert` makes next to its arguments, as `ProtocolOK` does for works.

### Only model-checked

`DeletionCompletes` and `EventuallyPlaced` of SliceNetworks, `DeletionCompletes` and
`EventuallyMeshed` of SliceOverlays: liveness under fairness is out of the prover's
reach. Their safety part, that a controller at rest has done its job, is proved. The
violations are TLC's as well.

## Plan

1. Proofs: what the violated properties still leave true, as theorems of their own:
   which works a dropped cluster can leave behind, and what an apply on a leaving work
   promises.
2. A hub with both controllers on shared works and two replicas without leader
   election, composed from the modules above.

## Not modelled

Deep copies, protobuf descriptors and reflection, and the messages of the methods that
the server does not implement (generated and unused). `GetRestConfigs`, which reads
kubeconfig files and has no caller. Leader election, metrics, webhooks, TLS and probe
options, flag parsing and logging. The text of YAML and JSON files, the switch template
and the GVR helpers. The parsing and DNS lookup of a ManagedCluster's endpoint, which is
one read of `endpoint`. Status fields, which the API declares and no code writes. See
PROJECT.json for each part.
