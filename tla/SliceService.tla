---------------------------- MODULE SliceService ----------------------------
(***************************************************************************)
(* The gRPC server: clients ask for networks and slices, a handler turns   *)
(* the message into a SliceNetwork or SliceOverlay and makes one call to   *)
(* the API server.  Handlers of several clients run at once; a client may  *)
(* stop waiting while its handler goes on; the server may crash.  The slice *)
(* controllers are seen as far as an object lives: they put a finalizer on *)
(* it and let it go after its deletion.                                    *)
(*                                                                         *)
(* A message is a record of the fields that the server reads, or Nil where *)
(* the sender left a message field out; strings are small sets.            *)
(***************************************************************************)
EXTENDS SliceTopology

CONSTANTS
    Nil,           \* a nil message
    Clients,       \* gRPC clients
    Requests,      \* the requests that clients send
    Malformed,     \* the message of a request whose bytes do not decode
    NetworkTypes,  \* the network types that the CRD admits
    Ports,         \* the ports of an SDN controller
    SchemaPort,    \* their defaults in the CRDs
    DefaultPort,   \* their defaults in the environment
    Nothing,       \* no object
    NoCall,        \* the client is not in a call
    MaxCalls,      \* bound on calls
    MaxFaults      \* bound on lost replies, deadlines and crashes

\* The methods of the service, and those that server.go overrides; the
\* others return codes.Unimplemented.
Networks == {"CreateNetwork", "DeleteNetwork"}
Creating == {"CreateNetwork", "CreateSlice"}
Deleting == {"DeleteNetwork", "DeleteSlice"}
Unimplemented == {"CreateOverlay", "AddCluster", "RemoveCluster", "DeleteOverlay"}
Methods == Creating \cup Deleting \cup Unimplemented

ASSUME ServiceAssumption ==
    /\ Nil # Malformed
    /\ NoCall \notin Requests
    /\ \A r \in Requests : r.method \in Methods
    /\ MaxCalls \in Nat /\ MaxFaults \in Nat

\* Every service of an SDN controller has a default port.
ASSUME PortsAssumption ==
    {SchemaPort, DefaultPort} \subseteq [Ports -> STRING \ {Empty}]

-----------------------------------------------------------------------------
(* Messages, and their getters: a getter of Nil returns the zero value. *)

ProviderMessage(name, domain, ports) == [name |-> name, domain |-> domain, ports |-> ports]
NodeMessage(name, ip) == [name |-> name, ipAddress |-> ip]
ClusterMessage(name, gateway) == [name |-> name, gatewayNode |-> gateway]
LinkMessage(a, b) == [endpointA |-> a, endpointB |-> b]

\* A Slice, which has no name and, although the .proto file lists one, no
\* monitor; of an L2Network the pod_cidr is not read.
SliceMessage(provider, clusters, links) ==
    [provider |-> provider, clusters |-> clusters, links |-> links]
L2NetworkMessage(name, provider, type, clusters) ==
    [name |-> name, provider |-> provider, type |-> type, clusters |-> clusters]

Request(method, message, namespace) ==
    [method |-> method, message |-> message, namespace |-> namespace]

CreateNetworkRequest(network, namespace) == Request("CreateNetwork", network, namespace)
DeleteNetworkRequest(network, namespace) == Request("DeleteNetwork", network, namespace)
CreateSliceRequest(slice, namespace) == Request("CreateSlice", slice, namespace)
DeleteSliceRequest(slice, namespace) == Request("DeleteSlice", slice, namespace)

\* The types of l2sces.proto.  The clusters that a slice names are Clusters.
ProviderMessages == [name : STRING, domain : STRING, ports : [Ports -> STRING]]
NodeMessages == [name : STRING, ipAddress : IPAddresses \cup {Empty}]
ClusterMessages == [name : Clusters, gatewayNode : NodeMessages \cup {Nil}]
LinkMessages == [endpointA : Clusters, endpointB : Clusters]
SliceMessages == [provider : ProviderMessages \cup {Nil},
                  clusters : Seq(ClusterMessages), links : Seq(LinkMessages)]

ASSUME MessagesAssumption ==
    /\ Nil \notin ProviderMessages \cup NodeMessages \cup SliceMessages
    /\ \A r \in Requests : r.method \in {"CreateSlice", "DeleteSlice"} =>
          r.message \in SliceMessages \cup {Nil, Malformed}

ProviderFields(m) == IF m = Nil THEN ProviderMessage(Empty, Empty, [p \in Ports |-> Empty]) ELSE m
SliceFields(m) == IF m = Nil THEN SliceMessage(Nil, << >>, << >>) ELSE m
L2NetworkFields(m) == IF m = Nil THEN L2NetworkMessage(Empty, Nil, Empty, << >>) ELSE m

-----------------------------------------------------------------------------
(* Conversions to API objects. *)

ProviderSpec == [name : STRING, domain : Seq(STRING), ports : [Ports -> STRING]]

\* What a provider message means: no domain where it has none, and the CRD's
\* port where it has none.
Configuration(m) ==
    [name   |-> m.name,
     domain |-> IF m.domain = Empty THEN << >> ELSE <<m.domain>>,
     ports  |-> [p \in Ports |-> DefaultIfEmpty(m.ports[p], SchemaPort[p])]]

\* Providers has the configurations that clients send.
ASSUME ConfigurationsAssumption ==
    /\ NoProvider \notin ProviderSpec
    /\ \A r \in Requests :
          r.message \in SliceMessages /\ r.message.provider # Nil =>
              Configuration(r.message.provider) \in Providers

\* Mutant of providerFromProto: a domain that is left out becomes an empty one.
providerFromProtoBlank(m) ==
    IF m = Nil THEN NoProvider
    ELSE [name |-> m.name, domain |-> <<m.domain>>, ports |-> m.ports]

providerFromProto(m) ==
    IF m = Nil THEN NoProvider
    ELSE [name   |-> m.name,
          domain |-> IF m.domain = Empty THEN << >> ELSE <<m.domain>>,
          ports  |-> m.ports]

\* An object of the API server and its key; origin, which no field holds, is
\* the message it was made from.
Object(kind, name, namespace, spec, origin) ==
    [key   |-> [kind |-> kind, namespace |-> DefaultIfEmpty(namespace, "default"),
                name |-> name],
     value |-> [spec |-> spec, origin |-> origin]]

sliceNetworkFromProto(message, namespace) ==
    LET network == L2NetworkFields(message)
    IN  Object("SliceNetwork", network.name, namespace,
               [type     |-> network.type,
                clusters |-> [i \in DOMAIN network.clusters |-> network.clusters[i].name],
                provider |-> providerFromProto(network.provider)],
               message)

\* Mutant of gatewayFromProto: a gateway counts only if its node has a name.
gatewayFromNamedProto(node) ==
    IF node = Nil \/ node.name = Empty THEN Empty ELSE node.ipAddress

gatewayFromProto(node) == IF node = Nil THEN Empty ELSE node.ipAddress

\* A slice is named after its provider.
sliceOverlayFromProto(message, namespace) ==
    LET slice == SliceFields(message)
    IN  Object("SliceOverlay",
               DefaultIfEmpty(ProviderFields(slice.provider).name, "slice"), namespace,
               [nodes       |-> [i \in DOMAIN slice.clusters |->
                                   [name    |-> slice.clusters[i].name,
                                    gateway |-> gatewayFromProto(slice.clusters[i].gatewayNode)]],
                links       |-> {<<slice.links[i].endpointA, slice.links[i].endpointB>> :
                                   i \in DOMAIN slice.links},
                monitoring  |-> NoMonitoring,
                providerRef |-> NoRef,
                provider    |-> providerFromProto(slice.provider)],
               message)

-----------------------------------------------------------------------------
(* The service: clients, the server's handlers, the API server. *)

VARIABLES
    objects,   \* objects[k]: [value, finalizer, terminating], or Nothing
    running,   \* does the server process run?
    handlers,  \* the handlers at work; one is not alive if its process
               \* crashed while its call was on the way to the API server
    waiting,   \* waiting[c]: the id of the call that c waits for, 0 if none
    call,      \* call[c]: the request of that call
    answer,    \* answer[c]: what the last call returned
    calls, faults   \* bounded counters

vars == <<objects, running, handlers, waiting, call, answer, calls, faults>>

Decodes(r) == r.message # Malformed

\* The object that a request is about.
Converted(r) == IF r.method \in Networks
                THEN sliceNetworkFromProto(r.message, r.namespace)
                ELSE sliceOverlayFromProto(r.message, r.namespace)

\* The API server fills in the ports that a provider leaves out.
Defaulted(value) ==
    IF value.spec.provider = NoProvider THEN value
    ELSE [value EXCEPT !.spec.provider.ports =
            [p \in Ports |-> DefaultIfEmpty(@[p], SchemaPort[p])]]

Implemented == {r \in Requests : Decodes(r) /\ r.method \notin Unimplemented}
Keys == {Converted(r).key : r \in Implemented}
Values == {Defaulted(Converted(r).value) : r \in Implemented}

\* Some request is served; a message is told from no object at all.
ASSUME ObjectsAssumption ==
    /\ Implemented # {}
    /\ \A r \in Implemented : r.message # Nothing

ApiObject == [value : Values, finalizer : BOOLEAN, terminating : BOOLEAN]

ASSUME NothingAssumption == Nothing \notin ApiObject

Handler == [id : 1..MaxCalls, client : Clients, request : Requests, alive : BOOLEAN]

\* The state and the messages keep their types.
TypeOK ==
    /\ objects \in [Keys -> ApiObject \cup {Nothing}]
    /\ \A k \in Keys : k.kind = "SliceOverlay" /\ objects[k] # Nothing =>
          objects[k].value.spec \in SliceOverlaySpec
    /\ running \in BOOLEAN
    /\ handlers \subseteq Handler
    /\ waiting \in [Clients -> 0..MaxCalls]
    /\ call \in [Clients -> Requests \cup {NoCall}]
    /\ answer \in [Clients -> {"idle", "pending", "ok", "error"}]
    /\ calls \in 0..MaxCalls /\ faults \in 0..MaxFaults

Init ==
    /\ objects = [k \in Keys |-> Nothing]
    /\ running = FALSE
    /\ handlers = {}
    /\ waiting = [c \in Clients |-> 0]
    /\ call = [c \in Clients |-> NoCall]
    /\ answer = [c \in Clients |-> "idle"]
    /\ calls = 0 /\ faults = 0

\* main registers the service and serves.
Serve ==
    /\ ~running
    /\ running' = TRUE
    /\ UNCHANGED <<objects, handlers, waiting, call, answer, calls, faults>>

\* A client stub invokes a method; grpc starts a handler for it.
Invoke(c, r) ==
    /\ waiting[c] = 0
    /\ calls < MaxCalls
    /\ calls' = calls + 1
    /\ waiting' = [waiting EXCEPT ![c] = calls + 1]
    /\ call' = [call EXCEPT ![c] = r]
    /\ answer' = [answer EXCEPT ![c] = "pending"]
    /\ handlers' = IF running
                   THEN handlers \cup {[id |-> calls + 1, client |-> c, request |-> r,
                                        alive |-> TRUE]}
                   ELSE handlers
    /\ UNCHANGED <<objects, running, faults>>

Answer(c, a) ==
    /\ waiting' = [waiting EXCEPT ![c] = 0]
    /\ call' = [call EXCEPT ![c] = NoCall]
    /\ answer' = [answer EXCEPT ![c] = a]

\* The handler h returns.  What it returns reaches the client if that waits
\* for it: a reply that gets lost is a call that was given up just before.
Reply(h, a) ==
    /\ h.alive \/ waiting[h.client] # h.id
    /\ handlers' = handlers \ {h}
    /\ IF waiting[h.client] = h.id
       THEN Answer(h.client, a)
       ELSE UNCHANGED <<waiting, call, answer>>
    /\ UNCHANGED <<running, calls>>

\* dec fails, or the method is inherited from Unimplemented...Server.
Refuse(h) ==
    /\ ~Decodes(h.request) \/ h.request.method \in Unimplemented
    /\ Reply(h, "error")
    /\ UNCHANGED <<objects, faults>>

\* The API server's checks of a new object: the CRDs' schemas.
Admitted(o) ==
    /\ o.key.name # Empty
    /\ o.key.kind = "SliceNetwork" =>
          /\ o.value.spec.clusters # << >>
          /\ o.value.spec.type \in NetworkTypes

Stored(o) ==
    objects' = [objects EXCEPT ![o.key] =
                  [value |-> Defaulted(o.value), finalizer |-> FALSE, terminating |-> FALSE]]

\* Deletion of an object marks it while it has a finalizer.
Deleted(o) ==
    objects' = [objects EXCEPT ![o.key] =
                  IF @.finalizer THEN [@ EXCEPT !.terminating = TRUE] ELSE Nothing]

\* Does the API server accept the call?  A create wants no object under the
\* key, a delete wants one.
Accepted(r) ==
    LET o == Converted(r)
    IN  \/ r.method \in Creating /\ objects[o.key] = Nothing /\ Admitted(o)
        \/ r.method \in Deleting /\ objects[o.key] # Nothing

\* The call to the API server succeeds.
Effect(h) ==
    /\ Accepted(h.request)
    /\ \/ h.request.method \in Creating /\ Stored(Converted(h.request))
       \/ h.request.method \in Deleting /\ Deleted(Converted(h.request))

\* Mutant of CouldNot: the method ignores the error.
CouldNotQuietly(h) == Reply(h, "ok")

\* The method returns the error of its call.
CouldNot(h) == Reply(h, "error")

\* CreateNetwork, CreateSlice, DeleteNetwork and DeleteSlice.
Method(h) ==
    /\ h.request \in Implemented
    /\ \/ Effect(h) /\ Reply(h, "ok") /\ UNCHANGED faults
       \/ /\ ~Accepted(h.request)
          /\ CouldNot(h)
          /\ UNCHANGED <<objects, faults>>
       \/ /\ faults < MaxFaults        \* the API server does not answer
          /\ faults' = faults + 1
          /\ Effect(h) \/ UNCHANGED objects
          /\ CouldNot(h)

\* The handler of a call: decode the request, call the method.
Handle(h) == Refuse(h) \/ Method(h)

\* The client's deadline passes; grpc tells the handler's context, but the
\* call to the API server may be on its way.
Deadline(c) ==
    /\ waiting[c] # 0
    /\ faults < MaxFaults
    /\ faults' = faults + 1
    /\ Answer(c, "error")
    /\ \/ UNCHANGED handlers
       \/ handlers' = {h \in handlers : h.id # waiting[c]}
    /\ UNCHANGED <<objects, running, calls>>

\* The connection was lost or refused.
Unavailable(c) ==
    /\ waiting[c] # 0
    /\ ~ \E h \in handlers : h.id = waiting[c] /\ h.alive
    /\ Answer(c, "error")
    /\ UNCHANGED <<objects, running, handlers, calls, faults>>

Crash ==
    /\ running /\ faults < MaxFaults
    /\ faults' = faults + 1
    /\ running' = FALSE
    /\ \E sent \in SUBSET handlers :
          handlers' = {[h EXCEPT !.alive = FALSE] : h \in sent}
    /\ UNCHANGED <<objects, waiting, call, answer, calls>>

\* The slice controllers: a finalizer on a live object, off a deleted one.
Claim(k) ==
    /\ objects[k] # Nothing
    /\ ~objects[k].finalizer /\ ~objects[k].terminating
    /\ objects' = [objects EXCEPT ![k].finalizer = TRUE]
    /\ UNCHANGED <<running, handlers, waiting, call, answer, calls, faults>>

Release(k) ==
    /\ objects[k] # Nothing
    /\ objects[k].terminating
    /\ objects' = [objects EXCEPT ![k] = Nothing]
    /\ UNCHANGED <<running, handlers, waiting, call, answer, calls, faults>>

Next ==
    \/ Serve \/ Crash
    \/ \E c \in Clients : Deadline(c) \/ Unavailable(c) \/ \E r \in Requests : Invoke(c, r)
    \/ \E h \in handlers : Handle(h)
    \/ \E k \in Keys : Claim(k) \/ Release(k)

Spec == Init /\ [][Next]_vars

-----------------------------------------------------------------------------
(* What the service promises its clients. *)

AbstractCall(r) ==
    IF r \in Implemented
    THEN [op    |-> IF r.method \in Creating THEN "create" ELSE "remove",
          key   |-> Converted(r).key,
          value |-> r.message]
    ELSE [op |-> "other", key |-> CHOOSE k \in Keys : TRUE, value |-> Nothing]

\* What a client sees of an object, and the calls that it waits for or gave up.
Content(k) == IF objects[k] = Nothing THEN Nothing ELSE objects[k].value.origin
Leaving(k) == objects[k] # Nothing /\ objects[k].terminating
Pending(c) == IF call[c] = NoCall THEN NoCall ELSE AbstractCall(call[c])
Late == {<<h.id, AbstractCall(h.request)>> : h \in {g \in handlers : waiting[g.client] # g.id}}

Store == INSTANCE AtomicStore WITH
    Processes <- Clients,
    Values    <- {r.message : r \in Implemented},
    Tokens    <- 1..MaxCalls,
    stored    <- [k \in Keys |-> Content(k)],
    leaving   <- {k \in Keys : Leaving(k)},
    call      <- [c \in Clients |-> Pending(c)],
    late      <- Late

\* A method that answers without an error created or removed the object once,
\* between the call and the answer; one that answers with an error did so at
\* most once, the client that hit its deadline or lost the server being in
\* doubt; and no create overwrites an object, whatever handlers, deadlines and
\* crashes interleave.
ImplementsStore == Store!Spec

\* The port that a device gets, its environment's default if none was given.
port(ports, p) == DefaultIfEmpty(ports[p], DefaultPort[p])

\* The SDN controller of a device of a slice that has a provider of its own:
\* the provider with its first domain, and the default ports where it has none.
\* (Any other slice gets its provider from a ProviderProfile first, see
\* resolveOverlayProvider in ProviderResolver.)
SDNController(provider) ==
    IF provider = NoProvider
    THEN [name |-> Empty, domain |-> Empty, ports |-> DefaultPort]
    ELSE [name   |-> provider.name,
          domain |-> IF provider.domain = << >> THEN Empty ELSE provider.domain[1],
          ports  |-> [p \in Ports |-> port(provider.ports, p)]]

\* The device of cluster c that ApplySlice makes from a stored slice, but for
\* the provider of a slice without one, where address[d] is what the
\* ManagedCluster d tells.
Device(spec, address, c) ==
    NED(spec,
        [d \in NodeNames(spec) |->
           LET i == CHOOSE j \in DOMAIN spec.nodes : spec.nodes[j].name = d
           IN  DefaultIfEmpty(spec.nodes[i].gateway, address[d])],
        SDNController(spec.provider), c)

\* Do the links of a Slice message connect c and d?
Linked(slice, c, d) ==
    \/ slice.links = << >> /\ c # d
    \/ \E i \in DOMAIN slice.links :
          {slice.links[i].endpointA, slice.links[i].endpointB} = {c, d}

\* Does the device of the i-th cluster of a message follow it, as far as the
\* j-th cluster goes?
DeviceFollows(spec, slice, i, j) ==
    LET c    == slice.clusters[i].name
        d    == slice.clusters[j].name
        node == slice.clusters[j].gatewayNode
        said == ProviderFields(slice.provider)
        ned  == Device(spec, [e \in Clusters |-> e], c)
        ns   == {n \in ned.neighbors : n.node = d}
    IN  /\ Linked(slice, c, d) <=> ns # {}
        /\ \A n \in ns : n.domain = IF node = Nil \/ node.ipAddress = Empty
                                    THEN d ELSE node.ipAddress
        /\ slice.provider # Nil =>
              /\ ned.provider.name = said.name
              /\ ned.provider.domain = said.domain
              /\ \A p \in Ports :
                    /\ ned.provider.ports[p] # Empty
                    /\ said.ports[p] \in {Empty, ned.provider.ports[p]}

\* Every device that a stored slice leads to follows the client's message:
\* its neighbours are the clusters that the message's links join to it, all
\* others where the message has no link; a neighbour is reached at the address
\* of the gateway node in the message and otherwise at its ManagedCluster's;
\* and it is under the SDN controller that the message names, if it names one,
\* with a port for each of the controller's services.
DevicesAsRequested ==
    \A k \in Keys : k.kind = "SliceOverlay" /\ objects[k] # Nothing =>
        LET slice == SliceFields(objects[k].value.origin)
        IN  \A i, j \in DOMAIN slice.clusters :
               DeviceFollows(objects[k].value.spec, slice, i, j)
=============================================================================
