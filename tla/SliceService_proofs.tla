------------------------ MODULE SliceService_proofs ------------------------
(***************************************************************************)
(* Proofs about the gRPC server, for any clients, requests, bounds and     *)
(* number of faults: its state keeps its type, the devices of a stored     *)
(* slice follow the client's message, and the server implements an atomic  *)
(* store.                                                                  *)
(***************************************************************************)
EXTENDS SliceService, SliceTopology_proofs, SequenceTheorems

\* A client is in a call exactly while it waits for an answer.
ClientsOK ==
    \A c \in Clients : /\ waiting[c] <= calls
                       /\ waiting[c] = 0 <=> answer[c] # "pending"
                       /\ waiting[c] # 0 => call[c] \in Requests
                       /\ waiting[c] = 0 => call[c] = NoCall

\* The ids of calls are given once.
IdsOK == /\ \A h \in handlers : h.id <= calls
         /\ \A g, h \in handlers : g.id = h.id => g = h

\* The handler with the id that a client waits for is the one that the
\* client's request started.
AwaitedOK ==
    \A h \in handlers, c \in Clients :
        waiting[c] = h.id => h.client = c /\ h.request = call[c]

CallsOK == ClientsOK /\ IdsOK /\ AwaitedOK

\* Every object is what some request makes, under that request's key.
StoredFrom ==
    \A k \in Keys : objects[k] # Nothing =>
        \E r \in Implemented : /\ Converted(r).key = k
                               /\ objects[k].value = Defaulted(Converted(r).value)

-----------------------------------------------------------------------------
(* What the conversions make of a request. *)

LEMMA ImplementedMethods ==
    ASSUME NEW r \in Implemented
    PROVE  /\ r \in Requests /\ r.message # Malformed
           /\ r.method \in Creating \/ r.method \in Deleting
           /\ r.method \in Creating => r.method \notin Deleting
           /\ r.method \notin Networks => r.method \in {"CreateSlice", "DeleteSlice"}
BY ServiceAssumption DEF Implemented, Decodes, Methods, Creating, Deleting, Networks

LEMMA KeyType ==
    ASSUME NEW r \in Implemented
    PROVE  /\ Converted(r).key \in Keys
           /\ Defaulted(Converted(r).value) \in Values
           /\ Converted(r).key.kind = "SliceOverlay" <=> r.method \notin Networks
<1>1. CASE r.method \in Networks
  BY <1>1 DEF Keys, Values, Converted, sliceNetworkFromProto, Object
<1>2. CASE r.method \notin Networks
  BY <1>2 DEF Keys, Values, Converted, sliceOverlayFromProto, Object
<1> QED BY <1>1, <1>2

\* Neither the conversion nor the defaults of the CRD lose the message.
LEMMA OriginKept ==
    ASSUME NEW r \in Implemented
    PROVE  Defaulted(Converted(r).value).origin = r.message
<1>1. /\ DOMAIN Converted(r).value = {"spec", "origin"}
      /\ Converted(r).value.origin = r.message
  <2>1. CASE r.method \in Networks
    BY <2>1 DEF Converted, sliceNetworkFromProto, Object
  <2>2. CASE r.method \notin Networks
    BY <2>2 DEF Converted, sliceOverlayFromProto, Object
  <2> QED BY <2>1, <2>2
<1> QED BY <1>1 DEF Defaulted

LEMMA SliceFieldsType ==
    ASSUME NEW r \in Implemented, r.method \notin Networks
    PROVE  SliceFields(r.message) \in SliceMessages
<1>1. r.message \in SliceMessages \cup {Nil}
  BY ImplementedMethods, MessagesAssumption
<1>2. << >> \in Seq(ClusterMessages) /\ << >> \in Seq(LinkMessages)
  OBVIOUS
<1> QED BY <1>1, <1>2 DEF SliceFields, SliceMessage, SliceMessages

\* The provider of a slice, as it is stored.
LEMMA ProviderStored ==
    ASSUME NEW r \in Implemented, r.method \notin Networks,
           NEW m, m = SliceFields(r.message).provider
    PROVE  /\ m = Nil \/ m \in ProviderMessages
           /\ Defaulted(Converted(r).value).spec =
                [nodes       |-> Converted(r).value.spec.nodes,
                 links       |-> Converted(r).value.spec.links,
                 monitoring  |-> NoMonitoring,
                 providerRef |-> NoRef,
                 provider    |-> IF m = Nil THEN NoProvider ELSE Configuration(m)]
<1> DEFINE value == Converted(r).value
<1>1. m = Nil \/ m \in ProviderMessages
  BY SliceFieldsType DEF SliceMessages
<1>2. value.spec.provider = providerFromProto(m)
  BY DEF Converted, sliceOverlayFromProto, Object
<1>3. DOMAIN value = {"spec", "origin"}
      /\ value.spec = [nodes       |-> value.spec.nodes,
                       links       |-> value.spec.links,
                       monitoring  |-> NoMonitoring,
                       providerRef |-> NoRef,
                       provider    |-> value.spec.provider]
  BY DEF Converted, sliceOverlayFromProto, Object
<1> HIDE DEF value
<1>4. CASE m = Nil
  BY <1>2, <1>3, <1>4 DEF providerFromProto, Defaulted, value
<1>5. CASE m # Nil
  <2>1. /\ value.spec.provider = [name   |-> m.name,
                                  domain |-> IF m.domain = Empty THEN << >> ELSE <<m.domain>>,
                                  ports  |-> m.ports]
    BY <1>2, <1>5 DEF providerFromProto
  <2>2. value.spec.provider \in ProviderSpec
    <3>1. m.name \in STRING /\ m.domain \in STRING /\ m.ports \in [Ports -> STRING]
      BY <1>1, <1>5 DEF ProviderMessages
    <3>2. PICK d : d = IF m.domain = Empty THEN << >> ELSE <<m.domain>>
      OBVIOUS
    <3>3. value.spec.provider = [name |-> m.name, domain |-> d, ports |-> m.ports]
      BY <2>1, <3>2
    <3>4. d \in Seq(STRING)
      <4>1. CASE m.domain = Empty
        BY <3>2, <4>1
      <4>2. CASE m.domain # Empty
        BY <3>1, <3>2, <4>2
      <4> QED BY <4>1, <4>2
    <3> QED BY <3>1, <3>3, <3>4 DEF ProviderSpec
  <2>3. value.spec.provider # NoProvider
    BY <2>2, ConfigurationsAssumption
  <2>4. Defaulted(value) =
          [value EXCEPT !.spec.provider.ports =
             [p \in Ports |-> DefaultIfEmpty(m.ports[p], SchemaPort[p])]]
    BY <2>1, <2>3 DEF Defaulted
  <2> DEFINE ports == [p \in Ports |-> DefaultIfEmpty(m.ports[p], SchemaPort[p])]
  <2> HIDE DEF ports
  <2>5. Defaulted(value).spec = [value.spec EXCEPT !.provider.ports = ports]
    BY <1>3, <2>4 DEF ports
  <2>6. Defaulted(value).spec.provider = [value.spec.provider EXCEPT !.ports = ports]
    BY <1>3, <2>5
  <2>7. Defaulted(value).spec.provider = Configuration(m)
    BY <2>1, <2>6 DEF Configuration, ports
  <2> QED BY <1>1, <1>3, <1>5, <2>5, <2>7 DEF value
<1> QED BY <1>1, <1>4, <1>5

LEMMA SpecType ==
    ASSUME NEW r \in Implemented, r.method \notin Networks
    PROVE  Defaulted(Converted(r).value).spec \in SliceOverlaySpec
<1> DEFINE slice == SliceFields(r.message)
           spec == Defaulted(Converted(r).value).spec
           given == Converted(r).value.spec
<1>1. slice \in SliceMessages
  BY SliceFieldsType
<1>2. given = [nodes       |-> [i \in DOMAIN slice.clusters |->
                                  [name    |-> slice.clusters[i].name,
                                   gateway |-> gatewayFromProto(slice.clusters[i].gatewayNode)]],
               links       |-> {<<slice.links[i].endpointA, slice.links[i].endpointB>> :
                                  i \in DOMAIN slice.links},
               monitoring  |-> NoMonitoring,
               providerRef |-> NoRef,
               provider    |-> providerFromProto(slice.provider)]
  BY DEF Converted, sliceOverlayFromProto, Object
<1>3. PICK m : m = slice.provider
  OBVIOUS
<1>4. /\ m = Nil \/ m \in ProviderMessages
      /\ spec = [nodes |-> given.nodes, links |-> given.links, monitoring |-> NoMonitoring,
                 providerRef |-> NoRef,
                 provider |-> IF m = Nil THEN NoProvider ELSE Configuration(m)]
  BY <1>3, ProviderStored
<1>5. r.message # Nil => r.message \in SliceMessages /\ slice = r.message
  BY ImplementedMethods, MessagesAssumption DEF SliceFields
<1>6. r.message = Nil => m = Nil
  BY <1>3 DEF SliceFields, SliceMessage
<1>7. m # Nil => Configuration(m) \in Providers
  BY <1>3, <1>5, <1>6, ImplementedMethods, ConfigurationsAssumption
<1>8. given.nodes \in Seq(OverlayCluster)
  <2>1. slice.clusters \in Seq(ClusterMessages)
    BY <1>1 DEF SliceMessages
  <2>2. \A i \in 1..Len(slice.clusters) : slice.clusters[i] \in ClusterMessages
    BY <2>1
  <2>3. \A n \in NodeMessages \cup {Nil} : gatewayFromProto(n) \in IPAddresses \cup {Empty}
    BY DEF gatewayFromProto, NodeMessages
  <2>4. \A i \in 1..Len(slice.clusters) :
           [name    |-> slice.clusters[i].name,
            gateway |-> gatewayFromProto(slice.clusters[i].gatewayNode)] \in OverlayCluster
    BY <2>2, <2>3 DEF ClusterMessages, OverlayCluster
  <2>5. DOMAIN slice.clusters = 1..Len(slice.clusters) /\ Len(slice.clusters) \in Nat
    BY <2>1
  <2>6. given.nodes = [i \in 1..Len(slice.clusters) |->
                          [name    |-> slice.clusters[i].name,
                           gateway |-> gatewayFromProto(slice.clusters[i].gatewayNode)]]
    BY <1>2, <2>5
  <2>7. given.nodes \in [1..Len(slice.clusters) -> OverlayCluster]
    <3> HIDE DEF slice, given
    <3> QED BY <2>4, <2>6
  <2> QED BY <2>5, <2>7
<1>9. given.links \in SUBSET (Clusters \X Clusters)
  <2>1. slice.links \in Seq(LinkMessages)
    BY <1>1 DEF SliceMessages
  <2>2. \A i \in DOMAIN slice.links : slice.links[i] \in LinkMessages
    BY <2>1
  <2> QED BY <1>2, <2>2 DEF LinkMessages
<1> HIDE DEF slice, spec, given
<1>10. spec \in SliceOverlaySpec
  BY <1>4, <1>7, <1>8, <1>9 DEF SliceOverlaySpec
<1> QED BY <1>10 DEF spec

-----------------------------------------------------------------------------
(* The inductive invariant. *)

ObjectsOK == objects \in [Keys -> ApiObject \cup {Nothing}] /\ StoredFrom

CallTypes ==
    /\ running \in BOOLEAN
    /\ handlers \subseteq Handler
    /\ waiting \in [Clients -> 0..MaxCalls]
    /\ call \in [Clients -> Requests \cup {NoCall}]
    /\ answer \in [Clients -> {"idle", "pending", "ok", "error"}]
    /\ calls \in 0..MaxCalls

IndInv == ObjectsOK /\ CallTypes /\ CallsOK /\ faults \in 0..MaxFaults

LEMMA SlicesTyped ==
    ASSUME ObjectsOK
    PROVE  \A k \in Keys : k.kind = "SliceOverlay" /\ objects[k] # Nothing =>
              objects[k].value.spec \in SliceOverlaySpec
<1> SUFFICES ASSUME NEW k \in Keys, k.kind = "SliceOverlay", objects[k] # Nothing
             PROVE  objects[k].value.spec \in SliceOverlaySpec
  OBVIOUS
<1>1. PICK r \in Implemented :
         Converted(r).key = k /\ objects[k].value = Defaulted(Converted(r).value)
  BY DEF ObjectsOK, StoredFrom
<1>2. r.method \notin Networks
  BY <1>1, KeyType
<1> QED BY <1>1, <1>2, SpecType

LEMMA EffectStep ==
    ASSUME ObjectsOK, NEW h, h.request \in Implemented, Effect(h)
    PROVE  ObjectsOK'
<1> DEFINE r == h.request
           k == Converted(r).key
<1>1. k \in Keys /\ Defaulted(Converted(r).value) \in Values
  BY KeyType
<1>2. CASE Stored(Converted(r))
  <2>1. PICK o : o = [value |-> Defaulted(Converted(r).value),
                      finalizer |-> FALSE, terminating |-> FALSE]
    OBVIOUS
  <2>2. o \in ApiObject /\ o.value = Defaulted(Converted(r).value)
    BY <1>1, <2>1 DEF ApiObject
  <2>3. objects' = [objects EXCEPT ![k] = o]
    BY <1>2, <2>1 DEF Stored
  <2> HIDE DEF r, k
  <2>4. objects' \in [Keys -> ApiObject \cup {Nothing}]
    BY <1>1, <2>2, <2>3 DEF ObjectsOK
  <2>5. StoredFrom'
    <3> SUFFICES ASSUME NEW l \in Keys, objects'[l] # Nothing
                 PROVE  \E q \in Implemented :
                           /\ Converted(q).key = l
                           /\ objects'[l].value = Defaulted(Converted(q).value)
      BY DEF StoredFrom
    <3>1. CASE l = k
      BY <1>1, <2>2, <2>3, <3>1 DEF ObjectsOK, r, k
    <3>2. CASE l # k
      BY <2>3, <3>2 DEF ObjectsOK, StoredFrom
    <3> QED BY <3>1, <3>2
  <2> QED BY <2>4, <2>5 DEF ObjectsOK
<1>3. CASE Deleted(Converted(r)) /\ objects[k] # Nothing
  <2>1. PICK o : /\ objects' = [objects EXCEPT ![k] = o]
                 /\ o \in ApiObject \cup {Nothing}
                 /\ o # Nothing => o.value = objects[k].value
    <3>1. objects[k] \in ApiObject
      BY <1>1, <1>3 DEF ObjectsOK
    <3>2. CASE objects[k].finalizer
      <4>1. PICK o : o = [objects[k] EXCEPT !.terminating = TRUE]
        OBVIOUS
      <4>2. o \in ApiObject /\ o.value = objects[k].value
        BY <3>1, <4>1 DEF ApiObject
      <4>3. objects' = [objects EXCEPT ![k] = o]
        BY <1>1, <1>3, <3>2, <4>1 DEF Deleted, ObjectsOK
      <4> QED BY <4>2, <4>3
    <3>3. CASE ~objects[k].finalizer
      BY <1>1, <1>3, <3>3 DEF Deleted, ObjectsOK
    <3> QED BY <3>2, <3>3
  <2> HIDE DEF r, k
  <2>2. objects' \in [Keys -> ApiObject \cup {Nothing}]
    BY <1>1, <2>1 DEF ObjectsOK
  <2>3. \A l \in Keys : objects'[l] # Nothing =>
           objects[l] # Nothing /\ objects'[l].value = objects[l].value
    BY <1>1, <1>3, <2>1 DEF ObjectsOK
  <2> QED BY <2>2, <2>3 DEF ObjectsOK, StoredFrom
<1> QED BY <1>2, <1>3, ImplementedMethods DEF Effect, Accepted

LEMMA ClaimStep ==
    ASSUME ObjectsOK, NEW k \in Keys, Claim(k)
    PROVE  ObjectsOK'
<1>1. objects[k] \in ApiObject
  BY DEF ObjectsOK, Claim
<1>2. PICK o : o = [objects[k] EXCEPT !.finalizer = TRUE]
  OBVIOUS
<1>3. o \in ApiObject /\ o.value = objects[k].value
  BY <1>1, <1>2 DEF ApiObject
<1>4. objects' = [objects EXCEPT ![k] = o]
  BY <1>2 DEF Claim, ObjectsOK
<1>5. objects' \in [Keys -> ApiObject \cup {Nothing}]
  BY <1>3, <1>4 DEF ObjectsOK
<1>6. \A l \in Keys : objects'[l] # Nothing =>
         objects[l] # Nothing /\ objects'[l].value = objects[l].value
  BY <1>1, <1>3, <1>4, NothingAssumption DEF ObjectsOK
<1> QED BY <1>5, <1>6 DEF ObjectsOK, StoredFrom

LEMMA ReleaseStep ==
    ASSUME ObjectsOK, NEW k \in Keys, Release(k)
    PROVE  ObjectsOK'
<1>1. objects' = [objects EXCEPT ![k] = Nothing]
  BY DEF Release
<1>2. objects' \in [Keys -> ApiObject \cup {Nothing}]
  BY <1>1 DEF ObjectsOK
<1>3. \A l \in Keys : objects'[l] # Nothing => objects'[l] = objects[l]
  BY <1>1 DEF ObjectsOK
<1> QED BY <1>2, <1>3 DEF ObjectsOK, StoredFrom

LEMMA InvokeStep ==
    ASSUME CallTypes, CallsOK, NEW c \in Clients, NEW r \in Requests, Invoke(c, r)
    PROVE  CallTypes' /\ CallsOK'
<1>1. PICK n : n = calls + 1
  OBVIOUS
<1>2. n \in 1..MaxCalls /\ calls \in Nat /\ n > calls /\ calls' = n
  BY <1>1, ServiceAssumption DEF CallTypes, Invoke
<1>3. /\ waiting' = [waiting EXCEPT ![c] = n]
      /\ call' = [call EXCEPT ![c] = r]
      /\ answer' = [answer EXCEPT ![c] = "pending"]
      /\ running' = running
  BY <1>1 DEF Invoke
<1>4. PICK g : g = [id |-> n, client |-> c, request |-> r, alive |-> TRUE]
  OBVIOUS
<1>5. g \in Handler /\ g.id = n /\ g.client = c /\ g.request = r
  BY <1>2, <1>4 DEF Handler
<1>6. handlers \subseteq handlers' /\ handlers' \subseteq handlers \cup {g}
  BY <1>1, <1>4 DEF Invoke
<1>7. CallTypes'
  BY <1>2, <1>3, <1>5, <1>6, ServiceAssumption DEF CallTypes
<1>8. \A h \in handlers : h.id \in Nat /\ h.id <= calls /\ h.id # 0
  BY DEF CallsOK, IdsOK, CallTypes, Handler
<1>9. \A d \in Clients : waiting[d] \in Nat /\ waiting[d] <= calls
  BY DEF CallsOK, ClientsOK, CallTypes
<1>10. \A d \in Clients : waiting'[d] = IF d = c THEN n ELSE waiting[d]
  BY <1>3 DEF CallTypes
<1>11. \A d \in Clients : call'[d] = IF d = c THEN r ELSE call[d]
  BY <1>3 DEF CallTypes
<1>12. \A d \in Clients : answer'[d] = IF d = c THEN "pending" ELSE answer[d]
  BY <1>3 DEF CallTypes
<1>13. ClientsOK'
  BY <1>2, <1>9, <1>10, <1>11, <1>12 DEF CallsOK, ClientsOK
<1>14. IdsOK'
  BY <1>2, <1>5, <1>6, <1>8 DEF CallsOK, IdsOK
<1>15. AwaitedOK'
  <2> SUFFICES ASSUME NEW h \in handlers', NEW d \in Clients, waiting'[d] = h.id
               PROVE  h.client = d /\ h.request = call'[d]
    BY DEF AwaitedOK
  <2>1. CASE h = g
    <3>1. d = c
      BY <1>2, <1>5, <1>9, <1>10, <2>1
    <3> QED BY <1>5, <1>11, <2>1, <3>1
  <2>2. CASE h \in handlers
    <3>1. d # c
      BY <1>2, <1>8, <1>10, <2>2
    <3> QED BY <1>10, <1>11, <2>2, <3>1 DEF CallsOK, AwaitedOK
  <2> QED BY <1>6, <2>1, <2>2
<1> QED BY <1>7, <1>13, <1>14, <1>15 DEF CallsOK

\* A client gets an answer, and some handlers go.
LEMMA AnswerStep ==
    ASSUME CallTypes, CallsOK, NEW c \in Clients, NEW a \in {"ok", "error"},
           Answer(c, a), handlers' \subseteq handlers, UNCHANGED <<running, calls>>
    PROVE  CallTypes' /\ CallsOK'
<1>1. /\ waiting' = [waiting EXCEPT ![c] = 0]
      /\ call' = [call EXCEPT ![c] = NoCall]
      /\ answer' = [answer EXCEPT ![c] = a]
  BY DEF Answer
<1>2. CallTypes'
  BY <1>1, ServiceAssumption DEF CallTypes
<1>3. \A d \in Clients : waiting'[d] = IF d = c THEN 0 ELSE waiting[d]
  BY <1>1 DEF CallTypes
<1>4. \A d \in Clients : call'[d] = IF d = c THEN NoCall ELSE call[d]
  BY <1>1 DEF CallTypes
<1>5. \A d \in Clients : answer'[d] = IF d = c THEN a ELSE answer[d]
  BY <1>1 DEF CallTypes
<1>6. \A h \in handlers : h.id # 0
  BY DEF CallTypes, Handler
<1>7. calls \in Nat /\ a # "pending"
  BY DEF CallTypes
<1>8. ClientsOK'
  BY <1>3, <1>4, <1>5, <1>7 DEF CallsOK, ClientsOK
<1>9. AwaitedOK'
  <2> SUFFICES ASSUME NEW h \in handlers', NEW d \in Clients, waiting'[d] = h.id
               PROVE  h.client = d /\ h.request = call'[d]
    BY DEF AwaitedOK
  <2>1. d # c
    BY <1>3, <1>6
  <2> QED BY <1>3, <1>4, <2>1 DEF CallsOK, AwaitedOK
<1>10. IdsOK'
  BY DEF CallsOK, IdsOK
<1> QED BY <1>2, <1>8, <1>9, <1>10 DEF CallsOK

LEMMA ReplyStep ==
    ASSUME CallTypes, CallsOK, NEW h \in handlers, NEW a \in {"ok", "error"}, Reply(h, a)
    PROVE  CallTypes' /\ CallsOK'
<1>1. h.client \in Clients /\ handlers' \subseteq handlers
  BY DEF CallTypes, Handler, Reply
<1>2. CASE waiting[h.client] = h.id
  BY <1>1, <1>2, AnswerStep DEF Reply
<1>3. CASE waiting[h.client] # h.id
  BY <1>1, <1>3 DEF Reply, CallTypes, CallsOK, ClientsOK, IdsOK, AwaitedOK
<1> QED BY <1>2, <1>3

LEMMA CrashStep ==
    ASSUME CallTypes, CallsOK, Crash
    PROVE  CallTypes' /\ CallsOK'
<1>1. PICK sent \in SUBSET handlers : handlers' = {[h EXCEPT !.alive = FALSE] : h \in sent}
  BY DEF Crash
<1> DEFINE dead(h) == [h EXCEPT !.alive = FALSE]
<1>2. \A h \in sent : /\ dead(h) \in Handler
                       /\ dead(h).id = h.id
                       /\ dead(h).client = h.client
                       /\ dead(h).request = h.request
  BY DEF CallTypes, Handler
<1>3. handlers' = {dead(h) : h \in sent}
  BY <1>1
<1> HIDE DEF dead
<1>4. CallTypes'
  BY <1>2, <1>3 DEF CallTypes, Crash
<1>5. \A g \in handlers' : \E h \in handlers :
         g = dead(h) /\ g.id = h.id /\ g.client = h.client /\ g.request = h.request
  BY <1>2, <1>3
<1>6. UNCHANGED <<waiting, call, answer, calls>>
  BY DEF Crash
<1>7. IdsOK'
  BY <1>5, <1>6 DEF CallsOK, IdsOK
<1>8. AwaitedOK'
  BY <1>5, <1>6 DEF CallsOK, AwaitedOK
<1>9. ClientsOK'
  BY <1>6 DEF CallsOK, ClientsOK
<1> QED BY <1>4, <1>7, <1>8, <1>9 DEF CallsOK

LEMMA FaultType ==
    ASSUME faults \in 0..MaxFaults, faults < MaxFaults, faults' = faults + 1
    PROVE  faults' \in 0..MaxFaults
BY ServiceAssumption

LEMMA HandleStep ==
    ASSUME IndInv, NEW h \in handlers, Handle(h)
    PROVE  IndInv'
<1>1. ObjectsOK /\ CallTypes /\ CallsOK /\ faults \in 0..MaxFaults
  BY DEF IndInv
<1>2. ASSUME UNCHANGED objects PROVE ObjectsOK'
  BY <1>1, <1>2 DEF ObjectsOK, StoredFrom
<1>3. CASE Refuse(h)
  <2>1. CallTypes' /\ CallsOK'
    BY <1>1, <1>3, ReplyStep DEF Refuse
  <2> QED BY <1>1, <1>2, <1>3, <2>1 DEF IndInv, Refuse
<1>4. CASE Method(h)
  <2>1. CallTypes' /\ CallsOK'
    BY <1>1, <1>4, ReplyStep DEF Method, CouldNot
  <2>2. ObjectsOK'
    BY <1>1, <1>2, <1>4, EffectStep DEF Method
  <2>3. faults' \in 0..MaxFaults
    BY <1>1, <1>4, FaultType DEF Method
  <2> QED BY <2>1, <2>2, <2>3 DEF IndInv
<1> QED BY <1>3, <1>4 DEF Handle

LEMMA InitIndInv == Init => IndInv
<1> SUFFICES ASSUME Init PROVE IndInv
  OBVIOUS
<1>1. ObjectsOK
  BY DEF Init, ObjectsOK, StoredFrom
<1>2. 0 \in 0..MaxCalls /\ 0 \in 0..MaxFaults
  BY ServiceAssumption
<1>3. CallTypes /\ faults \in 0..MaxFaults
  <2>1. call \in [Clients -> Requests \cup {NoCall}]
    BY DEF Init
  <2>2. answer \in [Clients -> {"idle", "pending", "ok", "error"}]
    BY DEF Init
  <2>3. waiting \in [Clients -> 0..MaxCalls]
    BY <1>2 DEF Init
  <2> QED BY <1>2, <2>1, <2>2, <2>3 DEF Init, CallTypes
<1>4. CallsOK
  BY DEF Init, CallsOK, ClientsOK, IdsOK, AwaitedOK
<1> QED BY <1>1, <1>3, <1>4 DEF IndInv

LEMMA NextIndInv == IndInv /\ [Next]_vars => IndInv'
<1> SUFFICES ASSUME IndInv, [Next]_vars PROVE IndInv'
  OBVIOUS
<1>1. ObjectsOK /\ CallTypes /\ CallsOK /\ faults \in 0..MaxFaults
  BY DEF IndInv
<1>2. ASSUME UNCHANGED objects PROVE ObjectsOK'
  BY <1>1, <1>2 DEF ObjectsOK, StoredFrom
<1>3. ASSUME UNCHANGED <<handlers, waiting, call, answer, calls>>, running' \in BOOLEAN
      PROVE  CallTypes' /\ CallsOK'
  BY <1>1, <1>3 DEF CallTypes, CallsOK, ClientsOK, IdsOK, AwaitedOK
<1>4. CASE Serve
  BY <1>1, <1>2, <1>3, <1>4 DEF IndInv, Serve
<1>5. CASE Crash
  <2>1. CallTypes' /\ CallsOK'
    BY <1>1, <1>5, CrashStep
  <2>2. faults' \in 0..MaxFaults
    BY <1>1, <1>5, FaultType DEF Crash
  <2> QED BY <1>2, <1>5, <2>1, <2>2 DEF IndInv, Crash
<1>6. ASSUME NEW c \in Clients, Deadline(c) PROVE IndInv'
  <2>1. handlers' \subseteq handlers
    BY <1>6 DEF Deadline
  <2>2. CallTypes' /\ CallsOK'
    BY <1>1, <1>6, <2>1, AnswerStep DEF Deadline
  <2>3. faults' \in 0..MaxFaults
    BY <1>1, <1>6, FaultType DEF Deadline
  <2> QED BY <1>2, <1>6, <2>2, <2>3 DEF IndInv, Deadline
<1>7. ASSUME NEW c \in Clients, Unavailable(c) PROVE IndInv'
  <2>1. CallTypes' /\ CallsOK'
    BY <1>1, <1>7, AnswerStep DEF Unavailable
  <2> QED BY <1>1, <1>2, <1>7, <2>1 DEF IndInv, Unavailable
<1>8. ASSUME NEW c \in Clients, NEW r \in Requests, Invoke(c, r) PROVE IndInv'
  <2>1. CallTypes' /\ CallsOK'
    BY <1>1, <1>8, InvokeStep
  <2> QED BY <1>1, <1>2, <1>8, <2>1 DEF IndInv, Invoke
<1>9. ASSUME NEW k \in Keys, Claim(k) \/ Release(k) PROVE IndInv'
  <2>1. ObjectsOK'
    BY <1>1, <1>9, ClaimStep, ReleaseStep
  <2>2. UNCHANGED <<running, handlers, waiting, call, answer, calls, faults>>
    BY <1>9 DEF Claim, Release
  <2> QED BY <1>1, <1>3, <2>1, <2>2 DEF IndInv, CallTypes
<1>10. CASE UNCHANGED vars
  <2>1. UNCHANGED <<objects, running, handlers, waiting, call, answer, calls, faults>>
    BY <1>10 DEF vars
  <2> QED BY <1>1, <1>2, <1>3, <2>1 DEF IndInv, CallTypes
<1> QED
  BY <1>4, <1>5, <1>6, <1>7, <1>8, <1>9, <1>10, HandleStep DEF Next

\* The state and the messages keep their types, whatever clients send and
\* whenever deadlines pass or the server crashes.
THEOREM ServiceTypeCorrect == Spec => []TypeOK
<1>1. IndInv => TypeOK
  BY SlicesTyped DEF IndInv, ObjectsOK, CallTypes, TypeOK
<1> QED BY <1>1, InitIndInv, NextIndInv, PTL DEF Spec

-----------------------------------------------------------------------------
(* The refinement of AtomicStore. *)

LEMMA AbstractCallType ==
    ASSUME NEW r \in Requests PROVE AbstractCall(r) \in Store!Calls
<1>1. CASE r \in Implemented
  BY <1>1, KeyType DEF AbstractCall, Store!Calls, Store!Ops
<1>2. CASE r \notin Implemented
  <2>1. \E k \in Keys : TRUE
    BY ObjectsAssumption DEF Keys
  <2>2. (CHOOSE k \in Keys : TRUE) \in Keys
    BY <2>1
  <2> QED BY <1>2, <2>2 DEF AbstractCall, Store!Calls, Store!Ops
<1> QED BY <1>1, <1>2

\* Where clients see a change of one object only.
LEMMA StoredAs ==
    ASSUME NEW k \in Keys, NEW v, \A l \in Keys : Content(l)' = IF l = k THEN v ELSE Content(l)
    PROVE  [l \in Keys |-> Content(l)'] = [[l \in Keys |-> Content(l)] EXCEPT ![k] = v]
OBVIOUS

LEMMA ContentStored ==
    ASSUME ObjectsOK, NEW k \in Keys
    PROVE  Content(k) = Nothing <=> objects[k] = Nothing
<1>1. CASE objects[k] = Nothing
  BY <1>1 DEF Content
<1>2. CASE objects[k] # Nothing
  <2>1. PICK r \in Implemented : objects[k].value = Defaulted(Converted(r).value)
    BY <1>2 DEF ObjectsOK, StoredFrom
  <2>2. Content(k) = r.message
    BY <1>2, <2>1, OriginKept DEF Content
  <2> QED BY <1>2, <2>2, ObjectsAssumption
<1> QED BY <1>1, <1>2

LEMMA EffectRefines ==
    ASSUME ObjectsOK, NEW h, h.request \in Implemented, Effect(h)
    PROVE  Store!Effect(AbstractCall(h.request))
<1>1. PICK r \in Implemented : r = h.request
  OBVIOUS
<1>2. PICK k \in Keys : k = Converted(r).key
  BY KeyType
<1>3. PICK v : v = Defaulted(Converted(r).value)
  OBVIOUS
<1>4. PICK a : a = AbstractCall(r)
  OBVIOUS
<1>5. /\ a.key = k /\ a.value = r.message
      /\ a.op = IF r.method \in Creating THEN "create" ELSE "remove"
  BY <1>2, <1>4 DEF AbstractCall
<1>6. v \in Values /\ v.origin = r.message
  BY <1>3, KeyType, OriginKept
<1>7. CASE r.method \in Creating
  <2>1. PICK o : o = [value |-> v, finalizer |-> FALSE, terminating |-> FALSE]
    OBVIOUS
  <2>2. /\ objects[k] = Nothing
        /\ objects' = [objects EXCEPT ![k] = o]
    BY <1>1, <1>2, <1>3, <1>7, <2>1, ImplementedMethods DEF Effect, Accepted, Stored
  <2>3. o # Nothing /\ o.value = v /\ ~o.terminating
    <3>1. o \in ApiObject
      BY <1>6, <2>1 DEF ApiObject
    <3> QED BY <2>1, <3>1, NothingAssumption
  <2>4. \A l \in Keys : objects'[l] = IF l = k THEN o ELSE objects[l]
    BY <2>2 DEF ObjectsOK
  <2>5. \A l \in Keys : Content(l)' = IF l = k THEN r.message ELSE Content(l)
    BY <1>6, <2>3, <2>4 DEF Content
  <2>6. \A l \in Keys : Leaving(l)' <=> Leaving(l)
    BY <2>2, <2>3, <2>4 DEF Leaving
  <2>7. Content(k) = Nothing
    BY <2>2 DEF Content
  <2>8. Store!Effect(a)
    BY <1>5, <1>7, <2>5, <2>6, <2>7, StoredAs DEF Store!Effect
  <2> QED BY <1>1, <1>4, <2>8
<1>8. CASE r.method \notin Creating
  <2>1. /\ objects[k] # Nothing
        /\ objects' = [objects EXCEPT ![k] =
              IF @.finalizer THEN [@ EXCEPT !.terminating = TRUE] ELSE Nothing]
    BY <1>1, <1>2, <1>8, ImplementedMethods DEF Effect, Accepted, Deleted
  <2>2. objects[k] \in ApiObject /\ Content(k) # Nothing
    BY <2>1, ContentStored DEF ObjectsOK
  <2>3. CASE ~objects[k].finalizer
    <3>1. \A l \in Keys : objects'[l] = IF l = k THEN Nothing ELSE objects[l]
      BY <2>1, <2>3 DEF ObjectsOK
    <3>2. \A l \in Keys : /\ Content(l)' = IF l = k THEN Nothing ELSE Content(l)
                          /\ Leaving(l)' <=> Leaving(l) /\ l # k
      BY <3>1 DEF Content, Leaving
    <3>3. Store!Gone(k)
      BY <3>2, StoredAs DEF Store!Gone
    <3>4. Store!Effect(a)
      BY <1>5, <1>8, <2>2, <3>3 DEF Store!Effect
    <3> QED BY <1>1, <1>4, <3>4
  <2>4. CASE objects[k].finalizer
    <3>1. PICK o : o = [objects[k] EXCEPT !.terminating = TRUE]
      OBVIOUS
    <3>2. \A l \in Keys : objects'[l] = IF l = k THEN o ELSE objects[l]
      BY <2>1, <2>4, <3>1 DEF ObjectsOK
    <3>3. o \in ApiObject /\ o.value = objects[k].value /\ o.terminating
      BY <2>2, <3>1 DEF ApiObject
    <3>4. \A l \in Keys : /\ Content(l)' = Content(l)
                          /\ Leaving(l)' <=> Leaving(l) \/ l = k
      <4>1. o # Nothing /\ objects[k] # Nothing
        BY <2>1, <3>3, NothingAssumption
      <4>2. \A l \in Keys : Content(l)' = Content(l)
        BY <3>2, <3>3, <4>1 DEF Content
      <4>3. \A l \in Keys : Leaving(l)' <=> Leaving(l) \/ l = k
        BY <3>2, <3>3, <4>1 DEF Leaving
      <4> QED BY <4>2, <4>3
    <3>5. Store!Effect(a)
      BY <1>5, <1>8, <2>2, <3>4 DEF Store!Effect
    <3> QED BY <1>1, <1>4, <3>5
  <2> QED BY <2>3, <2>4
<1> QED BY <1>7, <1>8

\* A client that gets an answer has been in the call that ends.
LEMMA EndRefines ==
    ASSUME IndInv, NEW c \in Clients, waiting[c] # 0, NEW a, Answer(c, a)
    PROVE  /\ answer[c] = "pending" /\ Pending(c) = AbstractCall(call[c])
           /\ Store!End(c, a)
<1>1. answer[c] = "pending" /\ call[c] \in Requests
  BY DEF IndInv, CallsOK, ClientsOK
<1>2. Pending(c) = AbstractCall(call[c])
  BY <1>1, ServiceAssumption DEF Pending
<1>3. answer' = [answer EXCEPT ![c] = a]
  BY DEF Answer
<1>4. \A d \in Clients : call'[d] = IF d = c THEN NoCall ELSE call[d]
  BY DEF Answer, IndInv, CallTypes
<1>5. \A d \in Clients : Pending(d)' = IF d = c THEN NoCall ELSE Pending(d)
  BY <1>4 DEF Pending
<1>6. [d \in Clients |-> Pending(d)'] = [[d \in Clients |-> Pending(d)] EXCEPT ![c] = NoCall]
  BY <1>5
<1> QED BY <1>1, <1>2, <1>3, <1>6 DEF Store!End

\* The late calls, as seen from the handlers.
Abandoned == {h \in handlers : waiting[h.client] # h.id}
LateCall(h) == <<h.id, AbstractCall(h.request)>>

LEMMA LateCalls == Late = {LateCall(h) : h \in Abandoned}
BY DEF Late, LateCall, Abandoned

\* An answer leaves the calls that were given up before, and gives up the one
\* that the client waited for if its handler stays.
LEMMA AnswerAbandons ==
    ASSUME IndInv, NEW c \in Clients, waiting[c] # 0, NEW a, Answer(c, a),
           handlers' \subseteq handlers,
           \A h \in handlers : h.id # waiting[c] => h \in handlers'
    PROVE  /\ (\A h \in handlers' : h.id # waiting[c]) => Abandoned' = Abandoned
           /\ \A h \in handlers' : h.id = waiting[c] => Abandoned' = Abandoned \cup {h}
<1>1. \A d \in Clients : waiting'[d] = IF d = c THEN 0 ELSE waiting[d]
  BY DEF Answer, IndInv, CallTypes
<1>2. \A h \in handlers : h.id # 0 /\ h.client \in Clients
  BY DEF IndInv, CallTypes, Handler
<1>3. \A h \in handlers : h.id = waiting[c] => h.client = c
  BY DEF IndInv, CallsOK, AwaitedOK
<1>4. \A h \in handlers' : h \in Abandoned' <=> h \in Abandoned \/ h.id = waiting[c]
  BY <1>1, <1>2, <1>3 DEF Abandoned
<1>5. \A h \in Abandoned : h.id # waiting[c] /\ h \in handlers'
  BY <1>3 DEF Abandoned
<1>6. Abandoned' \subseteq handlers'
  BY DEF Abandoned
<1>7. \A g, h \in handlers : g.id = h.id => g = h
  BY DEF IndInv, CallsOK, IdsOK
<1> QED BY <1>4, <1>5, <1>6, <1>7

LEMMA ReplyRefines ==
    ASSUME IndInv, NEW h \in handlers, NEW a \in {"ok", "error"}, Reply(h, a),
           \/ h.request \in Implemented /\ Effect(h)
           \/ a = "error" /\ UNCHANGED objects
    PROVE  Store!Next
<1>1. /\ h.client \in Clients /\ h.id \in 1..MaxCalls /\ h.id # 0
      /\ h.request \in Requests
  BY DEF IndInv, CallTypes, Handler
<1>2. PICK r \in Requests : r = h.request
  BY <1>1
<1>3. \/ Store!Effect(AbstractCall(r))
      \/ /\ a = "error"
         /\ \A l \in Keys : Content(l)' = Content(l)
         /\ \A l \in Keys : Leaving(l)' <=> Leaving(l)
  BY <1>2, EffectRefines DEF IndInv, Content, Leaving
<1>4. handlers' = handlers \ {h}
  BY DEF Reply
<1>5. \A g \in handlers : g.id = h.id => g = h
  BY DEF IndInv, CallsOK, IdsOK
<1>6. CASE waiting[h.client] = h.id
  <2>1. PICK c \in Clients : c = h.client
    BY <1>1
  <2>2. waiting[c] # 0 /\ Answer(c, a) /\ call[c] = r
    BY <1>1, <1>2, <1>6, <2>1 DEF Reply, IndInv, CallsOK, AwaitedOK
  <2>3. answer[c] = "pending" /\ Pending(c) = AbstractCall(r) /\ Store!End(c, a)
    BY <2>2, EndRefines
  <2>4. Abandoned' = Abandoned
    BY <1>4, <1>5, <1>6, <2>1, <2>2, AnswerAbandons
  <2>5. Late' = Late
    BY <2>4, LateCalls DEF Late, LateCall, Abandoned
  <2>6. CASE a = "ok"
    <3>1. Store!Effect(Pending(c))
      BY <1>3, <2>3, <2>6
    <3>2. Store!Succeed(c)
      BY <2>3, <2>5, <2>6, <3>1 DEF Store!Succeed
    <3> QED BY <3>2 DEF Store!Next
  <2>7. CASE a = "error"
    <3>1. Store!Fail(c)
      BY <1>3, <2>3, <2>5, <2>7 DEF Store!Fail
    <3> QED BY <3>1 DEF Store!Next
  <2> QED BY <2>6, <2>7
<1>7. CASE waiting[h.client] # h.id
  <2>1. UNCHANGED <<waiting, call, answer>>
    BY <1>7 DEF Reply
  <2>2. h \in Abandoned /\ Abandoned' = Abandoned \ {h}
    BY <1>4, <1>7, <2>1 DEF Abandoned
  <2>3. PICK t : t = LateCall(h)
    OBVIOUS
  <2>4. t[2] = AbstractCall(r)
    BY <1>2, <2>3 DEF LateCall
  <2>5. \A g \in Abandoned : LateCall(g) = t <=> g = h
    BY <1>5, <2>3 DEF LateCall, Abandoned
  <2>6. Late' = {LateCall(g) : g \in Abandoned'}
    BY DEF Late, LateCall, Abandoned
  <2>7. t \in Late /\ Late' = Late \ {t}
    BY <2>2, <2>3, <2>5, <2>6, LateCalls
  <2>8. \A c \in Clients : Pending(c)' = Pending(c)
    BY <2>1 DEF Pending
  <2>9. Store!Straggle
    <3>1. {t} \in SUBSET Late
      BY <2>7
    <3>2. CASE Store!Effect(AbstractCall(r))
      <4>1. \E u \in {t} : Store!Effect(u[2])
        BY <2>4, <3>2
      <4> QED BY <2>1, <2>7, <2>8, <3>1, <4>1 DEF Store!Straggle
    <3>3. CASE /\ \A l \in Keys : Content(l)' = Content(l)
               /\ \A l \in Keys : Leaving(l)' <=> Leaving(l)
      BY <2>1, <2>7, <2>8, <3>1, <3>3 DEF Store!Straggle
    <3> QED BY <1>3, <3>2, <3>3
  <2> QED BY <2>9 DEF Store!Next
<1> QED BY <1>6, <1>7

LEMMA GiveUpRefines ==
    ASSUME IndInv, NEW c \in Clients, Deadline(c) \/ Unavailable(c)
    PROVE  Store!Next
<1>1. /\ waiting[c] # 0 /\ Answer(c, "error")
      /\ handlers' = handlers \/ handlers' = {h \in handlers : h.id # waiting[c]}
      /\ UNCHANGED objects
  BY DEF Deadline, Unavailable
<1>2. PICK r \in Requests : r = call[c]
  BY <1>1 DEF IndInv, CallsOK, ClientsOK
<1>3. answer[c] = "pending" /\ Pending(c) = AbstractCall(r) /\ Store!End(c, "error")
  BY <1>1, <1>2, EndRefines
<1>4. \A l \in Keys : Content(l)' = Content(l)
  BY <1>1 DEF Content
<1>5. \A l \in Keys : Leaving(l)' <=> Leaving(l)
  BY <1>1 DEF Leaving
<1>6. Late' = {LateCall(h) : h \in Abandoned'}
  BY DEF Late, LateCall, Abandoned
<1>7. CASE \A h \in handlers' : h.id # waiting[c]
  <2>1. Abandoned' = Abandoned
    BY <1>1, <1>7, AnswerAbandons
  <2>2. Late' = Late
    BY <1>6, <2>1, LateCalls
  <2>3. Store!Fail(c)
    BY <1>3, <1>4, <1>5, <2>2 DEF Store!Fail
  <2> QED BY <2>3 DEF Store!Next
<1>8. CASE \E h \in handlers' : h.id = waiting[c]
  <2>1. PICK h \in handlers' : h.id = waiting[c]
    BY <1>8
  <2>2. Abandoned' = Abandoned \cup {h}
    BY <1>1, <2>1, AnswerAbandons
  <2>3. h.id \in 1..MaxCalls /\ h.request = r
    BY <1>1, <1>2, <2>1 DEF IndInv, CallTypes, Handler, CallsOK, AwaitedOK
  <2>4. LateCall(h) = <<h.id, Pending(c)>>
    BY <1>3, <2>3 DEF LateCall
  <2>5. Late' = Late \cup {<<h.id, Pending(c)>>}
    BY <1>6, <2>2, <2>4, LateCalls
  <2>6. Store!Fail(c)
    BY <1>3, <1>4, <1>5, <2>3, <2>5 DEF Store!Fail
  <2> QED BY <2>6 DEF Store!Next
<1> QED BY <1>7, <1>8

LEMMA CrashRefines ==
    ASSUME IndInv, Crash
    PROVE  Store!Next
<1>1. PICK sent \in SUBSET handlers : handlers' = {[h EXCEPT !.alive = FALSE] : h \in sent}
  BY DEF Crash
<1> DEFINE dead(h) == [h EXCEPT !.alive = FALSE]
<1>2. \A h \in sent : dead(h).id = h.id /\ dead(h).client = h.client
                      /\ dead(h).request = h.request
  BY DEF IndInv, CallTypes, Handler
<1>3. handlers' = {dead(h) : h \in sent}
  BY <1>1
<1> HIDE DEF dead
<1>4. UNCHANGED <<objects, waiting, call, answer>>
  BY DEF Crash
<1>5. \A g \in Abandoned' : \E h \in Abandoned : LateCall(g) = LateCall(h)
  BY <1>2, <1>3, <1>4 DEF Abandoned, LateCall
<1>6. Late' = {LateCall(h) : h \in Abandoned'}
  BY DEF Late, LateCall, Abandoned
<1>7. Late' \subseteq Late
  BY <1>5, <1>6, LateCalls
<1>8. /\ \A c \in Clients : Pending(c)' = Pending(c)
      /\ \A l \in Keys : Content(l)' = Content(l)
  BY <1>4 DEF Pending, Content
<1>9. \A l \in Keys : Leaving(l)' <=> Leaving(l)
  BY <1>4 DEF Leaving
<1>10. Store!Straggle
  <2>1. Late \ Late' \in SUBSET Late /\ Late' = Late \ (Late \ Late')
    BY <1>7
  <2> QED BY <1>4, <1>8, <1>9, <2>1 DEF Store!Straggle
<1> QED BY <1>10 DEF Store!Next

LEMMA InvokeRefines ==
    ASSUME IndInv, NEW c \in Clients, NEW r \in Requests, Invoke(c, r)
    PROVE  Store!Next
<1>1. answer[c] # "pending" /\ waiting[c] = 0
  BY DEF Invoke, IndInv, CallsOK, ClientsOK
<1>2. PICK n : n = calls + 1
  OBVIOUS
<1>3. \A h \in handlers : h.id \in Nat /\ h.id <= calls /\ h.id # 0
  BY DEF IndInv, CallsOK, IdsOK, CallTypes, Handler
<1>4. calls \in Nat
  BY DEF IndInv, CallTypes
<1>5. \A d \in Clients : waiting'[d] = IF d = c THEN n ELSE waiting[d]
  BY <1>2 DEF Invoke, IndInv, CallTypes
<1>6. \A d \in Clients : call'[d] = IF d = c THEN r ELSE call[d]
  BY DEF Invoke, IndInv, CallTypes
<1>7. \A h \in handlers : h.client \in Clients
  BY DEF IndInv, CallTypes, Handler
<1>8. PICK g : g = [id |-> n, client |-> c, request |-> r, alive |-> TRUE]
  OBVIOUS
<1>9. g.id = n /\ g.client = c
  BY <1>8
<1>10. handlers \subseteq handlers' /\ handlers' \subseteq handlers \cup {g}
  BY <1>2, <1>8 DEF Invoke
<1>11. \A h \in handlers : h \in Abandoned' <=> h \in Abandoned
  <2> SUFFICES ASSUME NEW h \in handlers
               PROVE  h \in Abandoned' <=> h \in Abandoned
    OBVIOUS
  <2>1. CASE h.client = c
    BY <1>1, <1>2, <1>3, <1>4, <1>5, <1>7, <1>10, <2>1 DEF Abandoned
  <2>2. CASE h.client # c
    BY <1>5, <1>7, <1>10, <2>2 DEF Abandoned
  <2> QED BY <2>1, <2>2
<1>12. g \notin Abandoned'
  BY <1>5, <1>9 DEF Abandoned
<1>13. Abandoned' = Abandoned
  <2>1. Abandoned' \subseteq handlers' /\ Abandoned \subseteq handlers
    BY DEF Abandoned
  <2> QED BY <1>10, <1>11, <1>12, <2>1
<1>14. Late' = Late
  BY <1>13, LateCalls DEF Late, LateCall, Abandoned
<1>15. \A d \in Clients : Pending(d)' = IF d = c THEN AbstractCall(r) ELSE Pending(d)
  BY <1>6, ServiceAssumption DEF Pending
<1>16. [d \in Clients |-> Pending(d)']
          = [[d \in Clients |-> Pending(d)] EXCEPT ![c] = AbstractCall(r)]
  BY <1>15
<1>17. AbstractCall(r) \in Store!Calls
  BY AbstractCallType
<1>18. answer' = [answer EXCEPT ![c] = "pending"] /\ UNCHANGED objects
  BY DEF Invoke
<1>19. Store!Begin(c)
  BY <1>1, <1>14, <1>16, <1>17, <1>18 DEF Store!Begin, Content, Leaving
<1> QED BY <1>19 DEF Store!Next

LEMMA ControllersRefine ==
    ASSUME IndInv, NEW k \in Keys, Claim(k) \/ Release(k)
    PROVE  [Store!Next]_(Store!vars)
<1>1. UNCHANGED <<handlers, waiting, call, answer>>
  BY DEF Claim, Release
<1>2. /\ \A c \in Clients : Pending(c)' = Pending(c)
      /\ Late' = Late
  BY <1>1 DEF Pending, Late
<1>3. objects[k] \in ApiObject
  BY DEF Claim, Release, IndInv, ObjectsOK
<1>4. CASE Claim(k)
  <2>1. PICK o : o = [objects[k] EXCEPT !.finalizer = TRUE]
    OBVIOUS
  <2>2. o \in ApiObject /\ o.value = objects[k].value /\ o.terminating = objects[k].terminating
    BY <1>3, <2>1 DEF ApiObject
  <2>3. \A l \in Keys : objects'[l] = IF l = k THEN o ELSE objects[l]
    BY <1>4, <2>1 DEF Claim, IndInv, ObjectsOK
  <2>4. o # Nothing /\ objects[k] # Nothing
    BY <1>3, <2>2, NothingAssumption
  <2>5. \A l \in Keys : Content(l)' = Content(l)
    BY <2>2, <2>3, <2>4 DEF Content
  <2>6. \A l \in Keys : Leaving(l)' <=> Leaving(l)
    BY <2>2, <2>3, <2>4 DEF Leaving
  <2> QED BY <1>1, <1>2, <2>5, <2>6 DEF Store!vars
<1>5. CASE Release(k)
  <2>1. \A l \in Keys : objects'[l] = IF l = k THEN Nothing ELSE objects[l]
    BY <1>5 DEF Release, IndInv, ObjectsOK
  <2>2. Leaving(k)
    BY <1>5 DEF Release, Leaving
  <2>3. \A l \in Keys : /\ Content(l)' = IF l = k THEN Nothing ELSE Content(l)
                        /\ Leaving(l)' <=> Leaving(l) /\ l # k
    BY <2>1 DEF Content, Leaving
  <2>4. Store!Gone(k)
    BY <2>3, StoredAs DEF Store!Gone
  <2>5. Store!Expire(k)
    BY <1>1, <1>2, <2>2, <2>4 DEF Store!Expire
  <2> QED BY <2>5 DEF Store!Next
<1> QED BY <1>4, <1>5

LEMMA InitStoreRefines == Init => Store!Init
BY DEF Init, Store!Init, Content, Leaving, Pending, Late

LEMMA NextStoreRefines ==
    ASSUME IndInv, [Next]_vars
    PROVE  [Store!Next]_(Store!vars)
<1>1. ASSUME NEW h \in handlers, Handle(h) PROVE Store!Next
  BY <1>1, ReplyRefines DEF Handle, Refuse, Method, CouldNot
<1>2. CASE UNCHANGED <<objects, handlers, waiting, call, answer>>
  BY <1>2 DEF Store!vars, Content, Leaving, Pending, Late
<1> QED BY <1>1, <1>2, GiveUpRefines, CrashRefines, InvokeRefines, ControllersRefine
        DEF Next, Serve, vars

\* The service is an atomic store to its clients: a method that answers
\* without an error acted once, at one moment of the call; one that answers
\* with an error acted at most once, where the client gave up perhaps later;
\* and no create overwrites an object, for any number of clients, requests,
\* deadlines, lost replies and crashes.
THEOREM ServiceRefinement == Spec => ImplementsStore
<1> QED BY InitIndInv, NextIndInv, InitStoreRefines, NextStoreRefines, PTL
        DEF Spec, ImplementsStore, Store!Spec

-----------------------------------------------------------------------------
(* The devices of a stored slice. *)

\* No message lists a cluster twice.
MessagesListOnce ==
    \A r \in Implemented : r.method \notin Networks =>
        LET listed == SliceFields(r.message).clusters
        IN  \A i, j \in DOMAIN listed : listed[i].name = listed[j].name => i = j

\* The SDN controller of a device is the one that the message names.
LEMMA ControllerOf ==
    ASSUME NEW m \in ProviderMessages \cup {Nil},
           NEW stored, stored = IF m = Nil THEN NoProvider ELSE Configuration(m)
    PROVE  /\ SDNController(stored).name = ProviderFields(m).name
           /\ SDNController(stored).domain = ProviderFields(m).domain
           /\ \A p \in Ports :
                 /\ SDNController(stored).ports[p] # Empty
                 /\ ProviderFields(m).ports[p] \in {Empty, SDNController(stored).ports[p]}
<1>1. \A p \in Ports : SchemaPort[p] # Empty /\ DefaultPort[p] # Empty
  BY PortsAssumption
<1>2. CASE m = Nil
  BY <1>1, <1>2 DEF SDNController, ProviderFields, ProviderMessage
<1>3. CASE m # Nil
  <2>1. /\ m.name \in STRING /\ m.domain \in STRING /\ m.ports \in [Ports -> STRING]
        /\ ProviderFields(m) = m
    BY <1>3 DEF ProviderMessages, ProviderFields
  <2>2. PICK d, q : /\ d = IF m.domain = Empty THEN << >> ELSE <<m.domain>>
                    /\ q = [p \in Ports |-> DefaultIfEmpty(m.ports[p], SchemaPort[p])]
    OBVIOUS
  <2>3. stored = [name |-> m.name, domain |-> d, ports |-> q]
    BY <1>3, <2>2 DEF Configuration
  <2>4. d \in Seq(STRING) /\ (IF d = << >> THEN Empty ELSE d[1]) = m.domain
    <3>1. CASE m.domain = Empty
      BY <2>2, <3>1
    <3>2. CASE m.domain # Empty
      BY <2>1, <2>2, <3>2
    <3> QED BY <3>1, <3>2
  <2>5. \A p \in Ports : q[p] = IF m.ports[p] = Empty THEN SchemaPort[p] ELSE m.ports[p]
    BY <2>2 DEF DefaultIfEmpty
  <2>6. q \in [Ports -> STRING]
    BY <2>1, <2>2, PortsAssumption DEF DefaultIfEmpty
  <2>7. stored # NoProvider
    BY <2>1, <2>3, <2>4, <2>6, ConfigurationsAssumption DEF ProviderSpec
  <2>8. SDNController(stored) = [name |-> m.name, domain |-> m.domain,
                                 ports |-> [p \in Ports |-> port(q, p)]]
    BY <2>3, <2>4, <2>7 DEF SDNController
  <2>9. \A p \in Ports : port(q, p) = q[p]
    BY <1>1, <2>5 DEF port, DefaultIfEmpty
  <2> QED BY <1>1, <2>1, <2>5, <2>8, <2>9
<1> QED BY <1>2, <1>3

\* What a slice's spec keeps of the message.
Keeps(spec, slice) ==
    /\ spec \in SliceOverlaySpec /\ ListsOnce(spec)
    /\ DOMAIN slice.clusters = 1..Len(spec.nodes) /\ DOMAIN spec.nodes = 1..Len(spec.nodes)
    /\ \A i \in 1..Len(spec.nodes) :
          /\ spec.nodes[i].name = slice.clusters[i].name
          /\ spec.nodes[i].gateway = gatewayFromProto(slice.clusters[i].gatewayNode)
    /\ spec.links = {<<slice.links[i].endpointA, slice.links[i].endpointB>> :
                        i \in DOMAIN slice.links}
    /\ slice.links = << >> <=> spec.links = {}
    /\ slice.provider \in ProviderMessages \cup {Nil}
    /\ spec.provider = IF slice.provider = Nil THEN NoProvider
                       ELSE Configuration(slice.provider)

LEMMA SpecKeeps ==
    ASSUME MessagesListOnce, NEW r \in Implemented, r.method \notin Networks
    PROVE  Keeps(Defaulted(Converted(r).value).spec, SliceFields(r.message))
<1>1. PICK slice, spec, m : /\ slice = SliceFields(r.message)
                            /\ spec = Defaulted(Converted(r).value).spec
                            /\ m = slice.provider
  OBVIOUS
<1>2. slice \in SliceMessages /\ spec \in SliceOverlaySpec
  BY <1>1, SliceFieldsType, SpecType
<1> DEFINE given == Converted(r).value.spec
<1>3. /\ m = Nil \/ m \in ProviderMessages
      /\ spec = [nodes |-> given.nodes, links |-> given.links, monitoring |-> NoMonitoring,
                 providerRef |-> NoRef,
                 provider |-> IF m = Nil THEN NoProvider ELSE Configuration(m)]
  BY <1>1, ProviderStored
<1>4. /\ given.nodes = [i \in DOMAIN slice.clusters |->
                            [name    |-> slice.clusters[i].name,
                             gateway |-> gatewayFromProto(slice.clusters[i].gatewayNode)]]
      /\ given.links = {<<slice.links[i].endpointA, slice.links[i].endpointB>> :
                            i \in DOMAIN slice.links}
  BY <1>1 DEF Converted, sliceOverlayFromProto, Object
<1> HIDE DEF given
<1>5. /\ slice.clusters \in Seq(ClusterMessages)
      /\ slice.links \in Seq(LinkMessages)
      /\ spec.nodes \in Seq(OverlayCluster)
  BY <1>2 DEF SliceMessages, SliceOverlaySpec
<1>6. /\ spec.nodes = given.nodes /\ spec.links = given.links
      /\ spec.provider = IF m = Nil THEN NoProvider ELSE Configuration(m)
  BY <1>3
<1>7. DOMAIN slice.clusters = DOMAIN spec.nodes
  BY <1>4, <1>6
<1>8. DOMAIN spec.nodes = 1..Len(spec.nodes)
  BY <1>5
<1>9. \A i \in 1..Len(spec.nodes) :
         /\ spec.nodes[i].name = slice.clusters[i].name
         /\ spec.nodes[i].gateway = gatewayFromProto(slice.clusters[i].gatewayNode)
  BY <1>4, <1>6, <1>7, <1>8
<1>10. \A i, j \in DOMAIN slice.clusters :
          slice.clusters[i].name = slice.clusters[j].name => i = j
  BY <1>1 DEF MessagesListOnce
<1>11. ListsOnce(spec)
  BY <1>7, <1>8, <1>9, <1>10 DEF ListsOnce
<1>12. slice.links = << >> <=> spec.links = {}
  <2>1. DOMAIN slice.links = 1..Len(slice.links)
    BY <1>5
  <2>2. slice.links # << >> => Len(slice.links) \in Nat \ {0}
    BY <1>5, EmptySeq
  <2>3. slice.links # << >> => 1 \in DOMAIN slice.links
    BY <2>1, <2>2
  <2>4. slice.links = << >> => DOMAIN slice.links = {}
    BY EmptySeq
  <2>5. spec.links = {<<slice.links[i].endpointA, slice.links[i].endpointB>> :
                         i \in DOMAIN slice.links}
    BY <1>4, <1>6
  <2> QED BY <2>3, <2>4, <2>5
<1>13. Keeps(spec, slice)
  <2>1. spec.links = {<<slice.links[i].endpointA, slice.links[i].endpointB>> :
                         i \in DOMAIN slice.links}
    BY <1>4, <1>6
  <2>2. /\ slice.provider \in ProviderMessages \cup {Nil}
        /\ spec.provider = IF slice.provider = Nil THEN NoProvider
                           ELSE Configuration(slice.provider)
    BY <1>1, <1>3, <1>6
  <2> QED BY <1>2, <1>7, <1>8, <1>9, <1>11, <1>12, <2>1, <2>2 DEF Keeps
<1> QED BY <1>1, <1>13

LEMMA RequestedDevice ==
    ASSUME NEW slice, NEW spec, Keeps(spec, slice),
           NEW i \in DOMAIN slice.clusters, NEW j \in DOMAIN slice.clusters
    PROVE  DeviceFollows(spec, slice, i, j)
<1>1. PICK c, d, node, p : /\ c = slice.clusters[i].name
                           /\ d = slice.clusters[j].name
                           /\ node = slice.clusters[j].gatewayNode
                           /\ p = SDNController(spec.provider)
  OBVIOUS
<1>2. /\ spec \in SliceOverlaySpec /\ ListsOnce(spec)
      /\ i \in 1..Len(spec.nodes) /\ j \in 1..Len(spec.nodes)
      /\ spec.nodes[i].name = c /\ spec.nodes[j].name = d
      /\ spec.nodes[j].gateway = gatewayFromProto(node)
      /\ DOMAIN spec.nodes = 1..Len(spec.nodes)
  BY <1>1 DEF Keeps
<1>3. PICK e \in NodeNames(spec) : e = c
  BY <1>2 DEF NodeNames
<1>4. PICK f \in NodeNames(spec) : f = d
  BY <1>2 DEF NodeNames
<1>5. d \in Clusters
  BY <1>2, <1>4, NodeTypes
<1>6. PICK addresses : addresses =
         [n \in NodeNames(spec) |->
            LET k == CHOOSE l \in DOMAIN spec.nodes : spec.nodes[l].name = n
            IN  DefaultIfEmpty(spec.nodes[k].gateway, [m \in Clusters |-> m][n])]
  OBVIOUS
<1>7. PICK ned : ned = NED(spec, addresses, p, c)
  OBVIOUS
<1>8. Device(spec, [m \in Clusters |-> m], c) = ned
  BY <1>1, <1>6, <1>7 DEF Device
<1>9. addresses[d] = IF node = Nil \/ node.ipAddress = Empty THEN d ELSE node.ipAddress
  <2>1. \A l \in DOMAIN spec.nodes : spec.nodes[l].name = d <=> l = j
    BY <1>2 DEF ListsOnce
  <2>2. (CHOOSE l \in DOMAIN spec.nodes : spec.nodes[l].name = d) = j
    BY <1>2, <2>1
  <2>3. addresses[d] = DefaultIfEmpty(spec.nodes[j].gateway, [m \in Clusters |-> m][d])
    BY <1>4, <1>6, <2>2
  <2> QED BY <1>2, <1>5, <2>3 DEF DefaultIfEmpty, gatewayFromProto
<1>10. /\ (\E v \in NED(spec, addresses, p, e).neighbors : v.node = f) <=> f \in LinkedTo(spec, e)
       /\ \A v \in NED(spec, addresses, p, e).neighbors :
             v.node = f => v.domain = addresses[f] /\ v.lpmIp = monitoredNode(spec, f)
  BY <1>2, NeighborOf
<1>11. /\ (\E v \in ned.neighbors : v.node = d) <=> d \in LinkedTo(spec, c)
       /\ \A v \in ned.neighbors : v.node = d => v.domain = addresses[d]
  BY <1>3, <1>4, <1>7, <1>10
<1>12. d \in LinkedTo(spec, c) <=>
         \/ <<c, d>> \in spec.links \/ <<d, c>> \in spec.links
         \/ spec.links = {} /\ c # d
  BY <1>2, <1>3, <1>4, LinkedByLinks
<1>13. \A a, b : {a, b} = {c, d} <=> (a = c /\ b = d) \/ (a = d /\ b = c)
  OBVIOUS
<1>14. \A a, b : <<a, b>> \in spec.links <=>
          \E k \in DOMAIN slice.links :
             a = slice.links[k].endpointA /\ b = slice.links[k].endpointB
  BY DEF Keeps
<1>15. Linked(slice, c, d) <=> d \in LinkedTo(spec, c)
  <2>1. slice.links = << >> <=> spec.links = {}
    BY DEF Keeps
  <2>2. \A k \in DOMAIN slice.links :
           {slice.links[k].endpointA, slice.links[k].endpointB} = {c, d} <=>
              \/ c = slice.links[k].endpointA /\ d = slice.links[k].endpointB
              \/ d = slice.links[k].endpointA /\ c = slice.links[k].endpointB
    BY <1>13
  <2>3. Linked(slice, c, d) <=>
           \/ slice.links = << >> /\ c # d
           \/ <<c, d>> \in spec.links \/ <<d, c>> \in spec.links
    <3>1. (\E k \in DOMAIN slice.links :
              {slice.links[k].endpointA, slice.links[k].endpointB} = {c, d})
             <=> <<c, d>> \in spec.links \/ <<d, c>> \in spec.links
      <4>1. <<c, d>> \in spec.links <=> \E k \in DOMAIN slice.links :
                c = slice.links[k].endpointA /\ d = slice.links[k].endpointB
        BY <1>14
      <4>2. <<d, c>> \in spec.links <=> \E k \in DOMAIN slice.links :
                d = slice.links[k].endpointA /\ c = slice.links[k].endpointB
        BY <1>14
      <4> QED BY <2>2, <4>1, <4>2
    <3> QED BY <3>1 DEF Linked
  <2> QED BY <1>12, <2>1, <2>3
<1>16. ned.provider = p
  BY <1>7 DEF NED
<1>17. PICK m \in ProviderMessages \cup {Nil} : m = slice.provider
  BY DEF Keeps
<1>18. spec.provider = IF m = Nil THEN NoProvider ELSE Configuration(m)
  BY <1>17 DEF Keeps
<1>19. /\ p.name = ProviderFields(m).name
       /\ p.domain = ProviderFields(m).domain
       /\ \A q \in Ports : p.ports[q] # Empty /\ ProviderFields(m).ports[q] \in {Empty, p.ports[q]}
  BY <1>1, <1>18, ControllerOf
<1> QED BY <1>1, <1>8, <1>9, <1>11, <1>15, <1>16, <1>17, <1>19 DEF DeviceFollows

\* Every device that a stored slice leads to follows the client's message, in
\* its neighbours, their addresses and its SDN controller, for every request
\* that lists no cluster twice and whatever handlers, deadlines and crashes
\* interleave.  (The devices of a cluster that is listed twice have a link to
\* themselves, and no single gateway is the requested one.)
THEOREM DevicesFollowRequests == MessagesListOnce => (Spec => []DevicesAsRequested)
<1> SUFFICES ASSUME MessagesListOnce PROVE Spec => []DevicesAsRequested
  OBVIOUS
<1>1. IndInv => DevicesAsRequested
  <2> SUFFICES ASSUME IndInv, NEW k \in Keys, k.kind = "SliceOverlay", objects[k] # Nothing,
                      NEW i \in DOMAIN SliceFields(objects[k].value.origin).clusters,
                      NEW j \in DOMAIN SliceFields(objects[k].value.origin).clusters
               PROVE  DeviceFollows(objects[k].value.spec,
                                    SliceFields(objects[k].value.origin), i, j)
    BY DEF DevicesAsRequested
  <2>1. PICK r \in Implemented :
           Converted(r).key = k /\ objects[k].value = Defaulted(Converted(r).value)
    BY DEF IndInv, ObjectsOK, StoredFrom
  <2>2. r.method \notin Networks
    BY <2>1, KeyType
  <2>3. objects[k].value.origin = r.message
    BY <2>1, OriginKept
  <2>4. Keeps(objects[k].value.spec, SliceFields(objects[k].value.origin))
    BY <2>1, <2>2, <2>3, SpecKeeps
  <2> QED BY <2>4, RequestedDevice
<1> QED BY <1>1, InitIndInv, NextIndInv, PTL DEF Spec

=============================================================================
