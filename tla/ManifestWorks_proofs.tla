------------------------ MODULE ManifestWorks_proofs ------------------------
(***************************************************************************)
(* That applyManifestWork never takes a finalizer from the work agent, for *)
(* any number of callers, works, attempts, faults and status updates.      *)
(***************************************************************************)
EXTENDS ManifestWorks, TLAPS

Requesting == {"get", "create", "update", "delete"}

Types ==
    /\ works \in [Keys -> ManifestWork \cup {NoWork}]
    /\ version \in Nat
    /\ deployed \in [Keys -> Contents \cup {NoWork}]
    /\ pc \in [Callers -> Requesting \cup {"idle"}]
    /\ current \in [Callers -> ManifestWork \cup {NoWork}]
    /\ call = [p \in Callers |-> call[p]]

\* A caller between two requests has a key and, unless it deletes, a content.
CallOK ==
    \A p \in Callers :
        /\ pc[p] # "idle" => call[p].key \in Keys
        /\ pc[p] \in {"get", "create", "update"} => call[p].value \in Contents

\* Every resourceVersion was given before.
VersionsOK ==
    /\ \A k \in Keys : works[k] # NoWork => works[k].rv <= version
    /\ \A p \in Callers : current[p] # NoWork => current[p].rv <= version

\* The copy that is about to be written is the stored work if it carries the
\* same resourceVersion.
CopyOK ==
    \A p \in Callers :
        pc[p] = "update" =>
            /\ current[p] # NoWork
            /\ UpToDate(p) => current[p] = works[Key(p)]

IInv == Types /\ CallOK /\ VersionsOK /\ CopyOK /\ NoStrandedContent

-----------------------------------------------------------------------------
(* Every write of a work, by a caller or by the agent. *)

\* The API server's stamp leaves a work a work.
LEMMA Stamped ==
    ASSUME IInv, NEW w \in ManifestWork
    PROVE  [w EXCEPT !.rv = version + 1] \in ManifestWork
BY DEF IInv, Types, ManifestWork

\* A fresh resourceVersion fits no copy that a caller holds.
LEMMA StoreStep ==
    ASSUME IInv, NEW k \in Keys, NEW w \in ManifestWork, Store(k, w),
           deployed[k] # NoWork => w.finalizer,
           UNCHANGED <<deployed, call>>,
           pc' \in [Callers -> Requesting \cup {"idle"}],
           current' \in [Callers -> ManifestWork \cup {NoWork}],
           \A p \in Callers : \/ pc'[p] = pc[p] /\ current'[p] = current[p]
                              \/ pc'[p] = "idle" /\ current'[p] = NoWork
    PROVE  IInv'
<1> DEFINE s == [w EXCEPT !.rv = version + 1]
<1>1. s \in ManifestWork /\ s.rv = version + 1 /\ s.finalizer = w.finalizer
  BY DEF IInv, Types, ManifestWork
<1>2. /\ works' = [works EXCEPT ![k] = s] /\ version' = version + 1
      /\ works'[k] = s /\ s # NoWork
      /\ \A j \in Keys \ {k} : works'[j] = works[j]
  BY <1>1, NoWorkAssumption DEF Store, IInv, Types
<1> HIDE DEF s
<1>3. Types'
  BY <1>1, <1>2 DEF IInv, Types
<1>4. CallOK'
  BY DEF IInv, CallOK
<1>5. VersionsOK'
  <2>1. \A j \in Keys : works'[j] # NoWork => works'[j].rv <= version'
    BY <1>1, <1>2 DEF IInv, Types, VersionsOK, ManifestWork
  <2>2. \A p \in Callers : current'[p] # NoWork => current'[p].rv <= version'
    BY <1>2 DEF IInv, Types, VersionsOK, ManifestWork
  <2> QED BY <2>1, <2>2 DEF VersionsOK
<1>6. CopyOK'
  <2> SUFFICES ASSUME NEW p \in Callers, pc'[p] = "update"
               PROVE  current'[p] # NoWork /\ (UpToDate(p)' => current'[p] = works'[Key(p)'])
    BY DEF CopyOK
  <2>1. pc[p] = "update" /\ current'[p] = current[p] /\ current[p] # NoWork
    BY DEF IInv, CopyOK
  <2>2. Key(p)' = Key(p) /\ Key(p) \in Keys
    BY <2>1 DEF IInv, CallOK, Key
  <2>3. CASE Key(p) = k
    <3>1. current[p].rv <= version /\ current[p].rv \in Nat /\ version \in Nat
      BY <2>1 DEF IInv, VersionsOK, Types, ManifestWork
    <3>2. works'[Key(p)'].rv # current'[p].rv
      BY <3>1, <2>1, <2>2, <2>3, <1>1, <1>2
    <3> QED BY <3>2, <2>1 DEF UpToDate
  <2>4. CASE Key(p) # k
    BY <2>1, <2>2, <2>4, <1>2 DEF UpToDate, IInv, CopyOK
  <2> QED BY <2>3, <2>4
<1>7. NoStrandedContent'
  BY <1>1, <1>2 DEF IInv, NoStrandedContent
<1> QED BY <1>3, <1>4, <1>5, <1>6, <1>7 DEF IInv

\* A work goes away that has nothing on its cluster.
LEMMA RemoveStep ==
    ASSUME IInv, NEW k \in Keys, works' = [works EXCEPT ![k] = NoWork],
           deployed[k] = NoWork,
           UNCHANGED <<version, deployed, call>>,
           pc' \in [Callers -> Requesting \cup {"idle"}],
           current' \in [Callers -> ManifestWork \cup {NoWork}],
           \A p \in Callers : \/ pc'[p] = pc[p] /\ current'[p] = current[p]
                              \/ pc'[p] = "idle" /\ current'[p] = NoWork
    PROVE  IInv'
<1>1. works'[k] = NoWork /\ \A j \in Keys \ {k} : works'[j] = works[j]
  BY DEF IInv, Types
<1>2. Types' /\ CallOK' /\ NoStrandedContent'
  BY <1>1 DEF IInv, Types, CallOK, NoStrandedContent
<1>3. VersionsOK'
  BY <1>1 DEF IInv, Types, VersionsOK
<1>4. CopyOK'
  <2> SUFFICES ASSUME NEW p \in Callers, pc'[p] = "update"
               PROVE  current'[p] # NoWork /\ (UpToDate(p)' => current'[p] = works'[Key(p)'])
    BY DEF CopyOK
  <2>1. pc[p] = "update" /\ current'[p] = current[p] /\ current[p] # NoWork
    BY DEF IInv, CopyOK
  <2>2. Key(p)' = Key(p) /\ Key(p) \in Keys
    BY <2>1 DEF IInv, CallOK, Key
  <2> QED BY <1>1, <2>1, <2>2 DEF IInv, CopyOK, UpToDate
<1> QED BY <1>2, <1>3, <1>4 DEF IInv

\* No work is written; callers keep their copies or return.
LEMMA LocalStep ==
    ASSUME IInv, UNCHANGED <<works, version, deployed, call>>,
           pc' \in [Callers -> Requesting \cup {"idle"}],
           current' \in [Callers -> ManifestWork \cup {NoWork}],
           \A p \in Callers : \/ pc'[p] = pc[p] /\ current'[p] = current[p]
                              \/ pc'[p] = "idle" /\ current'[p] = NoWork
                              \/ pc'[p] = "get" /\ pc[p] = "update" /\ current'[p] = current[p]
    PROVE  IInv'
<1>1. Types' /\ VersionsOK' /\ NoStrandedContent'
  BY DEF IInv, Types, VersionsOK, NoStrandedContent
<1>2. CallOK'
  BY DEF IInv, CallOK
<1>3. CopyOK'
  <2> SUFFICES ASSUME NEW p \in Callers, pc'[p] = "update"
               PROVE  current'[p] # NoWork /\ (UpToDate(p)' => current'[p] = works'[Key(p)'])
    BY DEF CopyOK
  <2>1. pc[p] = "update" /\ current'[p] = current[p]
    OBVIOUS
  <2> QED BY <2>1 DEF IInv, CopyOK, UpToDate, Key
<1> QED BY <1>1, <1>2, <1>3 DEF IInv

-----------------------------------------------------------------------------
(* One lemma per action. *)

\* What Return leaves of the caller's locals.
LEMMA Returned ==
    ASSUME IInv, NEW p \in Callers, NEW how, Return(p, how)
    PROVE  /\ pc' \in [Callers -> Requesting \cup {"idle"}]
           /\ current' \in [Callers -> ManifestWork \cup {NoWork}]
           /\ UNCHANGED call
           /\ \A q \in Callers : \/ pc'[q] = pc[q] /\ current'[q] = current[q]
                                 \/ pc'[q] = "idle" /\ current'[q] = NoWork
BY DEF IInv, Types, Return

LEMMA BeginStep ==
    ASSUME IInv, NEW p \in Callers,
           \E k \in Keys : Delete(p, k) \/ \E w \in Contents : Apply(p, k, w)
    PROVE  IInv'
<1>1. Types' /\ VersionsOK' /\ NoStrandedContent'
  BY DEF IInv, Types, VersionsOK, NoStrandedContent, Apply, Delete, Begin, Requesting
<1>2. CallOK'
  BY DEF IInv, Types, CallOK, Apply, Delete, Begin
<1>3. CopyOK'
  <2> SUFFICES ASSUME NEW q \in Callers, pc'[q] = "update"
               PROVE  current'[q] # NoWork /\ (UpToDate(q)' => current'[q] = works'[Key(q)'])
    BY DEF CopyOK
  <2>1. q # p /\ pc[q] = "update" /\ call'[q] = call[q]
    BY DEF IInv, Types, Apply, Delete, Begin
  <2>2. UNCHANGED <<works, current>>
    BY DEF Apply, Delete, Begin
  <2> QED BY <2>1, <2>2 DEF IInv, CopyOK, UpToDate, Key
<1> QED BY <1>1, <1>2, <1>3 DEF IInv

LEMMA GetStep ==
    ASSUME IInv, NEW p \in Callers, Get(p) PROVE IInv'
<1>1. Key(p) \in Keys /\ works[Key(p)] \in ManifestWork \cup {NoWork}
  BY DEF IInv, Types, CallOK, Get, Key
<1>2. Types' /\ VersionsOK' /\ NoStrandedContent'
  BY <1>1 DEF IInv, Types, VersionsOK, NoStrandedContent, Get, Requesting
<1>3. CallOK'
  BY DEF IInv, Types, CallOK, Get
<1>4. CopyOK'
  <2> SUFFICES ASSUME NEW q \in Callers, pc'[q] = "update"
               PROVE  current'[q] # NoWork /\ (UpToDate(q)' => current'[q] = works'[Key(q)'])
    BY DEF CopyOK
  <2>1. CASE q = p
    BY <2>1, <1>1 DEF IInv, Types, Get, Key
  <2>2. CASE q # p
    BY <2>2 DEF IInv, Types, CopyOK, Get, UpToDate, Key
  <2> QED BY <2>1, <2>2
<1> QED BY <1>2, <1>3, <1>4 DEF IInv

LEMMA CreateStep ==
    ASSUME IInv, NEW p \in Callers, Create(p) PROVE IInv'
<1>1. Key(p) \in Keys /\ call[p].value \in Contents
  BY DEF IInv, CallOK, Create, Key
<1>2. CASE works[Key(p)] = NoWork
  <2> DEFINE w == [content |-> call[p].value, rv |-> 0, finalizer |-> FALSE, deleting |-> FALSE]
  <2>1. w \in ManifestWork
    BY <1>1 DEF ManifestWork
  <2>2. Store(Key(p), w) /\ Answered(p) /\ UNCHANGED deployed
    BY <1>2 DEF Create
  <2>3. PICK how \in {"ok", "error"} : Return(p, how)
    BY <2>2 DEF Answered
  <2>4. deployed[Key(p)] = NoWork
    BY <1>1, <1>2 DEF IInv, NoStrandedContent
  <2> HIDE DEF w
  <2> QED BY <2>1, <2>2, <2>3, <2>4, <1>1, Returned, StoreStep
<1>3. CASE works[Key(p)] # NoWork
  BY <1>3, Returned, LocalStep DEF Create, AlreadyExists
<1> QED BY <1>2, <1>3

LEMMA UpdateStep ==
    ASSUME IInv, NEW p \in Callers, Update(p) PROVE IInv'
<1>1. Key(p) \in Keys /\ call[p].value \in Contents /\ current[p] \in ManifestWork
  BY DEF IInv, Types, CallOK, CopyOK, Update, Key
<1>2. current[p] = works[Key(p)] /\ works[Key(p)] # NoWork
  BY DEF IInv, CopyOK, Update, UpToDate
<1> DEFINE w == [current[p] EXCEPT !.content = call[p].value]
<1>3. w \in ManifestWork /\ w.finalizer = current[p].finalizer
  BY <1>1 DEF ManifestWork
<1>4. Store(Key(p), w) /\ UNCHANGED deployed
  BY DEF Update
<1>5. PICK how \in {"ok", "error"} : Return(p, how)
  BY DEF Update, Answered
<1>6. deployed[Key(p)] # NoWork => w.finalizer
  BY <1>1, <1>2, <1>3 DEF IInv, NoStrandedContent
<1> HIDE DEF w
<1> QED BY <1>1, <1>3, <1>4, <1>5, <1>6, Returned, StoreStep

LEMMA UpdateRefusedStep ==
    ASSUME IInv, NEW p \in Callers, UpdateRefused(p) PROVE IInv'
<1>1. CASE Return(p, "error")
  BY <1>1, Returned, LocalStep DEF UpdateRefused
<1>2. CASE pc' = [pc EXCEPT ![p] = "get"] /\ UNCHANGED <<call, current>>
  <2>1. /\ pc' \in [Callers -> Requesting \cup {"idle"}]
        /\ current' \in [Callers -> ManifestWork \cup {NoWork}]
        /\ \A q \in Callers : \/ pc'[q] = pc[q] /\ current'[q] = current[q]
                              \/ pc'[q] = "get" /\ pc[q] = "update" /\ current'[q] = current[q]
    BY <1>2 DEF IInv, Types, UpdateRefused, Requesting
  <2> QED BY <1>2, <2>1, LocalStep DEF UpdateRefused
<1> QED BY <1>1, <1>2 DEF UpdateRefused

LEMMA DeleteWorkStep ==
    ASSUME IInv, NEW p \in Callers, DeleteWork(p) PROVE IInv'
<1>1. Key(p) \in Keys /\ works[Key(p)] \in ManifestWork \cup {NoWork}
  BY DEF IInv, Types, CallOK, DeleteWork, Key
<1>2. PICK how \in {"ok", "error"} : Return(p, how)
  BY DEF DeleteWork, Answered
<1>3. CASE UNCHANGED <<works, version>>
  BY <1>2, <1>3, Returned, LocalStep DEF DeleteWork
<1> DEFINE w == [works[Key(p)] EXCEPT !.deleting = TRUE]
<1>4. CASE works[Key(p)] # NoWork /\ works[Key(p)].finalizer /\ Store(Key(p), w)
  <2>1. w \in ManifestWork /\ w.finalizer = works[Key(p)].finalizer
    BY <1>1, <1>4 DEF ManifestWork
  <2>2. UNCHANGED deployed
    BY DEF DeleteWork
  <2> HIDE DEF w
  <2> QED BY <1>1, <1>2, <1>4, <2>1, <2>2, Returned, StoreStep
<1>5. CASE /\ works[Key(p)] # NoWork /\ ~works[Key(p)].finalizer
           /\ works' = [works EXCEPT ![Key(p)] = NoWork] /\ UNCHANGED version
  <2>1. deployed[Key(p)] = NoWork /\ UNCHANGED deployed
    BY <1>1, <1>5 DEF IInv, NoStrandedContent, DeleteWork
  <2> QED BY <1>1, <1>2, <1>5, <2>1, Returned, RemoveStep
<1> QED BY <1>3, <1>4, <1>5 DEF DeleteWork

LEMMA AgentStep ==
    ASSUME IInv, NEW k \in Keys, Agent(k) PROVE IInv'
<1>1. /\ works[k] \in ManifestWork
      /\ UNCHANGED <<pc, call, current>>
      /\ pc \in [Callers -> Requesting \cup {"idle"}]
      /\ current \in [Callers -> ManifestWork \cup {NoWork}]
  BY DEF IInv, Types, Agent, Adopt, Deploy, Report, Withdraw, AgentOnly, client
<1>2. CASE Adopt(k)
  <2> DEFINE w == [works[k] EXCEPT !.finalizer = TRUE]
  <2>1. w \in ManifestWork /\ w.finalizer /\ Store(k, w) /\ UNCHANGED deployed
    BY <1>1, <1>2 DEF Adopt, ManifestWork
  <2> HIDE DEF w
  <2> QED BY <1>1, <2>1, StoreStep
<1>3. CASE Deploy(k)
  <2>1. Types' /\ VersionsOK' /\ NoStrandedContent'
    BY <1>1, <1>3 DEF IInv, Types, VersionsOK, NoStrandedContent, Deploy, ManifestWork
  <2>2. CallOK'
    BY <1>1 DEF IInv, CallOK
  <2>3. CopyOK'
    BY <1>1, <1>3 DEF IInv, CopyOK, Deploy, UpToDate, Key
  <2> QED BY <2>1, <2>2, <2>3 DEF IInv
<1>4. CASE Report(k)
  <2>1. Store(k, works[k]) /\ UNCHANGED deployed /\ (deployed[k] # NoWork => works[k].finalizer)
    BY <1>4 DEF Report, IInv, NoStrandedContent
  <2> QED BY <1>1, <2>1, StoreStep
<1>5. CASE Withdraw(k)
  <2>1. CASE deployed' = [deployed EXCEPT ![k] = NoWork] /\ UNCHANGED works
    <3>1. UNCHANGED version
      BY <1>5 DEF Withdraw
    <3>2. Types' /\ VersionsOK' /\ NoStrandedContent'
      BY <1>1, <2>1, <3>1 DEF IInv, Types, VersionsOK, NoStrandedContent
    <3>3. CallOK'
      BY <1>1 DEF IInv, CallOK
    <3>4. CopyOK'
      BY <1>1, <2>1 DEF IInv, CopyOK, UpToDate, Key
    <3> QED BY <3>2, <3>3, <3>4 DEF IInv
  <2>2. CASE /\ deployed[k] = NoWork /\ works' = [works EXCEPT ![k] = NoWork]
             /\ UNCHANGED <<version, deployed>>
    BY <1>1, <2>2, RemoveStep
  <2> QED BY <1>5, <2>1, <2>2 DEF Withdraw
<1> QED BY <1>2, <1>3, <1>4, <1>5 DEF Agent

-----------------------------------------------------------------------------
LEMMA InitIInv == Init => IInv
BY DEF Init, IInv, Types, CallOK, VersionsOK, CopyOK, NoStrandedContent

LEMMA NextIInv == IInv /\ [Next]_vars => IInv'
<1> SUFFICES ASSUME IInv, [Next]_vars PROVE IInv'
  OBVIOUS
<1>1. ASSUME NEW p \in Callers, NEW k \in Keys, NEW w \in Contents, Apply(p, k, w)
      PROVE  IInv'
  BY <1>1, BeginStep
<1>2. ASSUME NEW p \in Callers, NEW k \in Keys, Delete(p, k) PROVE IInv'
  BY <1>2, BeginStep
<1>3. ASSUME NEW p \in Callers, Requests(p) PROVE IInv'
  <2>1. CASE RequestFails(p)
    BY <2>1, <1>3, Returned, LocalStep DEF RequestFails
  <2> QED BY <1>3, <2>1, GetStep, CreateStep, UpdateStep, UpdateRefusedStep,
             DeleteWorkStep DEF Requests
<1>4. ASSUME NEW k \in Keys, Agent(k) PROVE IInv'
  BY <1>4, AgentStep
<1>5. CASE UNCHANGED vars
  <2>1. UNCHANGED <<works, version, deployed, pc, call, current>>
    BY <1>5 DEF vars, client
  <2> QED BY <2>1 DEF IInv, Types, CallOK, VersionsOK, CopyOK, UpToDate, Key, NoStrandedContent
<1> QED BY <1>1, <1>2, <1>3, <1>4, <1>5 DEF Next

\* For any number of callers, attempts and faults: while the content of a
\* ManifestWork is on its cluster, the work is stored and holds the work
\* agent's finalizer, although applyManifestWork writes whole copies that it
\* got earlier.
THEOREM NothingStranded == Spec => []NoStrandedContent
<1>1. IInv => NoStrandedContent
  BY DEF IInv
<1> QED BY <1>1, InitIInv, NextIInv, PTL DEF Spec

-----------------------------------------------------------------------------
(* The refinement of AtomicStore. *)

\* What a caller is doing agrees with what it was called for.
ProtocolOK ==
    /\ answer = [p \in Callers |-> answer[p]]
    /\ \A p \in Callers :
        /\ pc[p] = "idle" <=> answer[p] # "pending"
        /\ pc[p] \in {"get", "create", "update"} => call[p].op = "put"
        /\ pc[p] = "delete" => call[p].op = "clear"

LEMMA NextProtocolOK ==
    ASSUME IInv, ProtocolOK, [Next]_vars PROVE ProtocolOK'
<1>1. ASSUME NEW p \in Callers, NEW how \in {"ok", "error"}, Return(p, how)
      PROVE  ProtocolOK'
  BY <1>1 DEF IInv, Types, ProtocolOK, Return
<1>2. ASSUME NEW p \in Callers, NEW k \in Keys, NEW w \in Contents, Apply(p, k, w)
      PROVE  ProtocolOK'
  BY <1>2 DEF IInv, Types, ProtocolOK, Apply, Begin
<1>3. ASSUME NEW p \in Callers, NEW k \in Keys, Delete(p, k)
      PROVE  ProtocolOK'
  BY <1>3 DEF IInv, Types, ProtocolOK, Delete, Begin
<1>4. ASSUME NEW p \in Callers, Get(p)
      PROVE  ProtocolOK'
  BY <1>4 DEF IInv, Types, ProtocolOK, Get
<1>5. ASSUME NEW p \in Callers, Requests(p)
      PROVE  ProtocolOK'
  <2>1. CASE \E how \in {"ok", "error"} : Return(p, how)
    BY <1>1, <2>1
  <2>2. CASE UpdateRefused(p) /\ pc' = [pc EXCEPT ![p] = "get"] /\ UNCHANGED <<call, answer>>
    BY <2>2 DEF IInv, Types, ProtocolOK, UpdateRefused
  <2> QED BY <1>4, <1>5, <2>1, <2>2
          DEF Requests, Create, AlreadyExists, Update, UpdateRefused, DeleteWork,
              RequestFails, Answered
<1>6. CASE UNCHANGED client
  BY <1>6 DEF client, ProtocolOK
<1>7. ASSUME NEW k \in Keys, Agent(k) PROVE UNCHANGED client
  BY <1>7 DEF Agent, Adopt, Deploy, Report, Withdraw, AgentOnly
<1> QED BY <1>2, <1>3, <1>5, <1>6, <1>7 DEF Next, vars

\* A call that returns ends for the abstract caller too.
LEMMA EndRefines ==
    ASSUME IInv, ProtocolOK, NEW p \in Callers, pc[p] # "idle",
           NEW how, Return(p, how)
    PROVE  answer[p] = "pending" /\ Pending(p) = call[p] /\ Object!End(p, how)
<1>1. answer[p] = "pending" /\ Pending(p) = call[p]
  BY DEF ProtocolOK, Pending
<1>2. answer' = [answer EXCEPT ![p] = how]
  BY DEF Return
<1>3. Pending(p)' = NoCall /\ \A q \in Callers : q # p => Pending(q)' = Pending(q)
  BY DEF Pending, Return, IInv, Types
<1>4. [q \in Callers |-> Pending(q)'] = [[q \in Callers |-> Pending(q)] EXCEPT ![p] = NoCall]
  BY <1>3
<1> QED BY <1>1, <1>2, <1>4 DEF Object!End

\* A request that takes effect and is answered, or whose reply is lost.
LEMMA AnsweredRefines ==
    ASSUME IInv, ProtocolOK, NEW p \in Callers, pc[p] # "idle", Answered(p),
           Object!Effect(call[p])
    PROVE  Object!Next
<1>1. CASE Return(p, "ok")
  <2>1. answer[p] = "pending" /\ Pending(p) = call[p] /\ Object!End(p, "ok")
    BY <1>1, EndRefines
  <2>2. Object!Succeed(p)
    BY <2>1 DEF Object!Succeed
  <2> QED BY <2>2 DEF Object!Next
<1>2. CASE Return(p, "error")
  <2>1. answer[p] = "pending" /\ Pending(p) = call[p] /\ Object!End(p, "error")
    BY <1>2, EndRefines
  <2>2. Object!Fail(p)
    BY <2>1 DEF Object!Fail
  <2> QED BY <2>2 DEF Object!Next
<1> QED BY <1>1, <1>2 DEF Answered

\* An error without effect.
LEMMA ErrorRefines ==
    ASSUME IInv, ProtocolOK, NEW p \in Callers, pc[p] # "idle", Return(p, "error"),
           UNCHANGED works
    PROVE  Object!Next
<1>1. answer[p] = "pending" /\ Pending(p) = call[p] /\ Object!End(p, "error")
  BY EndRefines
<1>2. Object!Fail(p)
  BY <1>1 DEF Object!Fail, Content, Leaving
<1> QED BY <1>2 DEF Object!Next

\* Where callers see a change of one work only.
LEMMA StoredAs ==
    ASSUME NEW k \in Keys, NEW c, \A j \in Keys : Content(j)' = IF j = k THEN c ELSE Content(j)
    PROVE  [j \in Keys |-> Content(j)'] = [[j \in Keys |-> Content(j)] EXCEPT ![k] = c]
OBVIOUS

LEMMA CallsRefine ==
    ASSUME IInv, ProtocolOK, NEW p \in Callers,
           \E k \in Keys : Delete(p, k) \/ \E w \in Contents : Apply(p, k, w)
    PROVE  Object!Next
<1>1. PICK c \in Object!Calls : /\ pc[p] = "idle"
                                /\ answer' = [answer EXCEPT ![p] = "pending"]
                                /\ call' = [call EXCEPT ![p] = c]
                                /\ pc'[p] # "idle"
                                /\ \A q \in Callers : q # p => pc'[q] = pc[q]
                                /\ UNCHANGED works
  <2>1. ASSUME NEW k \in Keys
        PROVE  /\ [op |-> "clear", key |-> k, value |-> NoWork] \in Object!Calls
               /\ \A w \in Contents : [op |-> "put", key |-> k, value |-> w] \in Object!Calls
    BY <2>1 DEF Object!Calls, Object!Ops
  <2>2. ASSUME NEW k \in Keys, Delete(p, k)
        PROVE  \E c \in Object!Calls : /\ pc[p] = "idle"
                                       /\ answer' = [answer EXCEPT ![p] = "pending"]
                                       /\ call' = [call EXCEPT ![p] = c]
                                       /\ pc'[p] # "idle"
                                       /\ \A q \in Callers : q # p => pc'[q] = pc[q]
                                       /\ UNCHANGED works
    BY <2>1, <2>2 DEF Delete, Begin, IInv, Types
  <2>3. ASSUME NEW k \in Keys, NEW w \in Contents, Apply(p, k, w)
        PROVE  \E c \in Object!Calls : /\ pc[p] = "idle"
                                       /\ answer' = [answer EXCEPT ![p] = "pending"]
                                       /\ call' = [call EXCEPT ![p] = c]
                                       /\ pc'[p] # "idle"
                                       /\ \A q \in Callers : q # p => pc'[q] = pc[q]
                                       /\ UNCHANGED works
    BY <2>1, <2>3 DEF Apply, Begin, IInv, Types
  <2> QED BY <2>2, <2>3
<1>2. Pending(p)' = c /\ \A q \in Callers : q # p => Pending(q)' = Pending(q)
  BY <1>1 DEF Pending, IInv, Types
<1>3. [q \in Callers |-> Pending(q)'] = [[q \in Callers |-> Pending(q)] EXCEPT ![p] = c]
  BY <1>2
<1>4. answer[p] # "pending"
  BY <1>1 DEF ProtocolOK
<1>5. Object!Begin(p)
  BY <1>1, <1>3, <1>4 DEF Object!Begin, Content, Leaving
<1> QED BY <1>5 DEF Object!Next

LEMMA CreateRefines ==
    ASSUME IInv, ProtocolOK, NEW p \in Callers, Create(p) PROVE Object!Next
<1>1. pc[p] = "create" /\ Key(p) \in Keys /\ Key(p) = call[p].key /\ call[p].op = "put"
  BY DEF Create, IInv, CallOK, ProtocolOK, Key
<1>2. CASE works[Key(p)] # NoWork
  BY <1>1, <1>2, ErrorRefines DEF Create, AlreadyExists
<1>3. CASE works[Key(p)] = NoWork
  <2> DEFINE s == [content |-> call[p].value, rv |-> version + 1,
                   finalizer |-> FALSE, deleting |-> FALSE]
  <2>1. works' = [works EXCEPT ![Key(p)] = s]
    BY <1>3 DEF Create, Store
  <2>2. s # NoWork /\ s.content = call[p].value /\ ~s.deleting
    <3>1. s \in ManifestWork
      BY <1>1 DEF ManifestWork, IInv, Types, CallOK
    <3> QED BY <3>1, NoWorkAssumption
  <2> HIDE DEF s
  <2>3. \A j \in Keys : works'[j] = IF j = Key(p) THEN s ELSE works[j]
    BY <2>1, <1>1 DEF IInv, Types
  <2>4. \A j \in Keys : Content(j)' = IF j = call[p].key THEN call[p].value ELSE Content(j)
    BY <1>1, <2>2, <2>3 DEF Content
  <2>5. \A j \in Keys : Leaving(j)' <=> Leaving(j)
    BY <1>3, <2>2, <2>3 DEF Leaving
  <2>6. Object!Effect(call[p])
    BY <1>1, <2>4, <2>5, StoredAs DEF Object!Effect
  <2> QED BY <1>1, <1>3, <2>6, AnsweredRefines DEF Create
<1> QED BY <1>2, <1>3

LEMMA UpdateRefines ==
    ASSUME IInv, ProtocolOK, NEW p \in Callers, Update(p) PROVE Object!Next
<1>1. pc[p] = "update" /\ Key(p) \in Keys /\ Key(p) = call[p].key /\ call[p].op = "put"
  BY DEF Update, IInv, CallOK, ProtocolOK, Key
<1>2. current[p] = works[Key(p)] /\ works[Key(p)] \in ManifestWork /\ works[Key(p)] # NoWork
  BY <1>1 DEF Update, IInv, Types, CopyOK, UpToDate
<1> DEFINE s == [[current[p] EXCEPT !.content = call[p].value] EXCEPT !.rv = version + 1]
<1>3. works' = [works EXCEPT ![Key(p)] = s]
  BY DEF Update, Store
<1>4. /\ s # NoWork /\ s.content = call[p].value
      /\ s.deleting = works[Key(p)].deleting
  <2>1. [current[p] EXCEPT !.content = call[p].value] \in ManifestWork
    BY <1>1, <1>2 DEF ManifestWork, IInv, CallOK
  <2>2. s.content = call[p].value /\ s.deleting = works[Key(p)].deleting
    BY <1>2 DEF ManifestWork
  <2> QED BY <2>1, <2>2, Stamped, NoWorkAssumption
<1> HIDE DEF s
<1>5. \A j \in Keys : works'[j] = IF j = Key(p) THEN s ELSE works[j]
  BY <1>1, <1>3 DEF IInv, Types
<1>6. \A j \in Keys : Content(j)' = IF j = call[p].key THEN call[p].value ELSE Content(j)
  BY <1>1, <1>4, <1>5 DEF Content
<1>7. \A j \in Keys : Leaving(j)' <=> Leaving(j)
  BY <1>2, <1>4, <1>5 DEF Leaving
<1>8. Object!Effect(call[p])
  BY <1>1, <1>6, <1>7, StoredAs DEF Object!Effect
<1> QED BY <1>1, <1>8, AnsweredRefines DEF Update

LEMMA DeleteWorkRefines ==
    ASSUME IInv, ProtocolOK, NEW p \in Callers, DeleteWork(p) PROVE Object!Next
<1> DEFINE k == call[p].key
<1>1. pc[p] = "delete" /\ k \in Keys /\ Key(p) = k /\ call[p].op = "clear"
  BY DEF DeleteWork, IInv, CallOK, ProtocolOK, Key
<1>2. Object!Effect(call[p])
  <2>1. CASE works[k] = NoWork
    BY <1>1, <2>1 DEF DeleteWork, Object!Effect, Content, Leaving, Store
  <2>2. CASE works[k] # NoWork
    <3>1. works[k] \in ManifestWork /\ Content(k) # NoWork
      BY <1>1, <2>2, WorksAssumption DEF IInv, Types, Content, ManifestWork
    <3>2. CASE ~works[k].finalizer
      <4>1. works' = [works EXCEPT ![k] = NoWork]
        BY <1>1, <2>2, <3>2 DEF DeleteWork
      <4>2. \A j \in Keys : works'[j] = IF j = k THEN NoWork ELSE works[j]
        BY <1>1, <4>1 DEF IInv, Types
      <4>3. \A j \in Keys : /\ Content(j)' = IF j = k THEN NoWork ELSE Content(j)
                            /\ Leaving(j)' <=> Leaving(j) /\ j # k
        BY <4>2 DEF Content, Leaving
      <4>4. Object!Gone(k)
        BY <1>1, <4>3, StoredAs DEF Object!Gone
      <4> QED BY <1>1, <3>1, <4>4 DEF Object!Effect
    <3>3. CASE works[k].finalizer
      <4> DEFINE s == [[works[k] EXCEPT !.deleting = TRUE] EXCEPT !.rv = version + 1]
      <4>1. works' = [works EXCEPT ![k] = s]
        BY <1>1, <2>2, <3>3 DEF DeleteWork, Store
      <4>2. s # NoWork /\ s.content = works[k].content /\ s.deleting
        <5>1. [works[k] EXCEPT !.deleting = TRUE] \in ManifestWork
          BY <3>1 DEF ManifestWork
        <5>2. s.content = works[k].content /\ s.deleting
          BY <3>1 DEF ManifestWork
        <5> QED BY <5>1, <5>2, Stamped, NoWorkAssumption
      <4> HIDE DEF s
      <4>3. \A j \in Keys : works'[j] = IF j = k THEN s ELSE works[j]
        BY <1>1, <4>1 DEF IInv, Types
      <4>4. \A j \in Keys : /\ Content(j)' = Content(j)
                            /\ Leaving(j)' <=> Leaving(j) \/ j = k
        BY <2>2, <4>2, <4>3 DEF Content, Leaving
      <4> QED BY <1>1, <3>1, <4>4 DEF Object!Effect
    <3> QED BY <3>2, <3>3
  <2> QED BY <2>1, <2>2
<1> QED BY <1>1, <1>2, AnsweredRefines DEF DeleteWork

LEMMA AgentRefines ==
    ASSUME IInv, ProtocolOK, NEW k \in Keys, Agent(k)
    PROVE  [Object!Next]_(Object!vars)
<1>1. UNCHANGED <<pc, call, answer>>
  BY DEF Agent, Adopt, Deploy, Report, Withdraw, AgentOnly, client
<1>2. \A p \in Callers : Pending(p)' = Pending(p)
  BY <1>1 DEF Pending
<1>3. CASE UNCHANGED works
  BY <1>1, <1>2, <1>3 DEF Object!vars, Content, Leaving
<1>4. works[k] # NoWork /\ works[k] \in ManifestWork
  BY DEF Agent, Adopt, Deploy, Report, Withdraw, IInv, Types
<1>5. CASE Adopt(k) \/ Report(k)
  <2>1. PICK s \in ManifestWork : /\ works' = [works EXCEPT ![k] = s]
                                  /\ s.content = works[k].content
                                  /\ s.deleting = works[k].deleting
    <3>1. [works[k] EXCEPT !.finalizer = TRUE] \in ManifestWork
      BY <1>4 DEF ManifestWork
    <3>2. /\ [[works[k] EXCEPT !.finalizer = TRUE] EXCEPT !.rv = version + 1] \in ManifestWork
          /\ [works[k] EXCEPT !.rv = version + 1] \in ManifestWork
      BY <1>4, <3>1, Stamped
    <3> QED BY <1>4, <1>5, <3>2 DEF Adopt, Report, Store, ManifestWork
  <2>2. s # NoWork /\ \A j \in Keys : works'[j] = IF j = k THEN s ELSE works[j]
    BY <2>1, NoWorkAssumption DEF IInv, Types
  <2>3. \A j \in Keys : Content(j)' = Content(j) /\ (Leaving(j)' <=> Leaving(j))
    BY <1>4, <2>1, <2>2 DEF Content, Leaving
  <2> QED BY <1>1, <1>2, <2>3 DEF Object!vars
<1>6. CASE Withdraw(k) /\ works' = [works EXCEPT ![k] = NoWork]
  <2>1. \A j \in Keys : works'[j] = IF j = k THEN NoWork ELSE works[j]
    BY <1>6 DEF IInv, Types
  <2>2. \A j \in Keys : /\ Content(j)' = IF j = k THEN NoWork ELSE Content(j)
                        /\ Leaving(j)' <=> Leaving(j) /\ j # k
    BY <2>1 DEF Content, Leaving
  <2>3. Leaving(k)
    BY <1>4, <1>6 DEF Leaving, Withdraw
  <2>4. Object!Expire(k)
    BY <1>1, <1>2, <2>2, <2>3, StoredAs DEF Object!Expire, Object!Gone
  <2> QED BY <2>4 DEF Object!Next
<1> QED BY <1>3, <1>5, <1>6 DEF Agent, Deploy, Withdraw

LEMMA InitStoreRefines == Init => ProtocolOK /\ Object!Init
BY DEF Init, ProtocolOK, Object!Init, Content, Leaving, Pending

LEMMA NextStoreRefines ==
    ASSUME IInv, ProtocolOK, [Next]_vars
    PROVE  [Object!Next]_(Object!vars)
<1>1. ASSUME NEW p \in Callers, Requests(p)
      PROVE  [Object!Next]_(Object!vars)
  <2>1. CASE Create(p) \/ Update(p) \/ DeleteWork(p)
    BY <2>1, CreateRefines, UpdateRefines, DeleteWorkRefines
  <2>2. CASE UNCHANGED works /\ Return(p, "error") /\ pc[p] # "idle"
    BY <2>2, ErrorRefines
  <2>3. CASE UNCHANGED <<works, call, answer>> /\ pc[p] # "idle" /\ pc'[p] # "idle"
             /\ \A q \in Callers : q # p => pc'[q] = pc[q]
    <3>1. \A q \in Callers : Pending(q)' = Pending(q)
      BY <2>3 DEF Pending
    <3> QED BY <2>3, <3>1 DEF Object!vars, Content, Leaving
  <2> QED BY <1>1, <2>1, <2>2, <2>3
          DEF Requests, Get, UpdateRefused, RequestFails, IInv, Types
<1>2. CASE UNCHANGED vars
  BY <1>2 DEF vars, client, Object!vars, Content, Leaving, Pending
<1> QED BY <1>1, <1>2, CallsRefine, AgentRefines DEF Next

\* applyManifestWork and the deletes act as single writes, for any number of
\* callers, works, attempts and faults and whatever the work agent writes in
\* between: this is what the models of the two controllers take them for.
THEOREM WorksRefinement == Spec => ImplementsStore
<1>1. IInv /\ ProtocolOK /\ [Next]_vars => IInv' /\ ProtocolOK'
  BY NextIInv, NextProtocolOK
<1>2. IInv /\ ProtocolOK /\ [Next]_vars => [Object!Next]_(Object!vars)
  BY NextStoreRefines
<1>3. Init => IInv /\ ProtocolOK /\ Object!Init
  BY InitIInv, InitStoreRefines
<1> QED BY <1>1, <1>2, <1>3, PTL DEF Spec, ImplementsStore, Object!Spec
=============================================================================
