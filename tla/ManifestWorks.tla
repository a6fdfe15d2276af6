--------------------------- MODULE ManifestWorks ---------------------------
(***************************************************************************)
(* How the OCM client writes one ManifestWork: applyManifestWork gets it,  *)
(* creates it if there is none and otherwise updates the copy it got,      *)
(* again after a conflict; the delete loops delete it.  Several callers    *)
(* meet at one work: the two controllers for equally named slices, and the *)
(* replicas of a manager started without leader election.  The work agent  *)
(* of the managed cluster, which is not part of the repository, writes the *)
(* same object: it puts a finalizer on it before it deploys the content,   *)
(* reports status, and lets a deleted work go once the cluster is clean.   *)
(***************************************************************************)
EXTENDS Integers

CONSTANTS
    Callers,    \* threads that call the OCM client
    Keys,       \* keys of ManifestWorks
    Contents,   \* labels and spec of a desired work
    NoWork,     \* no ManifestWork; on a cluster, nothing deployed
    NoCall,     \* the caller has called nothing yet
    Steps,      \* retry.DefaultRetry.Steps
    MaxCalls,   \* bound on calls
    MaxFaults,  \* bound on failed requests and lost replies
    MaxReports  \* bound on the agent's status updates

ASSUME WorksAssumption ==
    /\ NoWork \notin Contents
    /\ Steps \in Nat \ {0}
    /\ MaxCalls \in Nat /\ MaxFaults \in Nat /\ MaxReports \in Nat

VARIABLES
    works,     \* works[k]: the stored ManifestWork
    version,   \* the last resourceVersion given
    deployed,  \* deployed[k]: what the agent has put on the cluster
    pc,        \* pc[p]: the request that p makes next
    call,      \* call[p]: what p was called for
    current,   \* current[p]: the copy it got
    tries,     \* tries[p]: attempts that ended in a conflict
    answer,    \* answer[p]: what the call returned
    calls, faults, reports   \* bounded counters

client == <<pc, call, current, tries, answer>>
counters == <<calls, faults, reports>>
vars == <<works, version, deployed, client, counters>>

ManifestWork == [content : Contents, rv : Nat, finalizer : BOOLEAN,
                 deleting : BOOLEAN]

ASSUME NoWorkAssumption == NoWork \notin ManifestWork

Key(p) == call[p].key

\* The API server stores w under a fresh resourceVersion.
Store(k, w) ==
    /\ works' = [works EXCEPT ![k] = [w EXCEPT !.rv = version + 1]]
    /\ version' = version + 1

-----------------------------------------------------------------------------
(* Calls of the OCM client. *)

Begin(p, c, request) ==
    /\ pc[p] = "idle"
    /\ calls < MaxCalls
    /\ calls' = calls + 1
    /\ call' = [call EXCEPT ![p] = c]
    /\ pc' = [pc EXCEPT ![p] = request]
    /\ answer' = [answer EXCEPT ![p] = "pending"]
    /\ UNCHANGED <<works, version, deployed, current, tries, faults, reports>>

Apply(p, k, w) == Begin(p, [op |-> "put", key |-> k, value |-> w], "get")
Delete(p, k) == Begin(p, [op |-> "clear", key |-> k, value |-> NoWork], "delete")

Return(p, how) ==
    /\ pc' = [pc EXCEPT ![p] = "idle"]
    /\ answer' = [answer EXCEPT ![p] = how]
    /\ current' = [current EXCEPT ![p] = NoWork]
    /\ tries' = [tries EXCEPT ![p] = 0]
    /\ UNCHANGED call

\* The request was carried out; its reply may be lost, which is an error
\* that RetryOnConflict does not retry.
Answered(p) ==
    \/ Return(p, "ok") /\ UNCHANGED faults
    \/ faults < MaxFaults /\ faults' = faults + 1 /\ Return(p, "error")

Get(p) ==
    /\ pc[p] = "get"
    /\ current' = [current EXCEPT ![p] = works[Key(p)]]
    /\ pc' = [pc EXCEPT ![p] = IF works[Key(p)] = NoWork THEN "create" ELSE "update"]
    /\ UNCHANGED <<works, version, deployed, call, tries, answer, counters>>

\* Mutant of AlreadyExists: the work is there, so all seems well.
AlreadyExistsIgnored(p) == Return(p, "ok")

\* Another caller was faster; that is no conflict, so it is not retried.
AlreadyExists(p) == Return(p, "error")

Create(p) ==
    /\ pc[p] = "create"
    /\ \/ /\ works[Key(p)] = NoWork
          /\ Store(Key(p), [content |-> call[p].value, rv |-> 0,
                            finalizer |-> FALSE, deleting |-> FALSE])
          /\ Answered(p)
       \/ /\ works[Key(p)] # NoWork
          /\ AlreadyExists(p)
          /\ UNCHANGED <<works, version, faults>>
    /\ UNCHANGED <<deployed, calls, reports>>

\* Mutant of UpToDate: an update without resourceVersion is always accepted.
AnyVersion(p) == works[Key(p)] # NoWork

UpToDate(p) == works[Key(p)] # NoWork /\ works[Key(p)].rv = current[p].rv

\* The copy that was got, with the desired labels and spec; a work that is
\* being deleted takes the update as well.
Update(p) ==
    /\ pc[p] = "update"
    /\ UpToDate(p)
    /\ Store(Key(p), [current[p] EXCEPT !.content = call[p].value])
    /\ Answered(p)
    /\ UNCHANGED <<deployed, calls, reports>>

\* A conflict starts another attempt while RetryOnConflict has steps left;
\* a work that is gone by now does not.
UpdateRefused(p) ==
    /\ pc[p] = "update"
    /\ ~UpToDate(p)
    /\ \/ /\ works[Key(p)] # NoWork
          /\ tries[p] + 1 < Steps
          /\ tries' = [tries EXCEPT ![p] = @ + 1]
          /\ pc' = [pc EXCEPT ![p] = "get"]
          /\ UNCHANGED <<call, current, answer>>
       \/ /\ works[Key(p)] = NoWork \/ tries[p] + 1 = Steps
          /\ Return(p, "error")
    /\ UNCHANGED <<works, version, deployed, counters>>

\* NotFound is no error; a work with a finalizer is only marked.
DeleteWork(p) ==
    /\ pc[p] = "delete"
    /\ LET w == works[Key(p)]
       IN \/ w = NoWork /\ UNCHANGED <<works, version>>
          \/ w # NoWork /\ w.finalizer /\ Store(Key(p), [w EXCEPT !.deleting = TRUE])
          \/ /\ w # NoWork /\ ~w.finalizer
             /\ works' = [works EXCEPT ![Key(p)] = NoWork]
             /\ UNCHANGED version
    /\ Answered(p)
    /\ UNCHANGED <<deployed, calls, reports>>

\* A request fails without effect.
RequestFails(p) ==
    /\ pc[p] # "idle"
    /\ faults < MaxFaults
    /\ faults' = faults + 1
    /\ Return(p, "error")
    /\ UNCHANGED <<works, version, deployed, calls, reports>>

-----------------------------------------------------------------------------
(* The work agent. *)

AgentOnly == UNCHANGED <<client, calls, faults>>

Adopt(k) ==
    /\ works[k] # NoWork
    /\ ~works[k].finalizer
    /\ Store(k, [works[k] EXCEPT !.finalizer = TRUE])
    /\ UNCHANGED <<deployed, reports>> /\ AgentOnly

Deploy(k) ==
    /\ works[k] # NoWork
    /\ works[k].finalizer /\ ~works[k].deleting
    /\ deployed[k] # works[k].content
    /\ deployed' = [deployed EXCEPT ![k] = works[k].content]
    /\ UNCHANGED <<works, version, reports>> /\ AgentOnly

Report(k) ==
    /\ works[k] # NoWork
    /\ reports < MaxReports
    /\ reports' = reports + 1
    /\ Store(k, works[k])
    /\ UNCHANGED deployed /\ AgentOnly

\* Clean the cluster, then remove the finalizer: the work is gone.
Withdraw(k) ==
    /\ works[k] # NoWork
    /\ works[k].deleting
    /\ \/ /\ deployed[k] # NoWork
          /\ deployed' = [deployed EXCEPT ![k] = NoWork]
          /\ UNCHANGED works
       \/ /\ deployed[k] = NoWork
          /\ works' = [works EXCEPT ![k] = NoWork]
          /\ UNCHANGED deployed
    /\ UNCHANGED <<version, reports>> /\ AgentOnly

-----------------------------------------------------------------------------
Init ==
    /\ works = [k \in Keys |-> NoWork]
    /\ version = 0
    /\ deployed = [k \in Keys |-> NoWork]
    /\ pc = [p \in Callers |-> "idle"]
    /\ call = [p \in Callers |-> NoCall]
    /\ current = [p \in Callers |-> NoWork]
    /\ tries = [p \in Callers |-> 0]
    /\ answer = [p \in Callers |-> "idle"]
    /\ calls = 0 /\ faults = 0 /\ reports = 0

Requests(p) ==
    Get(p) \/ Create(p) \/ Update(p) \/ UpdateRefused(p) \/ DeleteWork(p) \/ RequestFails(p)

Agent(k) == Adopt(k) \/ Deploy(k) \/ Report(k) \/ Withdraw(k)

Next ==
    \/ \E p \in Callers, k \in Keys, w \in Contents : Apply(p, k, w)
    \/ \E p \in Callers, k \in Keys : Delete(p, k)
    \/ \E p \in Callers : Requests(p)
    \/ \E k \in Keys : Agent(k)

Spec == Init /\ [][Next]_vars

-----------------------------------------------------------------------------
(* Properties. *)

\* What callers see of a stored work, and of a call that is under way.
Content(k) == IF works[k] = NoWork THEN NoWork ELSE works[k].content
Leaving(k) == works[k] # NoWork /\ works[k].deleting
Pending(p) == IF pc[p] = "idle" THEN NoCall ELSE call[p]

Object == INSTANCE AtomicStore
    WITH Processes <- Callers, Values <- Contents, Nothing <- NoWork,
         Tokens <- {}, late <- {},
         call <- [p \in Callers |-> Pending(p)],
         stored <- [k \in Keys |-> Content(k)],
         leaving <- {k \in Keys : Leaving(k)}

\* applyManifestWork and the deletes act as single writes: when two of them
\* race on a work, when the agent writes in between and when replies are
\* lost, a call that returns nil has put its content in place and one that
\* returns an error has done so at most once.
ImplementsStore == Object!Spec

\* An update from a copy never drops what the agent wrote into the work since
\* it was got: while the content of a work is on the cluster, the work is
\* there and holds the finalizer that makes its deletion wait for the agent.
NoStrandedContent ==
    \A k \in Keys :
        deployed[k] # NoWork => works[k] # NoWork /\ works[k].finalizer

\* What the API promises of a network whose works were applied: "the
\* controller will create an L2Network in each of these clusters"
\* (SliceNetworkSpec.Clusters).  A work that was applied, and that nobody
\* deletes after that, is there.
AppliedStays ==
    \A p \in Callers :
        answer[p] = "ok" /\ call[p].op = "put" /\ (\A q \in Callers \ {p} : call[q] = NoCall)
            => works[Key(p)] # NoWork
=============================================================================
