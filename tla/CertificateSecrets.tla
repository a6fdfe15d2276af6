------------------------- MODULE CertificateSecrets -------------------------
(***************************************************************************)
(* apply-cert: an administrator stores the certificate of a cluster in a   *)
(* secret of the hub, from which GetClusterCertificates lists them all.    *)
(* Several administrators may do so at once.  The secret of a cluster is   *)
(* created, or got and updated: no retry follows a conflict.               *)
(***************************************************************************)
EXTENDS Integers

CONSTANTS
    Admins,        \* invocations of apply-cert that may overlap
    ClusterNames,
    Certificates,
    NoSecret,      \* none stored, none got
    NoCall,        \* the administrator runs no apply-cert
    MaxRuns,       \* bound on invocations
    MaxFaults      \* bound on failing requests

VARIABLES
    secrets,    \* secrets[c]: [certValue, rv] of the secret "<c>-cert"
    version,    \* the last resourceVersion given
    pc,         \* pc[p]: the request that p makes next
    call,       \* call[p]: what p was called for
    existing,   \* existing[p]: existingSecret
    answer,     \* answer[p]: how the last invocation ended
    runs, faults   \* bounded counters

vars == <<secrets, version, pc, call, existing, answer, runs, faults>>

Init ==
    /\ secrets = [c \in ClusterNames |-> NoSecret]
    /\ version = 0
    /\ pc = [p \in Admins |-> "idle"]
    /\ call = [p \in Admins |-> NoCall]
    /\ existing = [p \in Admins |-> NoSecret]
    /\ answer = [p \in Admins |-> "idle"]
    /\ runs = 0 /\ faults = 0

\* main, up to ApplyCertificateSecrets.
Start(p, c, certificate) ==
    /\ pc[p] = "idle"
    /\ runs < MaxRuns
    /\ runs' = runs + 1
    /\ call' = [call EXCEPT ![p] = [op |-> "put", key |-> c, value |-> certificate]]
    /\ answer' = [answer EXCEPT ![p] = "pending"]
    /\ pc' = [pc EXCEPT ![p] = "get"]
    /\ UNCHANGED <<secrets, version, existing, faults>>

Exit(p, how) ==
    /\ pc' = [pc EXCEPT ![p] = "idle"]
    /\ call' = [call EXCEPT ![p] = NoCall]
    /\ existing' = [existing EXCEPT ![p] = NoSecret]
    /\ answer' = [answer EXCEPT ![p] = how]
    /\ UNCHANGED runs

Put(p) ==
    /\ secrets' = [secrets EXCEPT ![call[p].key] =
                     [certValue |-> call[p].value, rv |-> version + 1]]
    /\ version' = version + 1

\* A request reached the API server; its reply may be lost.
Replied(p) ==
    \/ Exit(p, "ok") /\ UNCHANGED faults
    \/ faults < MaxFaults /\ faults' = faults + 1 /\ Exit(p, "error")

Get(p) ==
    /\ pc[p] = "get"
    /\ existing' = [existing EXCEPT ![p] = secrets[call[p].key]]
    /\ pc' = [pc EXCEPT ![p] =
                IF secrets[call[p].key] = NoSecret THEN "create" ELSE "update"]
    /\ UNCHANGED <<secrets, version, call, answer, runs, faults>>

\* Mutant of AlreadyExists: another invocation has stored a certificate.
AlreadyExistsIgnored(p) == Exit(p, "ok")

\* Create fails as the secret is there by now: "failed to create secret".
AlreadyExists(p) == Exit(p, "error")

Create(p) ==
    /\ pc[p] = "create"
    /\ \/ secrets[call[p].key] = NoSecret /\ Put(p) /\ Replied(p)
       \/ /\ secrets[call[p].key] # NoSecret
          /\ AlreadyExists(p)
          /\ UNCHANGED <<secrets, version, faults>>

\* The update carries the resourceVersion that Get returned.
Update(p) ==
    /\ pc[p] = "update"
    /\ LET found == secrets[call[p].key]
       IN  \/ found # NoSecret /\ found.rv = existing[p].rv /\ Put(p) /\ Replied(p)
           \/ /\ found = NoSecret \/ found.rv # existing[p].rv
              /\ Exit(p, "error")
              /\ UNCHANGED <<secrets, version, faults>>

\* No file, no kubeconfig, or a request that is lost: exit 1, or a panic.
Fail(p) ==
    /\ pc[p] # "idle"
    /\ faults < MaxFaults
    /\ faults' = faults + 1
    /\ Exit(p, "error")
    /\ UNCHANGED <<secrets, version>>

Next ==
    \E p \in Admins :
       \/ \E c \in ClusterNames, certificate \in Certificates : Start(p, c, certificate)
       \/ Get(p) \/ Create(p) \/ Update(p) \/ Fail(p)

\* The certificates by the clusters' names; the secrets of a cluster are all
\* in one namespace here.
GetClusterCertificates ==
    [c \in {d \in ClusterNames : secrets[d] # NoSecret} |-> secrets[c].certValue]

Store == INSTANCE AtomicStore WITH
    Processes <- Admins, Keys <- ClusterNames, Values <- Certificates,
    Nothing <- NoSecret, Tokens <- {}, late <- {}, leaving <- {},
    stored <- [c \in ClusterNames |->
                 IF c \in DOMAIN GetClusterCertificates
                 THEN GetClusterCertificates[c] ELSE NoSecret]

\* An apply-cert that ends without an error has put its certificate where
\* GetClusterCertificates finds it, at one moment of its run; one that ends
\* with an error has done so at most once; and overlapping runs neither lose a
\* certificate that was reported as applied nor mix two clusters.
ImplementsStore == Store!Spec
=============================================================================
