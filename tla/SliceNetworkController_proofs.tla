------------------- MODULE SliceNetworkController_proofs -------------------
(***************************************************************************)
(* Proofs about SliceNetworkController for every value of its constants:   *)
(* any number of SliceNetworks, clusters, edits, faults and crashes.  An   *)
(* inductive invariant gives the types and the absence of orphans; from it *)
(* follow, step by step, that the controller undoes no user edit, that it  *)
(* implements the claimed placement and that it loses no wake-up.          *)
(***************************************************************************)
EXTENDS SliceNetworkController, ProviderResolver_proofs, TLAPS

-----------------------------------------------------------------------------
(* The inductive invariant. *)

\* A version that asks the controller to place works.
Claims(v) == v.phase = "live" /\ v.finalizer

\* v keeps what a claiming version u had: the finalizer and the clusters.
Keeps(u, v) ==
    /\ v.finalizer
    /\ ~MayDropClusters => ClusterSet(u) \subseteq ClusterSet(v)

\* Only the finalizer keeps a deleted object, only an object has one, and an
\* object lists a cluster.
EntryOK(v) ==
    /\ v.phase = "terminating" => v.finalizer
    /\ v.phase = "absent" => ~v.finalizer
    /\ v.phase # "absent" => v.spec.clusters # << >>

\* The versions that the cache has yet to see, oldest first: a claim is never
\* given up, and a deleted object never claims again, before the cache knows.
LogOK(s) ==
    /\ \A i \in 1..Len(s) : EntryOK(s[i])
    /\ \A i, j \in 1..Len(s) : i < j => s[i].rv < s[j].rv
    /\ \A i, j \in 1..Len(s) : i < j /\ Claims(s[i]) => Keeps(s[i], s[j])
    /\ \A i, j \in 1..Len(s) :
          i < j /\ s[i].phase = "terminating" /\ s[j].finalizer
            => s[j].phase = "terminating"

LogsOK == \A n \in Networks : LogOK(log[n])

\* The worker's copy is the stored version, or the API server refuses it.
ObjOK ==
    pc # "idle" =>
        /\ obj.rv <= Stored(req).rv
        /\ obj.rv = Stored(req).rv => obj = Stored(req)

IdleOK == pc = "idle" => pos = 1

\* Until it writes, the worker's copy is no newer than the cache.
CopyOK == pc \in {"claim", "delete", "release"} => obj.rv <= Cached(req).rv

ClaimOK == pc = "claim" => obj.phase = "live" /\ ~obj.finalizer

PlaceOK == pc \in {"resolve", "apply"} => Keeps(obj, Stored(req))

DeleteOK ==
    pc \in {"delete", "release"} =>
        /\ obj.phase = "terminating"
        /\ Stored(req).finalizer => Stored(req).phase = "terminating"

\* How far the deletion of the works has come.
ProgressOK ==
    \A i \in 1..Len(obj.spec.clusters) :
        pc = "release" \/ (pc = "delete" /\ i < pos)
            => works[WorkKey(req, obj.spec.clusters[i])] = NoWork

\* A work has the name of its SliceNetwork, and is not an orphan.
WorksOK ==
    /\ \A k \in WorkKeys :
          works[k] # NoWork => k[2] = WorkName[works[k].network.name]
    /\ ~MayDropClusters => NoOrphanWork

IndInv == TypeOK /\ LogsOK /\ IdleOK /\ ObjOK /\ CopyOK /\ ClaimOK /\ PlaceOK
                 /\ DeleteOK /\ ProgressOK /\ WorksOK

-----------------------------------------------------------------------------
(* Lemmas about logs. *)

\* Appending to a nonempty log changes its last version only.
LEMMA AppendFacts ==
    ASSUME NEW s \in Seq(Version), s # << >>, NEW v \in Version
    PROVE  /\ Append(s, v) \in Seq(Version)
           /\ Append(s, v) # << >>
           /\ Len(Append(s, v)) = Len(s) + 1
           /\ Len(s) \in Nat /\ Len(s) >= 1
           /\ Append(s, v)[Len(s) + 1] = v
           /\ \A i \in 1..Len(s) : Append(s, v)[i] = s[i] /\ s[i] \in Version
  OBVIOUS

\* Delivering the oldest version shifts the others and keeps the last.
LEMMA TailFacts ==
    ASSUME NEW S, NEW s \in Seq(S), Len(s) > 1
    PROVE  /\ Tail(s) \in Seq(S)
           /\ Tail(s) # << >>
           /\ Len(Tail(s)) = Len(s) - 1
           /\ Len(s) \in Nat
           /\ \A i \in 1..Len(s) - 1 : Tail(s)[i] = s[i + 1]
           /\ Tail(s)[Len(Tail(s))] = s[Len(s)]
  OBVIOUS

LEMMA HeadType ==
    ASSUME NEW s \in Seq(Version), s # << >>
    PROVE  s[1].rv \in Nat
<1>1. s[1] \in Version
  OBVIOUS
<1> QED BY <1>1 DEF Version

\* A write that keeps a held finalizer extends a log to a log.
LEMMA AppendLogOK ==
    ASSUME NEW s \in Seq(Version), s # << >>, LogOK(s), NEW v \in Version,
           EntryOK(v), s[Len(s)].rv < v.rv,
           \A i \in 1..Len(s) : Claims(s[i]) => Keeps(s[i], v),
           \A i \in 1..Len(s) :
              s[i].phase = "terminating" /\ v.finalizer => v.phase = "terminating"
    PROVE  LogOK(Append(s, v))
<1> DEFINE t == Append(s, v)
<1>1. /\ Len(t) = Len(s) + 1 /\ Len(s) \in Nat /\ Len(s) >= 1
      /\ t[Len(s) + 1] = v
      /\ \A i \in 1..Len(s) : t[i] = s[i] /\ s[i] \in Version
  BY AppendFacts
<1> HIDE DEF t
<1>2. \A i \in 1..Len(t) : i \in 1..Len(s) \/ i = Len(s) + 1
  BY <1>1
<1>3. \A i \in 1..Len(s) : s[i].rv <= s[Len(s)].rv /\ s[i].rv \in Nat
  <2> SUFFICES ASSUME NEW i \in 1..Len(s)
               PROVE  s[i].rv <= s[Len(s)].rv /\ s[i].rv \in Nat
    OBVIOUS
  <2>1. Len(s) \in 1..Len(s)
    BY <1>1
  <2>2. s[i].rv \in Nat /\ s[Len(s)].rv \in Nat
    BY <1>1, <2>1 DEF Version
  <2>3. i < Len(s) => s[i].rv < s[Len(s)].rv
    BY <2>1 DEF LogOK
  <2>4. i = Len(s) \/ i < Len(s)
    BY <1>1
  <2> QED BY <2>2, <2>3, <2>4
<1>4. v.rv \in Nat
  BY DEF Version
<1>5. \A i \in 1..Len(t) : EntryOK(t[i])
  BY <1>1, <1>2 DEF LogOK
<1>6. ASSUME NEW i \in 1..Len(t), NEW j \in 1..Len(t), i < j
      PROVE  /\ t[i].rv < t[j].rv
             /\ Claims(t[i]) => Keeps(t[i], t[j])
             /\ t[i].phase = "terminating" /\ t[j].finalizer => t[j].phase = "terminating"
  <2>1. i \in 1..Len(s) /\ t[i] = s[i]
    BY <1>1, <1>6
  <2>2. CASE j \in 1..Len(s)
    BY <1>1, <1>6, <2>1, <2>2 DEF LogOK
  <2>3. CASE j = Len(s) + 1
    <3>1. t[j] = v
      BY <1>1, <2>3
    <3>2. s[i].rv < v.rv
      BY <1>1, <1>3, <1>4, <2>1
    <3> QED BY <2>1, <3>1, <3>2
  <2> QED BY <1>2, <2>2, <2>3
<1> QED BY <1>5, <1>6 DEF LogOK, t

LEMMA TailLogOK ==
    ASSUME NEW s \in Seq(Version), Len(s) > 1, LogOK(s)
    PROVE  LogOK(Tail(s)) /\ s[1].rv < Tail(s)[1].rv
<1> DEFINE t == Tail(s)
<1>1. /\ Len(t) = Len(s) - 1 /\ Len(s) \in Nat
      /\ \A i \in 1..Len(s) - 1 : t[i] = s[i + 1]
  BY TailFacts
<1> HIDE DEF t
<1>2. \A i \in 1..Len(t) : i + 1 \in 1..Len(s) /\ t[i] = s[i + 1]
  BY <1>1
<1>3. \A i, j \in 1..Len(t) : i < j => i + 1 < j + 1
  BY <1>1
<1>4. 1 \in 1..Len(s) /\ 1 \in 1..Len(t) /\ 2 \in 1..Len(s) /\ 1 < 2
  BY <1>1
<1>5. LogOK(t)
  <2>1. \A i \in 1..Len(t) : EntryOK(t[i])
    BY <1>2 DEF LogOK
  <2>2. ASSUME NEW i \in 1..Len(t), NEW j \in 1..Len(t), i < j
        PROVE  /\ t[i].rv < t[j].rv
               /\ Claims(t[i]) => Keeps(t[i], t[j])
               /\ t[i].phase = "terminating" /\ t[j].finalizer
                    => t[j].phase = "terminating"
    <3>1. i + 1 \in 1..Len(s) /\ j + 1 \in 1..Len(s) /\ i + 1 < j + 1
      BY <1>2, <1>3, <2>2
    <3>2. /\ s[i + 1].rv < s[j + 1].rv
          /\ Claims(s[i + 1]) => Keeps(s[i + 1], s[j + 1])
          /\ s[i + 1].phase = "terminating" /\ s[j + 1].finalizer
               => s[j + 1].phase = "terminating"
      BY <3>1 DEF LogOK
    <3> QED BY <1>2, <3>2
  <2> QED BY <2>1, <2>2 DEF LogOK
<1>6. s[1].rv < t[1].rv
  BY <1>2, <1>4 DEF LogOK
<1> QED BY <1>5, <1>6 DEF t

\* A one-version log has only that version to be right about.
LEMMA SingletonLogOK ==
    ASSUME NEW v \in Version, EntryOK(v)
    PROVE  LogOK(<<v>>) /\ <<v>> \in Seq(Version) /\ <<v>> # << >>
           /\ Len(<<v>>) = 1 /\ <<v>>[1] = v
  BY DEF LogOK

-----------------------------------------------------------------------------
(* What a write to the API server does to the logs. *)

\* The stored and the cached version of a log are versions.
LEMMA LogTypes ==
    ASSUME TypeOK, NEW n \in Networks
    PROVE  /\ log[n] \in Seq(Version) /\ log[n] # << >>
           /\ Len(log[n]) \in Nat /\ Len(log[n]) >= 1
           /\ Stored(n) \in Version /\ Cached(n) \in Version
           /\ Stored(n).rv \in Nat /\ Cached(n).rv \in Nat
<1>1. log[n] \in Seq(Version) /\ log[n] # << >>
  BY DEF TypeOK
<1>2. Len(log[n]) \in Nat /\ Len(log[n]) >= 1
  BY <1>1
<1>3. Stored(n) \in Version /\ Cached(n) \in Version
  BY <1>1, <1>2 DEF Stored, Cached
<1> QED BY <1>1, <1>2, <1>3 DEF Version

\* The cached version is no newer than the stored one, and equal to it only
\* if the cache is up to date.
LEMMA CachedBeforeStored ==
    ASSUME TypeOK, LogsOK, NEW n \in Networks
    PROVE  /\ Cached(n).rv <= Stored(n).rv
           /\ Cached(n).rv = Stored(n).rv => Len(log[n]) = 1 /\ Cached(n) = Stored(n)
           /\ EntryOK(Cached(n)) /\ EntryOK(Stored(n))
           /\ Claims(Cached(n)) => Keeps(Cached(n), Stored(n))
           /\ Cached(n).phase = "terminating" /\ Stored(n).finalizer
                => Stored(n).phase = "terminating"
<1>0. Len(log[n]) \in Nat /\ Len(log[n]) >= 1
  BY LogTypes
<1>1. Stored(n).rv \in Nat /\ Cached(n).rv \in Nat
  BY LogTypes
<1>2. LogOK(log[n])
  BY DEF LogsOK
<1>3. 1 \in 1..Len(log[n]) /\ Len(log[n]) \in 1..Len(log[n])
  BY <1>0
<1>4. CASE Len(log[n]) = 1
  BY <1>1, <1>2, <1>3, <1>4 DEF LogOK, Cached, Stored, Claims, Keeps
<1>5. CASE 1 < Len(log[n])
  <2>1. /\ Cached(n).rv < Stored(n).rv
        /\ Claims(Cached(n)) => Keeps(Cached(n), Stored(n))
        /\ Cached(n).phase = "terminating" /\ Stored(n).finalizer
             => Stored(n).phase = "terminating"
        /\ EntryOK(Cached(n)) /\ EntryOK(Stored(n))
    BY <1>2, <1>3, <1>5 DEF LogOK, Cached, Stored
  <2> QED BY <1>1, <2>1
<1>6. \A k \in Nat : k >= 1 => k = 1 \/ 1 < k
  OBVIOUS
<1>7. Len(log[n]) = 1 \/ 1 < Len(log[n])
  BY <1>0, <1>6, Zenon
<1> QED BY <1>4, <1>5, <1>7

\* The frame of a write to n, and the condition that every later version
\* must meet for the logs to stay as LogOK says.
LEMMA WriteFacts ==
    ASSUME TypeOK, LogsOK, NEW n \in Networks, NEW v \in Version, Write(n, v),
           EntryOK(v), Stored(n).rv < v.rv,
           \A i \in 1..Len(log[n]) : Claims(log[n][i]) => Keeps(log[n][i], v),
           \A i \in 1..Len(log[n]) :
              log[n][i].phase = "terminating" /\ v.finalizer
                => v.phase = "terminating"
    PROVE  /\ log' \in [Networks -> Seq(Version)]
           /\ \A m \in Networks : log'[m] # << >>
           /\ LogsOK'
           /\ Stored(n)' = v
           /\ \A m \in Networks : m # n => Stored(m)' = Stored(m)
           /\ \A m \in Networks : Cached(m)' = Cached(m)
<1>1. log[n] \in Seq(Version) /\ log[n] # << >>
  BY DEF TypeOK
<1>2. log' = [log EXCEPT ![n] = Append(log[n], v)]
  BY DEF Write
<1>3. /\ Append(log[n], v) \in Seq(Version) /\ Append(log[n], v) # << >>
      /\ Len(Append(log[n], v)) = Len(log[n]) + 1
      /\ Len(log[n]) \in Nat /\ Len(log[n]) >= 1
      /\ Append(log[n], v)[Len(log[n]) + 1] = v
      /\ Append(log[n], v)[1] = log[n][1]
  BY <1>1, AppendFacts
<1>4. log'[n] = Append(log[n], v) /\ \A m \in Networks : m # n => log'[m] = log[m]
  BY <1>2 DEF TypeOK
<1>5. log' \in [Networks -> Seq(Version)] /\ \A m \in Networks : log'[m] # << >>
  BY <1>2, <1>3, <1>4 DEF TypeOK
<1>6. LogOK(Append(log[n], v))
  BY <1>1, AppendLogOK DEF LogsOK, Stored
<1>7. LogsOK'
  <2> SUFFICES ASSUME NEW m \in Networks PROVE LogOK(log'[m])
    BY DEF LogsOK, LogOK, EntryOK, Claims, Keeps, ClusterSet
  <2>1. LogOK(log[m])
    BY DEF LogsOK
  <2> QED BY <1>4, <1>6, <2>1
<1>8. Stored(n)' = v
  BY <1>3, <1>4 DEF Stored
<1>9. \A m \in Networks : m # n => Stored(m)' = Stored(m)
  BY <1>4 DEF Stored
<1>10. \A m \in Networks : Cached(m)' = Cached(m)
  BY <1>3, <1>4 DEF Cached
<1> QED BY <1>5, <1>7, <1>8, <1>9, <1>10

\* What a user's write leaves alone: the finalizer, the clusters of a claimed
\* object, and the deletion timestamp.
Respects(u, v) ==
    /\ v.finalizer = u.finalizer
    /\ u.finalizer => Keeps(u, v)
    /\ u.phase = "terminating" => v.phase = "terminating"

LEMMA RespectsLog ==
    ASSUME TypeOK, LogsOK, NEW n \in Networks, NEW v \in Version,
           Respects(Stored(n), v)
    PROVE  /\ \A i \in 1..Len(log[n]) : Claims(log[n][i]) => Keeps(log[n][i], v)
           /\ \A i \in 1..Len(log[n]) :
                 log[n][i].phase = "terminating" /\ v.finalizer
                   => v.phase = "terminating"
<1>1. Len(log[n]) \in Nat /\ Len(log[n]) >= 1 /\ LogOK(log[n])
  BY LogTypes DEF LogsOK
<1> SUFFICES ASSUME NEW i \in 1..Len(log[n])
             PROVE  /\ Claims(log[n][i]) => Keeps(log[n][i], v)
                    /\ log[n][i].phase = "terminating" /\ v.finalizer
                         => v.phase = "terminating"
  OBVIOUS
<1>2. CASE i = Len(log[n])
  BY <1>2 DEF Respects, Claims, Stored
<1>3. CASE i < Len(log[n])
  <2>1. /\ Claims(log[n][i]) => Keeps(log[n][i], Stored(n))
        /\ log[n][i].phase = "terminating" /\ Stored(n).finalizer
             => Stored(n).phase = "terminating"
    BY <1>1, <1>3 DEF LogOK, Stored
  <2> QED BY <2>1 DEF Respects, Keeps
<1> QED BY <1>1, <1>2, <1>3

-----------------------------------------------------------------------------
(* Every step preserves the invariant: users. *)

\* A user's write disturbs nothing that a Reconcile under way relies on.
LEMMA UserWriteStep ==
    ASSUME IndInv, NEW n \in Networks, NEW v \in Version, UserEdit, Write(n, v),
           NetworkEditOnly, EntryOK(v), Stored(n).rv < v.rv,
           Respects(Stored(n), v)
    PROVE  IndInv'
<1> USE DEF NetworkEditOnly, worker
<1>1. TypeOK /\ LogsOK
  BY DEF IndInv
<1>2. /\ log' \in [Networks -> Seq(Version)]
      /\ \A m \in Networks : log'[m] # << >>
      /\ LogsOK'
      /\ Stored(n)' = v
      /\ \A m \in Networks : m # n => Stored(m)' = Stored(m)
      /\ \A m \in Networks : Cached(m)' = Cached(m)
  BY <1>1, RespectsLog, WriteFacts
<1>3. TypeOK'
  <2>1. edits' \in 0..MaxEdits
    BY <1>1, TypesAssumption DEF UserEdit, TypeOK
  <2> QED BY <1>1, <1>2, <2>1 DEF TypeOK
<1>4. v.rv \in Nat /\ \A m \in Networks : Stored(m).rv \in Nat
  BY <1>1, LogTypes DEF Version
<1>5. obj.rv \in Nat
  BY <1>1 DEF TypeOK, Version
<1>6. pc # "idle" => req \in Networks
  BY <1>1 DEF TypeOK
<1>7. ObjOK'
  <2> SUFFICES ASSUME pc # "idle"
               PROVE  /\ obj.rv <= Stored(req)'.rv
                      /\ obj.rv = Stored(req)'.rv => obj = Stored(req)'
    BY DEF ObjOK, Stored
  <2>1. obj.rv <= Stored(req).rv /\ (obj.rv = Stored(req).rv => obj = Stored(req))
    BY DEF IndInv, ObjOK
  <2>2. CASE req = n
    BY <1>2, <1>4, <1>5, <2>1, <2>2
  <2>3. CASE req # n
    BY <1>2, <1>6, <2>1, <2>3
  <2> QED BY <2>2, <2>3
<1>8. CopyOK'
  BY <1>2, <1>6 DEF IndInv, CopyOK
<1>9. ClaimOK' /\ IdleOK'
  BY DEF IndInv, ClaimOK, IdleOK
<1>10. PlaceOK'
  <2> SUFFICES ASSUME pc \in {"resolve", "apply"} PROVE Keeps(obj, Stored(req)')
    BY DEF PlaceOK, Keeps, ClusterSet, Stored
  <2>1. Keeps(obj, Stored(req)) /\ req \in Networks
    BY <1>6 DEF IndInv, PlaceOK
  <2>2. CASE req = n
    BY <1>2, <2>1, <2>2 DEF Respects, Keeps
  <2>3. CASE req # n
    BY <1>2, <2>1, <2>3
  <2> QED BY <2>2, <2>3
<1>11. DeleteOK'
  BY <1>2, <1>6 DEF IndInv, DeleteOK, Respects
<1>12. ProgressOK'
  BY DEF IndInv, ProgressOK, WorkKey
<1>13. WorksOK'
  <2>1. \A k \in WorkKeys :
           works'[k] # NoWork => k[2] = WorkName[works'[k].network.name]
    BY DEF IndInv, WorksOK
  <2>2. ASSUME ~MayDropClusters, NEW k \in WorkKeys, works[k] # NoWork
        PROVE  /\ Stored(works[k].network)'.finalizer
               /\ k[1] \in ClusterSet(Stored(works[k].network)')
    <3>1. works[k].network \in Networks
      BY <1>1, <2>2 DEF TypeOK, L2Network
    <3>2. /\ Stored(works[k].network).finalizer
          /\ k[1] \in ClusterSet(Stored(works[k].network))
      BY <2>2 DEF IndInv, WorksOK, NoOrphanWork
    <3>3. CASE works[k].network = n
      BY <1>2, <2>2, <3>2, <3>3 DEF Respects, Keeps
    <3>4. CASE works[k].network # n
      BY <1>2, <3>1, <3>2, <3>4
    <3> QED BY <3>3, <3>4
  <2> QED BY <2>1, <2>2 DEF WorksOK, NoOrphanWork, ClusterSet, Stored
<1> QED BY <1>3, <1>2, <1>7, <1>8, <1>9, <1>10, <1>11, <1>12, <1>13 DEF IndInv

LEMMA SpecTypes ==
    NoSpec \in SliceNetworkSpec /\ \A k \in Nat : Absent(k) \in Version
  BY TypesAssumption DEF NoSpec, Absent, Version, SliceNetworkSpec

LEMMA NextRv == \A k \in Nat : k + 1 \in Nat
  OBVIOUS

LEMMA CreateNetworkStep ==
    ASSUME IndInv, NEW n \in Networks, NEW s \in Specs, CreateNetwork(n, s)
    PROVE  IndInv'
<1> DEFINE v == [phase |-> "live", finalizer |-> FALSE,
                 rv |-> Stored(n).rv + 1, spec |-> s]
<1>1. TypeOK /\ LogsOK
  BY DEF IndInv
<1>2. Stored(n).rv \in Nat /\ EntryOK(Stored(n))
  BY <1>1, LogTypes, CachedBeforeStored
<1>3. v \in Version
  BY <1>2, SpecsAssumption DEF Version
<1>4. Stored(n).phase = "absent" /\ Write(n, v)
  BY DEF CreateNetwork
<1>5. EntryOK(v) /\ Stored(n).rv < v.rv
  BY <1>2, SpecsAssumption DEF EntryOK
<1>6. ~Stored(n).finalizer
  BY <1>2, <1>4 DEF EntryOK
<1>7. Stored(n).finalizer \in BOOLEAN
  BY <1>1, LogTypes DEF Version
<1>8. Respects(Stored(n), v)
  BY <1>4, <1>6, <1>7 DEF Respects
<1>9. UserEdit /\ NetworkEditOnly
  BY DEF CreateNetwork
<1> HIDE DEF v
<1> QED BY <1>3, <1>4, <1>5, <1>8, <1>9, UserWriteStep

LEMMA UpdateNetworkStep ==
    ASSUME IndInv, NEW n \in Networks, NEW s \in Specs, UpdateNetwork(n, s)
    PROVE  IndInv'
<1> DEFINE v == [Stored(n) EXCEPT !.rv = @ + 1, !.spec = s]
<1>1. TypeOK /\ LogsOK
  BY DEF IndInv
<1>2. Stored(n) \in Version /\ Stored(n).rv \in Nat /\ EntryOK(Stored(n))
  BY <1>1, LogTypes, CachedBeforeStored
<1>3. s \in SliceNetworkSpec
  BY SpecsAssumption
<1>4. /\ v.phase = Stored(n).phase /\ v.finalizer = Stored(n).finalizer
      /\ v.rv = Stored(n).rv + 1 /\ v.spec = s
  BY <1>2, <1>3 DEF Version
<1>10. v \in Version
  BY <1>2, <1>3, NextRv, Zenon DEF Version
<1>5. Write(n, v) /\ UserEdit /\ NetworkEditOnly
  BY DEF UpdateNetwork
<1>6. MayDropClusters \/ ClusterSet(Stored(n)) \subseteq ClusterSet([spec |-> s])
  BY DEF UpdateNetwork
<1> HIDE DEF v
<1>7. ClusterSet(v) = ClusterSet([spec |-> s])
  BY <1>4 DEF ClusterSet
<1>8. EntryOK(v) /\ Stored(n).rv < v.rv
  BY <1>2, <1>4, SpecsAssumption DEF EntryOK
<1>9. Respects(Stored(n), v)
  BY <1>4, <1>6, <1>7 DEF Respects, Keeps
<1> QED BY <1>5, <1>8, <1>9, <1>10, UserWriteStep

LEMMA DeleteNetworkStep ==
    ASSUME IndInv, NEW n \in Networks, DeleteNetwork(n)
    PROVE  IndInv'
<1> DEFINE v == IF Stored(n).finalizer
                THEN [Stored(n) EXCEPT !.rv = @ + 1, !.phase = "terminating"]
                ELSE Absent(Stored(n).rv + 1)
<1>1. TypeOK /\ LogsOK
  BY DEF IndInv
<1>2. Stored(n) \in Version /\ Stored(n).rv \in Nat /\ EntryOK(Stored(n))
  BY <1>1, LogTypes, CachedBeforeStored
<1>3. Write(n, v) /\ UserEdit /\ NetworkEditOnly /\ Stored(n).phase = "live"
  BY DEF DeleteNetwork
<1>4. CASE Stored(n).finalizer
  <2>0. v = [Stored(n) EXCEPT !.rv = @ + 1, !.phase = "terminating"]
    BY <1>4
  <2> HIDE DEF v
  <2>5. v \in Version
    BY <1>2, <2>0, NextRv, Zenon DEF Version
  <2>1. /\ v.phase = "terminating" /\ v.finalizer
        /\ v.rv = Stored(n).rv + 1 /\ v.spec = Stored(n).spec
    BY <1>2, <1>4, <2>0 DEF Version
  <2>2. EntryOK(v) /\ Stored(n).rv < v.rv
    BY <1>2, <1>3, <2>1 DEF EntryOK
  <2>3. v.finalizer = TRUE /\ Stored(n).finalizer = TRUE
    BY <1>2, <1>4, <2>1 DEF Version
  <2>4. Respects(Stored(n), v)
    BY <2>1, <2>3 DEF Respects, Keeps, ClusterSet
  <2> QED BY <1>3, <2>2, <2>4, <2>5, UserWriteStep
<1>5. CASE ~Stored(n).finalizer
  <2>1. v \in Version
    BY <1>2, <1>5, SpecTypes
  <2>2. v.phase = "absent" /\ v.finalizer = FALSE /\ v.rv = Stored(n).rv + 1
    BY <1>5 DEF Absent
  <2> HIDE DEF v
  <2>3. EntryOK(v) /\ Stored(n).rv < v.rv
    BY <1>2, <2>2 DEF EntryOK
  <2>4. Stored(n).finalizer = FALSE
    BY <1>2, <1>5 DEF Version
  <2>5. Respects(Stored(n), v)
    BY <1>3, <2>2, <2>4 DEF Respects
  <2> QED BY <1>3, <2>1, <2>3, <2>5, UserWriteStep
<1> QED BY <1>4, <1>5

-----------------------------------------------------------------------------
(* Every step preserves the invariant: profiles, informers and handlers. *)

\* The parts of IndInv about networks and works, by the variables they name.
LEMMA Frame ==
    ASSUME IndInv, UNCHANGED <<log, pc, worker, works>>
    PROVE  LogsOK' /\ IdleOK' /\ ObjOK' /\ CopyOK' /\ ClaimOK' /\ PlaceOK' /\ DeleteOK'
             /\ ProgressOK' /\ WorksOK'
<1>1. LogsOK'
  <2>1. \A n \in Networks : LogOK(log'[n])
    BY DEF IndInv, LogsOK
  <2> QED BY <2>1 DEF LogsOK, LogOK, EntryOK, Claims, Keeps, ClusterSet
<1>2. IdleOK' /\ ObjOK' /\ CopyOK' /\ ClaimOK' /\ DeleteOK'
  BY DEF IndInv, worker, IdleOK, ObjOK, CopyOK, ClaimOK, DeleteOK, Stored, Cached
<1>3. PlaceOK'
  <2>1. Stored(req)' = Stored(req) /\ obj' = obj /\ pc' = pc
    BY DEF worker, Stored
  <2>2. ClusterSet(obj)' = ClusterSet(obj)
        /\ ClusterSet(Stored(req))' = ClusterSet(Stored(req))
    BY <2>1 DEF ClusterSet
  <2> QED BY <2>1, <2>2 DEF IndInv, PlaceOK, Keeps
<1>4. ProgressOK'
  BY DEF IndInv, worker, ProgressOK, WorkKey
<1>5. WorksOK'
  BY DEF IndInv, WorksOK, NoOrphanWork, ClusterSet, Stored
<1> QED BY <1>1, <1>2, <1>3, <1>4, <1>5

LEMMA WriteProfileStep ==
    ASSUME IndInv, NEW p \in EditableProfiles,
           NEW v \in Providers \cup {NoProvider}, WriteProfile(p, v)
    PROVE  IndInv'
<1>1. TypeOK
  BY DEF IndInv
<1>2. UNCHANGED <<log, pc, worker, works>>
  BY DEF WriteProfile
<1>3. p \in NamespacedName
  BY KeysAssumption
<1>4. /\ plog[p] \in Seq(Providers \cup {NoProvider})
      /\ plog' = [plog EXCEPT ![p] = Append(plog[p], v)]
  BY <1>1, <1>3 DEF WriteProfile, TypeOK
<1>5. /\ Append(plog[p], v) \in Seq(Providers \cup {NoProvider})
      /\ Append(plog[p], v) # << >>
  BY <1>4
<1>6. /\ plog' \in [NamespacedName -> Seq(Providers \cup {NoProvider})]
      /\ \A q \in NamespacedName : plog'[q] # << >>
  BY <1>1, <1>3, <1>4, <1>5 DEF TypeOK
<1>7. edits' \in 0..MaxEdits
  BY <1>1, TypesAssumption DEF WriteProfile, UserEdit, TypeOK
<1>8. TypeOK'
  BY <1>1, <1>6, <1>7 DEF TypeOK, WriteProfile, worker
<1> QED BY <1>2, <1>8, Frame DEF IndInv

LEMMA DeliverNetworkStep ==
    ASSUME IndInv, NEW n \in Networks, DeliverNetwork(n)
    PROVE  IndInv'
<1>1. TypeOK /\ LogsOK
  BY DEF IndInv
<1>2. log[n] \in Seq(Version) /\ Len(log[n]) > 1 /\ LogOK(log[n])
  BY <1>1 DEF TypeOK, LogsOK, DeliverNetwork
<1>3. /\ log' = [log EXCEPT ![n] = Tail(log[n])]
      /\ queue' = queue \cup {n}
      /\ UNCHANGED <<plog, profileEvents, pc, req, obj, prov, pos, works, leaving, edits, faults>>
  BY DEF DeliverNetwork, worker
<1>4. log'[n] = Tail(log[n]) /\ \A m \in Networks : m # n => log'[m] = log[m]
  BY <1>1, <1>3 DEF TypeOK
<1>5. /\ Tail(log[n]) \in Seq(Version) /\ Tail(log[n]) # << >>
      /\ Tail(log[n])[Len(Tail(log[n]))] = log[n][Len(log[n])]
  BY <1>2, TailFacts
<1>6. LogOK(Tail(log[n])) /\ log[n][1].rv < Tail(log[n])[1].rv
  BY <1>2, TailLogOK
<1>7. /\ log' \in [Networks -> Seq(Version)]
      /\ \A m \in Networks : log'[m] # << >>
  BY <1>1, <1>3, <1>4, <1>5 DEF TypeOK
<1>8. TypeOK'
  BY <1>1, <1>3, <1>7 DEF TypeOK
<1>9. LogsOK'
  <2> SUFFICES ASSUME NEW m \in Networks PROVE LogOK(log'[m])
    BY DEF LogsOK, LogOK, EntryOK, Claims, Keeps, ClusterSet
  <2> QED BY <1>1, <1>4, <1>6 DEF LogsOK
<1>10. \A m \in Networks : Stored(m)' = Stored(m)
  BY <1>4, <1>5 DEF Stored
<1>11. \A m \in Networks : /\ log[m][1].rv \in Nat /\ log'[m][1].rv \in Nat
                            /\ log[m][1].rv <= log'[m][1].rv
  <2> TAKE m \in Networks
  <2>1. log[m][1].rv \in Nat /\ log'[m][1].rv \in Nat
    BY <1>1, <1>7, HeadType DEF TypeOK
  <2>2. CASE m = n
    <3>1. log[m][1].rv < log'[m][1].rv
      BY <1>4, <1>6, <2>2, Zenon
    <3> QED BY <2>1, <3>1
  <2>3. CASE m # n
    BY <1>4, <2>1, <2>3
  <2> QED BY <2>1, <2>2, <2>3
<1>12. obj.rv \in Nat /\ (pc # "idle" => req \in Networks)
  BY <1>1 DEF TypeOK, Version
<1>13. ObjOK'
  BY <1>3, <1>10, <1>12 DEF IndInv, ObjOK
<1>14. CopyOK'
  <2> SUFFICES ASSUME pc \in {"claim", "delete", "release"}
               PROVE  obj.rv <= log'[req][1].rv
    BY <1>3 DEF CopyOK, Cached
  <2>1. obj.rv <= log[req][1].rv /\ req \in Networks
    BY <1>12 DEF IndInv, CopyOK, Cached
  <2> QED BY <1>11, <1>12, <2>1
<1>15. ClaimOK' /\ IdleOK'
  BY <1>3 DEF IndInv, ClaimOK, IdleOK
<1>16. PlaceOK'
  <2>1. SUFFICES ASSUME pc \in {"resolve", "apply"} PROVE Keeps(obj, Stored(req)')
    BY <1>3 DEF PlaceOK, Keeps, ClusterSet
  <2>2. Keeps(obj, Stored(req))
    BY <2>1 DEF IndInv, PlaceOK
  <2>3. req \in Networks
    BY <1>12, <2>1
  <2>4. Stored(req)' = Stored(req)
    BY <1>3, <1>10, <2>3 DEF Stored
  <2> QED BY <2>2, <2>4
<1>17. DeleteOK'
  BY <1>3, <1>10, <1>12 DEF IndInv, DeleteOK
<1>18. ProgressOK'
  BY <1>3 DEF IndInv, ProgressOK, WorkKey
<1>19. WorksOK'
  <2>1. \A k \in WorkKeys : works[k] # NoWork => works[k].network \in Networks
    BY <1>1 DEF TypeOK, L2Network
  <2> QED BY <1>3, <1>10, <2>1 DEF IndInv, WorksOK, NoOrphanWork, ClusterSet
<1> QED BY <1>8, <1>9, <1>13, <1>14, <1>15, <1>16, <1>17, <1>18, <1>19 DEF IndInv

LEMMA DeliverProfileStep ==
    ASSUME IndInv, NEW p \in NamespacedName, DeliverProfile(p)
    PROVE  IndInv'
<1>1. TypeOK
  BY DEF IndInv
<1>2. UNCHANGED <<log, pc, worker, works>>
  BY DEF DeliverProfile
<1>3. /\ plog[p] \in Seq(Providers \cup {NoProvider}) /\ Len(plog[p]) > 1
      /\ plog' = [plog EXCEPT ![p] = Tail(plog[p])]
  BY <1>1 DEF DeliverProfile, TypeOK
<1>4. /\ Tail(plog[p]) \in Seq(Providers \cup {NoProvider})
      /\ Tail(plog[p]) # << >>
  BY <1>3, TailFacts
<1>5. /\ plog' \in [NamespacedName -> Seq(Providers \cup {NoProvider})]
      /\ \A q \in NamespacedName : plog'[q] # << >>
  BY <1>1, <1>3, <1>4 DEF TypeOK
<1>6. TypeOK'
  BY <1>1, <1>5 DEF TypeOK, DeliverProfile, worker
<1> QED BY <1>2, <1>6, Frame DEF IndInv

LEMMA HandlerStep ==
    ASSUME IndInv, NEW p \in NamespacedName,
           requestsForProviderProfile(p) \/ requestsListError(p)
    PROVE  IndInv'
<1>1. TypeOK
  BY DEF IndInv
<1>2. UNCHANGED <<log, pc, worker, works>>
  BY DEF requestsForProviderProfile, requestsListError
<1>3. TypeOK'
  <2>1. faults' \in 0..MaxFaults
    BY <1>1, TypesAssumption DEF requestsForProviderProfile, requestsListError, TypeOK
  <2>2. queue' \subseteq Networks /\ profileEvents' \subseteq NamespacedName
    BY <1>1 DEF requestsForProviderProfile, requestsListError, TypeOK
  <2> QED BY <1>1, <1>2, <2>1, <2>2
          DEF requestsForProviderProfile, requestsListError, TypeOK, worker
<1> QED BY <1>2, <1>3, Frame DEF IndInv

-----------------------------------------------------------------------------
(* Every step preserves the invariant: Reconcile. *)

\* An idle worker has nothing to be right about.
LEMMA IdleWorker ==
    ASSUME Idle
    PROVE  /\ IdleOK' /\ ObjOK' /\ CopyOK' /\ ClaimOK' /\ PlaceOK' /\ DeleteOK'
           /\ ProgressOK'
  BY DEF Idle, IdleOK, ObjOK, CopyOK, ClaimOK, PlaceOK, DeleteOK, ProgressOK

LEMMA IdleType ==
    ASSUME Idle
    PROVE  /\ pc' = "idle" /\ req' = NoRequest /\ obj' \in Version
           /\ prov' = NoProvider /\ pos' = 1
  BY SpecTypes DEF Idle

LEMMA FaultType ==
    ASSUME TypeOK, faults' = faults \/ (faults < MaxFaults /\ faults' = faults + 1)
    PROVE  faults' \in 0..MaxFaults
  BY TypesAssumption DEF TypeOK

\* Reconcile returns, having written nothing.
LEMMA ReturnStep ==
    ASSUME IndInv, Idle, UNCHANGED <<log, plog, profileEvents, works, leaving, edits>>,
           queue' \subseteq Networks,
           faults' = faults \/ (faults < MaxFaults /\ faults' = faults + 1)
    PROVE  IndInv'
<1>1. TypeOK /\ LogsOK /\ WorksOK
  BY DEF IndInv
<1>2. TypeOK'
  BY <1>1, IdleType, FaultType DEF TypeOK
<1>3. LogsOK'
  <2>1. \A n \in Networks : LogOK(log'[n])
    BY <1>1 DEF LogsOK
  <2> QED BY <2>1 DEF LogsOK, LogOK, EntryOK, Claims, Keeps, ClusterSet
<1>4. WorksOK'
  BY <1>1 DEF WorksOK, NoOrphanWork, ClusterSet, Stored
<1> QED BY <1>2, <1>3, <1>4, IdleWorker DEF IndInv

LEMMA RequeueType ==
    ASSUME TypeOK, pc # "idle"
    PROVE  queue \cup {req} \subseteq Networks
  BY DEF TypeOK

LEMMA UpdateRefusedStep ==
    ASSUME IndInv, UpdateRefused
    PROVE  IndInv'
<1>1. TypeOK /\ pc # "idle"
  BY DEF IndInv, UpdateRefused
<1> QED BY <1>1, RequeueType, ReturnStep DEF UpdateRefused, ReturnError

LEMMA CallFailsStep ==
    ASSUME IndInv, CallFails
    PROVE  IndInv'
<1>1. TypeOK /\ pc # "idle"
  BY DEF IndInv, CallFails
<1> QED BY <1>1, RequeueType, ReturnStep DEF CallFails, ReplyLost, ReturnError

LEMMA ResolveProviderStep ==
    ASSUME IndInv, ResolveProvider
    PROVE  IndInv'
<1> DEFINE p == resolveProvider(CachedProfiles, req.namespace, obj.spec)
<1>1. TypeOK /\ pc = "resolve" /\ req \in Networks
  BY DEF IndInv, ResolveProvider, TypeOK
<1>2. UNCHANGED <<log, plog, profileEvents, works, leaving, edits, faults>>
  BY DEF ResolveProvider
<1>3. CASE ReturnError
  BY <1>1, <1>2, <1>3, RequeueType, ReturnStep DEF ReturnError
<1>4. CASE p # NoProvider /\ prov' = p /\ pc' = "apply" /\ UNCHANGED <<req, obj, pos, queue>>
  <2>1. p \in Providers \cup {NoProvider}
    <3>1. \A q \in NamespacedName : plog[q][1] \in Providers \cup {NoProvider}
      BY <1>1 DEF TypeOK
    <3>2. obj.spec \in SliceNetworkSpec
      BY <1>1 DEF TypeOK, Version
    <3>3. obj.spec.provider \in Providers \cup {NoProvider}
          /\ obj.spec.providerRef \in ProviderReference \cup {NoRef}
      BY <3>2 DEF SliceNetworkSpec
    <3>4. req.namespace \in Namespaces
      BY <1>1, KeysAssumption DEF NamespacedName
    <3>5. ProfileKey(req.namespace, obj.spec.providerRef) \in NamespacedName
      BY <3>3, <3>4, NamesAssumption
         DEF ProfileKey, NamespacedName, ProviderReference, DefaultIfEmpty, Empty
    <3> QED BY <3>1, <3>3, <3>5
            DEF resolveProvider, resolveProviderReference, CachedProfiles
  <2> HIDE DEF p
  <2>2. TypeOK'
    BY <1>1, <1>2, <1>4, <2>1 DEF TypeOK
  <2>3. LogsOK'
    <3>1. \A n \in Networks : LogOK(log'[n])
      BY <1>2 DEF IndInv, LogsOK
    <3> QED BY <3>1 DEF LogsOK, LogOK, EntryOK, Claims, Keeps, ClusterSet
  <2>4. Stored(req)' = Stored(req)
    BY <1>2, <1>4 DEF Stored
  <2>5. IdleOK' /\ ObjOK' /\ CopyOK' /\ ClaimOK' /\ DeleteOK' /\ ProgressOK'
    BY <1>1, <1>4, <2>4 DEF IndInv, IdleOK, ObjOK, CopyOK, ClaimOK, DeleteOK, ProgressOK
  <2>6. PlaceOK'
    <3>1. ClusterSet(obj)' = ClusterSet(obj)
          /\ ClusterSet(Stored(req))' = ClusterSet(Stored(req))
      BY <1>4, <2>4 DEF ClusterSet
    <3> QED BY <1>1, <2>4, <3>1 DEF IndInv, PlaceOK, Keeps
  <2>7. WorksOK'
    BY <1>2 DEF IndInv, WorksOK, NoOrphanWork, ClusterSet, Stored
  <2> QED BY <2>2, <2>3, <2>5, <2>6, <2>7 DEF IndInv
<1> QED BY <1>3, <1>4 DEF ResolveProvider

LEMMA LogsFrame ==
    ASSUME LogsOK, UNCHANGED log
    PROVE  LogsOK'
<1>1. \A n \in Networks : LogOK(log'[n])
  BY DEF LogsOK
<1> QED BY <1>1 DEF LogsOK, LogOK, EntryOK, Claims, Keeps, ClusterSet

LEMMA WorksFrame ==
    ASSUME TypeOK, WorksOK, UNCHANGED works,
           \A m \in Networks : Stored(m)' = Stored(m)
    PROVE  WorksOK'
<1>1. \A k \in WorkKeys : works[k] # NoWork => works[k].network \in Networks
  BY DEF TypeOK, L2Network
<1> QED BY <1>1 DEF WorksOK, NoOrphanWork, ClusterSet

\* What Reconcile may rely on when it starts from the cached version.
LEMMA StartReconcileStep ==
    ASSUME IndInv, NEW n \in Networks, StartReconcile(n)
    PROVE  IndInv'
<1>1. TypeOK /\ LogsOK /\ pc = "idle" /\ pos = 1
  BY DEF IndInv, IdleOK, StartReconcile
<1>2. /\ UNCHANGED <<log, plog, profileEvents, works, leaving, edits, faults>>
      /\ queue' \subseteq Networks
  BY <1>1 DEF StartReconcile, TypeOK
<1>3. CASE UNCHANGED <<pc, worker>>
  <2>1. TypeOK'
    BY <1>1, <1>2, <1>3 DEF TypeOK, worker
  <2> QED BY <1>2, <1>3, <2>1, Frame DEF IndInv
<1>4. CASE /\ Cached(n).phase # "absent"
           /\ pc' = IF Cached(n).phase = "terminating" THEN "delete"
                    ELSE IF Cached(n).finalizer THEN "resolve" ELSE "claim"
           /\ req' = n /\ obj' = Cached(n) /\ UNCHANGED <<prov, pos>>
  <2>1. /\ Cached(n) \in Version /\ Stored(n) \in Version
        /\ Cached(n).rv \in Nat /\ Stored(n).rv \in Nat
    BY <1>1, LogTypes
  <2>2. /\ Cached(n).rv <= Stored(n).rv
        /\ Cached(n).rv = Stored(n).rv => Cached(n) = Stored(n)
        /\ EntryOK(Cached(n))
        /\ Claims(Cached(n)) => Keeps(Cached(n), Stored(n))
        /\ Cached(n).phase = "terminating" /\ Stored(n).finalizer
             => Stored(n).phase = "terminating"
    BY <1>1, CachedBeforeStored
  <2>3. Cached(n).phase = "live" \/ Cached(n).phase = "terminating"
    BY <1>4, <2>1 DEF Version
  <2>4. n # NoRequest
    BY KeysAssumption
  <2>5. 1 \in 1..Len(Cached(n).spec.clusters)
    <3>1. Cached(n).spec.clusters \in Seq(Clusters)
      BY <2>1 DEF Version, SliceNetworkSpec
    <3>2. Cached(n).spec.clusters # << >>
      BY <1>4, <2>2 DEF EntryOK
    <3> QED BY <3>1, <3>2
  <2>6. pc' \in {"delete", "resolve", "claim"}
    BY <1>4
  <2>7. TypeOK'
    BY <1>1, <1>2, <1>4, <2>1, <2>4, <2>5, <2>6 DEF TypeOK
  <2>8. Stored(req)' = Stored(n) /\ Cached(req)' = Cached(n) /\ obj' = Cached(n)
    BY <1>2, <1>4 DEF Stored, Cached
  <2>9. LogsOK'
    BY <1>1, <1>2, LogsFrame
  <2>10. IdleOK' /\ ObjOK'
    BY <2>2, <2>6, <2>8 DEF IdleOK, ObjOK
  <2>11. CopyOK'
    BY <2>1, <2>8 DEF CopyOK
  <2>12. ClaimOK' /\ DeleteOK'
    BY <1>4, <2>2, <2>3, <2>8 DEF ClaimOK, DeleteOK
  <2>13. PlaceOK'
    <3> SUFFICES ASSUME pc' = "resolve" PROVE Keeps(Cached(n), Stored(n))
      BY <2>6, <2>8 DEF PlaceOK, Keeps, ClusterSet
    <3> QED BY <1>4, <2>2, <2>3 DEF Claims
  <2>14. ProgressOK'
    BY <1>1, <1>4, <2>6 DEF ProgressOK
  <2>15. WorksOK'
    BY <1>1, <1>2, WorksFrame DEF IndInv, Stored
  <2> QED BY <2>7, <2>9, <2>10, <2>11, <2>12, <2>13, <2>14, <2>15 DEF IndInv
<1>5. Cached(n) \in Version
  BY <1>1, LogTypes
<1> QED BY <1>3, <1>4, <1>5 DEF StartReconcile, Version

\* A write of the worker: the API server accepted it, so the worker's copy
\* was the stored version, and the cache was up to date.
LEMMA AcceptedUpdate ==
    ASSUME IndInv, pc \in {"claim", "release"}, Stored(req).rv = obj.rv
    PROVE  /\ req \in Networks /\ obj \in Version /\ obj.rv \in Nat
           /\ obj = Stored(req) /\ Len(log[req]) = 1
           /\ log[req][1] = obj /\ EntryOK(obj)
<1>1. TypeOK /\ LogsOK /\ ObjOK /\ CopyOK
  BY DEF IndInv
<1>2. req \in Networks /\ obj \in Version /\ obj.rv \in Nat
  BY <1>1 DEF TypeOK, Version
<1>3. obj = Stored(req) /\ obj.rv <= Cached(req).rv
  BY <1>1 DEF ObjOK, CopyOK
<1>4. Cached(req).rv <= Stored(req).rv /\ Cached(req).rv \in Nat
  BY <1>1, <1>2, CachedBeforeStored, LogTypes
<1>5. Cached(req).rv = Stored(req).rv
  BY <1>2, <1>3, <1>4
<1>6. Len(log[req]) = 1 /\ Cached(req) = Stored(req) /\ EntryOK(Stored(req))
  BY <1>1, <1>2, <1>5, CachedBeforeStored
<1> QED BY <1>2, <1>3, <1>6 DEF Cached

LEMMA AddFinalizerStep ==
    ASSUME IndInv, AddFinalizer
    PROVE  IndInv'
<1> DEFINE v == [obj EXCEPT !.finalizer = TRUE, !.rv = @ + 1]
<1>1. TypeOK /\ LogsOK /\ WorksOK /\ pc = "claim" /\ Stored(req).rv = obj.rv
  BY DEF IndInv, AddFinalizer
<1>2. /\ req \in Networks /\ obj \in Version /\ obj.rv \in Nat
      /\ obj = Stored(req) /\ Len(log[req]) = 1
      /\ log[req][1] = obj /\ EntryOK(obj)
  BY <1>1, AcceptedUpdate
<1>3. obj.phase = "live" /\ ~obj.finalizer
  BY <1>1 DEF IndInv, ClaimOK
<1>4. v \in Version
  BY <1>2, NextRv, Zenon DEF Version
<1>5. /\ v.phase = "live" /\ v.finalizer = TRUE /\ v.rv = obj.rv + 1
      /\ v.spec = obj.spec
  BY <1>2, <1>3 DEF Version
<1>6. Write(req, v) /\ UNCHANGED <<plog, profileEvents, works, leaving, edits>>
  BY DEF AddFinalizer
<1>7. \/ pc' = "resolve" /\ obj' = v /\ UNCHANGED <<req, prov, pos, queue, faults>>
      \/ ReplyLost
  BY DEF AddFinalizer
<1> HIDE DEF v
<1>8. EntryOK(v) /\ Stored(req).rv < v.rv
  BY <1>2, <1>3, <1>5 DEF EntryOK
<1>9. /\ \A i \in 1..Len(log[req]) : Claims(log[req][i]) => Keeps(log[req][i], v)
      /\ \A i \in 1..Len(log[req]) :
            log[req][i].phase = "terminating" /\ v.finalizer => v.phase = "terminating"
  BY <1>2, <1>3 DEF Claims
<1>10. PICK n \in Networks : n = req
  BY <1>2
<1>11. /\ log' \in [Networks -> Seq(Version)]
       /\ \A m \in Networks : log'[m] # << >>
       /\ LogsOK'
       /\ Stored(n)' = v
       /\ \A m \in Networks : m # n => Stored(m)' = Stored(m)
  BY <1>1, <1>4, <1>6, <1>8, <1>9, <1>10, WriteFacts
<1>12. WorksOK'
  <2>1. ASSUME ~MayDropClusters, NEW k \in WorkKeys, works[k] # NoWork
        PROVE  /\ Stored(works[k].network)'.finalizer
               /\ k[1] \in ClusterSet(Stored(works[k].network)')
    <3>1. /\ works[k].network \in Networks
          /\ Stored(works[k].network).finalizer
          /\ k[1] \in ClusterSet(Stored(works[k].network))
      BY <1>1, <2>1 DEF TypeOK, L2Network, WorksOK, NoOrphanWork
    <3>2. works[k].network # n
      BY <1>2, <1>3, <1>10, <3>1
    <3>3. works' = works
      BY <1>6
    <3> QED BY <1>11, <3>1, <3>2, <3>3
  <2>2. \A k \in WorkKeys :
           works'[k] # NoWork => k[2] = WorkName[works'[k].network.name]
    BY <1>1, <1>6 DEF WorksOK
  <2> QED BY <1>6, <2>1, <2>2 DEF WorksOK, NoOrphanWork, ClusterSet, Stored
<1>13. CASE ReplyLost
  <2>1. Idle /\ queue' = queue \cup {req} /\ faults < MaxFaults /\ faults' = faults + 1
    BY <1>13 DEF ReplyLost, ReturnError
  <2>2. queue' \subseteq Networks
    BY <1>1, <2>1, RequeueType
  <2>3. TypeOK'
    BY <1>1, <1>6, <1>11, <2>1, <2>2, IdleType, FaultType DEF TypeOK
  <2> QED BY <1>11, <1>12, <2>1, <2>3, IdleWorker DEF IndInv
<1>14. CASE pc' = "resolve" /\ obj' = v /\ UNCHANGED <<req, prov, pos, queue, faults>>
  <2>1. TypeOK'
    BY <1>1, <1>4, <1>5, <1>6, <1>11, <1>14 DEF TypeOK
  <2>2. Stored(req)' = v
    BY <1>10, <1>11, <1>14 DEF Stored
  <2>3. v.rv \in Nat
    BY <1>4 DEF Version
  <2>4. IdleOK' /\ ObjOK' /\ CopyOK' /\ ClaimOK' /\ DeleteOK' /\ ProgressOK'
    BY <1>14, <2>2, <2>3 DEF IdleOK, ObjOK, CopyOK, ClaimOK, DeleteOK, ProgressOK
  <2>5. PlaceOK'
    BY <1>5, <1>14, <2>2 DEF PlaceOK, Keeps, ClusterSet
  <2> QED BY <1>11, <1>12, <2>1, <2>4, <2>5 DEF IndInv
<1> QED BY <1>7, <1>13, <1>14

\* The key of the work that the worker handles next.
LEMMA WorkKeyType ==
    ASSUME IndInv, pc # "idle"
    PROVE  /\ req \in Networks
           /\ \A i \in 1..Len(obj.spec.clusters) :
                 /\ obj.spec.clusters[i] \in ClusterSet(obj)
                 /\ WorkKey(req, obj.spec.clusters[i]) \in WorkKeys
                 /\ WorkKey(req, obj.spec.clusters[i])[1] = obj.spec.clusters[i]
                 /\ WorkKey(req, obj.spec.clusters[i])[2] = WorkName[req.name]
           /\ pos \in 1..Len(obj.spec.clusters)
           /\ Len(obj.spec.clusters) \in Nat
<1>1. TypeOK
  BY DEF IndInv
<1>2. req \in Networks /\ obj \in Version /\ pos \in 1..Len(obj.spec.clusters)
  BY <1>1 DEF TypeOK
<1>3. obj.spec.clusters \in Seq(Clusters)
  BY <1>2 DEF Version, SliceNetworkSpec
<1>4. WorkName[req.name] \in WorkNames
  BY <1>2, KeysAssumption DEF NamespacedName
<1>5. \A i \in 1..Len(obj.spec.clusters) : obj.spec.clusters[i] \in Clusters
  BY <1>3
<1>6. Len(obj.spec.clusters) \in Nat
  BY <1>3
<1> QED BY <1>2, <1>4, <1>5, <1>6 DEF WorkKey, WorkKeys, ClusterSet

\* While no object is written, WorksOK is a statement about the new works only.
LEMMA WorksFromLog ==
    ASSUME log' = log,
           \A k \in WorkKeys :
              works'[k] # NoWork => k[2] = WorkName[works'[k].network.name],
           ~MayDropClusters =>
              \A k \in WorkKeys : works'[k] # NoWork =>
                 /\ Stored(works'[k].network).finalizer
                 /\ k[1] \in ClusterSet(Stored(works'[k].network))
    PROVE  WorksOK'
BY DEF WorksOK, NoOrphanWork, ClusterSet, Stored

LEMMA ApplyManifestWorkStep ==
    ASSUME IndInv, ApplyManifestWork
    PROVE  IndInv'
<1> DEFINE k0 == WorkKey(req, obj.spec.clusters[pos])
           w0 == DesiredL2Network(req, obj.spec, prov)
<1>1. TypeOK /\ LogsOK /\ WorksOK /\ pc = "apply" /\ Keeps(obj, Stored(req))
  BY DEF IndInv, ApplyManifestWork, PlaceOK
<1>2. /\ works' = works \/ works' = [works EXCEPT ![k0] = w0]
      /\ UNCHANGED <<log, plog, profileEvents, leaving, edits>>
  BY DEF ApplyManifestWork, applyWork
<1>3. /\ req \in Networks /\ k0 \in WorkKeys /\ pos \in 1..Len(obj.spec.clusters)
      /\ Len(obj.spec.clusters) \in Nat
      /\ k0[1] \in ClusterSet(obj) /\ k0[2] = WorkName[req.name]
  BY <1>1, WorkKeyType
<1>4. w0 \in L2Network /\ w0.network = req
  <2>1. prov \in Providers
    BY <1>1 DEF TypeOK
  <2>2. obj.spec.type \in NetworkTypes
    BY <1>1 DEF TypeOK, Version, SliceNetworkSpec
  <2> QED BY <1>3, <2>1, <2>2, TypesAssumption
          DEF DesiredL2Network, L2Network, DefaultIfEmpty
<1>5. \/ NextCluster(Idle) /\ UNCHANGED <<queue, faults>>
      \/ ReplyLost
  BY DEF ApplyManifestWork
<1> HIDE DEF k0, w0
<1>6. /\ works' \in [WorkKeys -> L2Network \cup {NoWork}]
      /\ \A k \in WorkKeys :
            works'[k] = works[k] \/ (k = k0 /\ works'[k] = w0)
  BY <1>1, <1>2, <1>3, <1>4 DEF TypeOK
<1>7. \A m \in Networks : Stored(m)' = Stored(m)
  BY <1>2 DEF Stored
<1>8. WorksOK'
  <2>1. \A k \in WorkKeys :
           works'[k] # NoWork => k[2] = WorkName[works'[k].network.name]
    BY <1>1, <1>3, <1>4, <1>6 DEF WorksOK
  <2>2. ASSUME ~MayDropClusters, NEW k \in WorkKeys, works'[k] # NoWork
        PROVE  /\ Stored(works'[k].network).finalizer
               /\ k[1] \in ClusterSet(Stored(works'[k].network))
    <3>1. CASE k = k0 /\ works'[k] = w0
      BY <1>1, <1>3, <1>4, <2>2, <3>1 DEF Keeps
    <3>2. CASE works'[k] = works[k]
      BY <1>1, <2>2, <3>2 DEF WorksOK, NoOrphanWork
    <3> QED BY <1>6, <3>1, <3>2
  <2>3. ~MayDropClusters =>
           \A k \in WorkKeys : works'[k] # NoWork =>
              /\ Stored(works'[k].network).finalizer
              /\ k[1] \in ClusterSet(Stored(works'[k].network))
    BY <2>2
  <2> QED BY <1>2, <2>1, <2>3, WorksFromLog
<1>9. LogsOK'
  BY <1>1, <1>2, LogsFrame
<1>10. CASE Idle /\ queue' \subseteq Networks
            /\ (faults' = faults \/ (faults < MaxFaults /\ faults' = faults + 1))
  <2>1. TypeOK'
    BY <1>1, <1>2, <1>6, <1>10, IdleType, FaultType DEF TypeOK
  <2> QED BY <1>8, <1>9, <1>10, <2>1, IdleWorker DEF IndInv
<1>11. CASE /\ pos # Len(obj.spec.clusters)
            /\ pos' = pos + 1
            /\ UNCHANGED <<pc, req, obj, prov, queue, faults>>
  <2>1. pos' \in 1..Len(obj.spec.clusters)
    BY <1>3, <1>11
  <2>2. TypeOK'
    BY <1>1, <1>2, <1>6, <1>11, <2>1 DEF TypeOK
  <2>3. Stored(req)' = Stored(req)
    BY <1>2, <1>11 DEF Stored
  <2>4. IdleOK' /\ ObjOK' /\ CopyOK' /\ ClaimOK' /\ DeleteOK' /\ ProgressOK'
    BY <1>1, <1>11, <2>3 DEF IndInv, IdleOK, ObjOK, CopyOK, ClaimOK, DeleteOK, ProgressOK
  <2>5. PlaceOK'
    <3>1. SUFFICES ASSUME pc \in {"resolve", "apply"} PROVE Keeps(obj, Stored(req)')
      BY <1>11 DEF PlaceOK, Keeps, ClusterSet
    <3>2. Keeps(obj, Stored(req))
      BY <1>1, <3>1 DEF IndInv, PlaceOK
    <3> QED BY <2>3, <3>2
  <2> QED BY <1>8, <1>9, <2>2, <2>4, <2>5 DEF IndInv
<1>12. queue \subseteq Networks /\ queue \cup {req} \subseteq Networks
  BY <1>1, <1>3 DEF TypeOK
<1> QED BY <1>5, <1>10, <1>11, <1>12 DEF NextCluster, ReplyLost, ReturnError

LEMMA DeleteManifestWorkStep ==
    ASSUME IndInv, DeleteManifestWork
    PROVE  IndInv'
<1> DEFINE k0 == WorkKey(req, obj.spec.clusters[pos])
<1>1. TypeOK /\ LogsOK /\ WorksOK /\ ProgressOK /\ pc = "delete"
  BY DEF IndInv, DeleteManifestWork
<1>2. /\ works' = [works EXCEPT ![k0] = NoWork]
      /\ leaving' = leaving \/ leaving' = leaving \cup {k0}
      /\ UNCHANGED <<log, plog, profileEvents, edits>>
  BY DEF DeleteManifestWork, deleteWork
<1>3. /\ req \in Networks /\ k0 \in WorkKeys /\ pos \in 1..Len(obj.spec.clusters)
      /\ Len(obj.spec.clusters) \in Nat
      /\ \A i \in 1..Len(obj.spec.clusters) :
            WorkKey(req, obj.spec.clusters[i]) \in WorkKeys
  BY <1>1, WorkKeyType
<1>4. \/ /\ NextCluster(pc' = "release" /\ UNCHANGED worker)
         /\ UNCHANGED <<queue, faults>>
      \/ ReplyLost
  BY DEF DeleteManifestWork
<1>5. \A i \in 1..Len(obj.spec.clusters) : i <= pos =>
          works'[WorkKey(req, obj.spec.clusters[i])] = NoWork
  <2> SUFFICES ASSUME NEW i \in 1..Len(obj.spec.clusters), i <= pos
               PROVE  works'[WorkKey(req, obj.spec.clusters[i])] = NoWork
    OBVIOUS
  <2>1. CASE i = pos
    BY <1>1, <1>2, <1>3, <2>1 DEF TypeOK
  <2>2. CASE i < pos
    <3>1. works[WorkKey(req, obj.spec.clusters[i])] = NoWork
      BY <1>1, <2>2 DEF ProgressOK
    <3> QED BY <1>1, <1>2, <1>3, <3>1 DEF TypeOK
  <2> QED BY <1>3, <2>1, <2>2
<1> HIDE DEF k0
<1>6. /\ works' \in [WorkKeys -> L2Network \cup {NoWork}]
      /\ \A k \in WorkKeys : works'[k] = NoWork \/ works'[k] = works[k]
      /\ leaving' \subseteq WorkKeys
  BY <1>1, <1>2, <1>3 DEF TypeOK
<1>7. WorksOK'
  <2>1. \A k \in WorkKeys :
           works'[k] # NoWork => k[2] = WorkName[works'[k].network.name]
    BY <1>1, <1>6 DEF WorksOK
  <2>2. ~MayDropClusters =>
           \A k \in WorkKeys : works'[k] # NoWork =>
              /\ Stored(works'[k].network).finalizer
              /\ k[1] \in ClusterSet(Stored(works'[k].network))
    BY <1>1, <1>6 DEF WorksOK, NoOrphanWork
  <2> QED BY <1>2, <2>1, <2>2, WorksFromLog
<1>8. LogsOK'
  BY <1>1, <1>2, LogsFrame
<1>9. CASE ReplyLost
  <2>1. Idle /\ queue' = queue \cup {req} /\ faults < MaxFaults /\ faults' = faults + 1
    BY <1>9 DEF ReplyLost, ReturnError
  <2>2. queue' \subseteq Networks
    BY <1>1, <2>1, RequeueType
  <2>3. TypeOK'
    BY <1>1, <1>2, <1>6, <2>1, <2>2, IdleType, FaultType DEF TypeOK
  <2> QED BY <1>7, <1>8, <2>1, <2>3, IdleWorker DEF IndInv
<1>10. CASE /\ UNCHANGED <<req, obj, prov, queue, faults>>
            /\ \/ pos = Len(obj.spec.clusters) /\ pc' = "release" /\ pos' = pos
               \/ pos # Len(obj.spec.clusters) /\ pc' = pc /\ pos' = pos + 1
  <2>1. pos' \in 1..Len(obj.spec.clusters) /\ pc' \in {"delete", "release"}
    BY <1>1, <1>3, <1>10
  <2>2. TypeOK'
    BY <1>1, <1>2, <1>6, <1>10, <2>1 DEF TypeOK
  <2>3. Stored(req)' = Stored(req) /\ Cached(req)' = Cached(req)
    BY <1>2, <1>10 DEF Stored, Cached
  <2>4. IdleOK' /\ ObjOK' /\ CopyOK' /\ ClaimOK' /\ PlaceOK' /\ DeleteOK'
    BY <1>1, <1>10, <2>1, <2>3
       DEF IndInv, IdleOK, ObjOK, CopyOK, ClaimOK, PlaceOK, DeleteOK
  <2>5. ProgressOK'
    <3>1. \A i \in 1..Len(obj.spec.clusters) :
             pc' = "release" \/ (pc' = "delete" /\ i < pos') => i <= pos
      BY <1>1, <1>3, <1>10
    <3>2. \A i \in 1..Len(obj.spec.clusters) :
             pc' = "release" \/ (pc' = "delete" /\ i < pos')
               => works'[WorkKey(req, obj.spec.clusters[i])] = NoWork
      BY <1>5, <3>1
    <3> QED BY <1>10, <3>2 DEF ProgressOK, WorkKey
  <2> QED BY <1>7, <1>8, <2>2, <2>4, <2>5 DEF IndInv
<1> QED BY <1>4, <1>9, <1>10 DEF NextCluster, worker

\* When the finalizer goes, no work of the SliceNetwork is left.
LEMMA ReleaseLeavesNoWork ==
    ASSUME IndInv, pc = "release", obj = Stored(req), ~MayDropClusters
    PROVE  \A k \in WorkKeys : works[k] # NoWork => works[k].network # req
<1> SUFFICES ASSUME NEW k \in WorkKeys, works[k] # NoWork, works[k].network = req
             PROVE  FALSE
  OBVIOUS
<1>1. k[1] \in ClusterSet(obj) /\ k[2] = WorkName[req.name]
  BY DEF IndInv, WorksOK, NoOrphanWork
<1>2. PICK i \in 1..Len(obj.spec.clusters) : k[1] = obj.spec.clusters[i]
  BY <1>1 DEF ClusterSet
<1>3. k = <<k[1], k[2]>>
  BY DEF WorkKeys
<1>4. k = WorkKey(req, obj.spec.clusters[i])
  BY <1>1, <1>2, <1>3 DEF WorkKey
<1>5. works[WorkKey(req, obj.spec.clusters[i])] = NoWork
  BY <1>2 DEF IndInv, ProgressOK
<1> QED BY <1>4, <1>5

LEMMA RemoveFinalizerStep ==
    ASSUME IndInv, RemoveFinalizer
    PROVE  IndInv'
<1> DEFINE v == Absent(obj.rv + 1)
<1>1. TypeOK /\ LogsOK /\ WorksOK /\ pc = "release" /\ Stored(req).rv = obj.rv
  BY DEF IndInv, RemoveFinalizer
<1>2. /\ req \in Networks /\ obj \in Version /\ obj.rv \in Nat
      /\ obj = Stored(req) /\ Len(log[req]) = 1
      /\ log[req][1] = obj /\ EntryOK(obj)
  BY <1>1, AcceptedUpdate
<1>3. obj.phase = "terminating"
  BY <1>1 DEF IndInv, DeleteOK
<1>4. WithoutFinalizer(obj) = v
  BY <1>3 DEF WithoutFinalizer
<1>5. Write(req, v) /\ UNCHANGED <<plog, profileEvents, works, leaving, edits>>
  BY <1>4 DEF RemoveFinalizer
<1>6. (Idle /\ UNCHANGED <<queue, faults>>) \/ ReplyLost
  BY DEF RemoveFinalizer
<1>7. v \in Version /\ v.rv = obj.rv + 1 /\ v.phase = "absent" /\ v.finalizer = FALSE
  BY <1>2, NextRv, SpecTypes DEF Absent
<1> HIDE DEF v
<1>8. EntryOK(v) /\ Stored(req).rv < v.rv
  BY <1>2, <1>7 DEF EntryOK
<1>9. /\ \A i \in 1..Len(log[req]) : Claims(log[req][i]) => Keeps(log[req][i], v)
      /\ \A i \in 1..Len(log[req]) :
            log[req][i].phase = "terminating" /\ v.finalizer => v.phase = "terminating"
  BY <1>2, <1>3, <1>7 DEF Claims
<1>10. PICK n \in Networks : n = req
  BY <1>2
<1>11. /\ log' \in [Networks -> Seq(Version)]
       /\ \A m \in Networks : log'[m] # << >>
       /\ LogsOK'
       /\ Stored(n)' = v
       /\ \A m \in Networks : m # n => Stored(m)' = Stored(m)
  BY <1>1, <1>5, <1>7, <1>8, <1>9, <1>10, WriteFacts
<1>12. WorksOK'
  <2>1. ASSUME ~MayDropClusters, NEW k \in WorkKeys, works[k] # NoWork
        PROVE  /\ Stored(works[k].network)'.finalizer
               /\ k[1] \in ClusterSet(Stored(works[k].network)')
    <3>1. /\ works[k].network \in Networks
          /\ Stored(works[k].network).finalizer
          /\ k[1] \in ClusterSet(Stored(works[k].network))
      BY <1>1, <2>1 DEF TypeOK, L2Network, WorksOK, NoOrphanWork
    <3>2. works[k].network # n
      BY <1>1, <1>2, <1>10, <2>1, ReleaseLeavesNoWork
    <3>3. works' = works
      BY <1>5
    <3> QED BY <1>11, <3>1, <3>2, <3>3
  <2>2. \A k \in WorkKeys :
           works'[k] # NoWork => k[2] = WorkName[works'[k].network.name]
    BY <1>1, <1>5 DEF WorksOK
  <2> QED BY <1>5, <2>1, <2>2 DEF WorksOK, NoOrphanWork, ClusterSet, Stored
<1>13. Idle /\ queue' \subseteq Networks
       /\ (faults' = faults \/ (faults < MaxFaults /\ faults' = faults + 1))
  BY <1>1, <1>6, RequeueType DEF ReplyLost, ReturnError, TypeOK
<1>14. TypeOK'
  BY <1>1, <1>5, <1>11, <1>13, IdleType, FaultType DEF TypeOK
<1> QED BY <1>11, <1>12, <1>13, <1>14, IdleWorker DEF IndInv

LEMMA RestartStep ==
    ASSUME IndInv, Restart
    PROVE  IndInv'
<1>1. TypeOK /\ LogsOK /\ WorksOK
  BY DEF IndInv
<1>2. /\ log' = [n \in Networks |-> <<Stored(n)>>]
      /\ plog' = [p \in NamespacedName |-> <<StoredProfile(p)>>]
      /\ Idle /\ UNCHANGED <<works, leaving, edits>>
      /\ queue' \subseteq Networks /\ profileEvents' \subseteq NamespacedName
      /\ faults < MaxFaults /\ faults' = faults + 1
  BY DEF Restart
<1>3. \A n \in Networks : /\ LogOK(<<Stored(n)>>)
                           /\ <<Stored(n)>> \in Seq(Version) /\ <<Stored(n)>> # << >>
                           /\ Len(<<Stored(n)>>) = 1 /\ <<Stored(n)>>[1] = Stored(n)
  BY <1>1, LogTypes, CachedBeforeStored, SingletonLogOK
<1>4. \A n \in Networks : log'[n] = <<Stored(n)>>
  BY <1>2
<1>5. LogsOK'
  <2>1. \A n \in Networks : LogOK(log'[n])
    BY <1>3, <1>4
  <2> QED BY <2>1 DEF LogsOK, LogOK, EntryOK, Claims, Keeps, ClusterSet
<1>6. \A n \in Networks : Stored(n)' = Stored(n)
  <2> TAKE n \in Networks
  <2>1. log'[n][Len(log'[n])] = Stored(n)
    BY <1>3, <1>4
  <2> QED BY <2>1 DEF Stored
<1>7. /\ log' \in [Networks -> Seq(Version)]
      /\ \A n \in Networks : log'[n] # << >>
  BY <1>2, <1>3, <1>4
<1>8. /\ plog' \in [NamespacedName -> Seq(Providers \cup {NoProvider})]
      /\ \A p \in NamespacedName : plog'[p] # << >>
  <2>1. \A p \in NamespacedName : StoredProfile(p) \in Providers \cup {NoProvider}
    BY <1>1 DEF TypeOK, StoredProfile
  <2> HIDE DEF StoredProfile
  <2> QED BY <1>2, <2>1
<1>9. TypeOK'
  BY <1>1, <1>2, <1>7, <1>8, IdleType, FaultType DEF TypeOK
<1>10. WorksOK'
  BY <1>1, <1>2, <1>6, WorksFrame
<1> QED BY <1>2, <1>5, <1>9, <1>10, IdleWorker DEF IndInv

-----------------------------------------------------------------------------
(* The invariant is inductive. *)

LEMMA InitIndInv == Init => IndInv
<1> SUFFICES ASSUME Init PROVE IndInv
  OBVIOUS
<1> USE DEF Init
<1>1. Absent(0) \in Version /\ EntryOK(Absent(0))
  BY SpecTypes DEF Absent, EntryOK
<1>2. LogsOK /\ \A n \in Networks : log[n] \in Seq(Version) /\ log[n] # << >>
  BY <1>1, SingletonLogOK DEF LogsOK
<1>3. log \in [Networks -> Seq(Version)]
  BY <1>2
<1>4. plog \in [NamespacedName -> Seq(Providers \cup {NoProvider})]
      /\ \A p \in NamespacedName : plog[p] # << >>
  OBVIOUS
<1>5. works \in [WorkKeys -> L2Network \cup {NoWork}] /\ leaving \subseteq WorkKeys
  OBVIOUS
<1>6. TypeOK
  BY <1>1, <1>2, <1>3, <1>4, <1>5, TypesAssumption DEF TypeOK
<1>7. WorksOK
  BY DEF WorksOK, NoOrphanWork
<1>8. IdleOK /\ ObjOK /\ CopyOK /\ ClaimOK /\ PlaceOK /\ DeleteOK /\ ProgressOK
  BY DEF IdleOK, ObjOK, CopyOK, ClaimOK, PlaceOK, DeleteOK, ProgressOK
<1> QED BY <1>2, <1>6, <1>7, <1>8 DEF IndInv

LEMMA NextIndInv == IndInv /\ [Next]_vars => IndInv'
<1> SUFFICES ASSUME IndInv, [Next]_vars PROVE IndInv'
  OBVIOUS
<1>1. CASE Users
  BY <1>1, CreateNetworkStep, UpdateNetworkStep, DeleteNetworkStep,
     WriteProfileStep DEF Users
<1>2. CASE Informers
  BY <1>2, DeliverNetworkStep, DeliverProfileStep, HandlerStep DEF Informers
<1>3. CASE \E n \in Networks : StartReconcile(n)
  BY <1>3, StartReconcileStep
<1>4. CASE ReconcileStep
  BY <1>4, AddFinalizerStep, ResolveProviderStep, ApplyManifestWorkStep,
     DeleteManifestWorkStep, RemoveFinalizerStep, UpdateRefusedStep,
     CallFailsStep DEF ReconcileStep
<1>5. CASE Restart
  BY <1>5, RestartStep
<1>6. CASE UNCHANGED vars \/ \E k \in WorkKeys : Expire(k)
  <2>1. UNCHANGED <<log, pc, worker, works>>
    BY <1>6 DEF vars, worker, Expire
  <2>2. TypeOK'
    BY <1>6 DEF IndInv, TypeOK, vars, Expire, worker
  <2> QED BY <2>1, <2>2, Frame DEF IndInv
<1> QED BY <1>1, <1>2, <1>3, <1>4, <1>5, <1>6 DEF Next

LEMMA IndInvHolds == Spec => []IndInv
  BY InitIndInv, NextIndInv, PTL DEF Spec

\* Type correctness of the controller, for every value of the constants: in
\* particular the loops over spec.clusters never run past the list.
THEOREM TypeCorrect == Spec => []TypeOK
<1>1. IndInv => TypeOK
  BY DEF IndInv
<1> QED BY <1>1, IndInvHolds, PTL

\* No ManifestWork outlives its SliceNetwork, whatever the cache shows and
\* wherever Reconcile fails or crashes, as long as users never remove a
\* cluster from a SliceNetwork.
THEOREM NoOrphans == ~MayDropClusters => (Spec => []NoOrphanWork)
<1> SUFFICES ASSUME ~MayDropClusters PROVE Spec => []NoOrphanWork
  OBVIOUS
<1>1. IndInv => NoOrphanWork
  BY DEF IndInv, WorksOK
<1> QED BY <1>1, IndInvHolds, PTL

-----------------------------------------------------------------------------
(* What each step does to the stored versions. *)

LEMMA WriteStored ==
    ASSUME TypeOK, NEW n \in Networks, NEW v \in Version, Write(n, v)
    PROVE  /\ Stored(n)' = v
           /\ \A m \in Networks : m # n => Stored(m)' = Stored(m)
<1>1. log[n] \in Seq(Version) /\ log[n] # << >>
  BY DEF TypeOK
<1>2. log' = [log EXCEPT ![n] = Append(log[n], v)]
  BY DEF Write
<1>3. /\ Len(Append(log[n], v)) = Len(log[n]) + 1
      /\ Append(log[n], v)[Len(log[n]) + 1] = v
  BY <1>1, AppendFacts
<1>4. log'[n] = Append(log[n], v) /\ \A m \in Networks : m # n => log'[m] = log[m]
  BY <1>2 DEF TypeOK
<1> QED BY <1>3, <1>4 DEF Stored

\* AddFinalizer sets the finalizer of the stored version and nothing else.
LEMMA AddFinalizerEffect ==
    ASSUME IndInv, AddFinalizer
    PROVE  \E n \in Networks :
              /\ ~Stored(n).finalizer /\ Stored(n).phase = "live"
              /\ Stored(n)'.finalizer /\ Stored(n)'.phase = "live"
              /\ Stored(n)'.spec = Stored(n).spec
              /\ \A m \in Networks : m # n => Stored(m)' = Stored(m)
<1> DEFINE v == [obj EXCEPT !.finalizer = TRUE, !.rv = @ + 1]
<1>1. TypeOK /\ pc = "claim" /\ Stored(req).rv = obj.rv
  BY DEF IndInv, AddFinalizer
<1>2. /\ req \in Networks /\ obj \in Version /\ obj.rv \in Nat
      /\ obj = Stored(req)
  BY <1>1, AcceptedUpdate
<1>3. obj.phase = "live" /\ ~obj.finalizer
  BY <1>1 DEF IndInv, ClaimOK
<1>4. v \in Version
  BY <1>2, NextRv, Zenon DEF Version
<1>5. v.phase = "live" /\ v.finalizer /\ v.spec = obj.spec
  BY <1>2, <1>3 DEF Version
<1>6. Write(req, v)
  BY DEF AddFinalizer
<1> HIDE DEF v
<1>7. PICK n \in Networks : n = req
  BY <1>2
<1>8. Stored(n)' = v /\ \A m \in Networks : m # n => Stored(m)' = Stored(m)
  BY <1>1, <1>4, <1>6, <1>7, WriteStored
<1> QED BY <1>2, <1>3, <1>5, <1>7, <1>8

\* RemoveFinalizer removes the stored version, which was being deleted and,
\* if no cluster was ever dropped, has no work left.
LEMMA RemoveFinalizerEffect ==
    ASSUME IndInv, RemoveFinalizer
    PROVE  \E n \in Networks :
              /\ Stored(n).finalizer /\ Stored(n).phase = "terminating"
              /\ ~Stored(n)'.finalizer /\ Stored(n)'.phase = "absent"
              /\ \A m \in Networks : m # n => Stored(m)' = Stored(m)
              /\ ~MayDropClusters =>
                   \A k \in WorkKeys : works[k] # NoWork => works[k].network # n
<1>1. TypeOK /\ pc = "release" /\ Stored(req).rv = obj.rv
  BY DEF IndInv, RemoveFinalizer
<1>2. /\ req \in Networks /\ obj.rv \in Nat
      /\ obj = Stored(req) /\ EntryOK(obj)
  BY <1>1, AcceptedUpdate
<1>3. obj.phase = "terminating" /\ obj.finalizer
  BY <1>1, <1>2 DEF IndInv, DeleteOK, EntryOK
<1>4. Write(req, Absent(obj.rv + 1))
  BY <1>3 DEF RemoveFinalizer, WithoutFinalizer
<1>5. Absent(obj.rv + 1) \in Version
  BY <1>2, NextRv, SpecTypes
<1>6. PICK n \in Networks : n = req
  BY <1>2
<1>7. /\ Stored(n)' = Absent(obj.rv + 1)
      /\ \A m \in Networks : m # n => Stored(m)' = Stored(m)
  BY <1>1, <1>4, <1>5, <1>6, WriteStored
<1>8. ~Stored(n)'.finalizer /\ Stored(n)'.phase = "absent"
  BY <1>7 DEF Absent
<1>9. ~MayDropClusters =>
         \A k \in WorkKeys : works[k] # NoWork => works[k].network # n
  BY <1>1, <1>2, <1>6, ReleaseLeavesNoWork
<1> QED BY <1>2, <1>3, <1>6, <1>7, <1>8, <1>9

\* Every other step of the controller leaves the stored versions alone.
LEMMA StoredFrame ==
    ASSUME TypeOK,
           \/ Informers \/ (\E n \in Networks : StartReconcile(n))
           \/ ResolveProvider \/ ApplyManifestWork \/ DeleteManifestWork
           \/ UpdateRefused \/ CallFails \/ Restart
           \/ (\E p \in EditableProfiles, v \in Providers \cup {NoProvider} :
                  WriteProfile(p, v))
           \/ (\E k \in WorkKeys : Expire(k)) \/ UNCHANGED vars
    PROVE  \A m \in Networks : Stored(m)' = Stored(m)
<1>1. CASE UNCHANGED log
  BY <1>1 DEF Stored
<1>2. ASSUME NEW n \in Networks, DeliverNetwork(n)
      PROVE  \A m \in Networks : Stored(m)' = Stored(m)
  <2>1. /\ log[n] \in Seq(Version) /\ Len(log[n]) > 1
        /\ log' = [log EXCEPT ![n] = Tail(log[n])]
    BY <1>2 DEF TypeOK, DeliverNetwork
  <2>2. log'[n] = Tail(log[n]) /\ \A m \in Networks : m # n => log'[m] = log[m]
    BY <2>1 DEF TypeOK
  <2>3. Tail(log[n])[Len(Tail(log[n]))] = log[n][Len(log[n])]
    BY <2>1, TailFacts
  <2> QED BY <2>2, <2>3 DEF Stored
<1>3. CASE Restart
  <2> TAKE m \in Networks
  <2>1. log'[m] = <<Stored(m)>>
    BY <1>3 DEF Restart
  <2>2. Len(<<Stored(m)>>) = 1 /\ <<Stored(m)>>[1] = Stored(m)
    OBVIOUS
  <2>3. log'[m][Len(log'[m])] = Stored(m)
    BY <2>1, <2>2
  <2> QED BY <2>3 DEF Stored
<1> QED
  BY <1>1, <1>2, <1>3
     DEF Informers, DeliverProfile, requestsForProviderProfile,
         requestsListError, StartReconcile, ResolveProvider, ApplyManifestWork,
         DeleteManifestWork, UpdateRefused, CallFails, WriteProfile, Expire, vars

-----------------------------------------------------------------------------
\* No step of the controller undoes a user's edit, however stale the copy it
\* writes back: the finalizer updates of Reconcile change neither spec nor
\* phase, except that the last one lets a deleted SliceNetwork go.
THEOREM KeepsUserEdits == Spec => ControllerKeepsUserEdits
<1> DEFINE Kept(n) == \/ /\ Stored(n)'.spec = Stored(n).spec
                         /\ Stored(n)'.phase = Stored(n).phase
                      \/ /\ Stored(n).phase = "terminating"
                         /\ Stored(n)'.phase = "absent"
<1>1. ASSUME IndInv, [Next]_vars, edits' = edits
      PROVE  \A n \in Networks : Kept(n)
  <2>1. TypeOK
    BY <1>1 DEF IndInv
  <2>2. ~UserEdit
    <3>1. edits \in Nat
      BY <2>1, TypesAssumption DEF TypeOK
    <3> QED BY <1>1, <3>1 DEF UserEdit
  <2>3. CASE AddFinalizer
    BY <1>1, <2>3, AddFinalizerEffect
  <2>4. CASE RemoveFinalizer
    BY <1>1, <2>4, RemoveFinalizerEffect
  <2>5. CASE \A m \in Networks : Stored(m)' = Stored(m)
    BY <2>5
  <2>6. ~Users
    BY <2>2 DEF Users, CreateNetwork, UpdateNetwork, DeleteNetwork, WriteProfile
  <2>7. AddFinalizer \/ RemoveFinalizer \/ \A m \in Networks : Stored(m)' = Stored(m)
    BY <1>1, <2>1, <2>6, StoredFrame DEF Next, ReconcileStep
  <2> QED BY <2>3, <2>4, <2>5, <2>7
<1>2. IndInv /\ [Next]_vars =>
        [edits' = edits => \A n \in Networks : Kept(n)]_vars
  BY <1>1
<1> QED BY <1>2, IndInvHolds, PTL DEF Spec, ControllerKeepsUserEdits

-----------------------------------------------------------------------------
(* The refinement. *)

\* No two SliceNetworks share a ManifestWork name.  The name is that of the
\* SliceNetwork without its namespace, so this excludes two namespaces that
\* hold SliceNetworks of one name.
DistinctWorkNames ==
    \A m, n \in Networks : WorkName[m.name] = WorkName[n.name] => m = n

\* A step that keeps the stored versions and the works is a stutter.
LEMMA Stutter ==
    ASSUME \A m \in Networks : Status(m)' = Status(m), UNCHANGED works
    PROVE  UNCHANGED Placement!vars
  BY DEF Placement!vars, Holder

LEMMA StatusFrame ==
    ASSUME \A m \in Networks : Stored(m)' = Stored(m)
    PROVE  \A m \in Networks : Status(m)' = Status(m)
  BY DEF Status

\* A user's write is a stutter, or the owner's leaving.
LEMMA UserRefines ==
    ASSUME IndInv, NEW n \in Networks,
           \/ \E s \in Specs : CreateNetwork(n, s) \/ UpdateNetwork(n, s)
           \/ DeleteNetwork(n)
    PROVE  [Placement!Next]_(Placement!vars)
<1>1. TypeOK /\ LogsOK
  BY DEF IndInv
<1>2. Stored(n) \in Version /\ Stored(n).rv \in Nat /\ EntryOK(Stored(n))
  BY <1>1, LogTypes, CachedBeforeStored
<1>3. ASSUME NEW s \in Specs, CreateNetwork(n, s)
      PROVE  UNCHANGED Placement!vars
  <2> DEFINE v == [phase |-> "live", finalizer |-> FALSE,
                   rv |-> Stored(n).rv + 1, spec |-> s]
  <2>1. v \in Version
    BY <1>2, SpecsAssumption DEF Version
  <2>2. Write(n, v) /\ Stored(n).phase = "absent" /\ UNCHANGED works
    BY <1>3 DEF CreateNetwork, NetworkEditOnly
  <2>3. Stored(n)' = v /\ \A m \in Networks : m # n => Stored(m)' = Stored(m)
    BY <1>1, <2>1, <2>2, WriteStored
  <2>4. ~Stored(n).finalizer /\ ~Stored(n)'.finalizer
    BY <1>2, <2>2, <2>3 DEF EntryOK
  <2>5. \A m \in Networks : Status(m)' = Status(m)
    BY <2>3, <2>4 DEF Status
  <2> QED BY <2>2, <2>5, Stutter
<1>4. ASSUME NEW s \in Specs, UpdateNetwork(n, s)
      PROVE  UNCHANGED Placement!vars
  <2> DEFINE v == [Stored(n) EXCEPT !.rv = @ + 1, !.spec = s]
  <2>1. s \in SliceNetworkSpec
    BY SpecsAssumption
  <2>2. v \in Version
    BY <1>2, <2>1, NextRv, Zenon DEF Version
  <2>3. v.phase = Stored(n).phase /\ v.finalizer = Stored(n).finalizer
    BY <1>2 DEF Version
  <2>4. Write(n, v) /\ UNCHANGED works
    BY <1>4 DEF UpdateNetwork, NetworkEditOnly
  <2> HIDE DEF v
  <2>5. Stored(n)' = v /\ \A m \in Networks : m # n => Stored(m)' = Stored(m)
    BY <1>1, <2>2, <2>4, WriteStored
  <2>6. \A m \in Networks : Status(m)' = Status(m)
    BY <2>3, <2>5 DEF Status
  <2> QED BY <2>4, <2>6, Stutter
<1>5. CASE DeleteNetwork(n) /\ ~Stored(n).finalizer
  <2>1. Write(n, Absent(Stored(n).rv + 1)) /\ UNCHANGED works
    BY <1>5 DEF DeleteNetwork, NetworkEditOnly
  <2>2. Absent(Stored(n).rv + 1) \in Version
    BY <1>2, NextRv, SpecTypes
  <2>3. /\ Stored(n)' = Absent(Stored(n).rv + 1)
        /\ \A m \in Networks : m # n => Stored(m)' = Stored(m)
    BY <1>1, <2>1, <2>2, WriteStored
  <2>4. ~Stored(n)'.finalizer
    BY <2>3 DEF Absent
  <2>5. \A m \in Networks : Status(m)' = Status(m)
    BY <1>5, <2>3, <2>4 DEF Status
  <2> QED BY <2>1, <2>5, Stutter
<1>6. CASE DeleteNetwork(n) /\ Stored(n).finalizer
  <2> DEFINE v == [Stored(n) EXCEPT !.rv = @ + 1, !.phase = "terminating"]
  <2>1. v \in Version
    BY <1>2, NextRv, Zenon DEF Version
  <2>2. v.phase = "terminating" /\ v.finalizer
    BY <1>2, <1>6 DEF Version
  <2>3. Write(n, v) /\ UNCHANGED works /\ Stored(n).phase = "live"
    BY <1>6 DEF DeleteNetwork, NetworkEditOnly
  <2> HIDE DEF v
  <2>4. Stored(n)' = v /\ \A m \in Networks : m # n => Stored(m)' = Stored(m)
    BY <1>1, <2>1, <2>3, WriteStored
  <2>5. /\ Status(n) = "claimed" /\ Status(n)' = "leaving"
        /\ \A m \in Networks : m # n => Status(m)' = Status(m)
    BY <1>6, <2>2, <2>3, <2>4 DEF Status
  <2>6. Placement!Leave(n)
    BY <2>3, <2>5 DEF Placement!Leave, Holder
  <2> QED BY <2>6 DEF Placement!Next
<1> QED BY <1>3, <1>4, <1>5, <1>6

LEMMA ApplyRefines ==
    ASSUME IndInv, DistinctWorkNames, ApplyManifestWork
    PROVE  [Placement!Next]_(Placement!vars)
<1> DEFINE k0 == WorkKey(req, obj.spec.clusters[pos])
           w0 == DesiredL2Network(req, obj.spec, prov)
<1>1. TypeOK /\ WorksOK /\ pc = "apply" /\ Keeps(obj, Stored(req))
  BY DEF IndInv, ApplyManifestWork, PlaceOK
<1>2. (works' = works \/ works' = [works EXCEPT ![k0] = w0]) /\ UNCHANGED log
  BY DEF ApplyManifestWork, applyWork
<1>3. req \in Networks /\ k0 \in WorkKeys /\ k0[2] = WorkName[req.name]
  BY <1>1, WorkKeyType
<1>4. w0.network = req /\ w0 # NoWork
  <2>1. prov \in Providers
    BY <1>1 DEF TypeOK
  <2>2. obj.spec.type \in NetworkTypes
    BY <1>1 DEF TypeOK, Version, SliceNetworkSpec
  <2>3. w0 \in L2Network
    BY <1>3, <2>1, <2>2, TypesAssumption
       DEF DesiredL2Network, L2Network, DefaultIfEmpty
  <2> QED BY <2>3, KeysAssumption DEF DesiredL2Network
<1> HIDE DEF k0, w0
<1>5. PICK n \in Networks : n = req
  BY <1>3
<1>6. PICK k \in WorkKeys : k = k0
  BY <1>3
<1>7. Status(n) # "free"
  BY <1>1, <1>5 DEF Keeps, Status
<1>8. Holder(k) \in {NoRequest, n}
  <2>1. CASE works[k] = NoWork
    BY <2>1 DEF Holder
  <2>2. CASE works[k] # NoWork
    <3>1. works[k].network \in Networks
      BY <1>1, <2>2 DEF TypeOK, L2Network
    <3>2. WorkName[works[k].network.name] = WorkName[n.name]
      BY <1>1, <1>3, <1>5, <1>6, <2>2 DEF WorksOK
    <3>3. works[k].network = n
      BY <3>1, <3>2 DEF DistinctWorkNames
    <3> QED BY <2>2, <3>3 DEF Holder
  <2> QED BY <2>1, <2>2
<1>9. \A m \in Networks : Status(m)' = Status(m)
  BY <1>2 DEF Status, Stored
<1>10. CASE works' = works
  <2>1. \A l \in WorkKeys : Holder(l)' = Holder(l)
    BY <1>10 DEF Holder
  <2>2. UNCHANGED Placement!vars
    BY <1>9, <2>1 DEF Placement!vars
  <2> QED BY <2>2
<1>11. CASE works' = [works EXCEPT ![k0] = w0]
  <2>1. works'[k] = w0 /\ \A l \in WorkKeys : l # k => works'[l] = works[l]
    BY <1>1, <1>6, <1>11 DEF TypeOK
  <2>2. Holder(k)' = n /\ \A l \in WorkKeys : l # k => Holder(l)' = Holder(l)
    BY <1>4, <1>5, <2>1 DEF Holder
  <2>3. Placement!Place(n, k)
    BY <1>7, <1>8, <1>9, <2>2 DEF Placement!Place
  <2> QED BY <2>3 DEF Placement!Next
<1> QED BY <1>2, <1>10, <1>11

LEMMA DeleteRefines ==
    ASSUME IndInv, ~MayDropClusters, DistinctWorkNames, DeleteManifestWork
    PROVE  [Placement!Next]_(Placement!vars)
<1> DEFINE k0 == WorkKey(req, obj.spec.clusters[pos])
<1>1. TypeOK /\ WorksOK /\ DeleteOK /\ pc = "delete"
  BY DEF IndInv, DeleteManifestWork
<1>2. works' = [works EXCEPT ![k0] = NoWork] /\ UNCHANGED log
  BY DEF DeleteManifestWork, deleteWork
<1>3. req \in Networks /\ k0 \in WorkKeys /\ k0[2] = WorkName[req.name]
  BY <1>1, WorkKeyType
<1> HIDE DEF k0
<1>4. \A m \in Networks : Status(m)' = Status(m)
  BY <1>2 DEF Status, Stored
<1>5. PICK n \in Networks : n = req
  BY <1>3
<1>6. PICK k \in WorkKeys : k = k0
  BY <1>3
<1>7. works'[k] = NoWork /\ \A l \in WorkKeys : l # k => works'[l] = works[l]
  BY <1>1, <1>2, <1>6 DEF TypeOK
<1>8. CASE works[k] = NoWork
  <2>1. \A l \in WorkKeys : Holder(l)' = Holder(l)
    BY <1>7, <1>8 DEF Holder
  <2>2. UNCHANGED Placement!vars
    BY <1>4, <2>1 DEF Placement!vars
  <2> QED BY <2>2
<1>9. CASE works[k] # NoWork
  <2>1. works[k].network \in Networks
    BY <1>1, <1>9 DEF TypeOK, L2Network
  <2>2. WorkName[works[k].network.name] = WorkName[n.name]
    BY <1>1, <1>3, <1>5, <1>6, <1>9 DEF WorksOK
  <2>3. works[k].network = n
    BY <2>1, <2>2 DEF DistinctWorkNames
  <2>4. Stored(n).finalizer
    BY <1>1, <1>9, <2>3 DEF WorksOK, NoOrphanWork
  <2>5. Status(n) = "leaving"
    BY <1>1, <1>5, <2>4 DEF DeleteOK, Status
  <2>6. Holder(k) = n
    BY <1>9, <2>3 DEF Holder
  <2>7. Holder(k)' = NoRequest /\ \A l \in WorkKeys : l # k => Holder(l)' = Holder(l)
    BY <1>7 DEF Holder
  <2>8. Placement!Withdraw(n, k)
    BY <1>4, <2>5, <2>6, <2>7 DEF Placement!Withdraw
  <2> QED BY <2>8 DEF Placement!Next
<1> QED BY <1>8, <1>9

LEMMA FinalizerRefines ==
    ASSUME IndInv, ~MayDropClusters, AddFinalizer \/ RemoveFinalizer
    PROVE  Placement!Next
<1>1. UNCHANGED works
  BY DEF AddFinalizer, RemoveFinalizer
<1>2. CASE AddFinalizer
  <2>1. PICK n \in Networks :
           /\ ~Stored(n).finalizer /\ Stored(n).phase = "live"
           /\ Stored(n)'.finalizer /\ Stored(n)'.phase = "live"
           /\ \A m \in Networks : m # n => Stored(m)' = Stored(m)
    BY <1>2, AddFinalizerEffect
  <2>2. /\ Status(n) = "free" /\ Status(n)' = "claimed"
        /\ \A m \in Networks : m # n => Status(m)' = Status(m)
    BY <2>1 DEF Status
  <2>3. Placement!Claim(n)
    BY <1>1, <2>2 DEF Placement!Claim, Holder
  <2> QED BY <2>3 DEF Placement!Next
<1>3. CASE RemoveFinalizer
  <2>1. PICK n \in Networks :
           /\ Stored(n).finalizer /\ Stored(n).phase = "terminating"
           /\ ~Stored(n)'.finalizer
           /\ \A m \in Networks : m # n => Stored(m)' = Stored(m)
           /\ \A k \in WorkKeys : works[k] # NoWork => works[k].network # n
    BY <1>3, RemoveFinalizerEffect
  <2>2. /\ Status(n) = "leaving" /\ Status(n)' = "free"
        /\ \A m \in Networks : m # n => Status(m)' = Status(m)
    BY <2>1 DEF Status
  <2>3. \A k \in WorkKeys : Holder(k) # n
    BY <2>1, KeysAssumption DEF Holder
  <2>4. Placement!Release(n)
    BY <1>1, <2>2, <2>3 DEF Placement!Release, Holder
  <2> QED BY <2>4 DEF Placement!Next
<1> QED BY <1>2, <1>3

LEMMA InitRefines == Init => Placement!Init
<1> SUFFICES ASSUME Init PROVE Placement!Init
  OBVIOUS
<1>1. \A n \in Networks : Status(n) = "free"
  <2> TAKE n \in Networks
  <2>1. Stored(n) = Absent(0)
    BY DEF Init, Stored
  <2> QED BY <2>1 DEF Status, Absent
<1>2. \A k \in WorkKeys : Holder(k) = NoRequest
  BY DEF Init, Holder
<1> QED BY <1>1, <1>2 DEF Placement!Init

LEMMA NextRefines ==
    ASSUME IndInv, ~MayDropClusters, DistinctWorkNames, [Next]_vars
    PROVE  [Placement!Next]_(Placement!vars)
<1>1. CASE \E n \in Networks :
              \/ \E s \in Specs : CreateNetwork(n, s) \/ UpdateNetwork(n, s)
              \/ DeleteNetwork(n)
  BY <1>1, UserRefines
<1>2. CASE AddFinalizer \/ RemoveFinalizer
  BY <1>2, FinalizerRefines
<1>3. CASE ApplyManifestWork
  BY <1>3, ApplyRefines
<1>4. CASE DeleteManifestWork
  BY <1>4, DeleteRefines
<1>5. CASE \/ Informers \/ (\E n \in Networks : StartReconcile(n))
           \/ ResolveProvider \/ UpdateRefused \/ CallFails \/ Restart
           \/ (\E p \in EditableProfiles, v \in Providers \cup {NoProvider} :
                  WriteProfile(p, v))
           \/ (\E k \in WorkKeys : Expire(k)) \/ UNCHANGED vars
  <2>1. UNCHANGED works
    BY <1>5 DEF Informers, DeliverNetwork, DeliverProfile,
                requestsForProviderProfile, requestsListError, StartReconcile,
                ResolveProvider, UpdateRefused, CallFails, Restart,
                WriteProfile, Expire, vars
  <2>2. \A m \in Networks : Stored(m)' = Stored(m)
    BY <1>5, StoredFrame DEF IndInv
  <2> QED BY <2>1, <2>2, StatusFrame, Stutter
<1> QED BY <1>1, <1>2, <1>3, <1>4, <1>5 DEF Next, Users, ReconcileStep

\* The controller implements the claimed placement: it places works only
\* under the finalizer, deletes only those of a deleted SliceNetwork, and
\* releases the finalizer only when none is left.  Two conditions on the use
\* of the hub are needed, and the runs net_drop and net_collision show why.
THEOREM Refinement ==
    ~MayDropClusters /\ DistinctWorkNames => (Spec => ImplementsPlacement)
<1> SUFFICES ASSUME ~MayDropClusters, DistinctWorkNames
             PROVE  Spec => ImplementsPlacement
  OBVIOUS
<1>1. IndInv /\ [Next]_vars => [Placement!Next]_(Placement!vars)
  BY NextRefines
<1> QED BY <1>1, InitRefines, IndInvHolds, PTL
        DEF Spec, ImplementsPlacement, Placement!Spec

-----------------------------------------------------------------------------
(* Works that are being deleted: the invariant. *)

\* None of the clusters that version v of n lists has a work of n.
NoWorkOf(n, v) == \A c \in ClusterSet(v) : works[WorkKey(n, c)] = NoWork

\* Once the finalizer of a deleted SliceNetwork is gone, the deletion is the
\* oldest version that the cache may still show, and its works are gone.
SeenOK ==
    \A n \in Networks : \A i \in 1..Len(log[n]) :
        log[n][i].phase = "terminating" /\ ~Stored(n).finalizer =>
            i = 1 /\ NoWorkOf(n, log[n][1])

\* The same for a deletion that is run once more from a stale copy.
RepeatOK ==
    pc \in {"delete", "release"} /\ ~Stored(req).finalizer => NoWorkOf(req, obj)

\* Users wait for the works of a deleted SliceNetwork to go before they
\* create it again, and a deletion that runs late marks no new work.
LeavingOK ==
    \A n \in Networks : \A c \in Clusters :
        WorkKey(n, c) \in leaving => Stored(n).phase # "live"

LeavingInv == SeenOK /\ RepeatOK /\ LeavingOK

-----------------------------------------------------------------------------
(* No wake-up is lost: the invariant. *)

\* Something is under way that will make the controller look at n again: a
\* request, a version that the cache has yet to see, or a profile event.
Waiting(n) ==
    \/ n \in queue
    \/ Len(log[n]) > 1
    \/ /\ Cached(n).phase # "absent"
       /\ \E p \in profileEvents : concernsProfile(p, n.namespace, Cached(n).spec)

CachedProvider(n) == resolveProvider(CachedProfiles, n.namespace, Cached(n).spec)

\* Each cluster holds the L2Network that the caches ask for.
Done(n) ==
    /\ Cached(n).finalizer
    /\ CachedProvider(n) # NoProvider
    /\ \A c \in ClusterSet(Cached(n)) :
          works[WorkKey(n, c)] = DesiredL2Network(n, Cached(n).spec, CachedProvider(n))

\* A SliceNetwork that the cache has is waited for, worked on, or done.
NotifiedOK ==
    \A n \in Networks :
        Waiting(n) \/ req = n \/ Cached(n).phase = "absent" \/ Done(n)

\* The pass under way places what the caches ask for, unless they changed
\* since it started; then it is not the last one.
PassOK ==
    pc \in {"resolve", "apply"} =>
        /\ Claims(obj)
        /\ \/ Waiting(req)
           \/ /\ obj = Cached(req)
              /\ pc = "resolve" => pos = 1
              /\ pc = "apply" =>
                    /\ prov = CachedProvider(req)
                    /\ \A i \in 1..Len(obj.spec.clusters) :
                          i < pos => works[WorkKey(req, obj.spec.clusters[i])]
                                       = DesiredL2Network(req, obj.spec, prov)

WakeInv == NotifiedOK /\ PassOK

-----------------------------------------------------------------------------
(* No wake-up is lost: lemmas. *)

\* SliceNetworks of different work names share no work.
LEMMA KeysApart ==
    ASSUME DistinctWorkNames, NEW m \in Networks, NEW n \in Networks, m # n
    PROVE  \A c, d : WorkKey(m, c) # WorkKey(n, d)
  BY DEF DistinctWorkNames, WorkKey

LEMMA CachedTypes ==
    ASSUME TypeOK, NEW n \in Networks
    PROVE  /\ n.namespace \in Namespaces
           /\ Cached(n).spec.providerRef \in ProviderReference \cup {NoRef}
           /\ ClusterSet(Cached(n)) \subseteq Clusters
           /\ \A c \in Clusters : WorkKey(n, c) \in WorkKeys
           /\ CachedProfiles \in [NamespacedName -> Providers \cup {NoProvider}]
<1>1. n.namespace \in Namespaces /\ n.name \in Names
  BY KeysAssumption DEF NamespacedName
<1>2. Cached(n).spec \in SliceNetworkSpec
  BY LogTypes DEF Version
<1>3. /\ Cached(n).spec.providerRef \in ProviderReference \cup {NoRef}
      /\ Cached(n).spec.clusters \in Seq(Clusters)
  BY <1>2 DEF SliceNetworkSpec
<1>4. ClusterSet(Cached(n)) \subseteq Clusters
  BY <1>3 DEF ClusterSet
<1>5. \A c \in Clusters : WorkKey(n, c) \in WorkKeys
  BY <1>1, KeysAssumption DEF WorkKey, WorkKeys
<1>6. CachedProfiles \in [NamespacedName -> Providers \cup {NoProvider}]
  BY DEF TypeOK, CachedProfiles
<1> QED BY <1>1, <1>3, <1>4, <1>5, <1>6

\* What is done stays done while neither the caches nor the works of n change.
LEMMA DoneFrame ==
    ASSUME TypeOK, NEW n \in Networks, Done(n), Cached(n)' = Cached(n),
           CachedProvider(n)' = CachedProvider(n),
           \A c \in Clusters : works'[WorkKey(n, c)] = works[WorkKey(n, c)]
    PROVE  Done(n)'
<1>1. ClusterSet(Cached(n))' = ClusterSet(Cached(n))
  BY DEF ClusterSet
<1>2. \A c \in ClusterSet(Cached(n)) : c \in Clusters
  BY CachedTypes
<1> QED BY <1>1, <1>2 DEF Done, WorkKey, DesiredL2Network

\* A change of what the controller reads leaves a wake-up behind.
LEMMA InputStep ==
    ASSUME IndInv, WakeInv, UNCHANGED <<pc, worker, works>>,
           \A n \in Networks :
              \/ Waiting(n)'
              \/ /\ ~Waiting(n) /\ Cached(n)' = Cached(n)
                 /\ Cached(n).phase # "absent" =>
                      CachedProvider(n)' = CachedProvider(n)
    PROVE  WakeInv'
<1>1. TypeOK
  BY DEF IndInv
<1>2. NotifiedOK'
  <2> SUFFICES ASSUME NEW n \in Networks, ~Waiting(n)'
               PROVE  (req = n)' \/ (Cached(n).phase = "absent")' \/ Done(n)'
    BY DEF NotifiedOK
  <2>1. /\ ~Waiting(n) /\ Cached(n)' = Cached(n)
        /\ Cached(n).phase # "absent" => CachedProvider(n)' = CachedProvider(n)
    OBVIOUS
  <2>2. req = n \/ Cached(n).phase = "absent" \/ Done(n)
    BY <2>1 DEF WakeInv, NotifiedOK
  <2>3. req' = req /\ works' = works
    BY DEF worker
  <2> QED BY <1>1, <2>1, <2>2, <2>3, DoneFrame
<1>3. PassOK'
  <2> SUFFICES ASSUME pc \in {"resolve", "apply"}, ~Waiting(req)'
               PROVE  PassOK'
    BY DEF worker, PassOK, WakeInv, Claims
  <2>1. PICK n \in Networks : n = req
    BY <1>1 DEF TypeOK
  <2>2. ~Waiting(n)'
    BY <2>1 DEF worker
  <2>3. /\ ~Waiting(n) /\ Cached(n)' = Cached(n)
        /\ Cached(n).phase # "absent" => CachedProvider(n)' = CachedProvider(n)
    BY <2>2
  <2>4. UNCHANGED <<pc, req, obj, prov, pos, works>>
    BY DEF worker
  <2>5. /\ Claims(obj) /\ obj = Cached(n) /\ (pc = "resolve" => pos = 1)
        /\ pc = "apply" =>
              /\ prov = CachedProvider(n)
              /\ \A i \in 1..Len(obj.spec.clusters) :
                    i < pos => works[WorkKey(n, obj.spec.clusters[i])]
                                 = DesiredL2Network(n, obj.spec, prov)
    BY <2>1, <2>3 DEF WakeInv, PassOK
  <2>6. Cached(req)' = Cached(n)' /\ CachedProvider(req)' = CachedProvider(n)'
    BY <2>1, <2>4
  <2>7. CachedProvider(n)' = CachedProvider(n)
    BY <2>3, <2>5 DEF Claims
  <2> QED BY <2>1, <2>3, <2>4, <2>5, <2>6, <2>7
          DEF PassOK, Claims, WorkKey, DesiredL2Network
<1> QED BY <1>2, <1>3 DEF WakeInv

\* A step of the pass for r concerns no other SliceNetwork.
LEMMA OthersStep ==
    ASSUME IndInv, WakeInv, NEW r \in Networks, r = req,
           UNCHANGED <<plog, profileEvents>>, queue \subseteq queue',
           \A m \in Networks : m # r => log'[m] = log[m],
           \A m \in Networks : m # r =>
              \A c \in Clusters : works'[WorkKey(m, c)] = works[WorkKey(m, c)],
           req' = r \/ Waiting(r)' \/ Done(r)',
           PassOK'
    PROVE  WakeInv'
<1>1. TypeOK
  BY DEF IndInv
<1>2. ASSUME NEW m \in Networks, m # r
      PROVE  Waiting(m)' \/ (Cached(m).phase = "absent")' \/ Done(m)'
  <2>1. log'[m] = log[m]
    BY <1>2
  <2>2. Cached(m)' = Cached(m) /\ CachedProvider(m)' = CachedProvider(m)
    BY <2>1 DEF Cached, CachedProvider, CachedProfiles
  <2>3. Waiting(m) \/ Cached(m).phase = "absent" \/ Done(m)
    BY <1>2 DEF WakeInv, NotifiedOK
  <2>4. Waiting(m) => Waiting(m)'
    BY <2>1, <2>2 DEF Waiting
  <2> QED BY <1>1, <1>2, <2>2, <2>3, <2>4, DoneFrame
<1>3. NotifiedOK'
  BY <1>2 DEF NotifiedOK
<1> QED BY <1>3 DEF WakeInv

\* The works of other SliceNetworks are out of reach of the pass for r.
LEMMA OwnKeysOnly ==
    ASSUME TypeOK, DistinctWorkNames, NEW r \in Networks, NEW c, NEW w,
           works' = [works EXCEPT ![WorkKey(r, c)] = w]
    PROVE  \A m \in Networks : m # r =>
              \A d \in Clusters : works'[WorkKey(m, d)] = works[WorkKey(m, d)]
<1> SUFFICES ASSUME NEW m \in Networks, m # r, NEW d \in Clusters
             PROVE  works'[WorkKey(m, d)] = works[WorkKey(m, d)]
  OBVIOUS
<1>1. WorkKey(m, d) # WorkKey(r, c) /\ WorkKey(m, d) \in WorkKeys
  BY KeysApart, CachedTypes
<1>2. works \in [WorkKeys -> L2Network \cup {NoWork}]
  BY DEF TypeOK
<1> QED BY <1>1, <1>2

-----------------------------------------------------------------------------
(* Every step keeps the works that are being deleted in their place.  What  *)
(* the three conjuncts say is carried over step by step; the writes to the  *)
(* API server come first.                                                   *)

\* A write to n that gives up the finalizer comes when the cache is up to
\* date and the works are gone; one that makes n live, when none is leaving.
LEMMA WriteLeaving ==
    ASSUME IndInv, LeavingInv, NEW n \in Networks, NEW v \in Version, Write(n, v),
           UNCHANGED <<works, leaving>>,
           ~v.finalizer =>
              /\ v.phase # "terminating"
              /\ ~Stored(n).finalizer \/ (Len(log[n]) = 1 /\ NoWorkOf(n, log[n][1])),
           v.phase = "live" =>
              Stored(n).phase = "live" \/ \A c \in Clusters : WorkKey(n, c) \notin leaving,
           \/ pc' \notin {"delete", "release"}
           \/ UNCHANGED <<pc, req, obj>> /\ v.finalizer = Stored(n).finalizer
    PROVE  LeavingInv'
<1>1. TypeOK
  BY DEF IndInv
<1>2. log[n] \in Seq(Version) /\ log[n] # << >> /\ log' = [log EXCEPT ![n] = Append(log[n], v)]
  BY <1>1 DEF TypeOK, Write
<1>3. log'[n] = Append(log[n], v) /\ \A m \in Networks : m # n => log'[m] = log[m]
  BY <1>1, <1>2 DEF TypeOK
<1>4. /\ Len(log'[n]) = Len(log[n]) + 1 /\ Len(log[n]) \in Nat /\ Len(log[n]) >= 1
      /\ log'[n][Len(log[n]) + 1] = v
      /\ \A i \in 1..Len(log[n]) : log'[n][i] = log[n][i]
  BY <1>2, <1>3, AppendFacts
<1>5. Stored(n)' = v /\ \A m \in Networks : m # n => Stored(m)' = Stored(m)
  BY <1>1, WriteStored
<1>6. SeenOK'
  <2> SUFFICES ASSUME NEW m \in Networks, NEW i \in 1..Len(log'[m]),
                      log'[m][i].phase = "terminating", ~Stored(m)'.finalizer
               PROVE  i = 1 /\ \A c \in ClusterSet(log'[m][1]) : works[WorkKey(m, c)] = NoWork
    BY DEF SeenOK, NoWorkOf, ClusterSet, WorkKey
  <2>1. CASE m # n
    BY <1>3, <1>5, <2>1 DEF LeavingInv, SeenOK, NoWorkOf
  <2>2. CASE m = n
    <3>1. i # Len(log[n]) + 1
      BY <1>4, <1>5, <2>2
    <3>2. i \in 1..Len(log[n]) /\ log[n][i].phase = "terminating"
      BY <1>4, <2>2, <3>1
    <3>3. log'[n][1] = log[n][1]
      BY <1>4
    <3>4. CASE ~Stored(n).finalizer
      BY <2>2, <3>2, <3>3, <3>4 DEF LeavingInv, SeenOK, NoWorkOf
    <3>5. CASE Len(log[n]) = 1 /\ NoWorkOf(n, log[n][1])
      BY <2>2, <3>2, <3>3, <3>5 DEF NoWorkOf
    <3> QED BY <1>5, <2>2, <3>4, <3>5
  <2> QED BY <2>1, <2>2
<1>7. RepeatOK'
  <2> SUFFICES ASSUME pc' \in {"delete", "release"}, ~Stored(req)'.finalizer, req' = req
               PROVE  NoWorkOf(req, obj)
    BY DEF RepeatOK, NoWorkOf, ClusterSet, WorkKey, Stored
  <2>1. UNCHANGED <<pc, req, obj>> /\ v.finalizer = Stored(n).finalizer
    OBVIOUS
  <2>2. req \in Networks
    BY <1>1, <2>1 DEF TypeOK
  <2>3. ~Stored(req).finalizer
    BY <1>5, <2>1, <2>2
  <2> QED BY <2>1, <2>3 DEF LeavingInv, RepeatOK
<1>8. LeavingOK'
  <2> SUFFICES ASSUME NEW m \in Networks, NEW c \in Clusters, WorkKey(m, c) \in leaving
               PROVE  Stored(m)'.phase # "live"
    BY DEF LeavingOK, WorkKey
  <2>1. Stored(m).phase # "live"
    BY DEF LeavingInv, LeavingOK
  <2> QED BY <1>5, <2>1
<1> QED BY <1>6, <1>7, <1>8 DEF LeavingInv

LEMMA UserLeaving ==
    ASSUME IndInv, LeavingInv, ~RecreatesEarly, NEW n \in Networks,
           \/ \E s \in Specs : CreateNetwork(n, s) \/ UpdateNetwork(n, s)
           \/ DeleteNetwork(n)
    PROVE  LeavingInv'
<1>1. TypeOK /\ LogsOK
  BY DEF IndInv
<1>2. Stored(n) \in Version /\ Stored(n).rv \in Nat /\ EntryOK(Stored(n))
  BY <1>1, LogTypes, CachedBeforeStored
<1>3. NetworkEditOnly
  BY DEF CreateNetwork, UpdateNetwork, DeleteNetwork
<1>4. UNCHANGED <<works, leaving, pc, req, obj>>
  BY <1>3 DEF NetworkEditOnly, worker
<1>5. ASSUME NEW s \in Specs, CreateNetwork(n, s) PROVE LeavingInv'
  <2> DEFINE v == [phase |-> "live", finalizer |-> FALSE,
                   rv |-> Stored(n).rv + 1, spec |-> s]
  <2>1. v \in Version
    BY <1>2, SpecsAssumption DEF Version
  <2>2. /\ Stored(n).phase = "absent" /\ Write(n, v)
        /\ \A c \in Clusters : WorkKey(n, c) \notin leaving
    BY <1>5 DEF CreateNetwork
  <2>3. Stored(n).finalizer = FALSE
    BY <1>2, <2>2 DEF EntryOK, Version
  <2>4. v.phase = "live" /\ v.finalizer = FALSE
    OBVIOUS
  <2> HIDE DEF v
  <2> QED BY <1>4, <2>1, <2>2, <2>3, <2>4, WriteLeaving
<1>6. ASSUME NEW s \in Specs, UpdateNetwork(n, s) PROVE LeavingInv'
  <2> DEFINE v == [Stored(n) EXCEPT !.rv = @ + 1, !.spec = s]
  <2>1. v \in Version
    BY <1>2, NextRv, SpecsAssumption, Zenon DEF Version
  <2>2. v.phase = Stored(n).phase /\ v.finalizer = Stored(n).finalizer
    BY <1>2 DEF Version
  <2>3. Write(n, v)
    BY <1>6 DEF UpdateNetwork
  <2> HIDE DEF v
  <2>4. ~v.finalizer => v.phase # "terminating"
    BY <1>2, <2>2 DEF EntryOK
  <2> QED BY <1>4, <2>1, <2>2, <2>3, <2>4, WriteLeaving
<1>7. ASSUME DeleteNetwork(n), Stored(n).finalizer PROVE LeavingInv'
  <2> DEFINE v == [Stored(n) EXCEPT !.rv = @ + 1, !.phase = "terminating"]
  <2>1. v \in Version
    BY <1>2, NextRv, Zenon DEF Version
  <2>2. v.phase = "terminating" /\ v.finalizer = Stored(n).finalizer
    BY <1>2 DEF Version
  <2>3. Write(n, v)
    BY <1>7 DEF DeleteNetwork
  <2> HIDE DEF v
  <2> QED BY <1>4, <1>7, <2>1, <2>2, <2>3, WriteLeaving
<1>8. ASSUME DeleteNetwork(n), ~Stored(n).finalizer PROVE LeavingInv'
  <2> DEFINE v == Absent(Stored(n).rv + 1)
  <2>1. v \in Version
    BY <1>2, SpecTypes
  <2>2. v.phase = "absent" /\ v.finalizer = FALSE
    BY DEF Absent
  <2>3. Write(n, v) /\ Stored(n).finalizer = FALSE
    BY <1>2, <1>8 DEF DeleteNetwork, Version
  <2> HIDE DEF v
  <2> QED BY <1>4, <2>1, <2>2, <2>3, WriteLeaving
<1> QED BY <1>5, <1>6, <1>7, <1>8

LEMMA FinalizerLeaving ==
    ASSUME IndInv, LeavingInv, AddFinalizer \/ RemoveFinalizer
    PROVE  LeavingInv'
<1>1. UNCHANGED <<works, leaving>> /\ pc' \notin {"delete", "release"}
  BY DEF AddFinalizer, RemoveFinalizer, ReplyLost, ReturnError, Idle
<1>2. pc \in {"claim", "release"} /\ Stored(req).rv = obj.rv
  BY DEF AddFinalizer, RemoveFinalizer
<1>3. /\ req \in Networks /\ obj \in Version /\ obj.rv \in Nat
      /\ obj = Stored(req) /\ Len(log[req]) = 1
      /\ log[req][1] = obj /\ EntryOK(obj)
  BY <1>2, AcceptedUpdate
<1>4. PICK n \in Networks : n = req
  BY <1>3
<1>5. CASE AddFinalizer
  <2> DEFINE v == [obj EXCEPT !.finalizer = TRUE, !.rv = @ + 1]
  <2>1. v \in Version
    BY <1>3, NextRv, Zenon DEF Version
  <2>2. v.phase = Stored(n).phase /\ v.finalizer
    BY <1>3, <1>4 DEF Version
  <2>3. Write(n, v)
    BY <1>4, <1>5 DEF AddFinalizer
  <2> HIDE DEF v
  <2> QED BY <1>1, <2>1, <2>2, <2>3, WriteLeaving
<1>6. CASE RemoveFinalizer
  <2> DEFINE v == Absent(obj.rv + 1)
  <2>1. pc = "release" /\ obj.phase = "terminating"
    BY <1>6 DEF RemoveFinalizer, IndInv, DeleteOK
  <2>2. v \in Version
    BY <1>3, NextRv, SpecTypes
  <2>3. v.phase = "absent"
    BY DEF Absent
  <2>4. Write(n, v)
    BY <1>4, <1>6, <2>1 DEF RemoveFinalizer, WithoutFinalizer
  <2>5. Len(log[n]) = 1 /\ NoWorkOf(n, log[n][1])
    BY <1>3, <1>4, <2>1 DEF IndInv, ProgressOK, NoWorkOf, ClusterSet
  <2> HIDE DEF v
  <2> QED BY <1>1, <2>2, <2>3, <2>4, <2>5, WriteLeaving
<1> QED BY <1>5, <1>6

\* A step that writes nothing, and that starts no deletion.
LEMMA QuietLeaving ==
    ASSUME LeavingInv, UNCHANGED <<log, works>>, leaving' \subseteq leaving,
           pc' \notin {"delete", "release"} \/ UNCHANGED <<pc, req, obj>>
    PROVE  LeavingInv'
<1>1. SeenOK'
  BY DEF LeavingInv, SeenOK, NoWorkOf, ClusterSet, WorkKey, Stored
<1>2. RepeatOK'
  BY DEF LeavingInv, RepeatOK, NoWorkOf, ClusterSet, WorkKey, Stored
<1>3. LeavingOK'
  BY DEF LeavingInv, LeavingOK, WorkKey, Stored
<1> QED BY <1>1, <1>2, <1>3 DEF LeavingInv

LEMMA DeliverNetworkLeaving ==
    ASSUME IndInv, LeavingInv, NEW n \in Networks, DeliverNetwork(n)
    PROVE  LeavingInv'
<1>1. TypeOK
  BY DEF IndInv
<1>2. log[n] \in Seq(Version) /\ Len(log[n]) > 1 /\ log' = [log EXCEPT ![n] = Tail(log[n])]
  BY <1>1 DEF TypeOK, DeliverNetwork
<1>3. UNCHANGED <<works, leaving, pc, req, obj>>
  BY DEF DeliverNetwork, worker
<1>4. log'[n] = Tail(log[n]) /\ \A m \in Networks : m # n => log'[m] = log[m]
  BY <1>1, <1>2 DEF TypeOK
<1>5. /\ Len(log'[n]) = Len(log[n]) - 1 /\ Len(log[n]) \in Nat
      /\ \A i \in 1..Len(log[n]) - 1 : log'[n][i] = log[n][i + 1]
  BY <1>2, <1>4, TailFacts
<1>6. \A m \in Networks : Stored(m)' = Stored(m)
  BY <1>1, StoredFrame DEF Informers
<1>7. SeenOK'
  <2> SUFFICES ASSUME NEW m \in Networks, NEW i \in 1..Len(log'[m]),
                      log'[m][i].phase = "terminating", ~Stored(m).finalizer
               PROVE  i = 1 /\ \A c \in ClusterSet(log'[m][1]) : works[WorkKey(m, c)] = NoWork
    BY <1>3, <1>6 DEF SeenOK, NoWorkOf, ClusterSet, WorkKey
  <2>1. CASE m # n
    BY <1>4, <2>1 DEF LeavingInv, SeenOK, NoWorkOf
  <2>2. CASE m = n
    <3>1. i + 1 \in 1..Len(log[n]) /\ i + 1 # 1 /\ log[n][i + 1].phase = "terminating"
      BY <1>5, <2>2
    <3> QED BY <2>2, <3>1 DEF LeavingInv, SeenOK
  <2> QED BY <2>1, <2>2
<1>8. RepeatOK'
  <2> SUFFICES ASSUME pc \in {"delete", "release"}, ~Stored(req)'.finalizer
               PROVE  NoWorkOf(req, obj)
    BY <1>3 DEF RepeatOK, NoWorkOf, ClusterSet, WorkKey, Stored
  <2>1. PICK r \in Networks : r = req
    BY <1>1 DEF TypeOK
  <2>2. Stored(req)' = Stored(r)'
    BY <1>3, <2>1 DEF Stored
  <2> QED BY <1>6, <2>1, <2>2 DEF LeavingInv, RepeatOK
<1>9. LeavingOK'
  BY <1>3, <1>6 DEF LeavingInv, LeavingOK, WorkKey
<1> QED BY <1>7, <1>8, <1>9 DEF LeavingInv

\* A deletion that starts from a stale copy has nothing left to delete.
LEMMA StartReconcileLeaving ==
    ASSUME IndInv, LeavingInv, NEW n \in Networks, StartReconcile(n)
    PROVE  LeavingInv'
<1>1. UNCHANGED <<log, works, leaving>>
  BY DEF StartReconcile
<1>2. CASE pc' \notin {"delete", "release"} \/ UNCHANGED <<pc, req, obj>>
  BY <1>1, <1>2, QuietLeaving
<1>3. CASE Cached(n).phase = "terminating" /\ req' = n /\ obj' = Cached(n)
  <2>1. SeenOK'
    BY <1>1 DEF LeavingInv, SeenOK, NoWorkOf, ClusterSet, WorkKey, Stored
  <2>2. LeavingOK'
    BY <1>1 DEF LeavingInv, LeavingOK, WorkKey, Stored
  <2>3. ~Stored(n).finalizer => NoWorkOf(n, Cached(n))
    <3>1. 1 \in 1..Len(log[n])
      BY LogTypes DEF IndInv
    <3> QED BY <1>3, <3>1 DEF LeavingInv, SeenOK, Cached
  <2>4. RepeatOK'
    BY <1>1, <1>3, <2>3 DEF RepeatOK, NoWorkOf, ClusterSet, WorkKey, Stored
  <2> QED BY <2>1, <2>2, <2>4 DEF LeavingInv
<1> QED BY <1>2, <1>3 DEF StartReconcile, worker

\* The pass for r writes works of r only, and no deletion is under way.
LEMMA ApplyManifestWorkLeaving ==
    ASSUME IndInv, LeavingInv, DistinctWorkNames, ApplyManifestWork
    PROVE  LeavingInv'
<1>1. TypeOK /\ pc = "apply" /\ Stored(req).finalizer
  BY DEF IndInv, ApplyManifestWork, PlaceOK, Keeps
<1>2. PICK r \in Networks : r = req
  BY <1>1 DEF TypeOK
<1>3. /\ UNCHANGED <<log, leaving>> /\ pc' \notin {"delete", "release"}
      /\ \/ works' = works
         \/ \E w : works' = [works EXCEPT ![WorkKey(r, obj.spec.clusters[pos])] = w]
  BY <1>1, <1>2 DEF ApplyManifestWork, applyWork, NextCluster, Idle, ReplyLost, ReturnError
<1>4. \A m \in Networks : m # r =>
         \A c \in Clusters : works'[WorkKey(m, c)] = works[WorkKey(m, c)]
  BY <1>1, <1>3, OwnKeysOnly
<1>5. SeenOK'
  <2> SUFFICES ASSUME NEW m \in Networks, NEW i \in 1..Len(log[m]),
                      log[m][i].phase = "terminating", ~Stored(m).finalizer
               PROVE  i = 1 /\ \A c \in ClusterSet(log[m][1]) : works'[WorkKey(m, c)] = NoWork
    BY <1>3 DEF SeenOK, NoWorkOf, ClusterSet, WorkKey, Stored
  <2>1. m # r
    BY <1>1, <1>2
  <2>2. i = 1 /\ \A c \in ClusterSet(log[m][1]) : works[WorkKey(m, c)] = NoWork
    BY DEF LeavingInv, SeenOK, NoWorkOf
  <2>3. ClusterSet(log[m][1]) \subseteq Clusters
    BY <1>1, CachedTypes DEF Cached
  <2> QED BY <1>4, <2>1, <2>2, <2>3
<1>6. RepeatOK'
  BY <1>3 DEF RepeatOK
<1>7. LeavingOK'
  BY <1>3 DEF LeavingInv, LeavingOK, WorkKey, Stored
<1> QED BY <1>5, <1>6, <1>7 DEF LeavingInv

\* A work is marked only while its SliceNetwork is stored as being deleted.
LEMMA DeleteManifestWorkLeaving ==
    ASSUME IndInv, LeavingInv, DistinctWorkNames, DeleteManifestWork
    PROVE  LeavingInv'
<1> DEFINE k0 == WorkKey(req, obj.spec.clusters[pos])
<1>1. TypeOK /\ DeleteOK /\ pc = "delete"
  BY DEF IndInv, DeleteManifestWork
<1>2. /\ works' = [works EXCEPT ![k0] = NoWork] /\ UNCHANGED log
      /\ leaving' = leaving \/ (works[k0] # NoWork /\ leaving' = leaving \cup {k0})
  BY DEF DeleteManifestWork, deleteWork
<1>3. /\ req \in Networks /\ pos \in 1..Len(obj.spec.clusters)
      /\ obj.spec.clusters[pos] \in ClusterSet(obj)
  BY <1>1, WorkKeyType
<1>4. \A k \in WorkKeys : works[k] = NoWork => works'[k] = NoWork
  BY <1>1, <1>2 DEF TypeOK
<1>5. SeenOK'
  <2> SUFFICES ASSUME NEW m \in Networks, NEW i \in 1..Len(log[m]),
                      log[m][i].phase = "terminating", ~Stored(m).finalizer
               PROVE  i = 1 /\ \A c \in ClusterSet(log[m][1]) : works'[WorkKey(m, c)] = NoWork
    BY <1>2 DEF SeenOK, NoWorkOf, ClusterSet, WorkKey, Stored
  <2>1. i = 1 /\ \A c \in ClusterSet(log[m][1]) : works[WorkKey(m, c)] = NoWork
    BY DEF LeavingInv, SeenOK, NoWorkOf
  <2>2. \A c \in ClusterSet(log[m][1]) : WorkKey(m, c) \in WorkKeys
    BY <1>1, CachedTypes DEF Cached
  <2> QED BY <1>4, <2>1, <2>2
<1>6. ASSUME ReplyLost PROVE RepeatOK'
  <2>1. pc' = "idle"
    BY <1>6 DEF ReplyLost, ReturnError, Idle
  <2> QED BY <2>1 DEF RepeatOK
<1>7. RepeatOK'
  <2>1. CASE UNCHANGED <<req, obj>>
    <3> SUFFICES ASSUME ~Stored(req).finalizer, NEW c \in ClusterSet(obj)
                 PROVE  works'[WorkKey(req, c)] = NoWork
      BY <1>2, <2>1 DEF RepeatOK, NoWorkOf, ClusterSet, WorkKey, Stored
    <3>1. works[WorkKey(req, c)] = NoWork
      BY <1>1 DEF LeavingInv, RepeatOK, NoWorkOf
    <3>2. WorkKey(req, c) \in WorkKeys
      BY <1>1, WorkKeyType DEF ClusterSet
    <3> QED BY <1>4, <3>1, <3>2
  <2> QED BY <1>6, <2>1 DEF DeleteManifestWork, NextCluster, worker
<1>8. LeavingOK'
  <2> SUFFICES ASSUME NEW m \in Networks, NEW c \in Clusters, WorkKey(m, c) \in leaving'
               PROVE  Stored(m).phase # "live"
    BY <1>2 DEF LeavingOK, WorkKey, Stored
  <2>1. CASE WorkKey(m, c) \in leaving
    BY <2>1 DEF LeavingInv, LeavingOK
  <2>2. CASE WorkKey(m, c) = k0 /\ works[k0] # NoWork
    <3>1. m = req
      BY <1>3, <2>2, KeysApart
    <3>2. Stored(req).finalizer
      BY <1>1, <1>3, <2>2 DEF LeavingInv, RepeatOK, NoWorkOf
    <3>3. Stored(req).phase = "terminating"
      BY <1>1, <3>2 DEF DeleteOK
    <3> QED BY <3>1, <3>3
  <2> QED BY <1>2, <2>1, <2>2
<1> QED BY <1>5, <1>7, <1>8 DEF LeavingInv

LEMMA RestartLeaving ==
    ASSUME IndInv, LeavingInv, Restart
    PROVE  LeavingInv'
<1>1. TypeOK /\ LogsOK
  BY DEF IndInv
<1>2. UNCHANGED <<works, leaving>> /\ pc' = "idle" /\ \A n \in Networks : log'[n] = <<Stored(n)>>
  BY DEF Restart, Idle
<1>3. \A n \in Networks : Stored(n)' = Stored(n)
  BY <1>1, StoredFrame
<1>4. SeenOK'
  <2> SUFFICES ASSUME NEW n \in Networks, NEW i \in 1..Len(log'[n]),
                      log'[n][i].phase = "terminating"
               PROVE  Stored(n).finalizer
    BY <1>3 DEF SeenOK
  <2>1. Len(<<Stored(n)>>) = 1 /\ <<Stored(n)>>[1] = Stored(n)
    OBVIOUS
  <2>2. log'[n][i] = Stored(n)
    BY <1>2, <2>1
  <2> QED BY <1>1, <2>2, CachedBeforeStored DEF EntryOK
<1>5. RepeatOK'
  BY <1>2 DEF RepeatOK
<1>6. LeavingOK'
  BY <1>2, <1>3 DEF LeavingInv, LeavingOK, WorkKey
<1> QED BY <1>4, <1>5, <1>6 DEF LeavingInv

LEMMA InitLeavingInv == Init => LeavingInv
<1> SUFFICES ASSUME Init PROVE LeavingInv
  OBVIOUS
<1>1. ASSUME NEW n \in Networks, NEW i \in 1..Len(log[n])
      PROVE  log[n][i].phase # "terminating"
  BY DEF Init, Absent
<1> QED BY <1>1 DEF Init, LeavingInv, SeenOK, RepeatOK, LeavingOK

LEMMA NextLeavingInv ==
    ASSUME ~RecreatesEarly, DistinctWorkNames, IndInv, LeavingInv, [Next]_vars
    PROVE  LeavingInv'
<1>1. CASE \E n \in Networks :
              \/ \E s \in Specs : CreateNetwork(n, s) \/ UpdateNetwork(n, s)
              \/ DeleteNetwork(n)
  BY <1>1, UserLeaving
<1>2. CASE \E n \in Networks : DeliverNetwork(n)
  BY <1>2, DeliverNetworkLeaving
<1>3. CASE \E n \in Networks : StartReconcile(n)
  BY <1>3, StartReconcileLeaving
<1>4. CASE \/ \E p \in EditableProfiles, v \in Providers \cup {NoProvider} : WriteProfile(p, v)
           \/ \E p \in NamespacedName : \/ DeliverProfile(p) \/ requestsForProviderProfile(p)
                                        \/ requestsListError(p)
           \/ \E k \in WorkKeys : Expire(k)
           \/ UNCHANGED vars
  <2>1. UNCHANGED <<log, works, pc, req, obj>> /\ leaving' \subseteq leaving
    BY <1>4 DEF WriteProfile, DeliverProfile, requestsForProviderProfile,
                requestsListError, Expire, vars, worker
  <2> QED BY <2>1, QuietLeaving
<1>5. CASE ResolveProvider \/ UpdateRefused \/ CallFails
  <2>1. /\ UNCHANGED <<log, works, leaving>>
        /\ pc' \notin {"delete", "release"} \/ UNCHANGED <<pc, req, obj>>
    BY <1>5 DEF ResolveProvider, UpdateRefused, CallFails, ReplyLost, ReturnError, Idle
  <2> QED BY <2>1, QuietLeaving
<1> QED BY <1>1, <1>2, <1>3, <1>4, <1>5, FinalizerLeaving, ApplyManifestWorkLeaving,
           DeleteManifestWorkLeaving, RestartLeaving
           DEF Next, Users, Informers, ReconcileStep

-----------------------------------------------------------------------------
(* Every step keeps the wake-ups: users, informers and handlers. *)

LEMMA WriteLengthens ==
    ASSUME TypeOK, NEW n \in Networks, NEW v, Write(n, v)
    PROVE  /\ Len(log'[n]) > 1
           /\ \A m \in Networks : m # n => log'[m] = log[m]
<1>1. log[n] \in Seq(Version) /\ log[n] # << >> /\ log' = [log EXCEPT ![n] = Append(log[n], v)]
  BY DEF TypeOK, Write
<1>2. Len(Append(log[n], v)) = Len(log[n]) + 1 /\ Len(log[n]) \in Nat /\ Len(log[n]) >= 1
  BY <1>1
<1>3. log'[n] = Append(log[n], v) /\ \A m \in Networks : m # n => log'[m] = log[m]
  BY <1>1 DEF TypeOK
<1> QED BY <1>2, <1>3

LEMMA UserWriteWakes ==
    ASSUME IndInv, WakeInv, NEW n \in Networks, NEW v, Write(n, v), NetworkEditOnly
    PROVE  WakeInv'
<1>1. TypeOK
  BY DEF IndInv
<1>2. Len(log'[n]) > 1 /\ \A m \in Networks : m # n => log'[m] = log[m]
  BY <1>1, WriteLengthens
<1>3. UNCHANGED <<plog, profileEvents, queue, pc, worker, works>>
  BY DEF NetworkEditOnly
<1>4. Waiting(n)'
  BY <1>2 DEF Waiting
<1>5. ASSUME NEW m \in Networks, m # n
      PROVE  \/ Waiting(m)'
             \/ /\ ~Waiting(m) /\ Cached(m)' = Cached(m)
                /\ CachedProvider(m)' = CachedProvider(m)
  <2>1. log'[m] = log[m]
    BY <1>2, <1>5
  <2>2. Cached(m)' = Cached(m) /\ CachedProvider(m)' = CachedProvider(m)
    BY <1>3, <2>1 DEF Cached, CachedProvider, CachedProfiles
  <2>3. Waiting(m)' <=> Waiting(m)
    BY <1>3, <2>1, <2>2 DEF Waiting
  <2> QED BY <2>2, <2>3
<1> QED BY <1>3, <1>4, <1>5, InputStep

LEMMA WriteProfileWakes ==
    ASSUME IndInv, WakeInv, NEW p \in EditableProfiles,
           NEW v \in Providers \cup {NoProvider}, WriteProfile(p, v)
    PROVE  WakeInv'
<1>1. TypeOK /\ p \in NamespacedName
  BY KeysAssumption DEF IndInv
<1>2. UNCHANGED <<log, profileEvents, queue, pc, worker, works>>
  BY DEF WriteProfile
<1>3. /\ plog[p] \in Seq(Providers \cup {NoProvider}) /\ plog[p] # << >>
      /\ plog' = [plog EXCEPT ![p] = Append(plog[p], v)]
  BY <1>1 DEF TypeOK, WriteProfile
<1>4. Append(plog[p], v)[1] = plog[p][1]
  BY <1>3
<1>5. \A q \in NamespacedName : plog'[q][1] = plog[q][1]
  BY <1>1, <1>3, <1>4 DEF TypeOK
<1>6. CachedProfiles' = CachedProfiles
  BY <1>5 DEF CachedProfiles
<1>7. \A n \in Networks : Cached(n)' = Cached(n) /\ CachedProvider(n)' = CachedProvider(n)
  BY <1>2, <1>6 DEF Cached, CachedProvider
<1>8. \A n \in Networks : Waiting(n)' <=> Waiting(n)
  BY <1>2, <1>7 DEF Waiting
<1> QED BY <1>2, <1>7, <1>8, InputStep

LEMMA DeliverNetworkWakes ==
    ASSUME IndInv, WakeInv, NEW n \in Networks, DeliverNetwork(n)
    PROVE  WakeInv'
<1>1. TypeOK
  BY DEF IndInv
<1>2. /\ UNCHANGED <<plog, profileEvents, pc, worker, works>>
      /\ queue' = queue \cup {n}
      /\ \A m \in Networks : m # n => log'[m] = log[m]
  BY <1>1 DEF DeliverNetwork, TypeOK
<1>3. Waiting(n)'
  BY <1>2 DEF Waiting
<1>4. ASSUME NEW m \in Networks, m # n
      PROVE  \/ Waiting(m)'
             \/ /\ ~Waiting(m) /\ Cached(m)' = Cached(m)
                /\ CachedProvider(m)' = CachedProvider(m)
  <2>1. Cached(m)' = Cached(m) /\ CachedProvider(m)' = CachedProvider(m)
    BY <1>2, <1>4 DEF Cached, CachedProvider, CachedProfiles
  <2>2. Waiting(m) => Waiting(m)'
    BY <1>2, <1>4, <2>1 DEF Waiting
  <2> QED BY <2>1, <2>2
<1> QED BY <1>2, <1>3, <1>4, InputStep

\* The cached profile changes and with it the providers of the SliceNetworks
\* that the event concerns, and of no others.
LEMMA DeliverProfileWakes ==
    ASSUME IndInv, WakeInv, NEW p \in NamespacedName, DeliverProfile(p)
    PROVE  WakeInv'
<1>1. TypeOK
  BY DEF IndInv
<1>2. /\ UNCHANGED <<log, queue, pc, worker, works>>
      /\ profileEvents' = profileEvents \cup {p}
      /\ plog[p] \in Seq(Providers \cup {NoProvider}) /\ Len(plog[p]) > 1
      /\ plog' = [plog EXCEPT ![p] = Tail(plog[p])]
  BY <1>1 DEF DeliverProfile, TypeOK
<1>3. Tail(plog[p])[1] \in Providers \cup {NoProvider}
  BY <1>2
<1>4. PICK v \in Providers \cup {NoProvider} : v = Tail(plog[p])[1]
  BY <1>3
<1>5. CachedProfiles' = [CachedProfiles EXCEPT ![p] = v]
  BY <1>1, <1>2, <1>4 DEF CachedProfiles, TypeOK
<1>6. ASSUME NEW n \in Networks
      PROVE  \/ Waiting(n)'
             \/ /\ ~Waiting(n) /\ Cached(n)' = Cached(n)
                /\ Cached(n).phase # "absent" =>
                     CachedProvider(n)' = CachedProvider(n)
  <2>1. Cached(n)' = Cached(n)
    BY <1>2 DEF Cached
  <2>2. Waiting(n) => Waiting(n)'
    BY <1>2, <2>1 DEF Waiting
  <2>3. CASE Cached(n).phase # "absent" /\ CachedProvider(n)' # CachedProvider(n)
    <3>1. concernsProfile(p, n.namespace, Cached(n).spec)
      BY <1>1, <1>5, <2>1, <2>3, CachedTypes, WatchCoversResolution DEF CachedProvider
    <3>2. p \in profileEvents'
      BY <1>2
    <3> QED BY <2>1, <2>3, <3>1, <3>2 DEF Waiting
  <2> QED BY <2>1, <2>2, <2>3
<1> QED BY <1>2, <1>6, InputStep

\* An event is handled: its SliceNetworks are requested instead.
LEMMA HandlerWakes ==
    ASSUME IndInv, WakeInv, NEW p \in NamespacedName, requestsForProviderProfile(p)
    PROVE  WakeInv'
<1>1. /\ UNCHANGED <<log, plog, pc, worker, works>>
      /\ profileEvents' = profileEvents \ {p}
      /\ queue' = queue \cup {n \in Networks :
                                /\ Cached(n).phase # "absent"
                                /\ concernsProfile(p, n.namespace, Cached(n).spec)}
  BY DEF requestsForProviderProfile
<1>2. \A n \in Networks : Cached(n)' = Cached(n) /\ CachedProvider(n)' = CachedProvider(n)
  BY <1>1 DEF Cached, CachedProvider, CachedProfiles
<1>3. ASSUME NEW n \in Networks, Waiting(n) PROVE Waiting(n)'
  <2>1. CASE n \in queue \/ Len(log[n]) > 1
    BY <1>1, <2>1 DEF Waiting
  <2>2. CASE Cached(n).phase # "absent"
             /\ \E q \in profileEvents : concernsProfile(q, n.namespace, Cached(n).spec)
    <3>1. PICK q \in profileEvents : concernsProfile(q, n.namespace, Cached(n).spec)
      BY <2>2
    <3>2. CASE q = p
      BY <1>1, <2>2, <3>1, <3>2 DEF Waiting
    <3>3. CASE q # p
      BY <1>1, <1>2, <2>2, <3>1, <3>3 DEF Waiting
    <3> QED BY <3>2, <3>3
  <2> QED BY <1>3, <2>1, <2>2 DEF Waiting
<1> QED BY <1>1, <1>2, <1>3, InputStep

-----------------------------------------------------------------------------
(* Every step keeps the wake-ups: Reconcile. *)

LEMMA StartReconcileWakes ==
    ASSUME IndInv, WakeInv, NEW n \in Networks, StartReconcile(n)
    PROVE  WakeInv'
<1>1. TypeOK /\ LogsOK /\ pc = "idle" /\ req = NoRequest /\ pos = 1
  BY DEF IndInv, StartReconcile, TypeOK, IdleOK
<1>2. UNCHANGED <<log, plog, profileEvents, works>> /\ queue' = queue \ {n}
  BY DEF StartReconcile
<1>3. \A m \in Networks : Cached(m)' = Cached(m) /\ CachedProvider(m)' = CachedProvider(m)
  BY <1>2 DEF Cached, CachedProvider, CachedProfiles
<1>4. ASSUME NEW m \in Networks, m # n
      PROVE  Waiting(m)' \/ (Cached(m).phase = "absent")' \/ Done(m)'
  <2>1. m # NoRequest
    BY KeysAssumption
  <2>2. Waiting(m) \/ Cached(m).phase = "absent" \/ Done(m)
    BY <1>1, <2>1 DEF WakeInv, NotifiedOK
  <2>3. Waiting(m) => Waiting(m)'
    BY <1>2, <1>3, <1>4 DEF Waiting
  <2> QED BY <1>1, <1>2, <1>3, <2>2, <2>3, DoneFrame
<1>5. CASE Cached(n).phase = "absent" /\ UNCHANGED <<pc, worker>>
  BY <1>1, <1>3, <1>4, <1>5 DEF WakeInv, NotifiedOK, PassOK
<1>6. CASE /\ pc' = IF Cached(n).phase = "terminating" THEN "delete"
                    ELSE IF Cached(n).finalizer THEN "resolve" ELSE "claim"
           /\ Cached(n).phase # "absent"
           /\ req' = n /\ obj' = Cached(n) /\ UNCHANGED <<prov, pos>>
  <2>1. NotifiedOK'
    BY <1>4, <1>6 DEF NotifiedOK
  <2>2. pc' \in {"resolve", "apply"} => pc' = "resolve" /\ Claims(Cached(n))
    <3>1. Cached(n).phase \in {"absent", "live", "terminating"}
      BY <1>1, LogTypes DEF Version
    <3> QED BY <1>6, <3>1 DEF Claims
  <2>3. obj' = Cached(req)' /\ pos' = 1
    BY <1>1, <1>3, <1>6
  <2>4. PassOK'
    BY <1>6, <2>2, <2>3 DEF PassOK, Claims
  <2> QED BY <2>1, <2>4 DEF WakeInv
<1>7. Cached(n).phase # "live" /\ ~Cached(n).finalizer => Cached(n).phase = "absent"
  BY <1>1, LogTypes, CachedBeforeStored DEF EntryOK, Version
<1>8. Cached(n).phase = "live" \/ Cached(n).phase = "terminating" => Cached(n).phase # "absent"
  OBVIOUS
<1> QED BY <1>5, <1>6, <1>7, <1>8 DEF StartReconcile

\* A pass that ends in an error is repeated.
LEMMA ErrorWakes ==
    ASSUME IndInv, WakeInv, pc # "idle", ReturnError,
           UNCHANGED <<plog, profileEvents>>,
           \A m \in Networks : m # req => log'[m] = log[m],
           \A m \in Networks : m # req =>
              \A c \in Clusters : works'[WorkKey(m, c)] = works[WorkKey(m, c)]
    PROVE  WakeInv'
<1>1. PICK r \in Networks : r = req
  BY DEF IndInv, TypeOK
<1>2. Waiting(r)' /\ queue \subseteq queue'
  BY <1>1 DEF ReturnError, Waiting
<1>3. PassOK'
  BY DEF ReturnError, Idle, PassOK
<1> QED BY <1>1, <1>2, <1>3, OthersStep

LEMMA AddFinalizerWakes ==
    ASSUME IndInv, WakeInv, AddFinalizer
    PROVE  WakeInv'
<1> DEFINE v == [obj EXCEPT !.finalizer = TRUE, !.rv = @ + 1]
<1>1. TypeOK /\ pc = "claim" /\ obj \in Version
  BY DEF IndInv, AddFinalizer, TypeOK
<1>2. PICK r \in Networks : r = req
  BY <1>1 DEF TypeOK
<1>3. /\ Write(r, v) /\ UNCHANGED <<plog, profileEvents, works>>
      /\ \/ pc' = "resolve" /\ obj' = v /\ UNCHANGED <<req, prov, pos, queue, faults>>
         \/ ReplyLost
  BY <1>2 DEF AddFinalizer
<1>4. obj.phase = "live"
  BY <1>1 DEF IndInv, ClaimOK
<1>5. Claims(v)
  BY <1>1, <1>4 DEF Claims, Version
<1> HIDE DEF v
<1>6. Len(log'[r]) > 1 /\ \A m \in Networks : m # r => log'[m] = log[m]
  BY <1>1, <1>3, WriteLengthens
<1>7. Waiting(r)'
  BY <1>6 DEF Waiting
<1>8. CASE ReplyLost
  BY <1>1, <1>2, <1>3, <1>6, <1>8, ErrorWakes DEF ReplyLost
<1>9. CASE pc' = "resolve" /\ obj' = v /\ UNCHANGED <<req, queue>>
  <2>1. PassOK'
    <3>1. Waiting(req)'
      BY <1>2, <1>7, <1>9
    <3> QED BY <1>5, <1>9, <3>1 DEF PassOK, Claims
  <2> QED BY <1>2, <1>3, <1>6, <1>7, <1>9, <2>1, OthersStep
<1> QED BY <1>3, <1>8, <1>9

LEMMA RemoveFinalizerWakes ==
    ASSUME IndInv, WakeInv, RemoveFinalizer
    PROVE  WakeInv'
<1>1. TypeOK /\ pc = "release"
  BY DEF IndInv, RemoveFinalizer
<1>2. PICK r \in Networks : r = req
  BY <1>1 DEF TypeOK
<1>3. /\ Write(r, WithoutFinalizer(obj)) /\ UNCHANGED <<plog, profileEvents, works>>
      /\ Idle /\ queue \subseteq queue'
  BY <1>2 DEF RemoveFinalizer, ReplyLost, ReturnError
<1>4. Len(log'[r]) > 1 /\ \A m \in Networks : m # r => log'[m] = log[m]
  BY <1>1, <1>3, WriteLengthens
<1>5. Waiting(r)'
  BY <1>4 DEF Waiting
<1>6. PassOK'
  BY <1>3 DEF Idle, PassOK
<1> QED BY <1>2, <1>3, <1>4, <1>5, <1>6, OthersStep

LEMMA ResolveProviderWakes ==
    ASSUME IndInv, WakeInv, ResolveProvider
    PROVE  WakeInv'
<1> DEFINE p == resolveProvider(CachedProfiles, req.namespace, obj.spec)
<1>1. TypeOK /\ pc = "resolve"
  BY DEF IndInv, ResolveProvider
<1>2. PICK r \in Networks : r = req
  BY <1>1 DEF TypeOK
<1>3. UNCHANGED <<log, plog, profileEvents, works>>
  BY DEF ResolveProvider
<1>4. CASE ReturnError
  BY <1>1, <1>3, <1>4, ErrorWakes
<1>5. CASE prov' = p /\ pc' = "apply" /\ UNCHANGED <<req, obj, pos, queue>>
  <2>1. /\ Cached(req)' = Cached(req) /\ CachedProvider(req)' = CachedProvider(req)
        /\ Waiting(req)' <=> Waiting(req)
    BY <1>3, <1>5 DEF Cached, CachedProvider, CachedProfiles, Waiting
  <2>2. Claims(obj) /\ (Waiting(req) \/ (obj = Cached(req) /\ pos = 1))
    BY <1>1 DEF WakeInv, PassOK
  <2>3. obj = Cached(req) => p = CachedProvider(req)
    BY DEF CachedProvider
  <2>4. obj.spec.clusters \in Seq(Clusters)
    BY <1>1 DEF TypeOK, Version, SliceNetworkSpec
  <2>5. \A i \in 1..Len(obj.spec.clusters) : ~(i < 1)
    BY <2>4
  <2> HIDE DEF p
  <2>6. PassOK'
    BY <1>5, <2>1, <2>2, <2>3, <2>5 DEF PassOK, Claims
  <2> QED BY <1>2, <1>3, <1>5, <2>6, OthersStep
<1> QED BY <1>4, <1>5 DEF ResolveProvider

\* The last cluster of a pass that nothing overtook: all of them are placed.
LEMMA ApplyManifestWorkWakes ==
    ASSUME IndInv, LeavingInv, WakeInv, DistinctWorkNames, ApplyManifestWork
    PROVE  WakeInv'
<1> DEFINE w0 == DesiredL2Network(req, obj.spec, prov)
           Key(i) == WorkKey(req, obj.spec.clusters[i])
<1>1. TypeOK /\ pc = "apply" /\ prov # NoProvider
  BY DEF IndInv, ApplyManifestWork, TypeOK
<1>2. PICK r \in Networks : r = req
  BY <1>1 DEF TypeOK
<1>3. /\ works' = IF Key(pos) \in leaving THEN works ELSE [works EXCEPT ![Key(pos)] = w0]
      /\ UNCHANGED <<log, plog, profileEvents>>
      /\ \/ NextCluster(Idle) /\ UNCHANGED <<queue, faults>>
         \/ ReplyLost
  BY DEF ApplyManifestWork, applyWork
<1>4. \A m \in Networks : m # r =>
         \A c \in Clusters : works'[WorkKey(m, c)] = works[WorkKey(m, c)]
  BY <1>1, <1>2, <1>3, OwnKeysOnly
<1>5. /\ Cached(r)' = Cached(r) /\ CachedProvider(r)' = CachedProvider(r)
      /\ queue' = queue => (Waiting(r)' <=> Waiting(r))
  BY <1>3 DEF Cached, CachedProvider, CachedProfiles, Waiting
<1>6. /\ Claims(obj)
      /\ \/ Waiting(r)
         \/ /\ obj = Cached(r) /\ prov = CachedProvider(r)
            /\ \A i \in 1..Len(obj.spec.clusters) : i < pos => works[Key(i)] = w0
  BY <1>1, <1>2 DEF WakeInv, PassOK
<1>7. /\ Len(obj.spec.clusters) \in Nat /\ pos \in 1..Len(obj.spec.clusters)
      /\ \A i \in 1..Len(obj.spec.clusters) : Key(i) \in WorkKeys
  BY <1>1, WorkKeyType
<1>8. works \in [WorkKeys -> L2Network \cup {NoWork}]
  BY <1>1 DEF TypeOK
<1>9. ~Waiting(r) => works' = [works EXCEPT ![Key(pos)] = w0]
  <2> SUFFICES ASSUME ~Waiting(r) PROVE Key(pos) \notin leaving
    BY <1>3
  <2>1. Stored(r) = Cached(r)
    <3>1. Len(log[r]) \in Nat /\ Len(log[r]) >= 1 /\ ~(1 < Len(log[r]))
      BY <1>1, LogTypes DEF Waiting
    <3>2. \A k \in Nat : k >= 1 => k = 1 \/ 1 < k
      OBVIOUS
    <3>3. Len(log[r]) = 1
      BY <3>1, <3>2, Zenon
    <3> QED BY <3>3 DEF Stored, Cached
  <2>2. Stored(r).phase = "live"
    BY <1>6, <2>1 DEF Claims
  <2>3. obj.spec.clusters[pos] \in Clusters
    BY <1>1, <1>7 DEF TypeOK, Version, SliceNetworkSpec
  <2> QED BY <1>2, <2>2, <2>3 DEF LeavingInv, LeavingOK
<1> HIDE DEF w0, Key
<1>10. ~Waiting(r) => \A i \in 1..Len(obj.spec.clusters) : i <= pos => works'[Key(i)] = w0
  <2> SUFFICES ASSUME ~Waiting(r), NEW i \in 1..Len(obj.spec.clusters), i <= pos
               PROVE  works'[Key(i)] = w0
    OBVIOUS
  <2>1. CASE Key(i) = Key(pos)
    BY <1>9, <1>7, <1>8, <2>1
  <2>2. CASE Key(i) # Key(pos)
    <3>1. i < pos
      BY <1>7, <2>2
    <3>2. works[Key(i)] = w0
      BY <1>6, <3>1
    <3> QED BY <1>9, <1>7, <1>8, <2>2, <3>2
  <2> QED BY <2>1, <2>2
<1>11. CASE ReplyLost
  BY <1>1, <1>2, <1>3, <1>4, <1>11, ErrorWakes DEF ReplyLost
<1>12. CASE pos = Len(obj.spec.clusters) /\ Idle /\ queue' = queue
  <2>1. PassOK'
    BY <1>12 DEF Idle, PassOK
  <2>2. Waiting(r)' \/ Done(r)'
    <3> SUFFICES ASSUME ~Waiting(r) PROVE Done(r)'
      BY <1>5, <1>12
    <3>1. /\ Cached(r)' = obj /\ CachedProvider(r)' = prov /\ prov # NoProvider
          /\ obj.finalizer
      BY <1>1, <1>5, <1>6 DEF Claims
    <3>2. \A c \in ClusterSet(obj) : works'[WorkKey(r, c)] = DesiredL2Network(r, obj.spec, prov)
      BY <1>2, <1>7, <1>10, <1>12 DEF ClusterSet, Key, w0
    <3>3. ClusterSet(Cached(r))' = ClusterSet(obj)
      BY <3>1 DEF ClusterSet
    <3> QED BY <3>1, <3>2, <3>3 DEF Done, WorkKey, DesiredL2Network
  <2> QED BY <1>2, <1>3, <1>4, <1>12, <2>1, <2>2, OthersStep
<1>13. CASE pos # Len(obj.spec.clusters) /\ pos' = pos + 1
            /\ UNCHANGED <<pc, req, obj, prov, queue>>
  <2>1. \A i \in 1..Len(obj.spec.clusters) : i < pos + 1 => i <= pos
    BY <1>7
  <2>2. ~Waiting(r) => \A i \in 1..Len(obj.spec.clusters) :
           i < pos + 1 => works'[WorkKey(r, obj.spec.clusters[i])]
                            = DesiredL2Network(r, obj.spec, prov)
    BY <1>2, <1>10, <2>1 DEF Key, w0
  <2>3. /\ Cached(req)' = Cached(r)' /\ CachedProvider(req)' = CachedProvider(r)'
        /\ Waiting(req)' = Waiting(r)'
    BY <1>2, <1>13
  <2>4. PassOK'
    BY <1>1, <1>2, <1>5, <1>6, <1>13, <2>2, <2>3
       DEF PassOK, Claims, WorkKey, DesiredL2Network
  <2> QED BY <1>2, <1>3, <1>4, <1>13, <2>4, OthersStep
<1> QED BY <1>3, <1>11, <1>12, <1>13 DEF NextCluster

LEMMA DeleteManifestWorkWakes ==
    ASSUME IndInv, WakeInv, DistinctWorkNames, DeleteManifestWork
    PROVE  WakeInv'
<1>1. TypeOK /\ pc = "delete"
  BY DEF IndInv, DeleteManifestWork
<1>2. PICK r \in Networks : r = req
  BY <1>1 DEF TypeOK
<1>3. /\ works' = [works EXCEPT ![WorkKey(r, obj.spec.clusters[pos])] = NoWork]
      /\ UNCHANGED <<log, plog, profileEvents>>
      /\ \/ pc' \in {"delete", "release"} /\ req' = r /\ queue' = queue
         \/ ReplyLost
  BY <1>1, <1>2 DEF DeleteManifestWork, deleteWork, NextCluster, worker
<1>4. \A m \in Networks : m # r =>
         \A c \in Clusters : works'[WorkKey(m, c)] = works[WorkKey(m, c)]
  BY <1>1, <1>3, OwnKeysOnly
<1>5. CASE ReplyLost
  BY <1>1, <1>2, <1>3, <1>4, <1>5, ErrorWakes DEF ReplyLost
<1>6. CASE pc' \in {"delete", "release"} /\ req' = r /\ queue' = queue
  <2>1. PassOK'
    BY <1>6 DEF PassOK
  <2> QED BY <1>2, <1>3, <1>4, <1>6, <2>1, OthersStep
<1> QED BY <1>3, <1>5, <1>6

\* A manager that starts looks at everything.
LEMMA RestartWakes ==
    ASSUME IndInv, Restart
    PROVE  WakeInv'
<1>1. PassOK'
  BY DEF Restart, Idle, PassOK
<1>2. ASSUME NEW n \in Networks PROVE Waiting(n)' \/ (Cached(n).phase = "absent")'
  <2>1. log'[n] = <<Stored(n)>>
    BY DEF Restart
  <2>2. <<Stored(n)>>[1] = Stored(n)
    OBVIOUS
  <2>3. Cached(n)' = Stored(n)
    BY <2>1, <2>2 DEF Cached
  <2>4. Stored(n).phase # "absent" => n \in queue'
    BY DEF Restart
  <2> QED BY <2>3, <2>4 DEF Waiting
<1> QED BY <1>1, <1>2 DEF WakeInv, NotifiedOK

-----------------------------------------------------------------------------
LEMMA InitWakeInv == Init => WakeInv
<1> SUFFICES ASSUME Init PROVE WakeInv
  OBVIOUS
<1>1. \A n \in Networks : Cached(n) = Absent(0)
  BY DEF Init, Cached
<1> QED BY <1>1 DEF Init, Absent, WakeInv, NotifiedOK, PassOK

LEMMA NextWakeInv ==
    ASSUME ~CacheReadsFail, DistinctWorkNames, IndInv, LeavingInv, WakeInv, [Next]_vars
    PROVE  WakeInv'
<1>1. CASE Users
  BY <1>1, UserWriteWakes, WriteProfileWakes
     DEF Users, CreateNetwork, UpdateNetwork, DeleteNetwork
<1>2. CASE Informers
  BY <1>2, DeliverNetworkWakes, DeliverProfileWakes, HandlerWakes
     DEF Informers, requestsListError
<1>3. CASE \E n \in Networks : StartReconcile(n)
  BY <1>3, StartReconcileWakes
<1>4. CASE UpdateRefused \/ CallFails
  BY <1>4, ErrorWakes DEF UpdateRefused, CallFails, ReplyLost
<1>5. CASE Restart
  BY <1>5, RestartWakes
<1>6. CASE UNCHANGED vars \/ \E k \in WorkKeys : Expire(k)
  <2>1. UNCHANGED <<log, plog, profileEvents, queue, pc, worker, works>>
    BY <1>6 DEF vars, worker, Expire
  <2>2. \A n \in Networks : Cached(n)' = Cached(n) /\ CachedProvider(n)' = CachedProvider(n)
    BY <2>1 DEF Cached, CachedProvider, CachedProfiles
  <2>3. \A n \in Networks : Waiting(n)' <=> Waiting(n)
    BY <2>1, <2>2 DEF Waiting
  <2> QED BY <2>1, <2>2, <2>3, InputStep
<1> QED BY <1>1, <1>2, <1>3, <1>4, <1>5, <1>6, AddFinalizerWakes,
           ResolveProviderWakes, ApplyManifestWorkWakes, DeleteManifestWorkWakes,
           RemoveFinalizerWakes DEF Next, ReconcileStep

\* What is settled has caches that are up to date.
LEMMA SettledIsDone ==
    ASSUME IndInv, WakeInv
    PROVE  SettledImpliesPlaced
<1> SUFFICES ASSUME NEW n \in Networks, Settled(n), Stored(n).phase # "absent"
             PROVE  Placed(n)
  BY DEF SettledImpliesPlaced
<1>1. Cached(n) = Stored(n)
  BY DEF Settled, Cached, Stored
<1>2. CachedProvider(n) = StoredProvider(n)
  <2>1. \A p \in NamespacedName : plog[p][1] = StoredProfile(p)
    BY DEF Settled, StoredProfile
  <2> QED BY <1>1, <2>1 DEF CachedProvider, StoredProvider, CachedProfiles
<1>3. ~Waiting(n) /\ req # n
  BY DEF Settled, Waiting
<1>4. Done(n)
  BY <1>1, <1>3 DEF WakeInv, NotifiedOK
<1> QED BY <1>1, <1>2, <1>4 DEF Done, Placed

\* No wake-up is lost and no pass ends half done: a SliceNetwork that nothing
\* is pending for is placed, with the provider and the spec that are stored,
\* for any number of SliceNetworks, profiles, edits, failures and crashes.
\* The watch handler must be able to list its cache, no two SliceNetworks may
\* share a work name, and nobody may create a SliceNetwork again before the
\* works of the deleted one have gone; works_leaving and net_collision show why.
THEOREM NoLostWakeUp ==
    ~CacheReadsFail /\ ~RecreatesEarly /\ DistinctWorkNames =>
        (Spec => []SettledImpliesPlaced)
<1> SUFFICES ASSUME ~CacheReadsFail, ~RecreatesEarly, DistinctWorkNames
             PROVE  Spec => []SettledImpliesPlaced
  OBVIOUS
<1>1. IndInv /\ LeavingInv /\ [Next]_vars => LeavingInv'
  BY NextLeavingInv
<1>2. IndInv /\ LeavingInv /\ WakeInv /\ [Next]_vars => WakeInv'
  BY NextWakeInv
<1>3. IndInv /\ WakeInv => SettledImpliesPlaced
  BY SettledIsDone
<1> QED BY <1>1, <1>2, <1>3, InitLeavingInv, InitWakeInv, IndInvHolds, PTL DEF Spec
=============================================================================
