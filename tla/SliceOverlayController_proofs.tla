------------------- MODULE SliceOverlayController_proofs -------------------
(***************************************************************************)
(* Proofs about SliceOverlayController for every value of its constants:   *)
(* any number of SliceOverlays, clusters, edits, faults and crashes: type  *)
(* correctness, no orphaned works, and the refinement of ClaimedPlacement. *)
(***************************************************************************)
EXTENDS SliceOverlayController, TLAPS

-----------------------------------------------------------------------------
(* The inductive invariant. *)

\* A version that asks the controller to place works.
Claims(v) == v.phase = "live" /\ v.finalizer

\* v keeps what a claiming version u had: the finalizer and the clusters.
Keeps(u, v) ==
    /\ v.finalizer
    /\ ~MayDropClusters => NodeNames(u.spec) \subseteq NodeNames(v.spec)

\* Only the finalizer keeps a deleted object, and only an object has one.
EntryOK(v) ==
    /\ v.phase = "terminating" => v.finalizer
    /\ v.phase = "absent" => ~v.finalizer

\* The versions that the cache has yet to see, oldest first: a claim is never
\* given up, and a deleted object never claims again, before the cache knows.
LogOK(s) ==
    /\ \A i \in 1..Len(s) : EntryOK(s[i])
    /\ \A i, j \in 1..Len(s) : i < j => s[i].rv < s[j].rv
    /\ \A i, j \in 1..Len(s) : i < j /\ Claims(s[i]) => Keeps(s[i], s[j])
    /\ \A i, j \in 1..Len(s) :
          i < j /\ s[i].phase = "terminating" /\ s[j].finalizer
            => s[j].phase = "terminating"

LogsOK == \A o \in Overlays : LogOK(log[o])

\* The worker's copy is the stored version, or the API server refuses it.
ObjOK ==
    pc # "idle" =>
        /\ obj.rv <= Stored(req).rv
        /\ obj.rv = Stored(req).rv => obj = Stored(req)

\* The first loop starts at the first cluster.
IdleOK == pc \in {"idle", "claim", "resolve"} => pos = 1

\* Until it writes, the worker's copy is no newer than the cache.
CopyOK == pc \in {"claim", "delete", "release"} => obj.rv <= Cached(req).rv

ClaimOK == pc = "claim" => obj.phase = "live" /\ ~obj.finalizer

PlaceOK == pc \in {"resolve", "address", "apply"} => Keeps(obj, Stored(req))

\* How far the first loop of ApplySlice has come.
AddressOK ==
    pc = "address" =>
        /\ prov \in Providers
        /\ \A i \in 1..Len(obj.spec.nodes) :
              i < pos => clusterMaps[obj.spec.nodes[i].name] # Empty

DeleteOK ==
    pc \in {"delete", "release"} =>
        /\ obj.phase = "terminating"
        /\ Stored(req).finalizer => Stored(req).phase = "terminating"

\* How far the deletion of the works has come.
ProgressOK ==
    \A i \in 1..Len(obj.spec.nodes) :
        pc = "release" \/ (pc = "delete" /\ i < pos)
            => works[WorkKey(req, obj.spec.nodes[i].name)] = NoWork

\* A manager that is down has no event to handle.
DownOK == MDClient = "none" => profileEvents = {}

Types == TypeOK /\ DownOK

\* A work has the name of its SliceOverlay, and is not an orphan.
WorksOK ==
    /\ \A k \in WorkKeys :
          works[k] # NoWork => k[2] = WorkName[works[k].slice.name]
    /\ ~MayDropClusters => NoOrphanWork

IndInv == Types /\ LogsOK /\ IdleOK /\ ObjOK /\ CopyOK /\ ClaimOK /\ PlaceOK
                /\ AddressOK /\ DeleteOK /\ ProgressOK /\ WorksOK

-----------------------------------------------------------------------------
(* Lemmas about logs. *)

\* Appending to a nonempty log changes its last version only.
LEMMA AppendFacts ==
    ASSUME NEW s \in Seq(Version), s # << >>, NEW v \in Version
    PROVE  /\ Append(s, v) \in Seq(Version)
           /\ Append(s, v) # << >>
           /\ Len(Append(s, v)) = Len(s) + 1
           /\ Len(s) \in Nat /\ Len(s) >= 1
           /\ Append(s, v)[Len(s) + 1] = v
           /\ \A i \in 1..Len(s) : Append(s, v)[i] = s[i] /\ s[i] \in Version
  OBVIOUS

\* Delivering the oldest version shifts the others and keeps the last.
LEMMA TailFacts ==
    ASSUME NEW S, NEW s \in Seq(S), Len(s) > 1
    PROVE  /\ Tail(s) \in Seq(S)
           /\ Tail(s) # << >>
           /\ Len(Tail(s)) = Len(s) - 1
           /\ Len(s) \in Nat
           /\ \A i \in 1..Len(s) - 1 : Tail(s)[i] = s[i + 1]
           /\ Tail(s)[Len(Tail(s))] = s[Len(s)]
  OBVIOUS

LEMMA HeadType ==
    ASSUME NEW s \in Seq(Version), s # << >>
    PROVE  s[1].rv \in Nat
<1>1. s[1] \in Version
  OBVIOUS
<1> QED BY <1>1 DEF Version

\* A write that keeps a held finalizer extends a log to a log.
LEMMA AppendLogOK ==
    ASSUME NEW s \in Seq(Version), s # << >>, LogOK(s), NEW v \in Version,
           EntryOK(v), s[Len(s)].rv < v.rv,
           \A i \in 1..Len(s) : Claims(s[i]) => Keeps(s[i], v),
           \A i \in 1..Len(s) :
              s[i].phase = "terminating" /\ v.finalizer => v.phase = "terminating"
    PROVE  LogOK(Append(s, v))
<1> DEFINE t == Append(s, v)
<1>1. /\ Len(t) = Len(s) + 1 /\ Len(s) \in Nat /\ Len(s) >= 1
      /\ t[Len(s) + 1] = v
      /\ \A i \in 1..Len(s) : t[i] = s[i] /\ s[i] \in Version
  BY AppendFacts
<1> HIDE DEF t
<1>2. \A i \in 1..Len(t) : i \in 1..Len(s) \/ i = Len(s) + 1
  BY <1>1
<1>3. \A i \in 1..Len(s) : s[i].rv <= s[Len(s)].rv /\ s[i].rv \in Nat
  <2> SUFFICES ASSUME NEW i \in 1..Len(s)
               PROVE  s[i].rv <= s[Len(s)].rv /\ s[i].rv \in Nat
    OBVIOUS
  <2>1. Len(s) \in 1..Len(s)
    BY <1>1
  <2>2. s[i].rv \in Nat /\ s[Len(s)].rv \in Nat
    BY <1>1, <2>1 DEF Version
  <2>3. i < Len(s) => s[i].rv < s[Len(s)].rv
    BY <2>1 DEF LogOK
  <2>4. i = Len(s) \/ i < Len(s)
    BY <1>1
  <2> QED BY <2>2, <2>3, <2>4
<1>4. v.rv \in Nat
  BY DEF Version
<1>5. \A i \in 1..Len(t) : EntryOK(t[i])
  BY <1>1, <1>2 DEF LogOK
<1>6. ASSUME NEW i \in 1..Len(t), NEW j \in 1..Len(t), i < j
      PROVE  /\ t[i].rv < t[j].rv
             /\ Claims(t[i]) => Keeps(t[i], t[j])
             /\ t[i].phase = "terminating" /\ t[j].finalizer => t[j].phase = "terminating"
  <2>1. i \in 1..Len(s) /\ t[i] = s[i]
    BY <1>1, <1>6
  <2>2. CASE j \in 1..Len(s)
    BY <1>1, <1>6, <2>1, <2>2 DEF LogOK
  <2>3. CASE j = Len(s) + 1
    <3>1. t[j] = v
      BY <1>1, <2>3
    <3>2. s[i].rv < v.rv
      BY <1>1, <1>3, <1>4, <2>1
    <3> QED BY <2>1, <3>1, <3>2
  <2> QED BY <1>2, <2>2, <2>3
<1> QED BY <1>5, <1>6 DEF LogOK, t

LEMMA TailLogOK ==
    ASSUME NEW s \in Seq(Version), Len(s) > 1, LogOK(s)
    PROVE  LogOK(Tail(s)) /\ s[1].rv < Tail(s)[1].rv
<1> DEFINE t == Tail(s)
<1>1. /\ Len(t) = Len(s) - 1 /\ Len(s) \in Nat
      /\ \A i \in 1..Len(s) - 1 : t[i] = s[i + 1]
  BY TailFacts
<1> HIDE DEF t
<1>2. \A i \in 1..Len(t) : i + 1 \in 1..Len(s) /\ t[i] = s[i + 1]
  BY <1>1
<1>3. \A i, j \in 1..Len(t) : i < j => i + 1 < j + 1
  BY <1>1
<1>4. 1 \in 1..Len(s) /\ 1 \in 1..Len(t) /\ 2 \in 1..Len(s) /\ 1 < 2
  BY <1>1
<1>5. LogOK(t)
  <2>1. \A i \in 1..Len(t) : EntryOK(t[i])
    BY <1>2 DEF LogOK
  <2>2. ASSUME NEW i \in 1..Len(t), NEW j \in 1..Len(t), i < j
        PROVE  /\ t[i].rv < t[j].rv
               /\ Claims(t[i]) => Keeps(t[i], t[j])
               /\ t[i].phase = "terminating" /\ t[j].finalizer
                    => t[j].phase = "terminating"
    <3>1. i + 1 \in 1..Len(s) /\ j + 1 \in 1..Len(s) /\ i + 1 < j + 1
      BY <1>2, <1>3, <2>2
    <3>2. /\ s[i + 1].rv < s[j + 1].rv
          /\ Claims(s[i + 1]) => Keeps(s[i + 1], s[j + 1])
          /\ s[i + 1].phase = "terminating" /\ s[j + 1].finalizer
               => s[j + 1].phase = "terminating"
      BY <3>1 DEF LogOK
    <3> QED BY <1>2, <3>2
  <2> QED BY <2>1, <2>2 DEF LogOK
<1>6. s[1].rv < t[1].rv
  BY <1>2, <1>4 DEF LogOK
<1> QED BY <1>5, <1>6 DEF t

\* A one-version log has only that version to be right about.
LEMMA SingletonLogOK ==
    ASSUME NEW v \in Version, EntryOK(v)
    PROVE  LogOK(<<v>>) /\ <<v>> \in Seq(Version) /\ <<v>> # << >>
           /\ Len(<<v>>) = 1 /\ <<v>>[1] = v
  BY DEF LogOK

-----------------------------------------------------------------------------
(* What a write to the API server does to the logs. *)

\* The stored and the cached version of a log are versions.
LEMMA LogTypes ==
    ASSUME Types, NEW o \in Overlays
    PROVE  /\ log[o] \in Seq(Version) /\ log[o] # << >>
           /\ Len(log[o]) \in Nat /\ Len(log[o]) >= 1
           /\ Stored(o) \in Version /\ Cached(o) \in Version
           /\ Stored(o).rv \in Nat /\ Cached(o).rv \in Nat
<1>1. log[o] \in Seq(Version) /\ log[o] # << >>
  BY DEF Types, TypeOK
<1>2. Len(log[o]) \in Nat /\ Len(log[o]) >= 1
  BY <1>1
<1>3. Stored(o) \in Version /\ Cached(o) \in Version
  BY <1>1, <1>2 DEF Stored, Cached
<1> QED BY <1>1, <1>2, <1>3 DEF Version

\* The cached version is no newer than the stored one, and equal to it only
\* if the cache is up to date.
LEMMA CachedBeforeStored ==
    ASSUME Types, LogsOK, NEW o \in Overlays
    PROVE  /\ Cached(o).rv <= Stored(o).rv
           /\ Cached(o).rv = Stored(o).rv => Len(log[o]) = 1 /\ Cached(o) = Stored(o)
           /\ EntryOK(Cached(o)) /\ EntryOK(Stored(o))
           /\ Claims(Cached(o)) => Keeps(Cached(o), Stored(o))
           /\ Cached(o).phase = "terminating" /\ Stored(o).finalizer
                => Stored(o).phase = "terminating"
<1>0. Len(log[o]) \in Nat /\ Len(log[o]) >= 1
  BY LogTypes
<1>1. Stored(o).rv \in Nat /\ Cached(o).rv \in Nat
  BY LogTypes
<1>2. LogOK(log[o])
  BY DEF LogsOK
<1>3. 1 \in 1..Len(log[o]) /\ Len(log[o]) \in 1..Len(log[o])
  BY <1>0
<1>4. CASE Len(log[o]) = 1
  BY <1>1, <1>2, <1>3, <1>4 DEF LogOK, Cached, Stored, Claims, Keeps
<1>5. CASE 1 < Len(log[o])
  <2>1. /\ Cached(o).rv < Stored(o).rv
        /\ Claims(Cached(o)) => Keeps(Cached(o), Stored(o))
        /\ Cached(o).phase = "terminating" /\ Stored(o).finalizer
             => Stored(o).phase = "terminating"
        /\ EntryOK(Cached(o)) /\ EntryOK(Stored(o))
    BY <1>2, <1>3, <1>5 DEF LogOK, Cached, Stored
  <2> QED BY <1>1, <2>1
<1>6. \A k \in Nat : k >= 1 => k = 1 \/ 1 < k
  OBVIOUS
<1>7. Len(log[o]) = 1 \/ 1 < Len(log[o])
  BY <1>0, <1>6, Zenon
<1> QED BY <1>4, <1>5, <1>7

\* The frame of a write to o, and the condition that every later version
\* must meet for the logs to stay as LogOK says.
LEMMA WriteFacts ==
    ASSUME Types, LogsOK, NEW o \in Overlays, NEW v \in Version, Write(o, v),
           EntryOK(v), Stored(o).rv < v.rv,
           \A i \in 1..Len(log[o]) : Claims(log[o][i]) => Keeps(log[o][i], v),
           \A i \in 1..Len(log[o]) :
              log[o][i].phase = "terminating" /\ v.finalizer
                => v.phase = "terminating"
    PROVE  /\ log' \in [Overlays -> Seq(Version)]
           /\ \A m \in Overlays : log'[m] # << >>
           /\ LogsOK'
           /\ Stored(o)' = v
           /\ \A m \in Overlays : m # o => Stored(m)' = Stored(m)
           /\ \A m \in Overlays : Cached(m)' = Cached(m)
<1>1. log[o] \in Seq(Version) /\ log[o] # << >>
  BY DEF Types, TypeOK
<1>2. log' = [log EXCEPT ![o] = Append(log[o], v)]
  BY DEF Write
<1>3. /\ Append(log[o], v) \in Seq(Version) /\ Append(log[o], v) # << >>
      /\ Len(Append(log[o], v)) = Len(log[o]) + 1
      /\ Len(log[o]) \in Nat /\ Len(log[o]) >= 1
      /\ Append(log[o], v)[Len(log[o]) + 1] = v
      /\ Append(log[o], v)[1] = log[o][1]
  BY <1>1, AppendFacts
<1>4. log'[o] = Append(log[o], v) /\ \A m \in Overlays : m # o => log'[m] = log[m]
  BY <1>2 DEF Types, TypeOK
<1>5. log' \in [Overlays -> Seq(Version)] /\ \A m \in Overlays : log'[m] # << >>
  BY <1>2, <1>3, <1>4 DEF Types, TypeOK
<1>6. LogOK(Append(log[o], v))
  BY <1>1, AppendLogOK DEF LogsOK, Stored
<1>7. LogsOK'
  <2> SUFFICES ASSUME NEW m \in Overlays PROVE LogOK(log'[m])
    BY DEF LogsOK, LogOK, EntryOK, Claims, Keeps, NodeNames
  <2>1. LogOK(log[m])
    BY DEF LogsOK
  <2> QED BY <1>4, <1>6, <2>1
<1>8. Stored(o)' = v
  BY <1>3, <1>4 DEF Stored
<1>9. \A m \in Overlays : m # o => Stored(m)' = Stored(m)
  BY <1>4 DEF Stored
<1>10. \A m \in Overlays : Cached(m)' = Cached(m)
  BY <1>3, <1>4 DEF Cached
<1> QED BY <1>5, <1>7, <1>8, <1>9, <1>10

\* What a user's write leaves alone: the finalizer, the clusters of a claimed
\* object, and the deletion timestamp.
Respects(u, v) ==
    /\ v.finalizer = u.finalizer
    /\ u.finalizer => Keeps(u, v)
    /\ u.phase = "terminating" => v.phase = "terminating"

LEMMA RespectsLog ==
    ASSUME Types, LogsOK, NEW o \in Overlays, NEW v \in Version,
           Respects(Stored(o), v)
    PROVE  /\ \A i \in 1..Len(log[o]) : Claims(log[o][i]) => Keeps(log[o][i], v)
           /\ \A i \in 1..Len(log[o]) :
                 log[o][i].phase = "terminating" /\ v.finalizer
                   => v.phase = "terminating"
<1>1. Len(log[o]) \in Nat /\ Len(log[o]) >= 1 /\ LogOK(log[o])
  BY LogTypes DEF LogsOK
<1> SUFFICES ASSUME NEW i \in 1..Len(log[o])
             PROVE  /\ Claims(log[o][i]) => Keeps(log[o][i], v)
                    /\ log[o][i].phase = "terminating" /\ v.finalizer
                         => v.phase = "terminating"
  OBVIOUS
<1>2. CASE i = Len(log[o])
  BY <1>2 DEF Respects, Claims, Stored
<1>3. CASE i < Len(log[o])
  <2>1. /\ Claims(log[o][i]) => Keeps(log[o][i], Stored(o))
        /\ log[o][i].phase = "terminating" /\ Stored(o).finalizer
             => Stored(o).phase = "terminating"
    BY <1>1, <1>3 DEF LogOK, Stored
  <2> QED BY <2>1 DEF Respects, Keeps
<1> QED BY <1>1, <1>2, <1>3

-----------------------------------------------------------------------------
(* Every step preserves the invariant: users. *)

\* A user's write disturbs nothing that a Reconcile under way relies on.
LEMMA UserWriteStep ==
    ASSUME IndInv, NEW o \in Overlays, NEW v \in Version, UserEdit, Write(o, v),
           OverlayEditOnly, EntryOK(v), Stored(o).rv < v.rv,
           Respects(Stored(o), v)
    PROVE  IndInv'
<1> USE DEF OverlayEditOnly, worker, process
<1>1. Types /\ LogsOK
  BY DEF IndInv
<1>2. /\ log' \in [Overlays -> Seq(Version)]
      /\ \A m \in Overlays : log'[m] # << >>
      /\ LogsOK'
      /\ Stored(o)' = v
      /\ \A m \in Overlays : m # o => Stored(m)' = Stored(m)
      /\ \A m \in Overlays : Cached(m)' = Cached(m)
  BY <1>1, RespectsLog, WriteFacts
<1>3. Types'
  <2>1. edits' \in 0..MaxEdits
    BY <1>1, OverlayTypesAssumption DEF UserEdit, Types, TypeOK
  <2>2. NodeNames(obj.spec)' = NodeNames(obj.spec)
    BY DEF NodeNames
  <2> QED BY <1>1, <1>2, <2>1, <2>2 DEF Types, TypeOK, DownOK
<1>4. v.rv \in Nat /\ \A m \in Overlays : Stored(m).rv \in Nat
  BY <1>1, LogTypes DEF Version
<1>5. obj.rv \in Nat
  BY <1>1 DEF Types, TypeOK, Version
<1>6. pc # "idle" => req \in Overlays
  BY <1>1 DEF Types, TypeOK
<1>7. ObjOK'
  <2> SUFFICES ASSUME pc # "idle"
               PROVE  /\ obj.rv <= Stored(req)'.rv
                      /\ obj.rv = Stored(req)'.rv => obj = Stored(req)'
    BY DEF ObjOK, Stored
  <2>1. obj.rv <= Stored(req).rv /\ (obj.rv = Stored(req).rv => obj = Stored(req))
    BY DEF IndInv, ObjOK
  <2>2. CASE req = o
    BY <1>2, <1>4, <1>5, <2>1, <2>2
  <2>3. CASE req # o
    BY <1>2, <1>6, <2>1, <2>3
  <2> QED BY <2>2, <2>3
<1>8. CopyOK'
  BY <1>2, <1>6 DEF IndInv, CopyOK
<1>9. ClaimOK' /\ IdleOK' /\ AddressOK'
  BY DEF IndInv, ClaimOK, IdleOK, AddressOK
<1>10. PlaceOK'
  <2> SUFFICES ASSUME pc \in {"resolve", "address", "apply"} PROVE Keeps(obj, Stored(req)')
    BY DEF PlaceOK, Keeps, NodeNames, Stored
  <2>1. Keeps(obj, Stored(req)) /\ req \in Overlays
    BY <1>6 DEF IndInv, PlaceOK
  <2>2. CASE req = o
    BY <1>2, <2>1, <2>2 DEF Respects, Keeps
  <2>3. CASE req # o
    BY <1>2, <2>1, <2>3
  <2> QED BY <2>2, <2>3
<1>11. DeleteOK'
  BY <1>2, <1>6 DEF IndInv, DeleteOK, Respects
<1>12. ProgressOK'
  BY DEF IndInv, ProgressOK, WorkKey
<1>13. WorksOK'
  <2>1. \A k \in WorkKeys :
           works'[k] # NoWork => k[2] = WorkName[works'[k].slice.name]
    BY DEF IndInv, WorksOK
  <2>2. ASSUME ~MayDropClusters, NEW k \in WorkKeys, works[k] # NoWork
        PROVE  /\ Stored(works[k].slice)'.finalizer
               /\ k[1] \in NodeNames(Stored(works[k].slice)'.spec)
    <3>1. works[k].slice \in Overlays
      BY <1>1, <2>2 DEF Types, TypeOK, OverlayWork
    <3>2. /\ Stored(works[k].slice).finalizer
          /\ k[1] \in NodeNames(Stored(works[k].slice).spec)
      BY <2>2 DEF IndInv, WorksOK, NoOrphanWork
    <3>3. CASE works[k].slice = o
      BY <1>2, <2>2, <3>2, <3>3 DEF Respects, Keeps
    <3>4. CASE works[k].slice # o
      BY <1>2, <3>1, <3>2, <3>4
    <3> QED BY <3>3, <3>4
  <2> QED BY <2>1, <2>2 DEF WorksOK, NoOrphanWork, NodeNames, Stored
<1> QED BY <1>3, <1>2, <1>7, <1>8, <1>9, <1>10, <1>11, <1>12, <1>13 DEF IndInv

LEMMA SpecTypes ==
    NoSpec \in SliceOverlaySpec /\ \A k \in Nat : Absent(k) \in Version
  BY OverlayTypesAssumption DEF NoSpec, Absent, Version, SliceOverlaySpec

LEMMA NextRv == \A k \in Nat : k + 1 \in Nat
  OBVIOUS

LEMMA CreateOverlayStep ==
    ASSUME IndInv, NEW o \in Overlays, NEW s \in Specs, CreateOverlay(o, s)
    PROVE  IndInv'
<1> DEFINE v == [phase |-> "live", finalizer |-> FALSE,
                 rv |-> Stored(o).rv + 1, spec |-> s]
<1>1. Types /\ LogsOK
  BY DEF IndInv
<1>2. Stored(o).rv \in Nat /\ EntryOK(Stored(o))
  BY <1>1, LogTypes, CachedBeforeStored
<1>3. v \in Version
  BY <1>2, OverlaySpecsAssumption DEF Version
<1>4. Stored(o).phase = "absent" /\ Write(o, v)
  BY DEF CreateOverlay
<1>5. EntryOK(v) /\ Stored(o).rv < v.rv
  BY <1>2, OverlaySpecsAssumption DEF EntryOK
<1>6. ~Stored(o).finalizer
  BY <1>2, <1>4 DEF EntryOK
<1>7. Stored(o).finalizer \in BOOLEAN
  BY <1>1, LogTypes DEF Version
<1>8. Respects(Stored(o), v)
  BY <1>4, <1>6, <1>7 DEF Respects
<1>9. UserEdit /\ OverlayEditOnly
  BY DEF CreateOverlay
<1> HIDE DEF v
<1> QED BY <1>3, <1>4, <1>5, <1>8, <1>9, UserWriteStep

LEMMA UpdateOverlayStep ==
    ASSUME IndInv, NEW o \in Overlays, NEW s \in Specs, UpdateOverlay(o, s)
    PROVE  IndInv'
<1> DEFINE v == [Stored(o) EXCEPT !.rv = @ + 1, !.spec = s]
<1>1. Types /\ LogsOK
  BY DEF IndInv
<1>2. Stored(o) \in Version /\ Stored(o).rv \in Nat /\ EntryOK(Stored(o))
  BY <1>1, LogTypes, CachedBeforeStored
<1>3. s \in SliceOverlaySpec
  BY OverlaySpecsAssumption
<1>4. /\ v.phase = Stored(o).phase /\ v.finalizer = Stored(o).finalizer
      /\ v.rv = Stored(o).rv + 1 /\ v.spec = s
  BY <1>2, <1>3 DEF Version
<1>10. v \in Version
  BY <1>2, <1>3, NextRv, Zenon DEF Version
<1>5. Write(o, v) /\ UserEdit /\ OverlayEditOnly
  BY DEF UpdateOverlay
<1>6. MayDropClusters \/ NodeNames(Stored(o).spec) \subseteq NodeNames(s)
  BY DEF UpdateOverlay
<1> HIDE DEF v
<1>7. NodeNames(v.spec) = NodeNames(s)
  BY <1>4 DEF NodeNames
<1>8. EntryOK(v) /\ Stored(o).rv < v.rv
  BY <1>2, <1>4, OverlaySpecsAssumption DEF EntryOK
<1>9. Respects(Stored(o), v)
  BY <1>4, <1>6, <1>7 DEF Respects, Keeps
<1> QED BY <1>5, <1>8, <1>9, <1>10, UserWriteStep

LEMMA DeleteOverlayStep ==
    ASSUME IndInv, NEW o \in Overlays, DeleteOverlay(o)
    PROVE  IndInv'
<1> DEFINE v == IF Stored(o).finalizer
                THEN [Stored(o) EXCEPT !.rv = @ + 1, !.phase = "terminating"]
                ELSE Absent(Stored(o).rv + 1)
<1>1. Types /\ LogsOK
  BY DEF IndInv
<1>2. Stored(o) \in Version /\ Stored(o).rv \in Nat /\ EntryOK(Stored(o))
  BY <1>1, LogTypes, CachedBeforeStored
<1>3. Write(o, v) /\ UserEdit /\ OverlayEditOnly /\ Stored(o).phase = "live"
  BY DEF DeleteOverlay
<1>4. CASE Stored(o).finalizer
  <2>0. v = [Stored(o) EXCEPT !.rv = @ + 1, !.phase = "terminating"]
    BY <1>4
  <2> HIDE DEF v
  <2>5. v \in Version
    BY <1>2, <2>0, NextRv, Zenon DEF Version
  <2>1. /\ v.phase = "terminating" /\ v.finalizer
        /\ v.rv = Stored(o).rv + 1 /\ v.spec = Stored(o).spec
    BY <1>2, <1>4, <2>0 DEF Version
  <2>2. EntryOK(v) /\ Stored(o).rv < v.rv
    BY <1>2, <1>3, <2>1 DEF EntryOK
  <2>3. v.finalizer = TRUE /\ Stored(o).finalizer = TRUE
    BY <1>2, <1>4, <2>1 DEF Version
  <2>4. Respects(Stored(o), v)
    BY <2>1, <2>3 DEF Respects, Keeps, NodeNames
  <2> QED BY <1>3, <2>2, <2>4, <2>5, UserWriteStep
<1>5. CASE ~Stored(o).finalizer
  <2>1. v \in Version
    BY <1>2, <1>5, SpecTypes
  <2>2. v.phase = "absent" /\ v.finalizer = FALSE /\ v.rv = Stored(o).rv + 1
    BY <1>5 DEF Absent
  <2> HIDE DEF v
  <2>3. EntryOK(v) /\ Stored(o).rv < v.rv
    BY <1>2, <2>2 DEF EntryOK
  <2>4. Stored(o).finalizer = FALSE
    BY <1>2, <1>5 DEF Version
  <2>5. Respects(Stored(o), v)
    BY <1>3, <2>2, <2>4 DEF Respects
  <2> QED BY <1>3, <2>1, <2>3, <2>5, UserWriteStep
<1> QED BY <1>4, <1>5

-----------------------------------------------------------------------------
(* Every step preserves the invariant: profiles, informers and handlers. *)

\* The parts of IndInv about networks and works, by the variables they name.
LEMMA Frame ==
    ASSUME IndInv, UNCHANGED <<log, pc, worker, works>>
    PROVE  LogsOK' /\ IdleOK' /\ ObjOK' /\ CopyOK' /\ ClaimOK' /\ PlaceOK' /\ AddressOK' /\ DeleteOK'
             /\ ProgressOK' /\ WorksOK'
<1>1. LogsOK'
  <2>1. \A o \in Overlays : LogOK(log'[o])
    BY DEF IndInv, LogsOK
  <2> QED BY <2>1 DEF LogsOK, LogOK, EntryOK, Claims, Keeps, NodeNames
<1>2. IdleOK' /\ ObjOK' /\ CopyOK' /\ ClaimOK' /\ DeleteOK'
  BY DEF IndInv, worker, IdleOK, ObjOK, CopyOK, ClaimOK, DeleteOK, Stored, Cached
<1>6. AddressOK'
  BY DEF IndInv, worker, AddressOK
<1>3. PlaceOK'
  <2>1. Stored(req)' = Stored(req) /\ obj' = obj /\ pc' = pc
    BY DEF worker, Stored
  <2>2. NodeNames(obj.spec)' = NodeNames(obj.spec)
        /\ NodeNames(Stored(req).spec)' = NodeNames(Stored(req).spec)
    BY <2>1 DEF NodeNames
  <2> QED BY <2>1, <2>2 DEF IndInv, PlaceOK, Keeps
<1>4. ProgressOK'
  BY DEF IndInv, worker, ProgressOK, WorkKey
<1>5. WorksOK'
  BY DEF IndInv, WorksOK, NoOrphanWork, NodeNames, Stored
<1> QED BY <1>1, <1>2, <1>3, <1>4, <1>5, <1>6

LEMMA WriteProfileStep ==
    ASSUME IndInv, NEW p \in EditableProfiles,
           NEW v \in Providers \cup {NoProvider}, WriteProfile(p, v)
    PROVE  IndInv'
<1>1. Types
  BY DEF IndInv
<1>2. UNCHANGED <<log, pc, worker, works>>
  BY DEF WriteProfile
<1>3. p \in NamespacedName
  BY OverlayKeysAssumption
<1>4. /\ plog[p] \in Seq(Providers \cup {NoProvider})
      /\ plog' = [plog EXCEPT ![p] = Append(plog[p], v)]
  BY <1>1, <1>3 DEF WriteProfile, Types, TypeOK
<1>5. /\ Append(plog[p], v) \in Seq(Providers \cup {NoProvider})
      /\ Append(plog[p], v) # << >>
  BY <1>4
<1>6. /\ plog' \in [NamespacedName -> Seq(Providers \cup {NoProvider})]
      /\ \A q \in NamespacedName : plog'[q] # << >>
  BY <1>1, <1>3, <1>4, <1>5 DEF Types, TypeOK
<1>7. edits' \in 0..MaxEdits
  BY <1>1, OverlayTypesAssumption DEF WriteProfile, UserEdit, Types, TypeOK
<1>9. NodeNames(obj.spec)' = NodeNames(obj.spec)
  BY <1>2 DEF NodeNames, worker
<1>8. Types'
  BY <1>1, <1>6, <1>7, <1>9 DEF Types, TypeOK, DownOK, WriteProfile, worker, process
<1> QED BY <1>2, <1>8, Frame DEF IndInv

LEMMA MoveClusterStep ==
    ASSUME IndInv, NEW c \in Clusters, NEW a \in IPAddresses \cup {Empty},
           MoveCluster(c, a)
    PROVE  IndInv'
<1>1. Types
  BY DEF IndInv
<1>2. UNCHANGED <<log, pc, worker, works>>
  BY DEF MoveCluster
<1>3. NodeNames(obj.spec)' = NodeNames(obj.spec)
  BY <1>2 DEF NodeNames, worker
<1>4. edits' \in 0..MaxEdits
  BY <1>1, OverlayTypesAssumption DEF MoveCluster, UserEdit, Types, TypeOK
<1>5. endpoint' \in [Clusters -> IPAddresses \cup {Empty}]
  BY <1>1 DEF MoveCluster, Types, TypeOK
<1>6. Types'
  BY <1>1, <1>3, <1>4, <1>5 DEF Types, TypeOK, DownOK, MoveCluster, worker, process
<1> QED BY <1>2, <1>6, Frame DEF IndInv

LEMMA DeliverOverlayStep ==
    ASSUME IndInv, NEW o \in Overlays, DeliverOverlay(o)
    PROVE  IndInv'
<1>1. Types /\ LogsOK
  BY DEF IndInv
<1>2. log[o] \in Seq(Version) /\ Len(log[o]) > 1 /\ LogOK(log[o])
  BY <1>1 DEF Types, TypeOK, LogsOK, DeliverOverlay
<1>3. /\ log' = [log EXCEPT ![o] = Tail(log[o])]
      /\ queue' = queue \cup {o}
      /\ UNCHANGED <<plog, endpoint, profileEvents, pc, req, obj, prov, clusterMaps, pos,
                   works, leaving, env, MDClient, edits, faults>>
  BY DEF DeliverOverlay, worker, process
<1>4. log'[o] = Tail(log[o]) /\ \A m \in Overlays : m # o => log'[m] = log[m]
  BY <1>1, <1>3 DEF Types, TypeOK
<1>5. /\ Tail(log[o]) \in Seq(Version) /\ Tail(log[o]) # << >>
      /\ Tail(log[o])[Len(Tail(log[o]))] = log[o][Len(log[o])]
  BY <1>2, TailFacts
<1>6. LogOK(Tail(log[o])) /\ log[o][1].rv < Tail(log[o])[1].rv
  BY <1>2, TailLogOK
<1>7. /\ log' \in [Overlays -> Seq(Version)]
      /\ \A m \in Overlays : log'[m] # << >>
  BY <1>1, <1>3, <1>4, <1>5 DEF Types, TypeOK
<1>20. NodeNames(obj.spec)' = NodeNames(obj.spec) /\ MDClient # "none"
  BY <1>3 DEF NodeNames, DeliverOverlay
<1>8. Types'
  BY <1>1, <1>3, <1>7, <1>20 DEF Types, TypeOK, DownOK
<1>9. LogsOK'
  <2> SUFFICES ASSUME NEW m \in Overlays PROVE LogOK(log'[m])
    BY DEF LogsOK, LogOK, EntryOK, Claims, Keeps, NodeNames
  <2> QED BY <1>1, <1>4, <1>6 DEF LogsOK
<1>10. \A m \in Overlays : Stored(m)' = Stored(m)
  BY <1>4, <1>5 DEF Stored
<1>11. \A m \in Overlays : /\ log[m][1].rv \in Nat /\ log'[m][1].rv \in Nat
                            /\ log[m][1].rv <= log'[m][1].rv
  <2> TAKE m \in Overlays
  <2>1. log[m][1].rv \in Nat /\ log'[m][1].rv \in Nat
    BY <1>1, <1>7, HeadType DEF Types, TypeOK
  <2>2. CASE m = o
    <3>1. log[m][1].rv < log'[m][1].rv
      BY <1>4, <1>6, <2>2, Zenon
    <3> QED BY <2>1, <3>1
  <2>3. CASE m # o
    BY <1>4, <2>1, <2>3
  <2> QED BY <2>1, <2>2, <2>3
<1>12. obj.rv \in Nat /\ (pc # "idle" => req \in Overlays)
  BY <1>1 DEF Types, TypeOK, Version
<1>13. ObjOK'
  BY <1>3, <1>10, <1>12 DEF IndInv, ObjOK
<1>14. CopyOK'
  <2> SUFFICES ASSUME pc \in {"claim", "delete", "release"}
               PROVE  obj.rv <= log'[req][1].rv
    BY <1>3 DEF CopyOK, Cached
  <2>1. obj.rv <= log[req][1].rv /\ req \in Overlays
    BY <1>12 DEF IndInv, CopyOK, Cached
  <2> QED BY <1>11, <1>12, <2>1
<1>15. ClaimOK' /\ IdleOK' /\ AddressOK'
  BY <1>3 DEF IndInv, ClaimOK, IdleOK, AddressOK
<1>16. PlaceOK'
  <2>1. SUFFICES ASSUME pc \in {"resolve", "address", "apply"} PROVE Keeps(obj, Stored(req)')
    BY <1>3 DEF PlaceOK, Keeps, NodeNames
  <2>2. Keeps(obj, Stored(req))
    BY <2>1 DEF IndInv, PlaceOK
  <2>3. req \in Overlays
    BY <1>12, <2>1
  <2>4. Stored(req)' = Stored(req)
    BY <1>3, <1>10, <2>3 DEF Stored
  <2> QED BY <2>2, <2>4
<1>17. DeleteOK'
  BY <1>3, <1>10, <1>12 DEF IndInv, DeleteOK
<1>18. ProgressOK'
  BY <1>3 DEF IndInv, ProgressOK, WorkKey
<1>19. WorksOK'
  <2>1. \A k \in WorkKeys : works[k] # NoWork => works[k].slice \in Overlays
    BY <1>1 DEF Types, TypeOK, OverlayWork
  <2> QED BY <1>3, <1>10, <2>1 DEF IndInv, WorksOK, NoOrphanWork, NodeNames
<1> QED BY <1>8, <1>9, <1>13, <1>14, <1>15, <1>16, <1>17, <1>18, <1>19 DEF IndInv

LEMMA DeliverProfileStep ==
    ASSUME IndInv, NEW p \in NamespacedName, DeliverProfile(p)
    PROVE  IndInv'
<1>1. Types
  BY DEF IndInv
<1>2. UNCHANGED <<log, pc, worker, works>>
  BY DEF DeliverProfile
<1>3. /\ plog[p] \in Seq(Providers \cup {NoProvider}) /\ Len(plog[p]) > 1
      /\ plog' = [plog EXCEPT ![p] = Tail(plog[p])]
  BY <1>1 DEF DeliverProfile, Types, TypeOK
<1>4. /\ Tail(plog[p]) \in Seq(Providers \cup {NoProvider})
      /\ Tail(plog[p]) # << >>
  BY <1>3, TailFacts
<1>5. /\ plog' \in [NamespacedName -> Seq(Providers \cup {NoProvider})]
      /\ \A q \in NamespacedName : plog'[q] # << >>
  BY <1>1, <1>3, <1>4 DEF Types, TypeOK
<1>7. NodeNames(obj.spec)' = NodeNames(obj.spec)
  BY <1>2 DEF NodeNames, worker
<1>6. Types'
  BY <1>1, <1>5, <1>7 DEF Types, TypeOK, DownOK, DeliverProfile, worker, process
<1> QED BY <1>2, <1>6, Frame DEF IndInv

LEMMA HandlerStep ==
    ASSUME IndInv, NEW p \in NamespacedName,
           requestsForProviderProfile(p) \/ requestsListError(p)
    PROVE  IndInv'
<1>1. Types
  BY DEF IndInv
<1>2. UNCHANGED <<log, pc, worker, works>>
  BY DEF requestsForProviderProfile, requestsListError
<1>3. Types'
  <2>1. faults' \in 0..MaxFaults
    BY <1>1, OverlayTypesAssumption DEF requestsForProviderProfile, requestsListError, Types, TypeOK
  <2>2. queue' \subseteq Overlays /\ profileEvents' \subseteq NamespacedName
    BY <1>1 DEF requestsForProviderProfile, requestsListError, Types, TypeOK
  <2>3. NodeNames(obj.spec)' = NodeNames(obj.spec)
    BY <1>2 DEF NodeNames, worker
  <2>4. MDClient # "none"
    BY <1>1 DEF requestsForProviderProfile, requestsListError, Types, DownOK
  <2> QED BY <1>1, <1>2, <2>1, <2>2, <2>3, <2>4
          DEF requestsForProviderProfile, requestsListError, Types, TypeOK, DownOK,
              worker, process
<1> QED BY <1>2, <1>3, Frame DEF IndInv

-----------------------------------------------------------------------------
(* Every step preserves the invariant: Reconcile. *)

LEMMA LogsFrame ==
    ASSUME LogsOK, UNCHANGED log
    PROVE  LogsOK'
<1>1. \A o \in Overlays : LogOK(log'[o])
  BY DEF LogsOK
<1> QED BY <1>1 DEF LogsOK, LogOK, EntryOK, Claims, Keeps, NodeNames

LEMMA WorksFrame ==
    ASSUME Types, WorksOK, UNCHANGED works,
           \A m \in Overlays : Stored(m)' = Stored(m)
    PROVE  WorksOK'
<1>1. \A k \in WorkKeys : works[k] # NoWork => works[k].slice \in Overlays
  BY DEF Types, TypeOK, OverlayWork
<1> QED BY <1>1 DEF WorksOK, NoOrphanWork, NodeNames

\* An idle worker has nothing to be right about.
LEMMA IdleWorker ==
    ASSUME Idle
    PROVE  /\ IdleOK' /\ ObjOK' /\ CopyOK' /\ ClaimOK' /\ PlaceOK' /\ AddressOK'
           /\ DeleteOK' /\ ProgressOK'
  BY DEF Idle, IdleOK, ObjOK, CopyOK, ClaimOK, PlaceOK, AddressOK, DeleteOK, ProgressOK

LEMMA IdleType ==
    ASSUME Idle
    PROVE  /\ pc' = "idle" /\ req' = NoRequest /\ obj' \in Version
           /\ prov' = NoProvider /\ pos' = 1
           /\ clusterMaps' \in [Clusters -> IPAddresses \cup {Empty}]
  BY SpecTypes DEF Idle, NoAddresses

LEMMA FaultType ==
    ASSUME Types, faults' = faults \/ (faults < MaxFaults /\ faults' = faults + 1)
    PROVE  faults' \in 0..MaxFaults
  BY OverlayTypesAssumption DEF Types, TypeOK

\* The types of a worker that has just returned; what it wrote is typed.
LEMMA ReturnTypes ==
    ASSUME Types, pc # "idle", Idle,
           log' \in [Overlays -> Seq(Version)], \A o \in Overlays : log'[o] # << >>,
           works' \in [WorkKeys -> OverlayWork \cup {NoWork}], leaving' \subseteq WorkKeys,
           UNCHANGED <<plog, endpoint, profileEvents, env, MDClient, edits>>,
           queue' = queue \/ queue' = queue \cup {req},
           faults' = faults \/ (faults < MaxFaults /\ faults' = faults + 1)
    PROVE  Types'
<1>1. faults' \in 0..MaxFaults
  BY FaultType
<1>2. MDClient # "none" /\ req \in Overlays
  BY DEF Types, TypeOK
<1>3. queue' \subseteq Overlays
  BY <1>2 DEF Types, TypeOK
<1>4. TypeOK'
  BY <1>1, <1>2, <1>3, IdleType DEF Types, TypeOK
<1> QED BY <1>4 DEF Types, DownOK

\* Reconcile returns, having written nothing.
LEMMA ReturnStep ==
    ASSUME IndInv, pc # "idle", Idle,
           UNCHANGED <<log, plog, endpoint, profileEvents, works, leaving, env, MDClient, edits>>,
           queue' = queue \/ queue' = queue \cup {req},
           faults' = faults \/ (faults < MaxFaults /\ faults' = faults + 1)
    PROVE  IndInv'
<1>1. Types /\ LogsOK /\ WorksOK
  BY DEF IndInv
<1>2. Types'
  BY <1>1, ReturnTypes DEF Types, TypeOK
<1>3. LogsOK'
  BY <1>1, LogsFrame
<1>4. WorksOK'
  BY <1>1, WorksFrame DEF Stored
<1> QED BY <1>2, <1>3, <1>4, IdleWorker DEF IndInv

LEMMA UpdateRefusedStep ==
    ASSUME IndInv, UpdateRefused
    PROVE  IndInv'
BY ReturnStep DEF UpdateRefused, ReturnError, process

LEMMA CallFailsStep ==
    ASSUME IndInv, CallFails
    PROVE  IndInv'
BY ReturnStep DEF CallFails, ReplyLost, ReturnError, process

LEMMA RestDeleteSliceStep ==
    ASSUME IndInv, RestDeleteSlice
    PROVE  IndInv'
BY ReturnStep DEF RestDeleteSlice, ReturnError, process

\* A step of the worker that writes nothing and goes on with the same copy:
\* what its next step relies on is a matter of pc, prov, clusterMaps and pos.
LEMMA SameCopyStep ==
    ASSUME IndInv, pc # "idle", Types', IdleOK', AddressOK', ProgressOK',
           UNCHANGED <<log, works, req, obj>>,
           pc' = pc \/ (pc \in {"resolve", "address"} /\ pc' \in {"address", "apply"})
    PROVE  IndInv'
<1>1. Types /\ LogsOK /\ WorksOK
  BY DEF IndInv
<1>2. Stored(req)' = Stored(req) /\ Cached(req)' = Cached(req)
  BY DEF Stored, Cached
<1>3. ObjOK' /\ CopyOK' /\ ClaimOK' /\ DeleteOK'
  BY <1>2 DEF IndInv, ObjOK, CopyOK, ClaimOK, DeleteOK
<1>4. PlaceOK'
  <2>1. NodeNames(obj.spec)' = NodeNames(obj.spec)
        /\ NodeNames(Stored(req).spec)' = NodeNames(Stored(req).spec)
    BY <1>2 DEF NodeNames
  <2>2. pc' \in {"resolve", "address", "apply"} => pc \in {"resolve", "address", "apply"}
    OBVIOUS
  <2> QED BY <1>2, <2>1, <2>2 DEF IndInv, PlaceOK, Keeps
<1>5. LogsOK'
  BY <1>1, LogsFrame
<1>6. WorksOK'
  BY <1>1, WorksFrame DEF Stored
<1> QED BY <1>3, <1>4, <1>5, <1>6 DEF IndInv

\* The lists of the copy that the worker holds.
LEMMA CopyTypes ==
    ASSUME Types
    PROVE  /\ obj.spec \in SliceOverlaySpec
           /\ Len(obj.spec.nodes) \in Nat
           /\ obj.spec.nodes = << >> <=> Len(obj.spec.nodes) = 0
           /\ \A i \in 1..Len(obj.spec.nodes) :
                 /\ obj.spec.nodes[i] \in OverlayCluster
                 /\ obj.spec.nodes[i].name \in Clusters
                 /\ obj.spec.nodes[i].gateway \in IPAddresses \cup {Empty}
                 /\ obj.spec.nodes[i].name \in NodeNames(obj.spec)
<1>1. obj.spec \in SliceOverlaySpec
  BY DEF Types, TypeOK, Version
<1>2. obj.spec.nodes \in Seq(OverlayCluster)
  BY <1>1 DEF SliceOverlaySpec
<1>3. Len(obj.spec.nodes) \in Nat /\ (obj.spec.nodes = << >> <=> Len(obj.spec.nodes) = 0)
  BY <1>2
<1>4. \A i \in 1..Len(obj.spec.nodes) : obj.spec.nodes[i] \in OverlayCluster
  BY <1>2
<1> QED BY <1>1, <1>3, <1>4 DEF OverlayCluster, NodeNames

LEMMA ResolveProviderStep ==
    ASSUME IndInv, ResolveProvider
    PROVE  IndInv'
<1> DEFINE p == resolveProvider(CachedProfiles, req.namespace, obj.spec)
<1>1. Types /\ pc = "resolve" /\ pos = 1 /\ req \in Overlays
  BY DEF IndInv, ResolveProvider, Types, TypeOK, IdleOK
<1>2. UNCHANGED <<log, plog, endpoint, profileEvents, works, leaving, env, MDClient, edits, faults>>
  BY DEF ResolveProvider, process
<1>3. CASE Idle /\ (queue' = queue \/ queue' = queue \cup {req})
  BY <1>1, <1>2, <1>3, ReturnStep
<1>4. CASE /\ p # NoProvider /\ obj.spec.nodes # << >>
           /\ prov' = p /\ pc' = "address"
           /\ UNCHANGED <<req, obj, clusterMaps, pos, queue>>
  <2>1. p \in Providers \cup {NoProvider}
    <3>1. \A q \in NamespacedName : plog[q][1] \in Providers \cup {NoProvider}
      BY <1>1 DEF Types, TypeOK
    <3>2. obj.spec \in SliceOverlaySpec
      BY <1>1, CopyTypes
    <3>3. obj.spec.provider \in Providers \cup {NoProvider}
          /\ obj.spec.providerRef \in ProviderReference \cup {NoRef}
      BY <3>2 DEF SliceOverlaySpec
    <3>4. req.namespace \in Namespaces
      BY <1>1, OverlayKeysAssumption DEF NamespacedName
    <3>5. ProfileKey(req.namespace, obj.spec.providerRef) \in NamespacedName
      BY <3>3, <3>4, NamesAssumption
         DEF ProfileKey, NamespacedName, ProviderReference, DefaultIfEmpty, Empty
    <3> QED BY <3>1, <3>3, <3>5
            DEF resolveProvider, resolveProviderReference, CachedProfiles
  <2> HIDE DEF p
  <2>2. 1 \in 1..Len(obj.spec.nodes) /\ \A i \in 1..Len(obj.spec.nodes) : ~(i < 1)
    BY <1>1, <1>4, CopyTypes
  <2>3. Types'
    BY <1>1, <1>2, <1>4, <2>1, <2>2 DEF Types, TypeOK, DownOK
  <2>4. IdleOK' /\ ProgressOK'
    BY <1>4 DEF IdleOK, ProgressOK
  <2>5. AddressOK'
    BY <1>1, <1>4, <2>1, <2>2 DEF AddressOK
  <2> QED BY <1>1, <1>2, <1>4, <2>3, <2>4, <2>5, SameCopyStep
<1> QED BY <1>3, <1>4 DEF ResolveProvider, ReturnError

\* The first loop keeps the addresses it has and adds one.
LEMMA ResolveAddressStep ==
    ASSUME IndInv, ResolveAddress
    PROVE  IndInv'
<1> DEFINE node == obj.spec.nodes[pos]
           a == resolvedIP(node)
<1>1. Types /\ pc = "address" /\ prov \in Providers /\ pos \in 1..Len(obj.spec.nodes)
  BY DEF IndInv, ResolveAddress, Types, TypeOK, AddressOK
<1>2. UNCHANGED <<log, plog, endpoint, profileEvents, works, leaving, env, MDClient, edits, faults>>
  BY DEF ResolveAddress, process
<1>3. CASE Idle /\ queue' = queue \cup {req}
  BY <1>1, <1>2, <1>3, ReturnStep
<1>4. CASE /\ a # Empty
           /\ clusterMaps' = [clusterMaps EXCEPT ![node.name] = a]
           /\ \/ pos # Len(obj.spec.nodes) /\ pos' = pos + 1 /\ pc' = pc
              \/ pos = Len(obj.spec.nodes) /\ pos' = 1 /\ pc' = "apply"
           /\ UNCHANGED <<req, obj, prov, queue>>
  <2>1. /\ Len(obj.spec.nodes) \in Nat
        /\ \A i \in 1..Len(obj.spec.nodes) : obj.spec.nodes[i].name \in Clusters
        /\ node.name \in Clusters /\ node.gateway \in IPAddresses \cup {Empty}
    BY <1>1, CopyTypes
  <2>2. a \in IPAddresses \cup {Empty}
    BY <1>1, <2>1 DEF resolvedIP, DefaultIfEmpty, Types, TypeOK
  <2>3. \A i \in 1..Len(obj.spec.nodes) : i < pos => clusterMaps[obj.spec.nodes[i].name] # Empty
    BY <1>1 DEF IndInv, AddressOK
  <2> HIDE DEF a
  <2>4. clusterMaps' \in [Clusters -> IPAddresses \cup {Empty}]
    BY <1>1, <1>4, <2>1, <2>2 DEF Types, TypeOK
  <2>5. \A i \in 1..Len(obj.spec.nodes) : i <= pos => clusterMaps'[obj.spec.nodes[i].name] # Empty
    <3> SUFFICES ASSUME NEW i \in 1..Len(obj.spec.nodes), i <= pos
                 PROVE  clusterMaps'[obj.spec.nodes[i].name] # Empty
      OBVIOUS
    <3>1. clusterMaps \in [Clusters -> IPAddresses \cup {Empty}]
      BY <1>1 DEF Types, TypeOK
    <3>2. CASE i = pos
      BY <1>4, <2>1, <3>1, <3>2
    <3>3. CASE i < pos
      <4>1. clusterMaps[obj.spec.nodes[i].name] # Empty
        BY <2>3, <3>3
      <4> QED BY <1>4, <2>1, <3>1, <4>1
    <3> QED BY <1>1, <2>1, <3>2, <3>3
  <2>6. pos' \in 1..Len(obj.spec.nodes) /\ pc' \in {"address", "apply"}
    BY <1>1, <1>4, <2>1
  <2>7. pc' = "apply" => \A c \in NodeNames(obj.spec) : clusterMaps'[c] # Empty
    BY <1>1, <1>4, <2>1, <2>5 DEF NodeNames
  <2>8. NodeNames(obj.spec)' = NodeNames(obj.spec)
    BY <1>4 DEF NodeNames
  <2>9. Types'
    BY <1>1, <1>2, <1>4, <2>4, <2>6, <2>7, <2>8 DEF Types, TypeOK, DownOK
  <2>10. IdleOK' /\ ProgressOK'
    BY <2>6 DEF IdleOK, ProgressOK
  <2>11. AddressOK'
    <3>1. pc' = "address" => \A i \in 1..Len(obj.spec.nodes) : i < pos' => i <= pos
      BY <1>1, <1>4, <2>1
    <3> QED BY <1>1, <1>4, <2>5, <3>1 DEF AddressOK
  <2> QED BY <1>1, <1>2, <1>4, <2>6, <2>9, <2>10, <2>11, SameCopyStep
<1> QED BY <1>3, <1>4 DEF ResolveAddress, NoEndpoint, ReturnError, LastNode

\* What Reconcile may rely on when it starts from the cached version.
LEMMA StartReconcileStep ==
    ASSUME IndInv, NEW o \in Overlays, StartReconcile(o)
    PROVE  IndInv'
<1>1. Types /\ LogsOK /\ pc = "idle" /\ pos = 1 /\ MDClient # "none"
  BY DEF IndInv, IdleOK, StartReconcile, Types, TypeOK
<1>2. /\ UNCHANGED <<log, plog, endpoint, profileEvents, works, leaving, env, MDClient, edits, faults>>
      /\ queue' \subseteq Overlays
  BY <1>1 DEF StartReconcile, Types, TypeOK, process
<1>3. CASE UNCHANGED <<pc, worker>>
  <2>1. NodeNames(obj.spec)' = NodeNames(obj.spec)
    BY <1>3 DEF NodeNames, worker
  <2>2. Types'
    BY <1>1, <1>2, <1>3, <2>1 DEF Types, TypeOK, DownOK, worker
  <2> QED BY <1>2, <1>3, <2>2, Frame DEF IndInv
<1>4. CASE /\ Cached(o).phase # "absent"
           /\ Cached(o).phase = "terminating" =>
                 pc' = IF DeletesNothing(Cached(o).spec) THEN "release" ELSE "delete"
           /\ Cached(o).phase = "live" => pc' = FirstStep(o)
           /\ req' = o /\ obj' = Cached(o) /\ UNCHANGED <<prov, clusterMaps, pos>>
  <2>1. /\ Cached(o) \in Version /\ Stored(o) \in Version
        /\ Cached(o).rv \in Nat /\ Stored(o).rv \in Nat
    BY <1>1, LogTypes
  <2>2. /\ Cached(o).rv <= Stored(o).rv
        /\ Cached(o).rv = Stored(o).rv => Cached(o) = Stored(o)
        /\ EntryOK(Cached(o))
        /\ Claims(Cached(o)) => Keeps(Cached(o), Stored(o))
        /\ Cached(o).phase = "terminating" /\ Stored(o).finalizer
             => Stored(o).phase = "terminating"
    BY <1>1, CachedBeforeStored
  <2>3. Cached(o).phase = "live" \/ Cached(o).phase = "terminating"
    BY <1>4, <2>1 DEF Version
  <2>4. o # NoRequest
    BY OverlayKeysAssumption
  <2>5. Cached(o).spec.nodes # << >> => 1 \in 1..Len(Cached(o).spec.nodes)
    <3>1. Cached(o).spec.nodes \in Seq(OverlayCluster)
      BY <2>1 DEF Version, SliceOverlaySpec
    <3> QED BY <3>1
  <2>6. /\ pc' \in {"release", "delete", "resolve", "claim"}
        /\ pc' \in {"release", "delete"} <=> Cached(o).phase = "terminating"
        /\ pc' = "resolve" => Claims(Cached(o))
        /\ pc' = "claim" => ~Cached(o).finalizer
        /\ pc' = "release" => Cached(o).spec.nodes = << >>
        /\ pc' = "delete" /\ MDClient = "ocm" => Cached(o).spec.nodes # << >>
    BY <1>4, <2>3 DEF FirstStep, DeletesNothing, Claims
  <2>7. Types'
    BY <1>1, <1>2, <1>4, <2>1, <2>4, <2>5, <2>6 DEF Types, TypeOK, DownOK
  <2>8. Stored(req)' = Stored(o) /\ Cached(req)' = Cached(o) /\ obj' = Cached(o)
    BY <1>2, <1>4 DEF Stored, Cached
  <2>9. LogsOK'
    BY <1>1, <1>2, LogsFrame
  <2>10. IdleOK' /\ ObjOK' /\ AddressOK'
    BY <1>1, <1>4, <2>2, <2>6, <2>8 DEF IdleOK, ObjOK, AddressOK
  <2>11. CopyOK'
    BY <2>1, <2>8 DEF CopyOK
  <2>12. ClaimOK' /\ DeleteOK'
    BY <2>2, <2>3, <2>6, <2>8 DEF ClaimOK, DeleteOK
  <2>13. PlaceOK'
    <3> SUFFICES ASSUME pc' = "resolve" PROVE Keeps(Cached(o), Stored(o))
      <4>1. /\ NodeNames(obj.spec)' = NodeNames(Cached(o).spec)
            /\ NodeNames(Stored(req).spec)' = NodeNames(Stored(o).spec)
        BY <2>8 DEF NodeNames
      <4> QED BY <2>6, <2>8, <4>1 DEF PlaceOK, Keeps
    <3> QED BY <2>2, <2>6
  <2>14. ProgressOK'
    <3> SUFFICES ASSUME NEW i \in 1..Len(Cached(o).spec.nodes),
                        pc' = "release" \/ (pc' = "delete" /\ i < 1)
                 PROVE  FALSE
      BY <1>1, <1>4, <2>8 DEF ProgressOK
    <3>1. Len(<< >>) = 0
      OBVIOUS
    <3> QED BY <2>6, <3>1
  <2>15. WorksOK'
    BY <1>1, <1>2, WorksFrame DEF IndInv, Stored
  <2> QED BY <2>7, <2>9, <2>10, <2>11, <2>12, <2>13, <2>14, <2>15 DEF IndInv
<1> QED BY <1>3, <1>4 DEF StartReconcile, Begin

\* A write of the worker: the API server accepted it, so the worker's copy
\* was the stored version, and the cache was up to date.
LEMMA AcceptedUpdate ==
    ASSUME IndInv, pc \in {"claim", "release"}, Stored(req).rv = obj.rv
    PROVE  /\ req \in Overlays /\ obj \in Version /\ obj.rv \in Nat
           /\ obj = Stored(req) /\ Len(log[req]) = 1
           /\ log[req][1] = obj /\ EntryOK(obj)
<1>1. Types /\ LogsOK /\ ObjOK /\ CopyOK
  BY DEF IndInv
<1>2. req \in Overlays /\ obj \in Version /\ obj.rv \in Nat
  BY <1>1 DEF Types, TypeOK, Version
<1>3. obj = Stored(req) /\ obj.rv <= Cached(req).rv
  BY <1>1 DEF ObjOK, CopyOK
<1>4. Cached(req).rv <= Stored(req).rv /\ Cached(req).rv \in Nat
  BY <1>1, <1>2, CachedBeforeStored, LogTypes
<1>5. Cached(req).rv = Stored(req).rv
  BY <1>2, <1>3, <1>4
<1>6. Len(log[req]) = 1 /\ Cached(req) = Stored(req) /\ EntryOK(Stored(req))
  BY <1>1, <1>2, <1>5, CachedBeforeStored
<1> QED BY <1>2, <1>3, <1>6 DEF Cached

LEMMA AddFinalizerStep ==
    ASSUME IndInv, AddFinalizer
    PROVE  IndInv'
<1> DEFINE v == [obj EXCEPT !.finalizer = TRUE, !.rv = @ + 1]
<1>1. Types /\ LogsOK /\ WorksOK /\ pc = "claim" /\ Stored(req).rv = obj.rv
  BY DEF IndInv, AddFinalizer
<1>2. /\ req \in Overlays /\ obj \in Version /\ obj.rv \in Nat
      /\ obj = Stored(req) /\ Len(log[req]) = 1
      /\ log[req][1] = obj /\ EntryOK(obj)
  BY <1>1, AcceptedUpdate
<1>3. obj.phase = "live" /\ ~obj.finalizer
  BY <1>1 DEF IndInv, ClaimOK
<1>4. v \in Version
  BY <1>2, NextRv, Zenon DEF Version
<1>5. /\ v.phase = "live" /\ v.finalizer = TRUE /\ v.rv = obj.rv + 1
      /\ v.spec = obj.spec
  BY <1>2, <1>3 DEF Version
<1>6. /\ Write(req, v)
      /\ UNCHANGED <<plog, endpoint, profileEvents, works, leaving, env, MDClient, edits>>
  BY DEF AddFinalizer, process
<1>7. \/ pc' = "resolve" /\ obj' = v /\ UNCHANGED <<req, prov, clusterMaps, pos, queue, faults>>
      \/ ReplyLost
  BY DEF AddFinalizer
<1> HIDE DEF v
<1>8. EntryOK(v) /\ Stored(req).rv < v.rv
  BY <1>2, <1>3, <1>5 DEF EntryOK
<1>9. /\ \A i \in 1..Len(log[req]) : Claims(log[req][i]) => Keeps(log[req][i], v)
      /\ \A i \in 1..Len(log[req]) :
            log[req][i].phase = "terminating" /\ v.finalizer => v.phase = "terminating"
  BY <1>2, <1>3 DEF Claims
<1>10. PICK o \in Overlays : o = req
  BY <1>2
<1>11. /\ log' \in [Overlays -> Seq(Version)]
       /\ \A m \in Overlays : log'[m] # << >>
       /\ LogsOK'
       /\ Stored(o)' = v
       /\ \A m \in Overlays : m # o => Stored(m)' = Stored(m)
  BY <1>1, <1>4, <1>6, <1>8, <1>9, <1>10, WriteFacts
<1>12. WorksOK'
  <2>1. ASSUME ~MayDropClusters, NEW k \in WorkKeys, works[k] # NoWork
        PROVE  /\ Stored(works[k].slice)'.finalizer
               /\ k[1] \in NodeNames(Stored(works[k].slice)'.spec)
    <3>1. /\ works[k].slice \in Overlays
          /\ Stored(works[k].slice).finalizer
          /\ k[1] \in NodeNames(Stored(works[k].slice).spec)
      BY <1>1, <2>1 DEF Types, TypeOK, OverlayWork, WorksOK, NoOrphanWork
    <3>2. works[k].slice # o
      BY <1>2, <1>3, <1>10, <3>1
    <3>3. works' = works
      BY <1>6
    <3> QED BY <1>11, <3>1, <3>2, <3>3
  <2>2. \A k \in WorkKeys :
           works'[k] # NoWork => k[2] = WorkName[works'[k].slice.name]
    BY <1>1, <1>6 DEF WorksOK
  <2> QED BY <1>6, <2>1, <2>2 DEF WorksOK, NoOrphanWork, NodeNames, Stored
<1>13. CASE ReplyLost
  <2>1. Idle /\ queue' = queue \cup {req} /\ faults < MaxFaults /\ faults' = faults + 1
    BY <1>13 DEF ReplyLost, ReturnError
  <2>2. Types'
    BY <1>1, <1>6, <1>11, <2>1, ReturnTypes DEF Types, TypeOK
  <2> QED BY <1>11, <1>12, <2>1, <2>2, IdleWorker DEF IndInv
<1>14. CASE pc' = "resolve" /\ obj' = v /\ UNCHANGED <<req, prov, clusterMaps, pos, queue, faults>>
  <2>1. Types'
    BY <1>1, <1>4, <1>6, <1>11, <1>14 DEF Types, TypeOK, DownOK
  <2>2. Stored(req)' = v
    BY <1>10, <1>11, <1>14 DEF Stored
  <2>3. v.rv \in Nat /\ pos = 1
    BY <1>1, <1>4 DEF Version, IndInv, IdleOK
  <2>4. IdleOK' /\ ObjOK' /\ CopyOK' /\ ClaimOK' /\ AddressOK' /\ DeleteOK' /\ ProgressOK'
    BY <1>14, <2>2, <2>3
       DEF IdleOK, ObjOK, CopyOK, ClaimOK, AddressOK, DeleteOK, ProgressOK
  <2>5. PlaceOK'
    BY <1>5, <1>14, <2>2 DEF PlaceOK, Keeps, NodeNames
  <2> QED BY <1>11, <1>12, <2>1, <2>4, <2>5 DEF IndInv
<1> QED BY <1>7, <1>13, <1>14

\* The keys of the works that the worker handles.
LEMMA WorkKeyType ==
    ASSUME Types, pc # "idle"
    PROVE  /\ req \in Overlays
           /\ \A i \in 1..Len(obj.spec.nodes) :
                 /\ WorkKey(req, obj.spec.nodes[i].name) \in WorkKeys
                 /\ WorkKey(req, obj.spec.nodes[i].name)[1] = obj.spec.nodes[i].name
                 /\ WorkKey(req, obj.spec.nodes[i].name)[2] = WorkName[req.name]
<1>1. req \in Overlays
  BY DEF Types, TypeOK
<1>2. WorkName[req.name] \in WorkNames
  BY <1>1, OverlayKeysAssumption DEF NamespacedName
<1>3. \A i \in 1..Len(obj.spec.nodes) : obj.spec.nodes[i].name \in Clusters
  BY CopyTypes
<1> QED BY <1>1, <1>2, <1>3 DEF WorkKey, WorkKeys

\* The device that a cluster of the slice gets is one.
LEMMA NEDType ==
    ASSUME NEW spec \in SliceOverlaySpec, NEW p \in Providers, NEW c \in Clusters,
           NEW addresses \in [Clusters -> IPAddresses \cup {Empty}]
    PROVE  NED(spec, addresses, p, c) \in NetworkEdgeDevice
<1>1. /\ spec.nodes \in Seq(OverlayCluster)
      /\ spec.monitoring \in MonitorSpec \cup {NoMonitoring}
  BY DEF SliceOverlaySpec
<1>2. ASSUME NEW d PROVE monitoredNode(spec, d) \in (Nat \X Nat) \cup {NoMonitoring}
  <2>1. CASE spec.monitoring = NoMonitoring \/ d \notin NodeNames(spec)
    BY <2>1 DEF monitoredNode
  <2>2. CASE spec.monitoring # NoMonitoring /\ d \in NodeNames(spec)
    <3>1. \E i \in 1..Len(spec.nodes) : spec.nodes[i].name = d
      BY <2>2 DEF NodeNames
    <3>2. (CHOOSE i \in 1..Len(spec.nodes) : spec.nodes[i].name = d) \in 1..Len(spec.nodes)
      BY <3>1
    <3>3. Len(spec.nodes) \in Nat
      BY <1>1
    <3>4. \A i \in 1..Len(spec.nodes) : i \in Nat
      BY <3>3
    <3>5. spec.monitoring.base \in Nat
      BY <1>1, <2>2 DEF MonitorSpec
    <3> DEFINE i == CHOOSE i \in 1..Len(spec.nodes) : spec.nodes[i].name = d
    <3>6. monitoredNode(spec, d) = <<spec.monitoring.base, i>>
      BY <2>2 DEF monitoredNode
    <3>7. i \in Nat
      BY <3>2, <3>4
    <3> HIDE DEF i
    <3> QED BY <3>5, <3>6, <3>7
  <2> QED BY <2>1, <2>2
<1>3. ASSUME NEW d \in Clusters PROVE Neighbor(spec, addresses, c, d) \in NeighborSpec
  <2> DEFINE m == IF monitoredNode(spec, c) = NoMonitoring
                  THEN NoMonitoring ELSE monitoredNode(spec, d)
  <2>1. m \in (Nat \X Nat) \cup {NoMonitoring}
    BY <1>2
  <2>2. addresses[d] \in IPAddresses \cup {Empty}
    OBVIOUS
  <2>3. Neighbor(spec, addresses, c, d) \in
           {[node |-> d, domain |-> addresses[d], lpmIp |-> m],
            [node |-> Empty, domain |-> Empty, lpmIp |-> NoMonitoring]}
    BY DEF Neighbor
  <2> HIDE DEF m
  <2> QED BY <2>1, <2>2, <2>3 DEF NeighborSpec
<1>4. \A d \in LinkedTo(spec, c) : d \in Clusters
  BY DEF LinkedTo
<1>5. {Neighbor(spec, addresses, c, d) : d \in LinkedTo(spec, c)} \in SUBSET NeighborSpec
  BY <1>3, <1>4
<1> QED BY <1>2, <1>5 DEF NED, NetworkEdgeDevice

\* While no object is written, WorksOK is a statement about the new works only.
LEMMA WorksFromLog ==
    ASSUME log' = log,
           \A k \in WorkKeys :
              works'[k] # NoWork => k[2] = WorkName[works'[k].slice.name],
           ~MayDropClusters =>
              \A k \in WorkKeys : works'[k] # NoWork =>
                 /\ Stored(works'[k].slice).finalizer
                 /\ k[1] \in NodeNames(Stored(works'[k].slice).spec)
    PROVE  WorksOK'
BY DEF WorksOK, NoOrphanWork, NodeNames, Stored

\* The work that the second loop writes next, and its key.
LEMMA AppliedWork ==
    ASSUME Types, pc = "apply"
    PROVE  /\ pos \in 1..Len(obj.spec.nodes) /\ Len(obj.spec.nodes) \in Nat
           /\ obj.spec.nodes[pos].name \in NodeNames(obj.spec)
           /\ req \in Overlays
           /\ WorkKey(req, obj.spec.nodes[pos].name) \in WorkKeys
           /\ WorkKey(req, obj.spec.nodes[pos].name)[1] = obj.spec.nodes[pos].name
           /\ WorkKey(req, obj.spec.nodes[pos].name)[2] = WorkName[req.name]
           /\ DesiredWork(req, obj.spec, Collected, prov, obj.spec.nodes[pos].name)
                 \in OverlayWork
           /\ DesiredWork(req, obj.spec, Collected, prov, obj.spec.nodes[pos].name).slice
                 = req
<1> DEFINE c0 == obj.spec.nodes[pos].name
           k0 == WorkKey(req, c0)
           w0 == DesiredWork(req, obj.spec, Collected, prov, c0)
           d == NED(obj.spec, clusterMaps, prov, c0)
<1>1. pos \in 1..Len(obj.spec.nodes) /\ prov \in Providers
  BY DEF Types, TypeOK
<1>2. /\ obj.spec \in SliceOverlaySpec /\ Len(obj.spec.nodes) \in Nat
      /\ c0 \in Clusters /\ c0 \in NodeNames(obj.spec)
      /\ req \in Overlays /\ k0 \in WorkKeys /\ k0[1] = c0 /\ k0[2] = WorkName[req.name]
  BY <1>1, CopyTypes, WorkKeyType
<1>3. d \in NetworkEdgeDevice
  BY <1>1, <1>2, NEDType DEF Types, TypeOK
<1>4. req.namespace \in Namespaces
  BY <1>2, OverlayKeysAssumption DEF NamespacedName
<1>5. w0 = [slice |-> req, namespace |-> req.namespace, name |-> ProviderName[prov],
            ned |-> d]
  BY DEF DesiredWork, Collected
<1>6. w0 \in OverlayWork /\ w0.slice = req
  <2> HIDE DEF d, w0
  <2> QED BY <1>1, <1>2, <1>3, <1>4, <1>5 DEF OverlayWork
<1> QED BY <1>1, <1>2, <1>6

LEMMA ApplyManifestWorkStep ==
    ASSUME IndInv, ApplyManifestWork
    PROVE  IndInv'
<1> DEFINE c0 == obj.spec.nodes[pos].name
           k0 == WorkKey(req, c0)
           w0 == DesiredWork(req, obj.spec, Collected, prov, c0)
<1>1. Types /\ LogsOK /\ WorksOK /\ pc = "apply" /\ Keeps(obj, Stored(req))
  BY DEF IndInv, ApplyManifestWork, PlaceOK
<1>2. /\ works' = works \/ works' = [works EXCEPT ![k0] = w0]
      /\ UNCHANGED <<log, plog, endpoint, profileEvents, leaving, env, MDClient, edits>>
  BY DEF ApplyManifestWork, applyWork, process
<1>3. /\ pos \in 1..Len(obj.spec.nodes) /\ Len(obj.spec.nodes) \in Nat
      /\ c0 \in NodeNames(obj.spec)
      /\ req \in Overlays /\ k0 \in WorkKeys /\ k0[1] = c0 /\ k0[2] = WorkName[req.name]
  BY <1>1, AppliedWork
<1>4. w0 \in OverlayWork /\ w0.slice = req
  BY <1>1, AppliedWork
<1>5. \/ LastNode /\ Idle /\ UNCHANGED <<queue, faults>>
      \/ ~LastNode /\ NextNode /\ UNCHANGED <<queue, faults>>
      \/ ReplyLost
  BY DEF ApplyManifestWork
<1> HIDE DEF k0, w0, c0
<1>6. /\ works' \in [WorkKeys -> OverlayWork \cup {NoWork}]
      /\ leaving' \subseteq WorkKeys
      /\ \A k \in WorkKeys :
            works'[k] = works[k] \/ (k = k0 /\ works'[k] = w0)
  BY <1>1, <1>2, <1>3, <1>4 DEF Types, TypeOK
<1>7. WorksOK'
  <2>1. \A k \in WorkKeys :
           works'[k] # NoWork => k[2] = WorkName[works'[k].slice.name]
    BY <1>1, <1>3, <1>4, <1>6 DEF WorksOK
  <2>2. ASSUME ~MayDropClusters, NEW k \in WorkKeys, works'[k] # NoWork
        PROVE  /\ Stored(works'[k].slice).finalizer
               /\ k[1] \in NodeNames(Stored(works'[k].slice).spec)
    <3>1. CASE k = k0 /\ works'[k] = w0
      BY <1>1, <1>3, <1>4, <2>2, <3>1 DEF Keeps
    <3>2. CASE works'[k] = works[k]
      BY <1>1, <2>2, <3>2 DEF WorksOK, NoOrphanWork
    <3> QED BY <1>6, <3>1, <3>2
  <2>3. ~MayDropClusters =>
           \A k \in WorkKeys : works'[k] # NoWork =>
              /\ Stored(works'[k].slice).finalizer
              /\ k[1] \in NodeNames(Stored(works'[k].slice).spec)
    BY <2>2
  <2> QED BY <1>2, <2>1, <2>3, WorksFromLog
<1>8. LogsOK'
  BY <1>1, <1>2, LogsFrame
<1>9. CASE Idle /\ (queue' = queue \/ queue' = queue \cup {req})
            /\ (faults' = faults \/ (faults < MaxFaults /\ faults' = faults + 1))
  <2>1. Types'
    BY <1>1, <1>2, <1>6, <1>9, ReturnTypes DEF Types, TypeOK
  <2> QED BY <1>7, <1>8, <1>9, <2>1, IdleWorker DEF IndInv
<1>10. CASE /\ pos # Len(obj.spec.nodes)
            /\ pos' = pos + 1
            /\ UNCHANGED <<pc, req, obj, prov, clusterMaps, queue, faults>>
  <2>1. pos' \in 1..Len(obj.spec.nodes)
    BY <1>3, <1>10
  <2>2. NodeNames(obj.spec)' = NodeNames(obj.spec)
    BY <1>10 DEF NodeNames
  <2>3. Types'
    BY <1>1, <1>2, <1>6, <1>10, <2>1, <2>2 DEF Types, TypeOK, DownOK
  <2>4. Stored(req)' = Stored(req)
    BY <1>2, <1>10 DEF Stored
  <2>5. IdleOK' /\ ObjOK' /\ CopyOK' /\ ClaimOK' /\ AddressOK' /\ DeleteOK' /\ ProgressOK'
    BY <1>1, <1>10, <2>4
       DEF IndInv, IdleOK, ObjOK, CopyOK, ClaimOK, AddressOK, DeleteOK, ProgressOK
  <2>6. PlaceOK'
    <3>1. NodeNames(Stored(req).spec)' = NodeNames(Stored(req).spec)
      BY <2>4 DEF NodeNames
    <3> QED BY <1>1, <1>10, <2>2, <2>4, <3>1 DEF PlaceOK, Keeps
  <2> QED BY <1>7, <1>8, <2>3, <2>5, <2>6 DEF IndInv
<1> QED BY <1>5, <1>9, <1>10 DEF LastNode, NextNode, ReplyLost, ReturnError

LEMMA DeleteManifestWorkStep ==
    ASSUME IndInv, DeleteManifestWork
    PROVE  IndInv'
<1> DEFINE k0 == WorkKey(req, obj.spec.nodes[pos].name)
<1>1. Types /\ LogsOK /\ WorksOK /\ ProgressOK /\ pc = "delete" /\ MDClient = "ocm"
  BY DEF IndInv, DeleteManifestWork
<1>2. /\ works' = [works EXCEPT ![k0] = NoWork]
      /\ leaving' = leaving \/ leaving' = leaving \cup {k0}
      /\ UNCHANGED <<log, plog, endpoint, profileEvents, env, MDClient, edits>>
  BY DEF DeleteManifestWork, deleteWork, process
<1>3. /\ req \in Overlays /\ k0 \in WorkKeys /\ pos \in 1..Len(obj.spec.nodes)
      /\ Len(obj.spec.nodes) \in Nat
      /\ \A i \in 1..Len(obj.spec.nodes) :
            WorkKey(req, obj.spec.nodes[i].name) \in WorkKeys
  <2>1. pos \in 1..Len(obj.spec.nodes)
    BY <1>1 DEF Types, TypeOK
  <2> QED BY <1>1, <2>1, CopyTypes, WorkKeyType
<1>4. \/ LastNode /\ pc' = "release" /\ UNCHANGED <<worker, queue, faults>>
      \/ ~LastNode /\ NextNode /\ UNCHANGED <<queue, faults>>
      \/ ReplyLost
  BY DEF DeleteManifestWork
<1>5. \A i \in 1..Len(obj.spec.nodes) : i <= pos =>
          works'[WorkKey(req, obj.spec.nodes[i].name)] = NoWork
  <2> SUFFICES ASSUME NEW i \in 1..Len(obj.spec.nodes), i <= pos
               PROVE  works'[WorkKey(req, obj.spec.nodes[i].name)] = NoWork
    OBVIOUS
  <2>0. works \in [WorkKeys -> OverlayWork \cup {NoWork}]
    BY <1>1 DEF Types, TypeOK
  <2>1. CASE i = pos
    BY <1>2, <1>3, <2>0, <2>1
  <2>2. CASE i < pos
    <3>1. works[WorkKey(req, obj.spec.nodes[i].name)] = NoWork
      BY <1>1, <2>2 DEF ProgressOK
    <3> QED BY <1>2, <1>3, <2>0, <3>1
  <2> QED BY <1>3, <2>1, <2>2
<1> HIDE DEF k0
<1>6. /\ works' \in [WorkKeys -> OverlayWork \cup {NoWork}] /\ leaving' \subseteq WorkKeys
      /\ \A k \in WorkKeys : works'[k] = NoWork \/ works'[k] = works[k]
  BY <1>1, <1>2, <1>3 DEF Types, TypeOK
<1>7. WorksOK'
  <2>1. \A k \in WorkKeys :
           works'[k] # NoWork => k[2] = WorkName[works'[k].slice.name]
    BY <1>1, <1>6 DEF WorksOK
  <2>2. ~MayDropClusters =>
           \A k \in WorkKeys : works'[k] # NoWork =>
              /\ Stored(works'[k].slice).finalizer
              /\ k[1] \in NodeNames(Stored(works'[k].slice).spec)
    BY <1>1, <1>6 DEF WorksOK, NoOrphanWork
  <2> QED BY <1>2, <2>1, <2>2, WorksFromLog
<1>8. LogsOK'
  BY <1>1, <1>2, LogsFrame
<1>9. CASE ReplyLost
  <2>1. Idle /\ queue' = queue \cup {req} /\ faults < MaxFaults /\ faults' = faults + 1
    BY <1>9 DEF ReplyLost, ReturnError
  <2>2. Types'
    BY <1>1, <1>2, <1>6, <2>1, ReturnTypes DEF Types, TypeOK
  <2> QED BY <1>7, <1>8, <2>1, <2>2, IdleWorker DEF IndInv
<1>10. CASE /\ UNCHANGED <<req, obj, prov, clusterMaps, queue, faults>>
            /\ \/ pos = Len(obj.spec.nodes) /\ pc' = "release" /\ pos' = pos
               \/ pos # Len(obj.spec.nodes) /\ pc' = pc /\ pos' = pos + 1
  <2>1. pos' \in 1..Len(obj.spec.nodes) /\ pc' \in {"delete", "release"}
    BY <1>1, <1>3, <1>10
  <2>2. Types'
    BY <1>1, <1>2, <1>6, <1>10, <2>1 DEF Types, TypeOK, DownOK
  <2>3. Stored(req)' = Stored(req) /\ Cached(req)' = Cached(req)
    BY <1>2, <1>10 DEF Stored, Cached
  <2>4. IdleOK' /\ ObjOK' /\ CopyOK' /\ ClaimOK' /\ PlaceOK' /\ AddressOK' /\ DeleteOK'
    BY <1>1, <1>10, <2>1, <2>3
       DEF IndInv, IdleOK, ObjOK, CopyOK, ClaimOK, PlaceOK, AddressOK, DeleteOK
  <2>5. ProgressOK'
    <3>1. \A i \in 1..Len(obj.spec.nodes) :
             pc' = "release" \/ (pc' = "delete" /\ i < pos') => i <= pos
      BY <1>1, <1>3, <1>10
    <3>2. \A i \in 1..Len(obj.spec.nodes) :
             pc' = "release" \/ (pc' = "delete" /\ i < pos')
               => works'[WorkKey(req, obj.spec.nodes[i].name)] = NoWork
      BY <1>5, <3>1
    <3> QED BY <1>10, <3>2 DEF ProgressOK, WorkKey
  <2> QED BY <1>7, <1>8, <2>2, <2>4, <2>5 DEF IndInv
<1> QED BY <1>4, <1>9, <1>10 DEF LastNode, NextNode, worker

\* When the finalizer goes, no work of the SliceOverlay is left.
LEMMA ReleaseLeavesNoWork ==
    ASSUME IndInv, pc = "release", obj = Stored(req), ~MayDropClusters
    PROVE  \A k \in WorkKeys : works[k] # NoWork => works[k].slice # req
<1> SUFFICES ASSUME NEW k \in WorkKeys, works[k] # NoWork, works[k].slice = req
             PROVE  FALSE
  OBVIOUS
<1>1. k[1] \in NodeNames(obj.spec) /\ k[2] = WorkName[req.name]
  BY DEF IndInv, WorksOK, NoOrphanWork
<1>2. PICK i \in 1..Len(obj.spec.nodes) : k[1] = obj.spec.nodes[i].name
  BY <1>1 DEF NodeNames
<1>3. k = <<k[1], k[2]>>
  BY DEF WorkKeys
<1>4. k = WorkKey(req, obj.spec.nodes[i].name)
  BY <1>1, <1>2, <1>3 DEF WorkKey
<1>5. works[WorkKey(req, obj.spec.nodes[i].name)] = NoWork
  BY <1>2 DEF IndInv, ProgressOK
<1> QED BY <1>4, <1>5

LEMMA RemoveFinalizerStep ==
    ASSUME IndInv, RemoveFinalizer
    PROVE  IndInv'
<1> DEFINE v == Absent(obj.rv + 1)
<1>1. Types /\ LogsOK /\ WorksOK /\ pc = "release" /\ Stored(req).rv = obj.rv
  BY DEF IndInv, RemoveFinalizer
<1>2. /\ req \in Overlays /\ obj \in Version /\ obj.rv \in Nat
      /\ obj = Stored(req) /\ Len(log[req]) = 1
      /\ log[req][1] = obj /\ EntryOK(obj)
  BY <1>1, AcceptedUpdate
<1>3. obj.phase = "terminating"
  BY <1>1 DEF IndInv, DeleteOK
<1>4. WithoutFinalizer(obj) = v
  BY <1>3 DEF WithoutFinalizer
<1>5. /\ Write(req, v)
      /\ UNCHANGED <<plog, endpoint, profileEvents, works, leaving, env, MDClient, edits>>
  BY <1>4 DEF RemoveFinalizer, process
<1>6. (Idle /\ UNCHANGED <<queue, faults>>) \/ ReplyLost
  BY DEF RemoveFinalizer
<1>7. v \in Version /\ v.rv = obj.rv + 1 /\ v.phase = "absent" /\ v.finalizer = FALSE
  BY <1>2, NextRv, SpecTypes DEF Absent
<1> HIDE DEF v
<1>8. EntryOK(v) /\ Stored(req).rv < v.rv
  BY <1>2, <1>7 DEF EntryOK
<1>9. /\ \A i \in 1..Len(log[req]) : Claims(log[req][i]) => Keeps(log[req][i], v)
      /\ \A i \in 1..Len(log[req]) :
            log[req][i].phase = "terminating" /\ v.finalizer => v.phase = "terminating"
  BY <1>2, <1>3, <1>7 DEF Claims
<1>10. PICK o \in Overlays : o = req
  BY <1>2
<1>11. /\ log' \in [Overlays -> Seq(Version)]
       /\ \A m \in Overlays : log'[m] # << >>
       /\ LogsOK'
       /\ Stored(o)' = v
       /\ \A m \in Overlays : m # o => Stored(m)' = Stored(m)
  BY <1>1, <1>5, <1>7, <1>8, <1>9, <1>10, WriteFacts
<1>12. WorksOK'
  <2>1. ASSUME ~MayDropClusters, NEW k \in WorkKeys, works[k] # NoWork
        PROVE  /\ Stored(works[k].slice)'.finalizer
               /\ k[1] \in NodeNames(Stored(works[k].slice)'.spec)
    <3>1. /\ works[k].slice \in Overlays
          /\ Stored(works[k].slice).finalizer
          /\ k[1] \in NodeNames(Stored(works[k].slice).spec)
      BY <1>1, <2>1 DEF Types, TypeOK, OverlayWork, WorksOK, NoOrphanWork
    <3>2. works[k].slice # o
      BY <1>1, <1>2, <1>10, <2>1, ReleaseLeavesNoWork
    <3>3. works' = works
      BY <1>5
    <3> QED BY <1>11, <3>1, <3>2, <3>3
  <2>2. \A k \in WorkKeys :
           works'[k] # NoWork => k[2] = WorkName[works'[k].slice.name]
    BY <1>1, <1>5 DEF WorksOK
  <2> QED BY <1>5, <2>1, <2>2 DEF WorksOK, NoOrphanWork, NodeNames, Stored
<1>13. Idle /\ (queue' = queue \/ queue' = queue \cup {req})
       /\ (faults' = faults \/ (faults < MaxFaults /\ faults' = faults + 1))
  BY <1>6 DEF ReplyLost, ReturnError
<1>14. Types'
  BY <1>1, <1>5, <1>11, <1>13, ReturnTypes DEF Types, TypeOK
<1> QED BY <1>11, <1>12, <1>13, <1>14, IdleWorker DEF IndInv

-----------------------------------------------------------------------------
(* Every step preserves the invariant: the manager process. *)

\* A process that starts or ends sees what is stored.
LEMMA FreshCachesFacts ==
    ASSUME Types, LogsOK, FreshCaches
    PROVE  /\ log' \in [Overlays -> Seq(Version)]
           /\ \A o \in Overlays : log'[o] # << >>
           /\ plog' \in [NamespacedName -> Seq(Providers \cup {NoProvider})]
           /\ \A p \in NamespacedName : plog'[p] # << >>
           /\ LogsOK'
           /\ \A o \in Overlays : Stored(o)' = Stored(o)
<1>2. /\ log' = [o \in Overlays |-> <<Stored(o)>>]
      /\ plog' = [p \in NamespacedName |-> <<StoredProfile(p)>>]
  BY DEF FreshCaches
<1>3. \A o \in Overlays : /\ LogOK(<<Stored(o)>>)
                           /\ <<Stored(o)>> \in Seq(Version) /\ <<Stored(o)>> # << >>
                           /\ Len(<<Stored(o)>>) = 1 /\ <<Stored(o)>>[1] = Stored(o)
  BY LogTypes, CachedBeforeStored, SingletonLogOK
<1>4. \A o \in Overlays : log'[o] = <<Stored(o)>>
  BY <1>2
<1>5. LogsOK'
  <2>1. \A o \in Overlays : LogOK(log'[o])
    BY <1>3, <1>4
  <2> QED BY <2>1 DEF LogsOK, LogOK, EntryOK, Claims, Keeps, NodeNames
<1>6. \A o \in Overlays : Stored(o)' = Stored(o)
  <2> TAKE o \in Overlays
  <2>1. log'[o][Len(log'[o])] = Stored(o)
    BY <1>3, <1>4
  <2> QED BY <2>1 DEF Stored
<1>7. /\ log' \in [Overlays -> Seq(Version)]
      /\ \A o \in Overlays : log'[o] # << >>
  BY <1>2, <1>3, <1>4
<1>8. /\ plog' \in [NamespacedName -> Seq(Providers \cup {NoProvider})]
      /\ \A p \in NamespacedName : plog'[p] # << >>
  <2>1. \A p \in NamespacedName : StoredProfile(p) \in Providers \cup {NoProvider}
    BY DEF Types, TypeOK, StoredProfile
  <2> HIDE DEF StoredProfile
  <2> QED BY <1>2, <2>1
<1> QED BY <1>5, <1>6, <1>7, <1>8

LEMMA StopStep ==
    ASSUME IndInv, Stop, env' \in ClientTypes, edits' \in 0..MaxEdits,
           faults' \in 0..MaxFaults
    PROVE  IndInv'
<1>1. Types /\ LogsOK /\ WorksOK
  BY DEF IndInv
<1>2. /\ log' \in [Overlays -> Seq(Version)]
      /\ \A o \in Overlays : log'[o] # << >>
      /\ plog' \in [NamespacedName -> Seq(Providers \cup {NoProvider})]
      /\ \A p \in NamespacedName : plog'[p] # << >>
      /\ LogsOK'
      /\ \A o \in Overlays : Stored(o)' = Stored(o)
  BY <1>1, FreshCachesFacts DEF Stop
<1>3. Types'
  BY <1>1, <1>2, IdleType DEF Stop, Types, TypeOK, DownOK
<1>4. WorksOK'
  BY <1>1, <1>2, WorksFrame DEF Stop
<1> QED BY <1>2, <1>3, <1>4, IdleWorker DEF IndInv, Stop

LEMMA CrashStep ==
    ASSUME IndInv, Crash
    PROVE  IndInv'
<1>1. Types
  BY DEF IndInv
<1>2. faults' \in 0..MaxFaults
  BY <1>1, FaultType DEF Crash
<1>3. env' \in ClientTypes /\ edits' \in 0..MaxEdits
  BY <1>1 DEF Crash, Types, TypeOK
<1> QED BY <1>2, <1>3, StopStep DEF Crash

LEMMA EditType ==
    ASSUME Types, UserEdit
    PROVE  edits' \in 0..MaxEdits
  BY OverlayTypesAssumption DEF Types, TypeOK, UserEdit

LEMMA RedeployStep ==
    ASSUME IndInv, NEW t \in ClientTypes, Redeploy(t)
    PROVE  IndInv'
<1>1. Types
  BY DEF IndInv
<1>2. edits' \in 0..MaxEdits /\ env' \in ClientTypes /\ faults' \in 0..MaxFaults
  BY <1>1, EditType DEF Redeploy, Types, TypeOK
<1>3. CASE Stop
  BY <1>2, <1>3, StopStep
<1>4. CASE UNCHANGED <<log, plog, endpoint, profileEvents, queue, pc, worker, works, leaving, MDClient>>
  <2>1. NodeNames(obj.spec)' = NodeNames(obj.spec)
    BY <1>4 DEF NodeNames, worker
  <2>2. Types'
    BY <1>1, <1>2, <1>4, <2>1 DEF Types, TypeOK, DownOK, worker
  <2> QED BY <1>4, <2>2, Frame DEF IndInv
<1> QED BY <1>3, <1>4 DEF Redeploy

LEMMA StartManagerStep ==
    ASSUME IndInv, StartManager
    PROVE  IndInv'
<1>1. Types /\ LogsOK /\ WorksOK /\ pc = "idle"
  BY DEF IndInv, StartManager, Types, TypeOK
<1>2. /\ log' \in [Overlays -> Seq(Version)]
      /\ \A o \in Overlays : log'[o] # << >>
      /\ plog' \in [NamespacedName -> Seq(Providers \cup {NoProvider})]
      /\ \A p \in NamespacedName : plog'[p] # << >>
      /\ LogsOK'
      /\ \A o \in Overlays : Stored(o)' = Stored(o)
  BY <1>1, FreshCachesFacts DEF StartManager
<1>3. /\ MDClient' \in {"ocm", "rest"}
      /\ profileEvents' \subseteq NamespacedName /\ queue' \subseteq Overlays
      /\ UNCHANGED <<endpoint, pc, req, obj, prov, clusterMaps, pos, works, leaving, env, edits, faults>>
  BY DEF StartManager, NewClient, worker
<1>4. Types'
  BY <1>1, <1>2, <1>3 DEF Types, TypeOK, DownOK
<1>5. WorksOK'
  BY <1>1, <1>2, <1>3, WorksFrame
<1>6. /\ IdleOK' /\ ObjOK' /\ CopyOK' /\ ClaimOK' /\ PlaceOK' /\ AddressOK'
      /\ DeleteOK' /\ ProgressOK'
  BY <1>1, <1>3 DEF IndInv, IdleOK, ObjOK, CopyOK, ClaimOK, PlaceOK, AddressOK,
                    DeleteOK, ProgressOK
<1> QED BY <1>2, <1>4, <1>5, <1>6 DEF IndInv

-----------------------------------------------------------------------------
(* The invariant is inductive. *)

LEMMA InitIndInv == Init => IndInv
<1> SUFFICES ASSUME Init PROVE IndInv
  OBVIOUS
<1> USE DEF Init
<1>1. Absent(0) \in Version /\ EntryOK(Absent(0))
  BY SpecTypes DEF Absent, EntryOK
<1>2. LogsOK /\ \A o \in Overlays : log[o] \in Seq(Version) /\ log[o] # << >>
  BY <1>1, SingletonLogOK DEF LogsOK
<1>3. log \in [Overlays -> Seq(Version)]
  BY <1>2
<1>4. plog \in [NamespacedName -> Seq(Providers \cup {NoProvider})]
      /\ \A p \in NamespacedName : plog[p] # << >>
  OBVIOUS
<1>5. works \in [WorkKeys -> OverlayWork \cup {NoWork}] /\ leaving \subseteq WorkKeys
  OBVIOUS
<1>6. Types
  BY <1>1, <1>2, <1>3, <1>4, <1>5, OverlayTypesAssumption
     DEF Types, TypeOK, DownOK, NoAddresses
<1>7. WorksOK
  BY DEF WorksOK, NoOrphanWork
<1>8. IdleOK /\ ObjOK /\ CopyOK /\ ClaimOK /\ PlaceOK /\ AddressOK /\ DeleteOK /\ ProgressOK
  BY DEF IdleOK, ObjOK, CopyOK, ClaimOK, PlaceOK, AddressOK, DeleteOK, ProgressOK
<1> QED BY <1>2, <1>6, <1>7, <1>8 DEF IndInv

LEMMA NextIndInv == IndInv /\ [Next]_vars => IndInv'
<1> SUFFICES ASSUME IndInv, [Next]_vars PROVE IndInv'
  OBVIOUS
<1>1. CASE Users
  BY <1>1, CreateOverlayStep, UpdateOverlayStep, DeleteOverlayStep,
     WriteProfileStep, MoveClusterStep, RedeployStep DEF Users
<1>2. CASE Informers
  BY <1>2, DeliverOverlayStep, DeliverProfileStep, HandlerStep DEF Informers
<1>3. CASE \E o \in Overlays : StartReconcile(o)
  BY <1>3, StartReconcileStep
<1>4. CASE ReconcileStep
  BY <1>4, AddFinalizerStep, ResolveProviderStep, ResolveAddressStep,
     ApplyManifestWorkStep, DeleteManifestWorkStep, RestDeleteSliceStep,
     RemoveFinalizerStep, UpdateRefusedStep, CallFailsStep DEF ReconcileStep
<1>5. CASE Crash
  BY <1>5, CrashStep
<1>6. CASE StartManager
  BY <1>6, StartManagerStep
<1>7. CASE UNCHANGED vars \/ \E k \in WorkKeys : Expire(k)
  <2>1. UNCHANGED <<log, pc, worker, works>>
    BY <1>7 DEF vars, worker, Expire
  <2>2. NodeNames(obj.spec)' = NodeNames(obj.spec)
    BY <2>1 DEF NodeNames, worker
  <2>3. Types'
    BY <1>7, <2>2 DEF IndInv, Types, TypeOK, DownOK, vars, worker, process, Expire
  <2> QED BY <2>1, <2>3, Frame DEF IndInv
<1> QED BY <1>1, <1>2, <1>3, <1>4, <1>5, <1>6, <1>7 DEF Next

LEMMA IndInvHolds == Spec => []IndInv
  BY InitIndInv, NextIndInv, PTL DEF Spec

\* Type correctness of the controller and its process, for every value of the
\* constants: the loops over topology.nodes stay inside the list, also when it
\* is empty, no NED is written before its provider and the addresses of all
\* clusters are known, and a manager that is down works on nothing.
THEOREM OverlayTypeCorrect == Spec => []TypeOK
<1>1. IndInv => TypeOK
  BY DEF IndInv, Types
<1> QED BY <1>1, IndInvHolds, PTL

\* No NED outlives its SliceOverlay, also when the slice is deleted while the
\* manager runs with the REST client or is down, as long as users never remove
\* a cluster from a topology.
THEOREM NoOrphanDevices == ~MayDropClusters => (Spec => []NoOrphanWork)
<1> SUFFICES ASSUME ~MayDropClusters PROVE Spec => []NoOrphanWork
  OBVIOUS
<1>1. IndInv => NoOrphanWork
  BY DEF IndInv, WorksOK
<1> QED BY <1>1, IndInvHolds, PTL

-----------------------------------------------------------------------------
(* What each step does to the stored versions. *)

LEMMA WriteStored ==
    ASSUME Types, NEW o \in Overlays, NEW v \in Version, Write(o, v)
    PROVE  /\ Stored(o)' = v
           /\ \A m \in Overlays : m # o => Stored(m)' = Stored(m)
<1>1. log[o] \in Seq(Version) /\ log[o] # << >>
  BY DEF Types, TypeOK
<1>2. log' = [log EXCEPT ![o] = Append(log[o], v)]
  BY DEF Write
<1>3. /\ Len(Append(log[o], v)) = Len(log[o]) + 1
      /\ Append(log[o], v)[Len(log[o]) + 1] = v
  BY <1>1, AppendFacts
<1>4. log'[o] = Append(log[o], v) /\ \A m \in Overlays : m # o => log'[m] = log[m]
  BY <1>2 DEF Types, TypeOK
<1> QED BY <1>3, <1>4 DEF Stored

\* AddFinalizer sets the finalizer of the stored version and nothing else.
LEMMA AddFinalizerEffect ==
    ASSUME IndInv, AddFinalizer
    PROVE  \E o \in Overlays :
              /\ ~Stored(o).finalizer /\ Stored(o).phase = "live"
              /\ Stored(o)'.finalizer /\ Stored(o)'.phase = "live"
              /\ Stored(o)'.spec = Stored(o).spec
              /\ \A m \in Overlays : m # o => Stored(m)' = Stored(m)
<1> DEFINE v == [obj EXCEPT !.finalizer = TRUE, !.rv = @ + 1]
<1>1. Types /\ pc = "claim" /\ Stored(req).rv = obj.rv
  BY DEF IndInv, AddFinalizer
<1>2. /\ req \in Overlays /\ obj \in Version /\ obj.rv \in Nat
      /\ obj = Stored(req)
  BY <1>1, AcceptedUpdate
<1>3. obj.phase = "live" /\ ~obj.finalizer
  BY <1>1 DEF IndInv, ClaimOK
<1>4. v \in Version
  BY <1>2, NextRv, Zenon DEF Version
<1>5. v.phase = "live" /\ v.finalizer /\ v.spec = obj.spec
  BY <1>2, <1>3 DEF Version
<1>6. Write(req, v)
  BY DEF AddFinalizer
<1> HIDE DEF v
<1>7. PICK o \in Overlays : o = req
  BY <1>2
<1>8. Stored(o)' = v /\ \A m \in Overlays : m # o => Stored(m)' = Stored(m)
  BY <1>1, <1>4, <1>6, <1>7, WriteStored
<1> QED BY <1>2, <1>3, <1>5, <1>7, <1>8

\* RemoveFinalizer removes the stored version, which was being deleted and,
\* if no cluster was ever dropped, has no work left.
LEMMA RemoveFinalizerEffect ==
    ASSUME IndInv, RemoveFinalizer
    PROVE  \E o \in Overlays :
              /\ Stored(o).finalizer /\ Stored(o).phase = "terminating"
              /\ ~Stored(o)'.finalizer /\ Stored(o)'.phase = "absent"
              /\ \A m \in Overlays : m # o => Stored(m)' = Stored(m)
              /\ ~MayDropClusters =>
                   \A k \in WorkKeys : works[k] # NoWork => works[k].slice # o
<1>1. Types /\ pc = "release" /\ Stored(req).rv = obj.rv
  BY DEF IndInv, RemoveFinalizer
<1>2. /\ req \in Overlays /\ obj.rv \in Nat
      /\ obj = Stored(req) /\ EntryOK(obj)
  BY <1>1, AcceptedUpdate
<1>3. obj.phase = "terminating" /\ obj.finalizer
  BY <1>1, <1>2 DEF IndInv, DeleteOK, EntryOK
<1>4. Write(req, Absent(obj.rv + 1))
  BY <1>3 DEF RemoveFinalizer, WithoutFinalizer
<1>5. Absent(obj.rv + 1) \in Version
  BY <1>2, NextRv, SpecTypes
<1>6. PICK o \in Overlays : o = req
  BY <1>2
<1>7. /\ Stored(o)' = Absent(obj.rv + 1)
      /\ \A m \in Overlays : m # o => Stored(m)' = Stored(m)
  BY <1>1, <1>4, <1>5, <1>6, WriteStored
<1>8. ~Stored(o)'.finalizer /\ Stored(o)'.phase = "absent"
  BY <1>7 DEF Absent
<1>9. ~MayDropClusters =>
         \A k \in WorkKeys : works[k] # NoWork => works[k].slice # o
  BY <1>1, <1>2, <1>6, ReleaseLeavesNoWork
<1> QED BY <1>2, <1>3, <1>6, <1>7, <1>8, <1>9

\* Every other step of the controller leaves the stored versions alone.
LEMMA StoredFrame ==
    ASSUME Types,
           \/ Informers \/ (\E o \in Overlays : StartReconcile(o))
           \/ ResolveProvider \/ ResolveAddress \/ ApplyManifestWork
           \/ DeleteManifestWork \/ RestDeleteSlice
           \/ UpdateRefused \/ CallFails \/ Crash \/ StartManager
           \/ (\E c \in Clusters, a \in IPAddresses \cup {Empty} : MoveCluster(c, a))
           \/ (\E t \in ClientTypes : Redeploy(t))
           \/ (\E p \in EditableProfiles, v \in Providers \cup {NoProvider} :
                  WriteProfile(p, v))
           \/ (\E k \in WorkKeys : Expire(k)) \/ UNCHANGED vars
    PROVE  \A m \in Overlays : Stored(m)' = Stored(m)
<1>1. CASE UNCHANGED log
  BY <1>1 DEF Stored
<1>2. ASSUME NEW o \in Overlays, DeliverOverlay(o)
      PROVE  \A m \in Overlays : Stored(m)' = Stored(m)
  <2>1. /\ log[o] \in Seq(Version) /\ Len(log[o]) > 1
        /\ log' = [log EXCEPT ![o] = Tail(log[o])]
    BY <1>2 DEF Types, TypeOK, DeliverOverlay
  <2>2. log'[o] = Tail(log[o]) /\ \A m \in Overlays : m # o => log'[m] = log[m]
    BY <2>1 DEF Types, TypeOK
  <2>3. Tail(log[o])[Len(Tail(log[o]))] = log[o][Len(log[o])]
    BY <2>1, TailFacts
  <2> QED BY <2>2, <2>3 DEF Stored
<1>3. CASE FreshCaches
  <2> TAKE m \in Overlays
  <2>1. log'[m] = <<Stored(m)>>
    BY <1>3 DEF FreshCaches
  <2>2. Len(<<Stored(m)>>) = 1 /\ <<Stored(m)>>[1] = Stored(m)
    OBVIOUS
  <2>3. log'[m][Len(log'[m])] = Stored(m)
    BY <2>1, <2>2
  <2> QED BY <2>3 DEF Stored
<1> QED
  BY <1>1, <1>2, <1>3
     DEF Informers, DeliverProfile, requestsForProviderProfile,
         requestsListError, StartReconcile, ResolveProvider, ResolveAddress,
         ApplyManifestWork, DeleteManifestWork, RestDeleteSlice, UpdateRefused,
         CallFails, WriteProfile, MoveCluster, Redeploy, Crash, Stop, StartManager,
         Expire, vars

-----------------------------------------------------------------------------
(* The refinement. *)

\* No two SliceOverlays share a ManifestWork name.  The name is that of the
\* SliceOverlay without its namespace, so this excludes two namespaces that
\* hold SliceOverlays of one name.
DistinctWorkNames ==
    \A m, o \in Overlays : WorkName[m.name] = WorkName[o.name] => m = o

\* A step that keeps the stored versions and the works is a stutter.
LEMMA Stutter ==
    ASSUME \A m \in Overlays : Status(m)' = Status(m), UNCHANGED works
    PROVE  UNCHANGED Placement!vars
  BY DEF Placement!vars, Holder

LEMMA StatusFrame ==
    ASSUME \A m \in Overlays : Stored(m)' = Stored(m)
    PROVE  \A m \in Overlays : Status(m)' = Status(m)
  BY DEF Status

\* A user's write is a stutter, or the owner's leaving.
LEMMA UserRefines ==
    ASSUME IndInv, NEW o \in Overlays,
           \/ \E s \in Specs : CreateOverlay(o, s) \/ UpdateOverlay(o, s)
           \/ DeleteOverlay(o)
    PROVE  [Placement!Next]_(Placement!vars)
<1>1. Types /\ LogsOK
  BY DEF IndInv
<1>2. Stored(o) \in Version /\ Stored(o).rv \in Nat /\ EntryOK(Stored(o))
  BY <1>1, LogTypes, CachedBeforeStored
<1>3. ASSUME NEW s \in Specs, CreateOverlay(o, s)
      PROVE  UNCHANGED Placement!vars
  <2> DEFINE v == [phase |-> "live", finalizer |-> FALSE,
                   rv |-> Stored(o).rv + 1, spec |-> s]
  <2>1. v \in Version
    BY <1>2, OverlaySpecsAssumption DEF Version
  <2>2. Write(o, v) /\ Stored(o).phase = "absent" /\ UNCHANGED works
    BY <1>3 DEF CreateOverlay, OverlayEditOnly
  <2>3. Stored(o)' = v /\ \A m \in Overlays : m # o => Stored(m)' = Stored(m)
    BY <1>1, <2>1, <2>2, WriteStored
  <2>4. ~Stored(o).finalizer /\ ~Stored(o)'.finalizer
    BY <1>2, <2>2, <2>3 DEF EntryOK
  <2>5. \A m \in Overlays : Status(m)' = Status(m)
    BY <2>3, <2>4 DEF Status
  <2> QED BY <2>2, <2>5, Stutter
<1>4. ASSUME NEW s \in Specs, UpdateOverlay(o, s)
      PROVE  UNCHANGED Placement!vars
  <2> DEFINE v == [Stored(o) EXCEPT !.rv = @ + 1, !.spec = s]
  <2>1. s \in SliceOverlaySpec
    BY OverlaySpecsAssumption
  <2>2. v \in Version
    BY <1>2, <2>1, NextRv, Zenon DEF Version
  <2>3. v.phase = Stored(o).phase /\ v.finalizer = Stored(o).finalizer
    BY <1>2 DEF Version
  <2>4. Write(o, v) /\ UNCHANGED works
    BY <1>4 DEF UpdateOverlay, OverlayEditOnly
  <2> HIDE DEF v
  <2>5. Stored(o)' = v /\ \A m \in Overlays : m # o => Stored(m)' = Stored(m)
    BY <1>1, <2>2, <2>4, WriteStored
  <2>6. \A m \in Overlays : Status(m)' = Status(m)
    BY <2>3, <2>5 DEF Status
  <2> QED BY <2>4, <2>6, Stutter
<1>5. CASE DeleteOverlay(o) /\ ~Stored(o).finalizer
  <2>1. Write(o, Absent(Stored(o).rv + 1)) /\ UNCHANGED works
    BY <1>5 DEF DeleteOverlay, OverlayEditOnly
  <2>2. Absent(Stored(o).rv + 1) \in Version
    BY <1>2, NextRv, SpecTypes
  <2>3. /\ Stored(o)' = Absent(Stored(o).rv + 1)
        /\ \A m \in Overlays : m # o => Stored(m)' = Stored(m)
    BY <1>1, <2>1, <2>2, WriteStored
  <2>4. ~Stored(o)'.finalizer
    BY <2>3 DEF Absent
  <2>5. \A m \in Overlays : Status(m)' = Status(m)
    BY <1>5, <2>3, <2>4 DEF Status
  <2> QED BY <2>1, <2>5, Stutter
<1>6. CASE DeleteOverlay(o) /\ Stored(o).finalizer
  <2> DEFINE v == [Stored(o) EXCEPT !.rv = @ + 1, !.phase = "terminating"]
  <2>1. v \in Version
    BY <1>2, NextRv, Zenon DEF Version
  <2>2. v.phase = "terminating" /\ v.finalizer
    BY <1>2, <1>6 DEF Version
  <2>3. Write(o, v) /\ UNCHANGED works /\ Stored(o).phase = "live"
    BY <1>6 DEF DeleteOverlay, OverlayEditOnly
  <2> HIDE DEF v
  <2>4. Stored(o)' = v /\ \A m \in Overlays : m # o => Stored(m)' = Stored(m)
    BY <1>1, <2>1, <2>3, WriteStored
  <2>5. /\ Status(o) = "claimed" /\ Status(o)' = "leaving"
        /\ \A m \in Overlays : m # o => Status(m)' = Status(m)
    BY <1>6, <2>2, <2>3, <2>4 DEF Status
  <2>6. Placement!Leave(o)
    BY <2>3, <2>5 DEF Placement!Leave, Holder
  <2> QED BY <2>6 DEF Placement!Next
<1> QED BY <1>3, <1>4, <1>5, <1>6

LEMMA ApplyRefines ==
    ASSUME IndInv, DistinctWorkNames, ApplyManifestWork
    PROVE  [Placement!Next]_(Placement!vars)
<1> DEFINE c0 == obj.spec.nodes[pos].name
           k0 == WorkKey(req, c0)
           w0 == DesiredWork(req, obj.spec, Collected, prov, c0)
<1>1. Types /\ WorksOK /\ pc = "apply" /\ Keeps(obj, Stored(req))
  BY DEF IndInv, ApplyManifestWork, PlaceOK
<1>2. (works' = works \/ works' = [works EXCEPT ![k0] = w0]) /\ UNCHANGED log
  BY DEF ApplyManifestWork, applyWork
<1>3. req \in Overlays /\ k0 \in WorkKeys /\ k0[2] = WorkName[req.name]
  BY <1>1, AppliedWork
<1>4. w0.slice = req /\ w0 # NoWork
  BY <1>1, AppliedWork, OverlayWorksAssumption
<1> HIDE DEF k0, w0
<1>5. PICK o \in Overlays : o = req
  BY <1>3
<1>6. PICK k \in WorkKeys : k = k0
  BY <1>3
<1>7. Status(o) # "free"
  BY <1>1, <1>5 DEF Keeps, Status
<1>8. Holder(k) \in {NoRequest, o}
  <2>1. CASE works[k] = NoWork
    BY <2>1 DEF Holder
  <2>2. CASE works[k] # NoWork
    <3>1. works[k].slice \in Overlays
      BY <1>1, <2>2 DEF Types, TypeOK, OverlayWork
    <3>2. WorkName[works[k].slice.name] = WorkName[o.name]
      BY <1>1, <1>3, <1>5, <1>6, <2>2 DEF WorksOK
    <3>3. works[k].slice = o
      BY <3>1, <3>2 DEF DistinctWorkNames
    <3> QED BY <2>2, <3>3 DEF Holder
  <2> QED BY <2>1, <2>2
<1>9. \A m \in Overlays : Status(m)' = Status(m)
  BY <1>2 DEF Status, Stored
<1>10. CASE works' = works
  <2>1. \A l \in WorkKeys : Holder(l)' = Holder(l)
    BY <1>10 DEF Holder
  <2>2. UNCHANGED Placement!vars
    BY <1>9, <2>1 DEF Placement!vars
  <2> QED BY <2>2
<1>11. CASE works' = [works EXCEPT ![k0] = w0]
  <2>1. works'[k] = w0 /\ \A l \in WorkKeys : l # k => works'[l] = works[l]
    BY <1>1, <1>6, <1>11 DEF Types, TypeOK
  <2>2. Holder(k)' = o /\ \A l \in WorkKeys : l # k => Holder(l)' = Holder(l)
    BY <1>4, <1>5, <2>1 DEF Holder
  <2>3. Placement!Place(o, k)
    BY <1>7, <1>8, <1>9, <2>2 DEF Placement!Place
  <2> QED BY <2>3 DEF Placement!Next
<1> QED BY <1>2, <1>10, <1>11

LEMMA DeleteRefines ==
    ASSUME IndInv, ~MayDropClusters, DistinctWorkNames, DeleteManifestWork
    PROVE  [Placement!Next]_(Placement!vars)
<1> DEFINE k0 == WorkKey(req, obj.spec.nodes[pos].name)
<1>1. Types /\ WorksOK /\ DeleteOK /\ pc = "delete" /\ MDClient = "ocm"
  BY DEF IndInv, DeleteManifestWork
<1>2. works' = [works EXCEPT ![k0] = NoWork] /\ UNCHANGED log
  BY DEF DeleteManifestWork, deleteWork
<1>3. req \in Overlays /\ k0 \in WorkKeys /\ k0[2] = WorkName[req.name]
  <2>1. pos \in 1..Len(obj.spec.nodes)
    BY <1>1 DEF Types, TypeOK
  <2> QED BY <1>1, <2>1, WorkKeyType
<1> HIDE DEF k0
<1>4. \A m \in Overlays : Status(m)' = Status(m)
  BY <1>2 DEF Status, Stored
<1>5. PICK o \in Overlays : o = req
  BY <1>3
<1>6. PICK k \in WorkKeys : k = k0
  BY <1>3
<1>7. works'[k] = NoWork /\ \A l \in WorkKeys : l # k => works'[l] = works[l]
  BY <1>1, <1>2, <1>6 DEF Types, TypeOK
<1>8. CASE works[k] = NoWork
  <2>1. \A l \in WorkKeys : Holder(l)' = Holder(l)
    BY <1>7, <1>8 DEF Holder
  <2>2. UNCHANGED Placement!vars
    BY <1>4, <2>1 DEF Placement!vars
  <2> QED BY <2>2
<1>9. CASE works[k] # NoWork
  <2>1. works[k].slice \in Overlays
    BY <1>1, <1>9 DEF Types, TypeOK, OverlayWork
  <2>2. WorkName[works[k].slice.name] = WorkName[o.name]
    BY <1>1, <1>3, <1>5, <1>6, <1>9 DEF WorksOK
  <2>3. works[k].slice = o
    BY <2>1, <2>2 DEF DistinctWorkNames
  <2>4. Stored(o).finalizer
    BY <1>1, <1>9, <2>3 DEF WorksOK, NoOrphanWork
  <2>5. Status(o) = "leaving"
    BY <1>1, <1>5, <2>4 DEF DeleteOK, Status
  <2>6. Holder(k) = o
    BY <1>9, <2>3 DEF Holder
  <2>7. Holder(k)' = NoRequest /\ \A l \in WorkKeys : l # k => Holder(l)' = Holder(l)
    BY <1>7 DEF Holder
  <2>8. Placement!Withdraw(o, k)
    BY <1>4, <2>5, <2>6, <2>7 DEF Placement!Withdraw
  <2> QED BY <2>8 DEF Placement!Next
<1> QED BY <1>8, <1>9

LEMMA FinalizerRefines ==
    ASSUME IndInv, ~MayDropClusters, AddFinalizer \/ RemoveFinalizer
    PROVE  Placement!Next
<1>1. UNCHANGED works
  BY DEF AddFinalizer, RemoveFinalizer
<1>2. CASE AddFinalizer
  <2>1. PICK o \in Overlays :
           /\ ~Stored(o).finalizer /\ Stored(o).phase = "live"
           /\ Stored(o)'.finalizer /\ Stored(o)'.phase = "live"
           /\ \A m \in Overlays : m # o => Stored(m)' = Stored(m)
    BY <1>2, AddFinalizerEffect
  <2>2. /\ Status(o) = "free" /\ Status(o)' = "claimed"
        /\ \A m \in Overlays : m # o => Status(m)' = Status(m)
    BY <2>1 DEF Status
  <2>3. Placement!Claim(o)
    BY <1>1, <2>2 DEF Placement!Claim, Holder
  <2> QED BY <2>3 DEF Placement!Next
<1>3. CASE RemoveFinalizer
  <2>1. PICK o \in Overlays :
           /\ Stored(o).finalizer /\ Stored(o).phase = "terminating"
           /\ ~Stored(o)'.finalizer
           /\ \A m \in Overlays : m # o => Stored(m)' = Stored(m)
           /\ \A k \in WorkKeys : works[k] # NoWork => works[k].slice # o
    BY <1>3, RemoveFinalizerEffect
  <2>2. /\ Status(o) = "leaving" /\ Status(o)' = "free"
        /\ \A m \in Overlays : m # o => Status(m)' = Status(m)
    BY <2>1 DEF Status
  <2>3. \A k \in WorkKeys : Holder(k) # o
    BY <2>1, OverlayKeysAssumption DEF Holder
  <2>4. Placement!Release(o)
    BY <1>1, <2>2, <2>3 DEF Placement!Release, Holder
  <2> QED BY <2>4 DEF Placement!Next
<1> QED BY <1>2, <1>3

LEMMA InitRefines == Init => Placement!Init
<1> SUFFICES ASSUME Init PROVE Placement!Init
  OBVIOUS
<1>1. \A o \in Overlays : Status(o) = "free"
  <2> TAKE o \in Overlays
  <2>1. Stored(o) = Absent(0)
    BY DEF Init, Stored
  <2> QED BY <2>1 DEF Status, Absent
<1>2. \A k \in WorkKeys : Holder(k) = NoRequest
  BY DEF Init, Holder
<1> QED BY <1>1, <1>2 DEF Placement!Init

LEMMA NextRefines ==
    ASSUME IndInv, ~MayDropClusters, DistinctWorkNames, [Next]_vars
    PROVE  [Placement!Next]_(Placement!vars)
<1>1. CASE \E o \in Overlays :
              \/ \E s \in Specs : CreateOverlay(o, s) \/ UpdateOverlay(o, s)
              \/ DeleteOverlay(o)
  BY <1>1, UserRefines
<1>2. CASE AddFinalizer \/ RemoveFinalizer
  BY <1>2, FinalizerRefines
<1>3. CASE ApplyManifestWork
  BY <1>3, ApplyRefines
<1>4. CASE DeleteManifestWork
  BY <1>4, DeleteRefines
<1>5. CASE \/ Informers \/ (\E o \in Overlays : StartReconcile(o))
           \/ ResolveProvider \/ ResolveAddress \/ RestDeleteSlice
           \/ UpdateRefused \/ CallFails \/ Crash \/ StartManager
           \/ (\E c \in Clusters, a \in IPAddresses \cup {Empty} : MoveCluster(c, a))
           \/ (\E t \in ClientTypes : Redeploy(t))
           \/ (\E p \in EditableProfiles, v \in Providers \cup {NoProvider} :
                  WriteProfile(p, v))
           \/ (\E k \in WorkKeys : Expire(k)) \/ UNCHANGED vars
  <2>1. UNCHANGED works
    BY <1>5 DEF Informers, DeliverOverlay, DeliverProfile,
                requestsForProviderProfile, requestsListError, StartReconcile,
                ResolveProvider, ResolveAddress, RestDeleteSlice, UpdateRefused,
                CallFails, Crash, Stop, StartManager, MoveCluster, Redeploy,
                WriteProfile, Expire, vars
  <2>2. \A m \in Overlays : Stored(m)' = Stored(m)
    BY <1>5, StoredFrame DEF IndInv
  <2> QED BY <2>1, <2>2, StatusFrame, Stutter
<1> QED BY <1>1, <1>2, <1>3, <1>4, <1>5 DEF Next, Users, ReconcileStep

\* The SliceOverlay controller implements the claimed placement of the other
\* one, with its extra loop, its empty slices and its process that comes and
\* goes: NEDs are placed under the finalizer only, those of a deleted slice are
\* deleted and no others, and the finalizer goes after the last of them.
THEOREM OverlayRefinement ==
    ~MayDropClusters /\ DistinctWorkNames => (Spec => ImplementsPlacement)
<1> SUFFICES ASSUME ~MayDropClusters, DistinctWorkNames
             PROVE  Spec => ImplementsPlacement
  OBVIOUS
<1>1. IndInv /\ [Next]_vars => [Placement!Next]_(Placement!vars)
  BY NextRefines
<1> QED BY <1>1, InitRefines, IndInvHolds, PTL
        DEF Spec, ImplementsPlacement, Placement!Spec
=============================================================================
