----------------------- MODULE ProviderResolver_proofs -----------------------
(***************************************************************************)
(* The watch on ProviderProfiles and the resolution of providers agree.    *)
(***************************************************************************)
EXTENDS ProviderResolver, TLAPS

\* The two pieces of code that spell out the default name and namespace, the
\* resolver and the match loop of requestsForProviderProfile, look at the
\* same profile.
LEMMA ConcernsTheKey ==
    ASSUME NEW p \in NamespacedName, NEW ns \in Namespaces, NEW spec,
           spec.providerRef \in ProviderReference \cup {NoRef}
    PROVE  concernsProfile(p, ns, spec) <=>
              spec.provider = NoProvider /\ p = ProfileKey(ns, spec.providerRef)
<1>1. p = [namespace |-> p.namespace, name |-> p.name]
  BY DEF NamespacedName
<1>2. CASE spec.providerRef = NoRef
  BY <1>1, <1>2 DEF concernsProfile, ProfileKey
<1>3. CASE spec.providerRef # NoRef
  BY <1>1, <1>3 DEF concernsProfile, ProfileKey
<1> QED BY <1>2, <1>3

\* No profile change goes unnoticed: if writing profile p makes a slice
\* resolve to another provider, or to none, then the watch handler requests
\* the reconcile of that slice.
THEOREM WatchCoversResolution ==
    ASSUME NEW p \in NamespacedName, NEW ns \in Namespaces, NEW spec,
           spec.providerRef \in ProviderReference \cup {NoRef},
           NEW before \in [NamespacedName -> Providers \cup {NoProvider}],
           NEW v \in Providers \cup {NoProvider},
           resolveProvider([before EXCEPT ![p] = v], ns, spec)
             # resolveProvider(before, ns, spec)
    PROVE  concernsProfile(p, ns, spec)
<1>1. ProfileKey(ns, spec.providerRef) \in NamespacedName
  BY NamesAssumption
     DEF ProfileKey, NamespacedName, ProviderReference, DefaultIfEmpty, Empty
<1>2. spec.provider = NoProvider
  BY DEF resolveProvider
<1>3. p = ProfileKey(ns, spec.providerRef)
  BY <1>1, <1>2 DEF resolveProvider, resolveProviderReference
<1> QED BY <1>2, <1>3, ConcernsTheKey

\* And the watch wakes only slices that the profile decides: one the handler
\* requests resolves to whatever the profile now holds.
THEOREM WatchIsExact ==
    ASSUME NEW p \in NamespacedName, NEW ns \in Namespaces, NEW spec,
           spec.providerRef \in ProviderReference \cup {NoRef},
           NEW profiles \in [NamespacedName -> Providers \cup {NoProvider}],
           concernsProfile(p, ns, spec)
    PROVE  resolveProvider(profiles, ns, spec) = profiles[p]
<1>1. spec.provider = NoProvider /\ p = ProfileKey(ns, spec.providerRef)
  BY ConcernsTheKey
<1> QED BY <1>1 DEF resolveProvider, resolveProviderReference
=============================================================================
