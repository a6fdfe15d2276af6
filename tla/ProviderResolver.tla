------------------------- MODULE ProviderResolver -------------------------
(***************************************************************************)
(* Which provider configuration a slice uses, and which slices a changed   *)
(* ProviderProfile concerns.  Both controllers share the first function    *)
(* (provider_resolver.go); each has its own copy of the second, which must *)
(* agree with it or a profile change reaches no reconcile.                 *)
(*                                                                         *)
(* spec stands for a SliceNetworkSpec or a SliceOverlaySpec: any record    *)
(* with fields provider and providerRef.  profiles maps every profile key  *)
(* to its configuration, NoProvider where no such profile exists.          *)
(***************************************************************************)
EXTENDS SliceTypes

\* The profile that a slice of the given namespace refers to.
ProfileKey(defaultNamespace, ref) ==
    IF ref = NoRef
    THEN [namespace |-> defaultNamespace, name |-> defaultProviderProfileName]
    ELSE [namespace |-> DefaultIfEmpty(ref.namespace, defaultNamespace),
          name      |-> DefaultIfEmpty(ref.name, defaultProviderProfileName)]

\* NoProvider is the error return: the profile does not exist.
resolveProviderReference(profiles, defaultNamespace, ref) ==
    profiles[ProfileKey(defaultNamespace, ref)]

\* An inline provider wins over any reference.
resolveProvider(profiles, namespace, spec) ==
    IF spec.provider # NoProvider
    THEN spec.provider
    ELSE resolveProviderReference(profiles, namespace, spec.providerRef)

\* Mutant of concernsProfile: a reference without a name matches no profile.
concernsProfileNamed(profile, namespace, spec) ==
    /\ spec.provider = NoProvider
    /\ \/ /\ spec.providerRef = NoRef
          /\ profile.name = defaultProviderProfileName
          /\ profile.namespace = namespace
       \/ /\ spec.providerRef # NoRef
          /\ profile.namespace = DefaultIfEmpty(spec.providerRef.namespace, namespace)
          /\ profile.name = spec.providerRef.name

\* The test that requestsForProviderProfile applies to each listed slice.
concernsProfile(profile, namespace, spec) ==
    /\ spec.provider = NoProvider
    /\ \/ /\ spec.providerRef = NoRef
          /\ profile.name = defaultProviderProfileName
          /\ profile.namespace = namespace
       \/ /\ spec.providerRef # NoRef
          /\ profile.namespace = DefaultIfEmpty(spec.providerRef.namespace, namespace)
          /\ profile.name = DefaultIfEmpty(spec.providerRef.name,
                                           defaultProviderProfileName)

=============================================================================
