---------------------------- MODULE SliceTypes ----------------------------
(***************************************************************************)
(* The vocabulary shared by the slice controllers: namespaced names,       *)
(* provider configurations and references to ProviderProfiles, as the API  *)
(* types of api/v1 declare them.  A provider configuration (name, domains, *)
(* ports) is one opaque value: the controllers only copy it.               *)
(***************************************************************************)

CONSTANTS
    Namespaces,   \* Kubernetes namespaces of the hub
    Names,        \* object names, of slices and of ProviderProfiles alike
    Providers,    \* provider configurations (l2smv1.ProviderSpec values)
    NoProvider,   \* a nil *ProviderSpec: none given, or none found
    NoRef         \* a nil *ProviderReference

\* Go's empty string: a field the user left out.
Empty == ""

\* The profile a slice uses when it names none (provider_resolver.go).
defaultProviderProfileName == "default"

ASSUME NamesAssumption ==
    /\ defaultProviderProfileName \in Names
    /\ Empty \notin Names
    /\ Empty \notin Namespaces

ASSUME ProvidersAssumption == NoProvider \notin Providers

\* The key of a namespaced object.
NamespacedName == [namespace : Namespaces, name : Names]

\* A reference to a profile; either field may be left out.
ProviderReference == [namespace : Namespaces \cup {Empty},
                      name      : Names \cup {Empty}]

ASSUME RefAssumption == NoRef \notin ProviderReference

\* utils.DefaultIfEmpty
DefaultIfEmpty(val, def) == IF val = Empty THEN def ELSE val

=============================================================================
