---------------------------- MODULE Tools_proofs ----------------------------
(***************************************************************************)
(* Proofs about the tools and calculations, for every value of their       *)
(* constants.                                                              *)
(***************************************************************************)
EXTENDS Tools, SliceTopology_proofs, FiniteSetTheorems, WellFoundedInduction

-----------------------------------------------------------------------------
(* generate-cr and ConstructOverlayFromL2smmd. *)

\* What generate-cr knows of its input at each step.
GeneratorOK ==
    /\ slice \in Slices
    /\ pcGenerator \in {"rest", "arguments", "read", "new", "add", "create", "write",
                        "exit 0", "exit 1"}
    /\ pcGenerator = "arguments" => input \in {NoInput, NoFile, Garbled} \cup Topologies
    /\ pcGenerator = "read" => input \in {NoFile, Garbled} \cup Topologies
    /\ pcGenerator \in {"new", "add"} => input \in {Garbled} \cup Topologies
    /\ pcGenerator \in {"add", "create", "write", "exit 0"} => resource = "Overlay"
    /\ pcGenerator \in {"create", "write", "exit 0"} => input \in Topologies
    /\ pcGenerator = "create" => values = input
    /\ pcGenerator = "write" => values = Generator!constructOverlayFromTopology(input)
    /\ pcGenerator # "exit 0" => file = OldFile
    /\ file # OldFile => output
    /\ file \notin {OldFile, CutFile} =>
          file = Generator!constructOverlayFromTopology(input)

LEMMA InitGenerator == Init => GeneratorOK
<1>1. GeneratorRests => GeneratorOK
  BY ToolsAssumption DEF GeneratorRests, GeneratorOK
<1>2. Generator!Init => GeneratorOK
  BY DEF Generator!Init, GeneratorOK
<1> QED BY <1>1, <1>2 DEF Init

LEMMA NextGenerator == GeneratorOK /\ [Next]_vars => GeneratorOK'
<1> SUFFICES ASSUME GeneratorOK, [Next]_vars PROVE GeneratorOK'
  OBVIOUS
<1>1. CASE UNCHANGED generator
  BY <1>1 DEF generator, GeneratorOK
<1>2. CASE Generator!takeArguments /\ UNCHANGED slice
  BY <1>2 DEF Generator!takeArguments, GeneratorOK
<1>3. CASE Generator!ReadFile /\ UNCHANGED slice
  BY <1>3 DEF Generator!ReadFile, Generator!Step, GeneratorOK
<1>4. CASE Generator!NewCRGenerator /\ UNCHANGED slice
  BY <1>4 DEF Generator!NewCRGenerator, Generator!Step, GeneratorOK
<1>5. CASE Generator!AddValues /\ UNCHANGED slice
  BY <1>5 DEF Generator!AddValues, Generator!Step, GeneratorOK
<1>6. CASE Generator!CreateResource /\ UNCHANGED slice
  BY <1>6 DEF Generator!CreateResource, Generator!Step, GeneratorOK
<1>7. CASE Generator!WriteFile /\ UNCHANGED slice
  BY <1>7 DEF Generator!WriteFile, GeneratorOK
<1> QED BY <1>1, <1>2, <1>3, <1>4, <1>5, <1>6, <1>7
        DEF Next, vars, Generator!Next

\* The operators of SliceTopology that the generator reaches are the same.
LEMMA SameTopology ==
    ASSUME NEW s, NEW a, NEW p, NEW c, NEW nodes
    PROVE  /\ Generator!NodeNames(s) = NodeNames(s)
           /\ Generator!GenerateTopology(nodes) = GenerateTopology(nodes)
           /\ Generator!NED(s, a, p, c) = NED(s, a, p, c)
<1>1. /\ Generator!NodeNames(s) = NodeNames(s)
      /\ Generator!GenerateTopology(nodes) = GenerateTopology(nodes)
      /\ Generator!GenerateTopology(s.nodes) = GenerateTopology(s.nodes)
  BY DEF Generator!NodeNames, NodeNames, Generator!GenerateTopology, GenerateTopology
<1>2. \A d : Generator!monitoredNode(s, d) = monitoredNode(s, d)
  BY <1>1 DEF Generator!monitoredNode, monitoredNode
<1>3. Generator!LinkedTo(s, c) = LinkedTo(s, c)
  BY <1>1 DEF Generator!LinkedTo, LinkedTo, Generator!sliceLinks, sliceLinks
<1>4. \A d : Generator!Neighbor(s, a, c, d) = Neighbor(s, a, c, d)
  BY <1>1, <1>2 DEF Generator!Neighbor, Neighbor, Generator!Empty, Empty
<1> QED BY <1>1, <1>2, <1>3, <1>4 DEF Generator!NED, NED

\* generate-cr touches its output only to write the Overlay of a topology that
\* it has read, and ends with status 0 only then, for every set of files; what
\* it writes is that Overlay, or as much of it as the file system took.
THEOREM GeneratorWritesWhatIsAsked == Spec => []OutputAsAsked
<1>1. ASSUME NEW t
      PROVE  /\ Generator!constructOverlayFromTopology(t).nodes = t.nodes
             /\ Generator!constructOverlayFromTopology(t).links = t.links
  BY DEF Generator!constructOverlayFromTopology, Generator!OverlayOf
<1>2. GeneratorOK => OutputAsAsked
  BY <1>1 DEF GeneratorOK, OutputAsAsked, Generator!OutputAsAsked
<1> QED BY <1>2, InitGenerator, NextGenerator, PTL DEF Spec

\* The Overlay of a slice joins the clusters that the devices of the slice
\* join, for every spec: one that lists a cluster twice, or has links to
\* clusters outside, too.
THEOREM OverlayAgreesWithDevices == Spec => []OverlayMatchesDevices
<1>1. GeneratorOK => OverlayMatchesDevices
  <2> SUFFICES ASSUME GeneratorOK PROVE Generator!OverlayMatchesDevices
    BY DEF OverlayMatchesDevices
  <2>1. PICK spec \in SliceOverlaySpec : spec = slice
    BY ToolsAssumption DEF GeneratorOK
  <2> DEFINE overlay == Generator!ConstructOverlayFromL2smmd(slice)
             listed == {overlay.nodes[k] : k \in 1..Len(overlay.nodes)}
  <2>2. /\ overlay.nodes = [k \in 1..Len(spec.nodes) |-> spec.nodes[k].name]
        /\ overlay.links = sliceLinks(spec)
    BY <2>1, SameTopology DEF Generator!ConstructOverlayFromL2smmd, Generator!OverlayOf,
                Generator!getOverlayNodeNames, Generator!OverlayLinks, sliceLinks
  <2>3. Len(overlay.nodes) = Len(spec.nodes)
    BY <2>2, NodeTypes
  <2>4. listed = NodeNames(spec)
    BY <2>2, <2>3 DEF NodeNames
  <2> HIDE DEF overlay, listed
  <2>5. ASSUME NEW c \in NodeNames(spec), NEW d \in NodeNames(spec), NEW a, NEW p
        PROVE  (\E n \in NED(spec, a, p, c).neighbors : n.node = d)
                  <=> (<<c, d>> \in overlay.links \/ <<d, c>> \in overlay.links)
    <3>1. (\E n \in NED(spec, a, p, c).neighbors : n.node = d) <=> d \in LinkedTo(spec, c)
      BY NeighborOf
    <3>2. d \in Clusters
      BY NodeTypes
    <3> QED BY <2>2, <3>1, <3>2 DEF LinkedTo
  <2>6. listed = Generator!NodeNames(slice)
    BY <2>1, <2>4, SameTopology
  <2>7. ASSUME NEW c \in listed, NEW d \in listed
        PROVE  (\E n \in Generator!NED(slice, [m \in Generator!NodeNames(slice) |-> Generator!Empty],
                                      slice.provider, c).neighbors : n.node = d)
                  <=> (<<c, d>> \in overlay.links \/ <<d, c>> \in overlay.links)
    <3>1. PICK a, p : a = [m \in Generator!NodeNames(slice) |-> Generator!Empty]
                      /\ p = slice.provider
      OBVIOUS
    <3>2. Generator!NED(slice, a, p, c) = NED(spec, a, p, c)
      BY <2>1, SameTopology
    <3> QED BY <2>4, <2>5, <3>1, <3>2
  <2> QED BY <2>6, <2>7 DEF Generator!OverlayMatchesDevices, overlay, listed
<1> QED BY <1>1, InitGenerator, NextGenerator, PTL DEF Spec

-----------------------------------------------------------------------------
(* apply-cert. *)

SecretType == [certValue : Certificates, rv : Nat]

\* An apply-cert that is at work was called to put a certificate.
SecretsOK ==
    /\ secrets \in [ClusterNames -> SecretType \cup {NoSecret}]
    /\ version \in Nat
    /\ pcSecrets \in [Admins -> {"idle", "get", "create", "update"}]
    /\ call \in [Admins -> [op : {"put"}, key : ClusterNames, value : Certificates] \cup {NoCall}]
    /\ answer \in [Admins -> {"idle", "pending", "ok", "error"}]
    /\ \A p \in Admins :
          IF pcSecrets[p] = "idle" THEN answer[p] # "pending"
          ELSE /\ answer[p] = "pending"
               /\ call[p] \in [op : {"put"}, key : ClusterNames, value : Certificates]

LEMMA InitSecrets == Init => SecretsOK
BY DEF Init, Secrets!Init, SecretsOK

LEMMA StartStep ==
    ASSUME SecretsOK, NEW p \in Admins, NEW c \in ClusterNames, NEW x \in Certificates,
           Secrets!Start(p, c, x)
    PROVE  SecretsOK'
<1>1. PICK k \in [op : {"put"}, key : ClusterNames, value : Certificates] :
         call' = [call EXCEPT ![p] = k]
  BY DEF Secrets!Start
<1> QED BY <1>1 DEF Secrets!Start, SecretsOK

LEMMA ExitStep ==
    ASSUME SecretsOK, NEW p \in Admins, NEW how \in {"ok", "error"}, Secrets!Exit(p, how),
           secrets' \in [ClusterNames -> SecretType \cup {NoSecret}], version' \in Nat
    PROVE  SecretsOK'
BY DEF Secrets!Exit, SecretsOK

LEMMA PutTypes ==
    ASSUME SecretsOK, NEW p \in Admins, pcSecrets[p] # "idle", Secrets!Put(p)
    PROVE  /\ secrets' \in [ClusterNames -> SecretType \cup {NoSecret}]
           /\ version' \in Nat
           /\ \E s \in SecretType : /\ secrets' = [secrets EXCEPT ![call[p].key] = s]
                                     /\ s.certValue = call[p].value
<1>1. PICK k \in [op : {"put"}, key : ClusterNames, value : Certificates] : k = call[p]
  BY DEF SecretsOK
<1>2. version + 1 \in Nat
  BY DEF SecretsOK
<1>3. PICK s : s = [certValue |-> k.value, rv |-> version + 1]
  OBVIOUS
<1>4. s \in SecretType /\ s.certValue = k.value
  BY <1>2, <1>3 DEF SecretType
<1>5. secrets' = [secrets EXCEPT ![k.key] = s] /\ version' = version + 1
  BY <1>1, <1>3 DEF Secrets!Put
<1> QED BY <1>1, <1>2, <1>4, <1>5 DEF SecretsOK

\* The steps of a running apply-cert, by how they end.
LEMMA SecretsSteps ==
    ASSUME SecretsOK, NEW p \in Admins,
           Secrets!Get(p) \/ Secrets!Create(p) \/ Secrets!Update(p) \/ Secrets!Fail(p)
    PROVE  /\ pcSecrets[p] # "idle"
           /\ \/ /\ Secrets!Get(p)
              \/ /\ Secrets!Put(p)
                 /\ \E how \in {"ok", "error"} : Secrets!Exit(p, how)
              \/ /\ UNCHANGED <<secrets, version>>
                 /\ Secrets!Exit(p, "error")
BY DEF Secrets!Get, Secrets!Create, Secrets!Update, Secrets!Fail, Secrets!Replied,
       Secrets!AlreadyExists

LEMMA NextSecrets == SecretsOK /\ [Next]_vars => SecretsOK'
<1> SUFFICES ASSUME SecretsOK, [Next]_vars PROVE SecretsOK'
  OBVIOUS
<1>1. CASE UNCHANGED certs
  BY <1>1 DEF certs, SecretsOK
<1>2. ASSUME NEW p \in Admins, Secrets!Get(p) PROVE SecretsOK'
  BY <1>2 DEF Secrets!Get, SecretsOK
<1>3. ASSUME NEW p \in Admins,
             Secrets!Get(p) \/ Secrets!Create(p) \/ Secrets!Update(p) \/ Secrets!Fail(p)
      PROVE  SecretsOK'
  <2>1. CASE Secrets!Get(p)
    BY <1>2, <2>1
  <2>2. CASE Secrets!Put(p) /\ \E how \in {"ok", "error"} : Secrets!Exit(p, how)
    BY <1>3, <2>2, SecretsSteps, PutTypes, ExitStep
  <2>3. CASE UNCHANGED <<secrets, version>> /\ Secrets!Exit(p, "error")
    BY <2>3, ExitStep DEF SecretsOK
  <2> QED BY <1>3, <2>1, <2>2, <2>3, SecretsSteps
<1> QED BY <1>1, <1>3, StartStep DEF Next, vars, Secrets!Next

\* A step of an apply-cert that ends refines the end of the abstract call.
LEMMA ExitRefines ==
    ASSUME SecretsOK, NEW p \in Admins, pcSecrets[p] # "idle", NEW how, Secrets!Exit(p, how)
    PROVE  answer[p] = "pending" /\ Secrets!Store!End(p, how)
BY DEF SecretsOK, Secrets!Exit, Secrets!Store!End

\* What GetClusterCertificates lists for a cluster.
Listed(c) == IF c \in DOMAIN Secrets!GetClusterCertificates
             THEN Secrets!GetClusterCertificates[c] ELSE NoSecret

LEMMA ListedIsStored ==
    /\ \A c \in ClusterNames :
          Listed(c) = IF secrets[c] = NoSecret THEN NoSecret ELSE secrets[c].certValue
    /\ \A c \in ClusterNames :
          Listed(c)' = IF secrets'[c] = NoSecret THEN NoSecret ELSE secrets'[c].certValue
BY DEF Secrets!GetClusterCertificates, Listed

LEMMA PutRefines ==
    ASSUME SecretsOK, NEW p \in Admins, pcSecrets[p] # "idle", Secrets!Put(p)
    PROVE  Secrets!Store!Effect(call[p])
<1>1. PICK k \in [op : {"put"}, key : ClusterNames, value : Certificates] : k = call[p]
  BY DEF SecretsOK
<1>2. PICK s \in SecretType : /\ secrets' = [secrets EXCEPT ![k.key] = s]
                              /\ s.certValue = k.value
  BY <1>1, PutTypes
<1>3. s # NoSecret
  BY ToolsAssumption DEF SecretType
<1>4. \A c \in ClusterNames : secrets'[c] = IF c = k.key THEN s ELSE secrets[c]
  BY <1>2 DEF SecretsOK
<1>5. \A c \in ClusterNames : Listed(c)' = IF c = k.key THEN k.value ELSE Listed(c)
  BY <1>2, <1>3, <1>4, ListedIsStored
<1>6. [c \in ClusterNames |-> Listed(c)'] = [[c \in ClusterNames |-> Listed(c)] EXCEPT ![k.key] = k.value]
  BY <1>1, <1>5
<1> QED BY <1>1, <1>6 DEF Secrets!Store!Effect, Listed

LEMMA StartRefines ==
    ASSUME SecretsOK, NEW p \in Admins, NEW c \in ClusterNames, NEW x \in Certificates,
           Secrets!Start(p, c, x)
    PROVE  Secrets!Store!Next
<1>1. answer[p] # "pending"
  BY DEF SecretsOK, Secrets!Start
<1>2. PICK k : k = [op |-> "put", key |-> c, value |-> x]
  OBVIOUS
<1>3. k \in Secrets!Store!Calls
  BY <1>2 DEF Secrets!Store!Calls, Secrets!Store!Ops
<1>4. call' = [call EXCEPT ![p] = k] /\ answer' = [answer EXCEPT ![p] = "pending"]
      /\ UNCHANGED secrets
  BY <1>2 DEF Secrets!Start
<1>5. Secrets!Store!Begin(p)
  BY <1>1, <1>3, <1>4 DEF Secrets!Store!Begin, Secrets!GetClusterCertificates
<1> QED BY <1>5 DEF Secrets!Store!Next

LEMMA RunRefines ==
    ASSUME SecretsOK, NEW p \in Admins,
           Secrets!Get(p) \/ Secrets!Create(p) \/ Secrets!Update(p) \/ Secrets!Fail(p)
    PROVE  [Secrets!Store!Next]_(Secrets!Store!vars)
<1>1. pcSecrets[p] # "idle"
  BY SecretsSteps
<1>2. CASE Secrets!Get(p)
  BY <1>2 DEF Secrets!Get, Secrets!Store!vars, Secrets!GetClusterCertificates
<1>3. CASE Secrets!Put(p) /\ \E how \in {"ok", "error"} : Secrets!Exit(p, how)
  <2>1. Secrets!Store!Effect(call[p])
    BY <1>1, <1>3, PutRefines
  <2>2. CASE Secrets!Exit(p, "ok")
    <3>1. answer[p] = "pending" /\ Secrets!Store!End(p, "ok")
      BY <1>1, <2>2, ExitRefines
    <3>2. Secrets!Store!Succeed(p)
      BY <2>1, <3>1 DEF Secrets!Store!Succeed
    <3> QED BY <3>2 DEF Secrets!Store!Next
  <2>3. CASE Secrets!Exit(p, "error")
    <3>1. answer[p] = "pending" /\ Secrets!Store!End(p, "error")
      BY <1>1, <2>3, ExitRefines
    <3>2. Secrets!Store!Fail(p)
      BY <2>1, <3>1 DEF Secrets!Store!Fail
    <3> QED BY <3>2 DEF Secrets!Store!Next
  <2> QED BY <1>3, <2>2, <2>3
<1>4. CASE UNCHANGED <<secrets, version>> /\ Secrets!Exit(p, "error")
  <2>1. answer[p] = "pending" /\ Secrets!Store!End(p, "error")
    BY <1>1, <1>4, ExitRefines
  <2>2. Secrets!Store!Fail(p)
    BY <1>4, <2>1 DEF Secrets!Store!Fail, Secrets!GetClusterCertificates
  <2> QED BY <2>2 DEF Secrets!Store!Next
<1> QED BY <1>2, <1>3, <1>4, SecretsSteps

\* An apply-cert that reports success has put its certificate where
\* GetClusterCertificates finds it, once and at one moment of its run, and one
\* that fails did so at most once, for any number of administrators, clusters,
\* runs and failing requests.
THEOREM CertificatesRefinement == Spec => SecretsImplementStore
<1>1. Init => Secrets!Store!Init
  BY ListedIsStored DEF Init, Secrets!Init, Secrets!Store!Init, Listed
<1>2. SecretsOK /\ [Next]_vars => [Secrets!Store!Next]_(Secrets!Store!vars)
  <2> SUFFICES ASSUME SecretsOK, [Next]_vars
               PROVE  [Secrets!Store!Next]_(Secrets!Store!vars)
    OBVIOUS
  <2>1. CASE UNCHANGED certs
    BY <2>1 DEF certs, Secrets!Store!vars, Secrets!GetClusterCertificates
  <2> QED BY <2>1, StartRefines, RunRefines DEF Next, vars, Secrets!Next
<1> QED BY <1>1, <1>2, InitSecrets, NextSecrets, PTL
        DEF Spec, SecretsImplementStore, Secrets!ImplementsStore, Secrets!Store!Spec

-----------------------------------------------------------------------------
(* Arithmetic of addresses.  Induction is by the least counterexample. *)

LEMMA Bounds == Width \in Nat \ {0} /\ MaxSubnets \in Nat
BY WidthAssumption, ToolsAssumption

\* A set of numbers that is not empty has a least one.
LEMMA Least ==
    ASSUME NEW T, T \subseteq Nat, T # {}
    PROVE  \E x \in T : \A y \in T : x <= y
<1>1. PICK x \in T : \A y \in T : ~(<<y, x>> \in OpToRel(<, Nat))
  BY NatLessThanWellFounded, WFMin
<1>2. x \in Nat /\ \A y \in T : y \in Nat /\ ~(y < x)
  BY <1>1 DEF OpToRel
<1> QED BY <1>2

\* A power of 2 is a number, larger than its exponent.
LEMMA Powers == \A n \in 0..Width + MaxSubnets : 2^n \in Nat /\ n < 2^n
<1>1. 2^0 = 1
  OBVIOUS
<1> DEFINE T == {n \in 0..Width + MaxSubnets : ~(2^n \in Nat /\ n < 2^n)}
<1>2. T \subseteq Nat
  BY Bounds
<1>3. 0 \notin T
  BY <1>1
<1>4. ASSUME T # {} PROVE FALSE
  <2> HIDE DEF T
  <2>1. PICK x \in T : \A y \in T : x <= y
    BY <1>2, <1>4, Least
  <2>2. x # 0
    BY <1>3, <2>1
  <2> USE DEF T
  <2>3. x \in 0..Width + MaxSubnets /\ x # 0
    BY <2>1, <2>2
  <2>4. x - 1 \in 0..Width + MaxSubnets /\ x - 1 \notin T
    BY <2>1, <2>3, Bounds
  <2>5. 2^(x - 1) \in Nat /\ x - 1 < 2^(x - 1)
    BY <2>4
  <2>6. 2^((x - 1) + 1) = 2 * 2^(x - 1)
    BY <2>4, PowersAssumption
  <2>7. (x - 1) + 1 = x
    BY <2>3, Bounds
  <2>8. 2^x = 2 * 2^(x - 1)
    BY <2>6, <2>7
  <2>9. PICK p \in Nat : p = 2^(x - 1)
    BY <2>5
  <2>10. x <= p /\ 2^x = 2 * p
    BY <2>3, <2>5, <2>8, <2>9, Bounds
  <2>11. 2^x \in Nat /\ x < 2^x
    BY <2>3, <2>10, Bounds
  <2> QED BY <2>11
<1> QED BY <1>4

\* Exponents add up.
LEMMA PowersAdd ==
    ASSUME NEW m \in Nat, NEW n \in Nat, m + n <= Width + MaxSubnets
    PROVE  2^(m + n) = 2^m * 2^n
<1>0. m \in 0..Width + MaxSubnets /\ n \in 0..Width + MaxSubnets
  BY Bounds
<1>1. PICK q \in Nat : q = 2^m
  BY <1>0, Powers
<1> DEFINE T == {k \in 0..n : 2^(m + k) # q * 2^k}
<1>2. T \subseteq Nat
  OBVIOUS
<1>3. ASSUME T # {} PROVE FALSE
  <2> HIDE DEF T
  <2>1. PICK x \in T : \A y \in T : x <= y
    BY <1>2, <1>3, Least
  <2> USE DEF T
  <2>0. 2^(m + 0) = q * 2^0
    BY <1>1
  <2>2. x \in 0..n /\ x # 0
    BY <2>0
  <2>3. x - 1 \in 0..n /\ x - 1 \notin T
    BY <2>1, <2>2
  <2>4. 2^(m + (x - 1)) = q * 2^(x - 1)
    BY <2>3
  <2>5. x - 1 \in 0..Width + MaxSubnets /\ m + (x - 1) \in 0..Width + MaxSubnets
    BY <2>3, Bounds
  <2>6. 2^((x - 1) + 1) = 2 * 2^(x - 1) /\ 2^((m + (x - 1)) + 1) = 2 * 2^(m + (x - 1))
    BY <2>5, PowersAssumption
  <2>7. (x - 1) + 1 = x /\ (m + (x - 1)) + 1 = m + x
    BY <2>2
  <2>8. PICK p \in Nat : p = 2^(x - 1)
    BY <2>5, Powers
  <2>9. 2^x = 2 * p /\ 2^(m + x) = 2 * (q * p)
    BY <2>4, <2>6, <2>7, <2>8
  <2>10. 2 * (q * p) = q * (2 * p)
    OBVIOUS
  <2> QED BY <2>9, <2>10
<1>4. n \notin T
  BY <1>3
<1> QED BY <1>1, <1>4
\* uint32 addition of less than the whole range wraps at most once.
LEMMA Wrap ==
    ASSUME NEW M \in Nat, NEW a \in 0..M - 1, NEW n \in 0..M - 1
    PROVE  (a + n) % M = IF a + n < M THEN a + n ELSE (a + n) - M
OBVIOUS

\* Multiples of a block size are a block apart.
LEMMA Multiples ==
    ASSUME NEW B \in Nat \ {0}, NEW q \in Nat, NEW r \in Nat, B * r < B * q
    PROVE  B * r + B <= B * q
<1>1. r < q
  <2>1. ASSUME q <= r PROVE FALSE
    <3>1. PICK d \in Nat : r = q + d
      BY <2>1
    <3>2. B * r = B * q + B * d /\ B * d \in Nat
      BY <3>1
    <3> QED BY <3>2
  <2> QED BY <2>1
<1>2. PICK d \in Nat : q = r + 1 + d
  BY <1>1
<1>3. B * q = B * r + B + B * d /\ B * d \in Nat
  BY <1>2
<1> QED BY <1>3

\* The block of an address lies inside a whole number of blocks.
LEMMA Block ==
    ASSUME NEW B \in Nat \ {0}, NEW q \in Nat, NEW a \in 0..B * q - 1
    PROVE  \E r \in Nat : a - (a % B) = B * r /\ B * r + B <= B * q
<1>1. a \div B \in Nat
  OBVIOUS
<1>2. a - (a % B) = B * (a \div B) /\ a % B \in Nat
  OBVIOUS
<1>3. PICK r \in Nat : r = a \div B
  BY <1>1
<1>4. B * r < B * q
  BY <1>2, <1>3
<1> QED BY <1>2, <1>3, <1>4, Multiples

\* A multiple of the block size is aligned.
LEMMA MultipleMod ==
    ASSUME NEW B \in Nat \ {0}, NEW r \in Nat
    PROVE  (B * r) % B = 0
<1>1. PICK a \in Nat : a = B * r
  OBVIOUS
<1>2. a = B * (a \div B) + (a % B) /\ a % B \in 0..B-1 /\ a \div B \in Nat
  OBVIOUS
<1>3. PICK q \in Nat : q = a \div B
  BY <1>2
<1>4. PICK m \in 0..B-1 : m = a % B
  BY <1>2
<1>5. B * r = B * q + m
  BY <1>1, <1>2, <1>3, <1>4
<1>6. CASE r <= q
  <2>1. PICK d \in Nat : q = r + d
    BY <1>6
  <2>2. B * q = B * r + B * d /\ B * d \in Nat
    BY <2>1
  <2> QED BY <1>1, <1>4, <1>5, <2>2
<1>7. CASE q < r
  <2>1. PICK d \in Nat : r = q + 1 + d
    BY <1>7
  <2>2. B * r = B * q + B + B * d /\ B * d \in Nat
    BY <2>1
  <2> QED BY <1>5, <2>2
<1> QED BY <1>6, <1>7
-----------------------------------------------------------------------------
(* The monitoring addresses. *)

\* A block's size divides the number of addresses.
LEMMA Fraction ==
    ASSUME NEW n \in 0..Width
    PROVE  \E B \in Nat \ {0}, q \in Nat :
              B = 2^(Width - n) /\ q = 2^n /\ 2^Width = B * q
<1>1. Width - n \in Nat /\ n \in Nat /\ (Width - n) + n = Width
  BY Bounds
<1>2. Width - n \in 0..Width + MaxSubnets /\ n \in 0..Width + MaxSubnets
  BY Bounds
<1>3. 2^((Width - n) + n) = 2^(Width - n) * 2^n
  BY <1>1, Bounds, PowersAdd
<1> QED BY <1>1, <1>2, <1>3, Powers

\* What is allocated after i clusters: to the j-th cluster of the slice, the
\* j-th address after the one that the CIDR is written with.
Allocated(n) ==
    /\ DOMAIN allocated = {clusters[k] : k \in 1..n}
    /\ \A k \in 1..n : allocated[clusters[k]] = Add(cidr.ip, k)
    /\ \A k, l \in 1..n : clusters[k] = clusters[l] => k = l

AllocationOK ==
    /\ cidr \in CIDR \cup {NotIPv4}
    /\ Len(clusters) \in Nat
    /\ i \in 0..Len(clusters)
    /\ pc \in {"rest", "check"} => i = 0
    /\ pc = "ok" => i = Len(clusters)
    /\ i > 0 \/ pc = "loop" => cidr # NotIPv4 /\ Len(clusters) <= BlockSize(cidr.ones) - 2
    /\ Allocated(i)

LEMMA InitAllocation == Init => AllocationOK
<1> SUFFICES ASSUME Init PROVE AllocationOK
  OBVIOUS
<1>1. cidr \in CIDR \cup {NotIPv4} /\ allocated = << >> /\ i = 0 /\ pc \in {"rest", "check"}
  BY DEF Init, MonitoringRests, Monitoring!Init, CIDR, Address, Monitoring!CIDR, Monitoring!Address
<1>2. Len(clusters) \in Nat
  <2>1. CASE MonitoringRests
    BY <2>1 DEF MonitoringRests
  <2>2. CASE Monitoring!Init
    <3>1. PICK n \in 0..MaxClusters : clusters \in [1..n -> ClusterNames \cup {NoName}]
      BY <2>2 DEF Monitoring!Init
    <3>2. n \in Nat
      BY ToolsAssumption
    <3> QED BY <3>1, <3>2
  <2> QED BY <2>1, <2>2 DEF Init
<1>3. Allocated(0)
  BY <1>1 DEF Allocated
<1> QED BY <1>1, <1>2, <1>3 DEF AllocationOK

LEMMA NextAllocation == AllocationOK /\ [Next]_vars => AllocationOK'
<1> SUFFICES ASSUME AllocationOK, [Next]_vars PROVE AllocationOK'
  OBVIOUS
<1>1. CASE UNCHANGED monitoring
  BY <1>1 DEF monitoring, AllocationOK, Allocated
<1>2. ASSUME UNCHANGED <<cidr, clusters, allocated, i>>, Allocated(i) PROVE Allocated(i)'
  BY <1>2 DEF Allocated
<1>3. CASE UNCHANGED <<cidr, clusters>> /\ Monitoring!NothingToAllocate
  BY <1>2, <1>3 DEF Monitoring!NothingToAllocate, Monitoring!Return, AllocationOK
<1>4. CASE UNCHANGED <<cidr, clusters>> /\ (Monitoring!RejectCIDR \/ Monitoring!RejectName)
  BY <1>2, <1>4 DEF Monitoring!RejectCIDR, Monitoring!RejectName, Monitoring!Return, AllocationOK
<1>5. CASE UNCHANGED <<cidr, clusters>> /\ Monitoring!AcceptCIDR
  BY <1>2, <1>5 DEF Monitoring!AcceptCIDR, Monitoring!Fits, Monitoring!usableHosts,
                    Monitoring!BlockSize, BlockSize, AllocationOK
<1>6. CASE UNCHANGED <<cidr, clusters>> /\ Monitoring!Done
  BY <1>2, <1>6 DEF Monitoring!Done, Monitoring!Return, AllocationOK
<1>7. CASE UNCHANGED <<cidr, clusters>> /\ Monitoring!Allocate
  <2>1. /\ pc = "loop" /\ pc' = pc /\ i' = i + 1 /\ i \in Nat /\ i < Len(clusters)
        /\ clusters[i + 1] \notin DOMAIN allocated
        /\ UNCHANGED <<cidr, clusters>>
    BY <1>7 DEF Monitoring!Allocate, AllocationOK
  <2>2. /\ DOMAIN allocated' = DOMAIN allocated \cup {clusters[i + 1]}
        /\ allocated'[clusters[i + 1]] = Add(cidr.ip, i + 1)
        /\ \A c \in DOMAIN allocated : allocated'[c] = allocated[c]
    BY <1>7, <2>1 DEF Monitoring!Allocate, Monitoring!hostAddress, Monitoring!Add, Add
  <2>3. Allocated(i)
    BY DEF AllocationOK
  <2>4. \A k \in 1..i + 1 : k \in 1..i \/ k = i + 1
    BY <2>1
  <2>5. \A k \in 1..i : k \in 1..i + 1 /\ clusters[k] \in DOMAIN allocated
    BY <2>1, <2>3 DEF Allocated
  <2>6. i + 1 \in 1..i + 1
    BY <2>1
  <2>7. DOMAIN allocated' = {clusters[k] : k \in 1..i + 1}
    BY <2>2, <2>3, <2>4, <2>5, <2>6 DEF Allocated
  <2>8. \A k \in 1..i + 1 : allocated'[clusters[k]] = Add(cidr.ip, k)
    BY <2>2, <2>3, <2>4, <2>5 DEF Allocated
  <2>9. \A k, l \in 1..i + 1 : clusters[k] = clusters[l] => k = l
    BY <2>1, <2>3, <2>4, <2>5 DEF Allocated
  <2>10. Allocated(i)'
    BY <2>1, <2>7, <2>8, <2>9 DEF Allocated
  <2> QED BY <2>1, <2>10 DEF AllocationOK
<1> QED BY <1>1, <1>3, <1>4, <1>5, <1>6, <1>7 DEF Next, vars, Monitoring!Next

\* The addresses given do not meet: there are fewer clusters than addresses.
LEMMA AddressesDiffer ==
    ASSUME AllocationOK, NEW k \in 1..i, NEW l \in 1..i, Add(cidr.ip, k) = Add(cidr.ip, l)
    PROVE  k = l
<1>1. i \in Nat /\ i > 0
  BY DEF AllocationOK
<1>2. cidr \in CIDR /\ i <= BlockSize(cidr.ones) - 2
  <2>1. cidr \in CIDR /\ Len(clusters) <= BlockSize(cidr.ones) - 2
    BY <1>1 DEF AllocationOK
  <2>2. BlockSize(cidr.ones) \in Nat
    BY <2>1, Fraction DEF CIDR, BlockSize
  <2> QED BY <2>1, <2>2 DEF AllocationOK
<1>3. PICK B \in Nat \ {0}, q \in Nat : B = BlockSize(cidr.ones) /\ q = 2^cidr.ones /\ 2^Width = B * q
  BY <1>2, Fraction DEF CIDR, BlockSize
<1>4. PICK M \in Nat : M = 2^Width
  BY <1>3
<1>5. PICK a \in 0..M - 1 : a = cidr.ip
  BY <1>2, <1>4 DEF CIDR, Address
<1>6. q # 0 /\ M = B * q
  BY <1>3, <1>4, <1>5
<1>7. PICK r \in Nat : q = r + 1
  BY <1>6
<1>8. M = B + B * r /\ B * r \in Nat
  BY <1>6, <1>7
<1>9. k \in 0..M - 1 /\ l \in 0..M - 1
  BY <1>1, <1>2, <1>3, <1>8
<1>10. (a + k) % M = (a + l) % M
  BY <1>4, <1>5 DEF Add
<1>11. /\ (a + k) % M = IF a + k < M THEN a + k ELSE (a + k) - M
       /\ (a + l) % M = IF a + l < M THEN a + l ELSE (a + l) - M
  BY <1>9, Wrap
<1> QED BY <1>1, <1>9, <1>10, <1>11

\* The instance of FiniteSets that MonitoringAllocation reaches is the same.
LEMMA SameCardinality == \A S : Monitoring!Cardinality(S) = Cardinality(S)
BY Zenon DEF Monitoring!Cardinality, Cardinality

\* A slice whose monitoring is accepted has an address for each of its
\* clusters, no two the same, for any width of an address, any CIDR, aligned
\* or not, and any number of clusters up to the size of its block.
THEOREM EveryClusterItsAddress == Spec => []EveryClusterHasItsAddress
<1>1. AllocationOK => EveryClusterHasItsAddress
  <2> SUFFICES ASSUME AllocationOK, pc = "ok"
               PROVE  /\ DOMAIN allocated = {clusters[k] : k \in 1..Len(clusters)}
                      /\ Cardinality({allocated[c] : c \in DOMAIN allocated}) = Len(clusters)
    BY SameCardinality DEF EveryClusterHasItsAddress, Monitoring!EveryClusterHasItsAddress
  <2>1. i = Len(clusters) /\ i \in Nat /\ Allocated(i)
    BY DEF AllocationOK
  <2>2. {allocated[c] : c \in DOMAIN allocated} = {Add(cidr.ip, k) : k \in 1..i}
    BY <2>1 DEF Allocated
  <2> DEFINE f == [k \in 1..i |-> Add(cidr.ip, k)]
             S == {Add(cidr.ip, k) : k \in 1..i}
  <2>3. f \in [1..i -> S] /\ \A k \in 1..i : f[k] = Add(cidr.ip, k)
    OBVIOUS
  <2>4. \A k, l \in 1..i : f[k] = f[l] => k = l
    BY <2>3, AddressesDiffer
  <2>5. \A s \in S : \E k \in 1..i : f[k] = s
    OBVIOUS
  <2>6. ExistsBijection(1..i, S)
    <3> HIDE DEF f, S
    <3> QED BY <2>3, <2>4, <2>5 DEF ExistsBijection, Bijection, Injection, Surjection, IsInjective
  <2>7. Cardinality(S) = i
    <3> HIDE DEF S
    <3> QED BY <2>1, <2>6, FS_CountingElements
  <2> QED BY <2>1, <2>2, <2>7 DEF Allocated
<1> QED BY <1>1, InitAllocation, NextAllocation, PTL DEF Spec

\* The address of the k-th cluster, where the CIDR is written with its network
\* address, lies k further and short of the broadcast address.
LEMMA AlignedAddress ==
    ASSUME AllocationOK, NEW k \in 1..i, cidr.ip = NetworkAddress(cidr)
    PROVE  Add(cidr.ip, k) \in UsableAddresses(cidr)
<1>1. i \in Nat /\ i > 0
  BY DEF AllocationOK
<1>2. cidr \in CIDR /\ Len(clusters) <= BlockSize(cidr.ones) - 2
  BY <1>1 DEF AllocationOK
<1>3. PICK B \in Nat \ {0}, q \in Nat : B = BlockSize(cidr.ones) /\ q = 2^cidr.ones /\ 2^Width = B * q
  BY <1>2, Fraction DEF CIDR, BlockSize
<1>4. PICK M \in Nat : M = 2^Width /\ M = B * q
  BY <1>3
<1>5. PICK a \in 0..B * q - 1 : a = cidr.ip
  BY <1>2, <1>4 DEF CIDR, Address
<1>6. PICK r \in Nat : a - (a % B) = B * r /\ B * r + B <= B * q
  BY Block
<1>7. a = B * r /\ NetworkAddress(cidr) = a
  BY <1>3, <1>5, <1>6 DEF NetworkAddress
<1>8. k <= B - 2
  BY <1>1, <1>2, <1>3 DEF AllocationOK
<1>9. a + k < M
  BY <1>4, <1>6, <1>7, <1>8
<1>10. Add(cidr.ip, k) = a + k
  BY <1>4, <1>5, <1>9 DEF Add
<1> QED BY <1>3, <1>7, <1>8, <1>10 DEF UsableAddresses, AddressesOf, Broadcast

\* From a monitoring CIDR written with its network address every cluster gets
\* a host's address of that network: the check against usableHosts is enough,
\* and the uint32 addition stays inside the block.
THEOREM AlignedClustersGetHosts == Spec => []AlignedAllocationUsable
<1>1. AllocationOK => AlignedAllocationUsable
  <2> SUFFICES ASSUME AllocationOK, cidr.ip = NetworkAddress(cidr), NEW c \in DOMAIN allocated
               PROVE  allocated[c] \in UsableAddresses(cidr)
    BY DEF AlignedAllocationUsable, Monitoring!AlignedAllocationUsable,
           Monitoring!UsableAddresses, Monitoring!AddressesOf, Monitoring!Broadcast,
           Monitoring!NetworkAddress, Monitoring!BlockSize,
           UsableAddresses, AddressesOf, Broadcast, NetworkAddress, BlockSize
  <2>1. PICK k \in 1..i : c = clusters[k] /\ allocated[c] = Add(cidr.ip, k)
    BY DEF AllocationOK, Allocated
  <2> QED BY <2>1, AlignedAddress
<1> QED BY <1>1, InitAllocation, NextAllocation, PTL DEF Spec

-----------------------------------------------------------------------------
(* The subnets of ApplyCIDRs. *)

\* The bits that numberClusters is written with are enough to count to it.
LEMMA BitLength ==
    ASSUME NEW n \in 0..MaxSubnets
    PROVE  Subnets!bitLength(n) \in Nat \ {0} /\ n < 2^Subnets!bitLength(n)
<1> DEFINE T == {b \in 1..n + 1 : n < 2^b}
<1>1. n \in Nat /\ n + 1 \in 0..Width + MaxSubnets
  BY Bounds
<1>2. 2^(n + 1) \in Nat /\ n + 1 < 2^(n + 1)
  BY <1>1, Powers
<1>3. n + 1 \in T
  BY <1>1, <1>2
<1>4. T \subseteq Nat
  BY <1>1
<1>5. PICK b \in T : \A x \in T : b <= x
  <2> HIDE DEF T
  <2> QED BY <1>3, <1>4, Least
<1>6. b = 1 \/ 2^(b - 1) <= n
  <2> SUFFICES ASSUME b # 1 PROVE 2^(b - 1) <= n
    OBVIOUS
  <2>1. b \in 1..n + 1
    BY <1>5
  <2>2. b - 1 \in 1..n + 1 /\ b - 1 \in 0..Width + MaxSubnets
    BY <1>1, <2>1, Bounds
  <2>3. b - 1 \notin T
    <3> HIDE DEF T
    <3> QED BY <1>5, <2>1
  <2>4. 2^(b - 1) \in Nat /\ ~(n < 2^(b - 1))
    BY <2>2, <2>3, Powers
  <2> QED BY <1>1, <2>4
<1>7. \E x \in 1..n + 1 : n < 2^x /\ (x = 1 \/ 2^(x - 1) <= n)
  BY <1>5, <1>6
<1>8. Subnets!bitLength(n) \in 1..n + 1 /\ n < 2^Subnets!bitLength(n)
  BY <1>7 DEF Subnets!bitLength
<1> QED BY <1>1, <1>8

\* The n + 1 subnets of a network, the one at its own address included, lie one
\* after another inside it.
LEMMA Carve ==
    ASSUME NEW net \in CIDR, NEW n \in 0..MaxSubnets, NEW p \in Int,
           p = net.ones + Subnets!bitLength(n), p <= Width
    PROVE  \E S \in Nat \ {0}, N \in Nat, B \in Nat :
              /\ S = BlockSize(p) /\ N = NetworkAddress(net) /\ B = BlockSize(net.ones)
              /\ \A k \in 0..n : /\ k * S \in Nat /\ k * S + S <= B
                                 /\ Add(N, k * S) = N + k * S
                                 /\ (N + k * S) % S = 0
<1>1. PICK ones \in 0..Width, b \in Nat \ {0} :
          ones = net.ones /\ b = Subnets!bitLength(n) /\ n < 2^b
  BY BitLength DEF CIDR
<1>2. p = ones + b /\ p \in 0..Width /\ b \in Nat /\ Width - p \in Nat /\ Width - ones \in Nat
      /\ (Width - p) + b = Width - ones
  BY <1>1, Bounds
<1>3. PICK S \in Nat \ {0} : S = 2^(Width - p)
  BY <1>2, Fraction
<1>4. PICK B \in Nat \ {0}, q \in Nat : B = 2^(Width - ones) /\ 2^Width = B * q
  BY <1>1, Fraction
<1>5. PICK w \in Nat : w = 2^b /\ n < w
  <2>1. b \in 0..Width + MaxSubnets
    BY <1>2, Bounds
  <2> QED BY <1>1, <2>1, Powers
<1>6. B = S * w
  <2>1. 2^((Width - p) + b) = 2^(Width - p) * 2^b
    BY <1>2, Bounds, PowersAdd
  <2> QED BY <1>2, <1>3, <1>4, <1>5, <2>1
<1>7. PICK a \in 0..B * q - 1 : a = net.ip
  BY <1>4 DEF CIDR, Address
<1>8. PICK r \in Nat : a - (a % B) = B * r /\ B * r + B <= B * q
  BY Block
<1>9. PICK N \in Nat : N = B * r
  OBVIOUS
<1>10. S = BlockSize(p) /\ N = NetworkAddress(net) /\ B = BlockSize(net.ones)
  BY <1>1, <1>3, <1>4, <1>7, <1>8, <1>9 DEF BlockSize, NetworkAddress
<1>11. ASSUME NEW k \in 0..n
       PROVE  /\ k * S \in Nat /\ k * S + S <= B
              /\ Add(N, k * S) = N + k * S
              /\ (N + k * S) % S = 0
  <2>1. k \in Nat /\ k < w
    BY <1>5
  <2>2. PICK d \in Nat : w = k + 1 + d
    BY <2>1
  <2>3. S * w = k * S + S + S * d /\ S * d \in Nat /\ k * S \in Nat
    BY <2>1, <2>2
  <2>4. PICK x \in Nat : x = k * S
    BY <2>3
  <2>5. x + S <= B
    BY <1>6, <2>3, <2>4
  <2>6. N + x < B * q
    BY <1>8, <1>9, <2>5
  <2>7. Add(N, x) = N + x
    BY <1>4, <2>6 DEF Add
  <2>8. PICK y \in Nat : y = w * r
    OBVIOUS
  <2>9. S * y = B * r
    BY <1>6, <2>8
  <2>10. N + x = S * (y + k)
    BY <1>9, <2>1, <2>4, <2>9
  <2>11. (S * (y + k)) % S = 0
    BY <2>1, MultipleMod
  <2> QED BY <2>4, <2>5, <2>7, <2>10, <2>11
<1> QED BY <1>10, <1>11

PodNetworks == [NetworkCIDR : CIDR, PodAddressRange : [ip : Int, ones : Int]]

PlanOK ==
    /\ networkCIDR \in CIDR
    /\ numberClusters \in 0..MaxSubnets
    /\ networks \in Seq(PodNetworks)
    /\ j = Len(networks) + 1
    /\ Len(networks) <= numberClusters
    /\ Len(networks) > 0 \/ pcSubnets = "loop" => Subnets!newPrefix <= Width
    /\ \A k \in 1..Len(networks) :
          networks[k].PodAddressRange =
              [ip |-> Add(NetworkAddress(networkCIDR), k * BlockSize(Subnets!newPrefix)),
               ones |-> Subnets!newPrefix]

LEMMA InitPlan == Init => PlanOK
<1> SUFFICES ASSUME Init PROVE PlanOK
  OBVIOUS
<1>1. 0 \in Address /\ 0 \in 0..Width /\ 0 \in 0..MaxSubnets
  BY Bounds, Powers DEF Address
<1>2. networkCIDR \in CIDR /\ numberClusters \in 0..MaxSubnets
  BY <1>1 DEF Init, SubnetsRest, Subnets!Init, CIDR, Address, Subnets!CIDR, Subnets!Address
<1>3. networks = << >> /\ j = 1 /\ pcSubnets # "loop"
  BY DEF Init, SubnetsRest, Subnets!Init
<1>4. Len(networks) = 0 /\ networks \in Seq(PodNetworks)
  BY <1>3
<1> QED BY <1>2, <1>3, <1>4, Bounds DEF PlanOK

\* The prefix of the subnets, while the arguments stay.
LEMMA PrefixType ==
    ASSUME PlanOK
    PROVE  Subnets!newPrefix \in Int /\ networkCIDR.ones + Subnets!bitLength(numberClusters) = Subnets!newPrefix
<1>1. networkCIDR.ones \in 0..Width /\ Subnets!bitLength(numberClusters) \in Nat
  BY BitLength DEF PlanOK, CIDR
<1> QED BY <1>1, Bounds DEF Subnets!newPrefix

LEMMA NextPlan == PlanOK /\ [Next]_vars => PlanOK'
<1> SUFFICES ASSUME PlanOK, [Next]_vars PROVE PlanOK'
  OBVIOUS
<1>1. CASE UNCHANGED subnets
  BY <1>1 DEF subnets, PlanOK, Subnets!newPrefix, Subnets!bitLength
<1>2. CASE UNCHANGED <<networkCIDR, numberClusters, networks, j>> /\ (Subnets!Split \/ Subnets!Done)
  <2>1. Subnets!newPrefix' = Subnets!newPrefix
    BY <1>2 DEF Subnets!newPrefix, Subnets!bitLength
  <2>2. pcSubnets' = "loop" => Subnets!newPrefix <= Width
    BY <1>2, PrefixType, Bounds DEF Subnets!Split, Subnets!Done
  <2> QED BY <1>2, <2>1, <2>2 DEF PlanOK
<1>3. CASE UNCHANGED <<networkCIDR, numberClusters>> /\ Subnets!AddNetwork
  <2>1. Subnets!newPrefix' = Subnets!newPrefix
    BY <1>3 DEF Subnets!newPrefix, Subnets!bitLength
  <2>2. PICK p \in Int : p = Subnets!newPrefix /\ p <= Width
    BY <1>3, PrefixType DEF PlanOK, Subnets!AddNetwork
  <2>3. PICK r : r = [ip |-> Add(NetworkAddress(networkCIDR), j * BlockSize(p)), ones |-> p]
    OBVIOUS
  <2>4. r \in [ip : Int, ones : Int]
    <3>1. PICK S \in Nat \ {0}, N \in Nat : S = BlockSize(p) /\ N = NetworkAddress(networkCIDR)
      BY <2>2, PrefixType, Carve DEF PlanOK
    <3>2. j * S \in Nat
      BY <3>1 DEF PlanOK
    <3>3. 2^Width \in Nat \ {0}
      BY Bounds, Powers
    <3>4. Add(N, j * S) \in Int
      BY <3>1, <3>2, <3>3 DEF Add
    <3> QED BY <2>3, <3>1, <3>4
  <2>5. networks' = Append(networks, [NetworkCIDR |-> networkCIDR, PodAddressRange |-> r])
        /\ j' = j + 1 /\ j <= numberClusters
    BY <1>3, <2>2, <2>3 DEF Subnets!AddNetwork, Subnets!Add, Add, Subnets!NetworkAddress,
                            NetworkAddress, Subnets!BlockSize, BlockSize
  <2>6. [NetworkCIDR |-> networkCIDR, PodAddressRange |-> r] \in PodNetworks
    BY <2>4 DEF PlanOK, PodNetworks
  <2>7. /\ networks' \in Seq(PodNetworks)
        /\ Len(networks') = Len(networks) + 1
        /\ \A k \in 1..Len(networks) : networks'[k] = networks[k]
        /\ networks'[Len(networks) + 1].PodAddressRange = r
    BY <2>5, <2>6 DEF PlanOK
  <2>8. \A k \in 1..Len(networks') :
            networks'[k].PodAddressRange =
              [ip |-> Add(NetworkAddress(networkCIDR), k * BlockSize(p)), ones |-> p]
    BY <2>2, <2>3, <2>7 DEF PlanOK
  <2> QED BY <1>3, <2>1, <2>2, <2>5, <2>7, <2>8 DEF PlanOK
<1> QED BY <1>1, <1>2, <1>3 DEF Next, vars, Subnets!Next, Subnets!Split, Subnets!Done

\* The pod ranges that ApplyCIDRs hands out lie inside the network's CIDR, off
\* its first block, and apart from each other, for any CIDR and any number of
\* clusters: when the split does not fit, the call fails before the first one.
THEOREM PodRangesApart == Spec => []PodRangesDisjoint
<1>1. PlanOK => PodRangesDisjoint
  <2> SUFFICES ASSUME PlanOK, NEW m \in 1..Len(networks)
               PROVE  /\ AddressesOf(networks[m].PodAddressRange) \subseteq AddressesOf(networkCIDR)
                      /\ NetworkAddress(networkCIDR) \notin AddressesOf(networks[m].PodAddressRange)
                      /\ \A k \in 1..m - 1 :
                            AddressesOf(networks[m].PodAddressRange)
                              \cap AddressesOf(networks[k].PodAddressRange) = {}
    BY DEF PodRangesDisjoint, Subnets!PodRangesDisjoint, Subnets!AddressesOf, AddressesOf,
           Subnets!Broadcast, Broadcast, Subnets!NetworkAddress, NetworkAddress,
           Subnets!BlockSize, BlockSize
  <2>1. PICK p \in Int : p = Subnets!newPrefix /\ p <= Width
    BY PrefixType DEF PlanOK
  <2>2. PICK S \in Nat \ {0}, N \in Nat, B \in Nat :
              /\ S = BlockSize(p) /\ N = NetworkAddress(networkCIDR) /\ B = BlockSize(networkCIDR.ones)
              /\ \A k \in 0..numberClusters : /\ k * S \in Nat /\ k * S + S <= B
                                              /\ Add(N, k * S) = N + k * S
                                              /\ (N + k * S) % S = 0
    BY <2>1, PrefixType, Carve DEF PlanOK
  <2>3. AddressesOf(networkCIDR) = N .. N + B - 1
    BY <2>2 DEF AddressesOf, Broadcast
  <2>4. ASSUME NEW k \in 1..Len(networks)
        PROVE  /\ k \in 0..numberClusters
               /\ AddressesOf(networks[k].PodAddressRange) = N + k * S .. N + k * S + S - 1
    <3>1. k \in 0..numberClusters
      BY DEF PlanOK
    <3>2. PICK x \in Nat : x = k * S /\ Add(N, x) = N + x /\ (N + x) % S = 0
      BY <2>2, <3>1
    <3>3. networks[k].PodAddressRange
              = [ip |-> Add(NetworkAddress(networkCIDR), k * BlockSize(p)), ones |-> p]
      BY <2>1 DEF PlanOK
    <3>4. networks[k].PodAddressRange = [ip |-> N + x, ones |-> p]
      BY <2>2, <3>2, <3>3
    <3>5. PICK r : r = networks[k].PodAddressRange /\ r.ip = N + x /\ BlockSize(r.ones) = S
      BY <2>2, <3>4
    <3>6. NetworkAddress(r) = N + x
      BY <3>2, <3>5 DEF NetworkAddress
    <3> QED BY <3>1, <3>2, <3>5, <3>6 DEF AddressesOf, Broadcast
  <2>5. PICK x \in Nat : x = m * S /\ x + S <= B /\ S <= x
    <3>1. PICK x \in Nat : x = m * S /\ x + S <= B
      BY <2>2, <2>4
    <3>2. PICK d \in Nat : m = d + 1
      OBVIOUS
    <3>3. m * S = d * S + S /\ d * S \in Nat
      BY <3>2
    <3> QED BY <3>1, <3>3
  <2>6. AddressesOf(networks[m].PodAddressRange) = N + x .. N + x + S - 1
    BY <2>4, <2>5
  <2>7. ASSUME NEW k \in 1..m - 1
        PROVE  AddressesOf(networks[m].PodAddressRange)
                 \cap AddressesOf(networks[k].PodAddressRange) = {}
    <3>1. k \in 1..Len(networks)
      BY DEF PlanOK
    <3>2. PICK y \in Nat : y = k * S
      BY <2>2, <2>4, <3>1
    <3>3. PICK d \in Nat : m = k + 1 + d
      OBVIOUS
    <3>4. m * S = k * S + S + d * S /\ d * S \in Nat
      BY <3>3
    <3>5. y + S <= x
      BY <2>5, <3>2, <3>4
    <3>6. AddressesOf(networks[k].PodAddressRange) = N + y .. N + y + S - 1
      BY <2>4, <3>1, <3>2
    <3> QED BY <2>6, <3>5, <3>6
  <2>8. N + x .. N + x + S - 1 \subseteq N .. N + B - 1 /\ N \notin N + x .. N + x + S - 1
    BY <2>5
  <2> QED BY <2>2, <2>3, <2>6, <2>7, <2>8
<1> QED BY <1>1, InitPlan, NextPlan, PTL DEF Spec

-----------------------------------------------------------------------------
(* The names of ManifestWorks. *)

\* Trim finds the first and the last character to keep.
LEMMA LeastIsMin ==
    ASSUME NEW T, T \subseteq Nat, T # {}
    PROVE  WorkName!Min(T) \in T /\ \A x \in T : WorkName!Min(T) <= x
<1>1. \E x \in T : \A y \in T : x <= y
  BY Least
<1> QED BY <1>1 DEF WorkName!Min

LEMMA MaxExists ==
    ASSUME NEW n \in Nat, NEW T, T \subseteq 1..n, T # {}
    PROVE  WorkName!Max(T) \in T /\ \A x \in T : WorkName!Max(T) >= x
<1> DEFINE U == {n - x : x \in T}
<1>1. U \subseteq Nat /\ U # {}
  OBVIOUS
<1>2. PICK u \in U : \A y \in U : u <= y
  <2> HIDE DEF U
  <2> QED BY <1>1, Least
<1>3. PICK m \in T : u = n - m
  BY <1>2
<1>4. ASSUME NEW y \in T PROVE m >= y
  <2>1. n - y \in U /\ y \in 1..n /\ m \in 1..n
    BY <1>3
  <2>2. n - m <= n - y
    BY <1>2, <1>3, <2>1
  <2> QED BY <2>1, <2>2
<1>5. \E x \in T : \A y \in T : x >= y
  BY <1>4
<1> QED BY <1>5 DEF WorkName!Max

\* What the loop writes.
Written == Seq({"a", "-"})

\* A name made of letters and digits and dashes, that neither begins nor ends
\* with a dash.
Trimmed(s) == s \in Written /\ Len(s) > 0 /\ s[1] = "a" /\ s[Len(s)] = "a"

\* strings.Trim leaves no dash at either end, and a first letter survives it.
LEMMA TrimTrims ==
    ASSUME NEW s \in Written
    PROVE  /\ WorkName!Trim(s) # << >> => Trimmed(WorkName!Trim(s))
           /\ Len(WorkName!Trim(s)) \in Nat /\ Len(WorkName!Trim(s)) <= Len(s)
           /\ Len(s) > 0 /\ s[1] = "a" => WorkName!Trim(s) # << >>
<1> DEFINE T == {k \in 1..Len(s) : s[k] # "-"}
<1>1. PICK n \in Nat : n = Len(s)
  BY DEF Written
<1>2. CASE T = {}
  <2>1. WorkName!Trim(s) = << >>
    BY <1>2 DEF WorkName!Trim
  <2>2. ~(Len(s) > 0 /\ s[1] = "a")
    BY <1>1, <1>2
  <2> QED BY <1>1, <2>1, <2>2
<1>3. CASE T # {}
  <2>1. T \subseteq 1..n /\ T \subseteq Nat
    BY <1>1
  <2>2. WorkName!Trim(s) = SubSeq(s, WorkName!Min(T), WorkName!Max(T))
    BY <1>3 DEF WorkName!Trim
  <2>3. PICK lo \in T : lo = WorkName!Min(T)
    <3> HIDE DEF T
    <3> QED BY <1>3, <2>1, LeastIsMin
  <2>4. PICK hi \in T : hi = WorkName!Max(T) /\ \A x \in T : hi >= x
    <3> HIDE DEF T
    <3> QED BY <1>3, <2>1, MaxExists
  <2>5. lo \in 1..n /\ hi \in 1..n /\ lo <= hi
    BY <2>1, <2>3, <2>4
  <2>6. s[lo] = "a" /\ s[hi] = "a"
    BY <1>1, <2>3, <2>4 DEF Written
  <2>7. PICK t : t = SubSeq(s, lo, hi)
    OBVIOUS
  <2>8. t \in Written /\ Len(t) = hi - lo + 1 /\ t[1] = s[lo] /\ t[hi - lo + 1] = s[hi]
    BY <1>1, <2>5, <2>7 DEF Written
  <2>9. Trimmed(t) /\ t # << >>
    BY <2>5, <2>6, <2>8 DEF Trimmed
  <2>10. Len(t) \in Nat /\ Len(t) <= Len(s)
    BY <1>1, <2>5, <2>8
  <2> QED BY <2>2, <2>3, <2>4, <2>7, <2>9, <2>10
<1> QED BY <1>2, <1>3

\* The cut keeps the first letter, so that something is left.
LEMMA TruncateTrims ==
    ASSUME NEW s, Trimmed(s)
    PROVE  Trimmed(WorkName!Truncate(s)) /\ Len(WorkName!Truncate(s)) \in 1..MaxLabel
<1>1. MaxLabel \in Nat /\ MaxLabel > 0 /\ Len(s) \in Nat
  BY ToolsAssumption DEF Trimmed, Written
<1>2. CASE Len(s) <= MaxLabel
  BY <1>1, <1>2 DEF WorkName!Truncate, Trimmed
<1>3. CASE Len(s) > MaxLabel
  <2>1. PICK t \in Written : t = SubSeq(s, 1, MaxLabel) /\ Len(t) = MaxLabel /\ t[1] = s[1]
    <3>1. PICK n \in Nat : n = MaxLabel /\ n > 0
      BY <1>1
    <3>2. PICK t : t = SubSeq(s, 1, n)
      OBVIOUS
    <3>3. s \in Seq({"a", "-"}) /\ 1 \in 1..Len(s) + 1 /\ n \in 0..Len(s)
      BY <1>1, <1>3, <3>1 DEF Trimmed, Written
    <3>4. t \in Seq({"a", "-"})
      BY <3>2, <3>3
    <3>5. Len(t) = n /\ t[1] = s[1]
      BY <3>1, <3>2, <3>3
    <3> QED BY <3>1, <3>2, <3>4, <3>5 DEF Written
  <2>2. WorkName!Truncate(s) = WorkName!Trim(t)
    BY <1>3, <2>1 DEF WorkName!Truncate
  <2>3. Trimmed(WorkName!Trim(t))
    BY <1>1, <2>1, TrimTrims DEF Trimmed
  <2>4. Len(WorkName!Trim(t)) \in Nat /\ Len(WorkName!Trim(t)) <= MaxLabel
    BY <2>1, TrimTrims
  <2> QED BY <1>1, <2>2, <2>3, <2>4 DEF Trimmed
<1> QED BY <1>1, <1>2, <1>3

\* The API server takes such a name up to the length of a label.
LEMMA TrimmedIsDNS ==
    ASSUME NEW s, Trimmed(s), Len(s) \in 1..MaxLabel
    PROVE  WorkName!IsDNS1123Subdomain(s)
<1>1. Len(s) \in 1..MaxSubdomain
  BY ToolsAssumption
<1>2. \A k \in 1..Len(s) : s[k] \in {"a", "-"}
  BY DEF Trimmed, Written
<1>3. \A k \in 2..Len(s) - 1 : s[k] # "."
  BY <1>1, <1>2
<1> QED BY <1>1, <1>2, <1>3 DEF Trimmed, WorkName!IsDNS1123Subdomain

\* The loop writes only letters, digits and dashes.
NamesOK ==
    /\ builder \in Written
    /\ WorkNameUsable

LEMMA InitNames == Init => NamesOK
<1>1. NamesRest => NamesOK
  <2> SUFFICES ASSUME NamesRest PROVE NamesOK
    OBVIOUS
  <2>1. Trimmed(work) /\ Len(work) = 1 /\ builder \in Written
    BY DEF NamesRest, Trimmed, Written
  <2>2. WorkName!IsDNS1123Subdomain(work)
    <3>1. Len(work) \in 1..MaxLabel
      BY <2>1, ToolsAssumption
    <3> QED BY <2>1, <3>1, TrimmedIsDNS
  <2>3. ~WorkName!IsDNS1123Subdomain(name)
    BY DEF NamesRest, WorkName!IsDNS1123Subdomain
  <2> QED BY <2>1, <2>2, <2>3 DEF NamesOK, WorkNameUsable, WorkName!WorkNameUsable
<1>2. WorkName!Init => NamesOK
  BY DEF WorkName!Init, NamesOK, Written, WorkNameUsable, WorkName!WorkNameUsable
<1> QED BY <1>1, <1>2 DEF Init

LEMMA NextNames == NamesOK /\ [Next]_vars => NamesOK'
<1> SUFFICES ASSUME NamesOK, [Next]_vars PROVE NamesOK'
  OBVIOUS
<1> USE DEF WorkNameUsable, WorkName!WorkNameUsable
<1>1. CASE UNCHANGED names
  BY <1>1 DEF names, NamesOK, WorkName!IsDNS1123Subdomain
<1>2. CASE UNCHANGED name /\ WorkName!KeepName
  BY <1>2 DEF WorkName!KeepName, NamesOK, WorkName!IsDNS1123Subdomain
<1>3. CASE UNCHANGED name /\ work = << >> /\ WorkName!Build
  <2>1. WorkName!WriteRune(builder, WorkName!Lower(name[at])) \in Written
    BY DEF WorkName!WriteRune, NamesOK, Written
  <2> QED BY <1>3, <2>1 DEF WorkName!Build, NamesOK
<1>4. CASE UNCHANGED name /\ WorkName!Finish
  <2>1. PICK w : /\ w = work' /\ ~WorkName!IsDNS1123Subdomain(name)
                 /\ LET result == WorkName!Trim(builder)
                    IN  w = IF result = << >> THEN WorkName!NoneLeft ELSE WorkName!Truncate(result)
    BY <1>4 DEF WorkName!Finish
  <2>2. Trimmed(w) /\ Len(w) \in 1..MaxLabel
    <3>1. CASE WorkName!Trim(builder) = << >>
      <4>1. w = <<"a">>
        BY <2>1, <3>1 DEF WorkName!NoneLeft
      <4> QED BY <4>1, ToolsAssumption DEF Trimmed, Written
    <3>2. CASE WorkName!Trim(builder) # << >>
      <4>1. Trimmed(WorkName!Trim(builder))
        BY <3>2, TrimTrims DEF NamesOK
      <4> QED BY <2>1, <3>2, <4>1, TruncateTrims
    <3> QED BY <3>1, <3>2
  <2>3. WorkName!IsDNS1123Subdomain(w)
    BY <2>2, TrimmedIsDNS
  <2>4. WorkName!IsDNS1123Subdomain(work')
    BY <2>1, <2>3
  <2>5. ~WorkName!IsDNS1123Subdomain(name')
    BY <1>4, <2>1 DEF WorkName!IsDNS1123Subdomain
  <2> QED BY <1>4, <2>4, <2>5 DEF WorkName!Finish, NamesOK
<1> QED BY <1>1, <1>2, <1>3, <1>4 DEF Next, vars, WorkName!sanitizeManifestWorkName

\* The name of a ManifestWork is one that the API server takes, whatever the
\* name and however long, and a name that is valid is kept, for any limits of
\* which the code's is not above the API server's.
THEOREM WorkNamesUsable == Spec => []WorkNameUsable
<1>1. NamesOK => WorkNameUsable
  BY DEF NamesOK
<1> QED BY <1>1, InitNames, NextNames, PTL DEF Spec

=============================================================================
