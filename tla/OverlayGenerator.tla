-------------------------- MODULE OverlayGenerator --------------------------
(***************************************************************************)
(* generate-cr, which writes an Overlay made from a topology file, and     *)
(* ConstructOverlayFromL2smmd, the Overlay of a whole slice.               *)
(***************************************************************************)
EXTENDS SliceTopology

CONSTANTS
    NoInput,           \* no -input argument
    NoFile,            \* a file that is not there
    Garbled,           \* a file that is no JSON topology
    Topologies,        \* the contents of the others: [nodes, links]
    defaultProvider,   \* the provider of an Overlay that names none
    OldFile,           \* what the output held before
    CutFile,           \* an output of which not all was written, if anything
    Slices             \* the specs given to ConstructOverlayFromL2smmd

VARIABLES
    resource, output, input,   \* arguments; the content of the input file
    values,                    \* overlayGenerator.Values, or the resource made
    file,                      \* the content of the output file
    pc,                        \* the next step, or the exit status
    slice                      \* a slice for ConstructOverlayFromL2smmd

vars == <<resource, output, input, values, file, pc, slice>>

\* An Overlay: its name, provider and topology.
OverlayOf(provider, nodes, links) == [provider |-> provider, nodes |-> nodes, links |-> links]

constructOverlayFromTopology(topology) ==
    OverlayOf(defaultProvider, topology.nodes, topology.links)

getOverlayNodeNames(nodes) == [i \in 1..Len(nodes) |-> nodes[i].name]

\* Mutant of OverlayLinks: no mesh where there are no links.
OverlayLinksGiven(spec) == spec.links

OverlayLinks(spec) ==
    IF spec.links = {} /\ Len(spec.nodes) > 1
    THEN GenerateTopology(spec.nodes) ELSE spec.links

ConstructOverlayFromL2smmd(spec) ==
    OverlayOf(IF spec.provider = NoProvider THEN defaultProvider ELSE spec.provider,
              getOverlayNodeNames(spec.nodes), OverlayLinks(spec))

-----------------------------------------------------------------------------
(* generate-cr's main. *)

\* Without an input, takeArguments returns no output and an error that main
\* ignores; reading the file "" then fails.
takeArguments ==
    /\ pc = "arguments"
    /\ IF input = NoInput
       THEN /\ resource' = "Overlay" /\ output' = FALSE /\ input' = NoFile
       ELSE UNCHANGED <<resource, output, input>>
    /\ pc' = "read"
    /\ UNCHANGED <<values, file>>

Step(from, succeeds, to) ==
    /\ pc = from
    /\ pc' = IF succeeds THEN to ELSE "exit 1"
    /\ UNCHANGED <<resource, output, input, file>>

ReadFile == Step("read", input # NoFile, "new") /\ UNCHANGED values

\* Mutant of NewCRGenerator: every kind has a generator.
NewCRGeneratorAny == Step("new", TRUE, "add") /\ UNCHANGED values

NewCRGenerator == Step("new", resource = "Overlay", "add") /\ UNCHANGED values

AddValues ==
    /\ Step("add", input # Garbled, "create")
    /\ values' = IF input = Garbled THEN values ELSE input

\* No error can come from a topology.
CreateResource ==
    /\ Step("create", TRUE, "write")
    /\ values' = constructOverlayFromTopology(values)

\* os.WriteFile may fail to open the output, or after it has emptied it, and
\* its result is ignored; without an output the bytes are printed as numbers.
WriteFile ==
    /\ pc = "write"
    /\ file' \in IF output THEN {values, file, CutFile} ELSE {file}
    /\ pc' = "exit 0"
    /\ UNCHANGED <<resource, output, input, values>>

Init ==
    /\ resource \in {"Overlay", "NetworkEdgeDevice", "L2Network"}
    /\ output \in BOOLEAN
    /\ input \in {NoInput, NoFile, Garbled} \cup Topologies
    /\ values = NoFile
    /\ file = OldFile
    /\ pc = "arguments"
    /\ slice \in Slices

Next ==
    /\ UNCHANGED slice
    /\ \/ takeArguments \/ ReadFile \/ NewCRGenerator
       \/ AddValues \/ CreateResource \/ WriteFile

-----------------------------------------------------------------------------
(* Properties. *)

\* generate-cr touches its output only to write the Overlay that was asked
\* for: an unknown kind, a missing argument or a file that is no topology
\* leaves what was there, and ends with status 1.  A file that it could write
\* to the end has the nodes and links of its input.  (Status 0 does not say
\* that it could: the file may be the old one or cut short.)
OutputAsAsked ==
    /\ file # OldFile => /\ resource = "Overlay" /\ output
                         /\ input \in Topologies
    /\ file \notin {OldFile, CutFile} =>
          <<file.nodes, file.links>> = <<input.nodes, input.links>>
    /\ pc = "exit 1" => file = OldFile
    /\ pc = "exit 0" => resource = "Overlay" /\ input \in Topologies

\* The Overlay of a slice joins the same clusters as the devices that
\* ApplySlice gives them: the two places that read a topology agree on the
\* mesh of a slice without links, and on links that leave the slice.
OverlayMatchesDevices ==
    LET overlay == ConstructOverlayFromL2smmd(slice)
        names   == {overlay.nodes[i] : i \in 1..Len(overlay.nodes)}
    IN  /\ names = NodeNames(slice)
        /\ \A c, d \in names :
             LET ned == NED(slice, [n \in NodeNames(slice) |-> Empty], slice.provider, c)
             IN  (\E n \in ned.neighbors : n.node = d)
                    <=> (<<c, d>> \in overlay.links \/ <<d, c>> \in overlay.links)
=============================================================================
