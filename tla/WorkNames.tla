----------------------------- MODULE WorkNames -----------------------------
(***************************************************************************)
(* sanitizeManifestWorkName: the name of the ManifestWork of a network or  *)
(* slice.  A name is a sequence of the kinds of characters that the code   *)
(* tells apart: "a" for a lower-case letter or digit, "A" for an upper-case *)
(* letter, "-", "." for one that becomes a dash, "!" for any other.        *)
(***************************************************************************)
EXTENDS Integers, SequencesExt

CONSTANTS
    MaxLabel,       \* 63 in the code
    MaxSubdomain,   \* 253, the longest name that Kubernetes takes
    MaxName         \* bound on the names given

Characters == {"a", "A", "-", ".", "!"}

VARIABLES
    name,      \* the argument
    builder,   \* the characters written so far
    at,        \* the next character of name
    work       \* the result, << >> before the return

vars == <<name, builder, at, work>>

\* validation.IsDNS1123Subdomain
IsDNS1123Subdomain(s) ==
    /\ Len(s) \in 1..MaxSubdomain
    /\ \A i \in 1..Len(s) : s[i] \in {"a", "-", "."}
    /\ s[1] = "a" /\ s[Len(s)] = "a"
    /\ \A i \in 2..Len(s) - 1 : s[i] = "." => s[i - 1] = "a" /\ s[i + 1] = "a"

\* strings.Trim(s, "-")
Trim(s) ==
    LET kept == {i \in 1..Len(s) : s[i] # "-"}
    IN  IF kept = {} THEN << >> ELSE SubSeq(s, Min(kept), Max(kept))

Lower(c) == IF c = "A" THEN "a" ELSE c

\* A character that is not allowed becomes a dash; dashes do not repeat.
WriteRune(written, c) ==
    LET r == IF c = "a" THEN "a" ELSE "-"
    IN  IF r = "-" /\ written # << >> /\ Last(written) = "-"
        THEN written ELSE Append(written, r)

\* Mutant of Truncate: the cut may leave a dash at the end.
TruncateOnly(s) == IF Len(s) > MaxLabel THEN SubSeq(s, 1, MaxLabel) ELSE s

Truncate(s) == IF Len(s) > MaxLabel THEN Trim(SubSeq(s, 1, MaxLabel)) ELSE s

\* "manifestwork", where nothing is left of the name; the code looks again
\* after the cut, which leaves at least the first character.
NoneLeft == <<"a">>

Init ==
    /\ name \in UNION {[1..n -> Characters] : n \in 0..MaxName}
    /\ builder = << >>
    /\ at = 1
    /\ work = << >>

KeepName ==
    /\ IsDNS1123Subdomain(name)
    /\ work' = name
    /\ UNCHANGED <<builder, at>>

Build ==
    /\ ~IsDNS1123Subdomain(name)
    /\ at <= Len(name)
    /\ builder' = WriteRune(builder, Lower(name[at]))
    /\ at' = at + 1
    /\ UNCHANGED work

Finish ==
    /\ ~IsDNS1123Subdomain(name)
    /\ at > Len(name)
    /\ LET result == Trim(builder)
       IN  work' = IF result = << >> THEN NoneLeft ELSE Truncate(result)
    /\ UNCHANGED <<builder, at>>

sanitizeManifestWorkName ==
    /\ work = << >>
    /\ KeepName \/ Build \/ Finish
    /\ UNCHANGED name

\* Whatever the name, the work's name is one that the API server takes, so
\* that a network or slice cannot fail for its name: the cut to 63 characters
\* leaves no dash behind.  A name that was already valid is kept, so that the
\* work's name is a fixed point.
WorkNameUsable ==
    work # << >> => /\ IsDNS1123Subdomain(work)
                    /\ IsDNS1123Subdomain(name) => work = name
=============================================================================
