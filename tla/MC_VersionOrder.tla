--------------------------- MODULE MC_VersionOrder ---------------------------
(***************************************************************************)
(* Checks VersionOrder's model of parse_version and of the skip test in    *)
(* main() against the numeric order of versions, over every version string *)
(* built from a few majors, minors, patches and qualifiers.  The variable  *)
(* `input` walks through the inputs, one per state.                        *)
(***************************************************************************)
EXTENDS VersionOrder

CONSTANTS Majors, Minors, Patches

\* Pre-release qualifiers, as the release names spell them.
Alpha1 == <<97, 108, 112, 104, 97, 49>>
Rc1 == <<114, 99, 49>>
Qualifiers == {<<>>, Alpha1, Rc1}

Versions == [major : Majors, minor : Minors, patch : Patches, qual : Qualifiers]

VARIABLE input

Init == input \in Versions

Next == \E t \in Versions : input' = t

Spec == Init /\ [][Next]_input

\* The numeric order of <<major, minor, patch>> against 2.3.0.
NumericAtLeastMin(t) ==
    \/ t.major > 2
    \/ t.major = 2 /\ t.minor > 3
    \/ t.major = 2 /\ t.minor = 3

\* At or above the 2.3.0 release: 2.3.0 itself or a later version, not a
\* pre-release of 2.3.0.
ReleaseAtLeastMin(t) ==
    NumericAtLeastMin(t) /\ ~(<<t.major, t.minor, t.patch>> = <<2, 3, 0>> /\ t.qual # <<>>)

(***************************************************************************)
(* Soundness of the skip test in main(): a version that parse_version      *)
(* accepts and that is not skipped is numerically 2.3.0 or later, so the   *)
(* script never starts a node older than the native realm of 2.3.0.        *)
(***************************************************************************)
NotSkippedIsAtLeastMin ==
    LET s == VersionString(input)
    IN  ParseOK(s) /\ ~Skipped(s) => NumericAtLeastMin(input)

(***************************************************************************)
(* Completeness of the skip test, as the log message of main() and the     *)
(* spec state it: a release numerically at or above 2.3.0 is not skipped.  *)
(* parse_version compares the parts as strings, so '10' < '3'.             *)
(***************************************************************************)
ReleaseAtLeastMinNotSkipped ==
    LET s == VersionString(input)
    IN  ReleaseAtLeastMin(input) => ~Skipped(s)
=============================================================================
