---------------------------- MODULE MC_BwcFixture ----------------------------
(***************************************************************************)
(* A small instance of BwcFixture for TLC: four version strings, one of    *)
(* them below 2.3.0, one without a release directory and one that          *)
(* parse_version rejects.                                                  *)
(***************************************************************************)
EXTENDS BwcFixture

\* '1.7.0', '2.3.4', '2.4.0' and the two-part '2.3'.
V170 == VO!VersionString([major |-> 1, minor |-> 7, patch |-> 0, qual |-> <<>>])
V234 == VO!VersionString([major |-> 2, minor |-> 3, patch |-> 4, qual |-> <<>>])
V240 == VO!VersionString([major |-> 2, minor |-> 4, patch |-> 0, qual |-> <<>>])
V23 == VO!Decimal[2] \o <<VO!Dot>> \o VO!Decimal[3]

MCVersions == {V170, V234, V240, V23}
MCReleases == {V234}
MCArgLists == {<<V170, V234>>, <<V240>>, <<V23>>}
=============================================================================
