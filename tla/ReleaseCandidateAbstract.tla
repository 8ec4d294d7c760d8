------------------------ MODULE ReleaseCandidateAbstract ------------------------
(***************************************************************************)
(* What preparing a release candidate promises, without the steps that    *)
(* implement it.  The checkout is at its commit, released (every pom and   *)
(* Version.java at the release version, nothing else changed) or modified *)
(* in any other way.  Artifacts are built only from a released checkout;  *)
(* a local repository of them is staged or not; something has been        *)
(* published to a remote staging area or not.                              *)
(*                                                                         *)
(* Preparing is not atomic, so a checkout at its commit may also end up    *)
(* modified; from there only restoring the commit leads on.                *)
(***************************************************************************)

VARIABLES tree, local, published

vars == <<tree, local, published>>

Trees == {"committed", "released", "modified"}

TypeOK ==
    /\ tree \in Trees
    /\ local \in {"none", "staged"}
    /\ published \in BOOLEAN

\* The checkout may start with changes of its own.
Init ==
    /\ tree \in {"committed", "modified"}
    /\ local = "none"
    /\ published = FALSE

\* A run takes the commit to the release versions.
Prepare ==
    /\ tree = "committed"
    /\ tree' = "released"
    /\ UNCHANGED <<local, published>>

\* A run stops half-way through its changes.
Break ==
    /\ tree = "committed"
    /\ tree' = "modified"
    /\ UNCHANGED <<local, published>>

\* The user restores the committed files.
Restore ==
    /\ tree' = "committed"
    /\ UNCHANGED <<local, published>>

\* A build of the released checkout: it may stage a local repository, and
\* may upload (deploy) while it runs, even when it fails.
Build ==
    /\ tree = "released"
    /\ local' \in {"none", "staged"}
    /\ published' \in {published, TRUE}
    /\ UNCHANGED tree

\* The local repository is removed.
Discard ==
    /\ local' = "none"
    /\ UNCHANGED <<tree, published>>

\* The staged repository is pushed.
Push ==
    /\ local = "staged"
    /\ published' = TRUE
    /\ UNCHANGED <<tree, local>>

Next == Prepare \/ Break \/ Restore \/ Build \/ Discard \/ Push

Spec == Init /\ [][Next]_vars

=============================================================================
