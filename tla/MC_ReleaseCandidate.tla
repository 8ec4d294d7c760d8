------------------------- MODULE MC_ReleaseCandidate -------------------------
(***************************************************************************)
(* Instances of ReleaseCandidate for TLC.                                  *)
(***************************************************************************)
EXTENDS ReleaseCandidate

\* The invocations a release manager uses: --push-s3 only together with
\* --deploy, which builds what is pushed.
MCArgSets == {a \in Flags : a.push => a.deploy}

\* Every invocation, --push-s3 alone included.
MCAllArgSets == Flags

=============================================================================
