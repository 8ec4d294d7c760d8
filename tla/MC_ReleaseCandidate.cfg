\* Three runs under every invocation, one of them killed, every command may
\* fail, the branch even with, behind, ahead of or diverged from origin, the committed poms at a
\* snapshot or a release, the committed Version.java with the snapshot line
\* of the release, already released, or named differently; seen through the
\* refinement mapping, every step is a step of ReleaseCandidateAbstract.
CONSTANTS
    ArgSets <- MCAllArgSets
    CommittedPoms = {"snapshot", "release"}
    CommittedVersionFiles = {"snapshot", "release", "other"}
    Branches = {"even", "behind", "ahead", "diverged"}
    MayFail = TRUE
    MaxRuns = 3
    MaxCrashes = 1
SPECIFICATION Spec
INVARIANT TypeOK VersionFileRecoverable TempFilesLeakOnlyOnCrash
PROPERTY AbsSpec KeepsUserChanges
