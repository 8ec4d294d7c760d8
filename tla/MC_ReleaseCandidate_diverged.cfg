\* A clean snapshot checkout on a branch in any relation to origin.
CONSTANTS
    ArgSets <- MCArgSets
    CommittedPoms = {"snapshot"}
    CommittedVersionFiles = {"snapshot"}
    Branches = {"even", "behind", "ahead", "diverged"}
    MayFail = FALSE
    MaxRuns = 2
    MaxCrashes = 0
SPECIFICATION Spec
INVARIANT NoRunWithUnpushedCommits
