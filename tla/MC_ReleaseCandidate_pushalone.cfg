\* A clean snapshot checkout; every invocation, --push-s3 without --deploy included.
CONSTANTS
    ArgSets <- MCAllArgSets
    CommittedPoms = {"snapshot"}
    CommittedVersionFiles = {"snapshot"}
    Branches = {"even"}
    MayFail = FALSE
    MaxRuns = 2
    MaxCrashes = 0
SPECIFICATION Spec
INVARIANT SyncsBuiltRepository
