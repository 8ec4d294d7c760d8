CONSTANTS
    Versions <- MCVersions
    Releases <- MCReleases
    ArgLists <- MCArgLists
    PollAttempts = 2
    MaxRuns = 2
    MaxKills = 1
    PipeCap = 5
    Foreign = FALSE
    LateInterrupts = TRUE
SPECIFICATION Spec
INVARIANT CleanExit
