CONSTANTS
    Versions <- MCVersions
    Releases <- MCReleases
    ArgLists <- MCArgLists
    PollAttempts = 2
    MaxRuns = 2
    MaxKills = 1
    PipeCap = 4
    Foreign = FALSE
    LateInterrupts = FALSE
SPECIFICATION Spec
PROPERTY InvocationEnds
CHECK_DEADLOCK FALSE
