CONSTANTS
    Versions <- MCVersions
    Releases <- MCReleases
    ArgLists <- MCArgLists
    PollAttempts = 2
    MaxRuns = 2
    MaxKills = 1
    PipeCap = 5
    Foreign = TRUE
    LateInterrupts = TRUE
SPECIFICATION Spec
INVARIANT ArchivesFromStoppedNode
PROPERTY InvocationEnds TmpRemovedAfterNodeStops
