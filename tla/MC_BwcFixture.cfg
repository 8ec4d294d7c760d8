CONSTANTS
    Versions <- MCVersions
    Releases <- MCReleases
    ArgLists <- MCArgLists
    PollAttempts = 2
    PipeCap = 5
    MaxRuns = 2
    MaxKills = 1
    Foreign = FALSE
    LateInterrupts = FALSE
SPECIFICATION Spec
INVARIANT TypeOK
INVARIANT ArchivesFromStoppedNode
INVARIANT ArchivesComplete
INVARIANT CleanExit
PROPERTY InvocationEnds TmpRemovedAfterNodeStops
