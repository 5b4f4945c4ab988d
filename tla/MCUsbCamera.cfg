SPECIFICATION FairSpec
CONSTANTS
    NumCandidates = 2
    MaxBuffers = 3
    Lazy = TRUE
    Divider = 2
INVARIANTS NothingLeaks OneAfterDisable
PROPERTIES FindsTheCamera StopReleases
CHECK_DEADLOCK FALSE
