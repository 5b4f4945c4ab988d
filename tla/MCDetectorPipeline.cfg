CONSTANTS
    Capacity = 2
    MaxFrames = 7
SPECIFICATION FairSpec
INVARIANT FewAfterDisable
PROPERTIES NewestIsHandled StopDrains
CHECK_DEADLOCK FALSE
