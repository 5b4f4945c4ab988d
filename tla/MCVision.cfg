SPECIFICATION VisionSpec
CONSTANTS
    ModelWidth = 32
    ModelHeight = 32
    Threshold = 3
    OverlapPercent = 30
    Limit = 2
    Sources <- MCSources
    Outputs <- MCOutputs
    BusyCells <- MCBusyCells
    MaxHits = 4
    LogicalWidth = 8
    LogicalHeight = 8
    TargetClass = 1
    MinimumArea = 1
    Beams <- MCBeams
    MaxBeams = 2
    RangeMin = 1
    RangeMax = 12
    ImageWidth = 32
    ImageHeight = 32
    MinimumRange = 2
    MaximumRange = 8
    KeepDistance = 4
    LinearGain = 1
    MaximumSpeed = 2
    AngularGain = 1
    MaximumAngular = 3
INVARIANTS BestFirst OneBoxEach FollowsLargest KeepsDistance TurnsToTarget
CHECK_DEADLOCK FALSE
