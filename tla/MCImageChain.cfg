SPECIFICATION ChainSpec
CONSTANTS
    MaxSize = 7
    Sizes = {0, 3, 6, 7, 16}
    Half = TRUE
    Lazy = TRUE
    Divider = 2
    Tasks = 2
    MaxBehind = 1
INVARIANTS WithinMaximum PictureIsOwn SetUpOrNothing
CHECK_DEADLOCK FALSE
