CONSTANTS
  Attempts = 2
  MaxFrames = 2
  MaxBacklog = 1
  MaxWindow = 1
SPECIFICATION FairSpec
INVARIANTS
  TypeOK
  PausedAudioStaysOut
  DeliversCurrentWindow
PROPERTIES
  NeverDeaf
  StopReleases
CHECK_DEADLOCK FALSE
