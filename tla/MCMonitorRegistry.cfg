CONSTANTS
  a = a
  b = b
  p = p
  x = x
  y = y
  Name = {a, b}
  Pid = {p}
  Identity <- MCIdentity
  None = None
  Lease = 1
  MaxTombstones = 2
  MaxStarts = 2
  MaxWait = 1
SPECIFICATION FairSpec
INVARIANTS
  EndedStaysEnded
PROPERTIES
  OwnersKeepTheirNames
  DeadRecordsVanish
