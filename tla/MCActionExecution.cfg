CONSTANTS
  ConfirmedSuccess = {"simulated_success", "real_success"}
  MaxCommands = 3
  MaxTurns = 2
SPECIFICATION Spec
INVARIANTS
  NoOverlap
  BlockedByOneUnknown
  ReportsAreTrue
PROPERTIES
  KeepsLedger
CHECK_DEADLOCK FALSE
