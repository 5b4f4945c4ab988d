CONSTANTS
  ConfirmedSuccess = {"real_success"}
  MaxCommands = 2
  MaxTurns = 2
  RecentTurns = 2
  SummaryTrigger = 1
  MaxExchanges = 3
SPECIFICATION FairSpec
INVARIANTS
  ExecutePrecondition
  ForgottenStaysForgotten
PROPERTIES
  MemoryProtocol
  CallReturns
CHECK_DEADLOCK FALSE
