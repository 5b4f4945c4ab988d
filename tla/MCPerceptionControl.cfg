CONSTANT MaxRequests = 2
SPECIFICATION Spec
INVARIANTS
  AgentKnows
  WebKnows
PROPERTIES
  CameraPausedInStandby
