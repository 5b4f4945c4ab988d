CONSTANTS
  ResponseTimeout = 5
  RenewalInterval = 20
  CloseTimeout = 10
  LeaseTime = 100
  Late = 2
  MaxLost = 2
  MaxStale = 1
SPECIFICATION ClientFairSpec
INVARIANTS
  ClosesByDeadline
