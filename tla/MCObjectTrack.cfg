CONSTANTS
  Column = {left, right}
  ScanTimeout = 2
SPECIFICATION Spec
INVARIANTS
  MotionHasRange
  StaleScanStops
