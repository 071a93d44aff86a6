SPECIFICATION Spec
CONSTANTS
  Turns = 2
  Parts = 2
  MaxFrames = 2
  MaxStops = 1
  MaxFaults = 1
INVARIANTS PartsOnceInOrder
CHECK_DEADLOCK FALSE
