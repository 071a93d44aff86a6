SPECIFICATION Spec
CONSTANTS
  Lanes = {l1}
  PerLane = 1
  StopAt = {}
  MediaAt = {}
  MaxEdits = 0
  MaxRevised = 1
  Silent = {}
  Parts = 1
  IngressCap = 2
  MaxFaults = 1
INVARIANT FreezeEnds
CHECK_DEADLOCK FALSE
