SPECIFICATION TurnsSpec
CONSTANTS
  Lanes = {l1}
  PerLane = 3
  StopAt = {2}
  MediaAt = {1}
  MaxEdits = 1
  MaxRevised = 1
  Silent = {}
  Parts = 1
  IngressCap = 2
  MaxFaults = 1
  Attached = {1, 2}
  Sender <- TwoSenders
  MaxRev = 2
  GlobalCap = 1
  GlobalPeriod = 1
  SenderCap = 1
  SenderPeriod = 2
  MaxBuckets = 1
  MaxConcurrent = 1
  MaxQueued = 1
  MaxTicks = 2
  Budgets <- FaultBudgets
INVARIANTS NothingClaimedIsLost NoLaneForgotten SubmittedOnce SpendIsBounded
PROPERTIES NoRerunAfterHandoff NoStaleAnswer
CHECK_DEADLOCK FALSE
