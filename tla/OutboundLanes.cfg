CONSTANTS
  Peers = {p1}
  HasDevices = {p1}
  MaxMsgs = 3
  MaxQueued = 2
  MaxExtensions = 1
  BatchCap = 2
SPECIFICATION Spec
INVARIANTS OrderPreserved
PROPERTIES AcceptedReachesNode PromisesKept
CHECK_DEADLOCK FALSE
