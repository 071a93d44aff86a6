SPECIFICATION Spec
CONSTANTS
  Peers = {p1, p2}
  Models = {m1, m2}
  Projects = {j}
  Efforts = {e}
  None = None
  TurnLimit = 1
  QueueLimits = {0, 1}
  PeerCap = 2
  Lingers = TRUE
  Crashes = TRUE
  MaxSent = 1
  MaxCommands = 2
  MaxStops = 1
  MaxExits = 1
INVARIANTS TokenFits StopHolds AnsweredOrOwed
SYMMETRY PeersAreAlike
CHECK_DEADLOCK FALSE
