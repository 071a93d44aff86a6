SPECIFICATION NetSpec
CONSTANTS
  Peers = {p1}
  Openers = Openers
  Sessions = Sessions
  Idle = Idle
  MaxMessages = 1
  Workers = 1
  QueueCap = 2
  MaxCuts = 1
  MaxFaults = 1
  None = None
  a1 = a1
  a2 = a2
  b1 = b1
  b2 = b2
  m1 = m1
  m2 = m2
  m3 = m3
  w = w
PROPERTIES PublishedIsHandled SentIsDelivered
CHECK_DEADLOCK FALSE
