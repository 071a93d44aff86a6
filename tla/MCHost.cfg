SPECIFICATION HostSpec
CONSTANTS
  Callers = {c1, c2}
  MaxSaves = 4
  MaxFails = 1
  MaxCrashes = 2
  None = None
  Unknown = Unknown
  f1 = f1
  f2 = f2
  v1 = v1
  v2 = v2
  v3 = v3
  r1 = r1
  r2 = r2
  Paths = {f1, f2}
  PeerOf <- Peers
  Versions = {v1, v2, v3}
  SizeOf <- Sizes
  TotalCap = 3
  PeerCap = 2
  EntryCap = 1
  Readers = {r1, r2}
  Plans <- FilePlans
  Runs = {g1, g2, g3}
  Granted = 2
  Least = 1
  MaxAges = 1
  p1 = p1
  p2 = p2
  p3 = p3
  s1 = s1
  s2 = s2
  s3 = s3
  s4 = s4
  Procs = {p1, p2, p3}
  PidOf <- Pids
  Drills <- GuardDrills
  Clients = {"1st", "2nd"}
  Trials <- NameTrials
  Statements = {s1, s2, s3, s4}
  SignerOf <- Signers
  ChannelOf <- Channels
  ExpiryOf <- Expiries
  AccountCap = 2
  Listeners = {"x", "y"}
  NodePlans <- StorePlans
INVARIANTS DeliveredIsWhole OneOpenGrant OneServes ClaimedOnce SubscribersSeeAll
PROPERTIES KeepsSnapshots SavedReachesDisk
CHECK_DEADLOCK FALSE
