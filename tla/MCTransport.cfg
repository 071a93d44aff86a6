SPECIFICATION TransportSpec
CONSTANTS
  Peers = {p1}
  Follow = 2
  Parts = 2
  WorkCap = 2
  MaxOwed = 2
  MaxCrashes = 1
  MaxDisk = 1
  MaxFails = 1
  f1 = f1
  f2 = f2
  r1 = r1
  r2 = r2
  r3 = r3
  Nil = Nil
  Files = {f1, f2}
  ChunksOf <- TwoFiles
  Requests = {r1, r2, r3}
  FileOf <- Asked
  Slots = 2
  Budget = 2
  Transfers <- FilePlans
CHECK_DEADLOCK FALSE
INVARIANTS NothingTakenIsLost SessionAnsweredOnce OneLossIsAbsorbed
PROPERTIES TakenIsAnswered EveryFetchEnds
