SPECIFICATION FairSpec
CONSTANTS
    Messages = 2
    Limit = 2
    MaxConcurrent = 1
    MaxPending = 2
    MaxFaults = 1
    MaxFrames = 1
    MaxRev = 1
INVARIANTS LaneInOrder AnsweredIsSeen
PROPERTIES TakenIsFinished
