SPECIFICATION CommandFairSpec
CONSTANTS
  Modes <- BothModes
  Chunks = 1
  MaxFaults = 2
INVARIANTS ClosedRecordIsOver CompletedMeansCompleted DeliveredIsWhole
PROPERTIES EveryCallReturns TreeDiesWithItsOwner
CHECK_DEADLOCK FALSE
