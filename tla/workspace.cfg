SPECIFICATION FairSpec
CONSTANTS
  p1 = p1
  p2 = p2
  None = None
  Proc <- MCProc
  MaxMain = 1
  MaxFaults = 2
INVARIANTS RecordedWorkspaceStands
PROPERTIES NoWorkIsLost EventuallyStarted
CHECK_DEADLOCK FALSE
