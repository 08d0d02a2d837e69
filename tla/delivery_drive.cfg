CONSTANTS
  operator = operator
  other = other
  p1 = p1
  p2 = p2
  None = None
  Drives = {operator, other}
  Operator = operator
  Calls <- MCCalls
  Numbers = {1, 2}
  Profiles = {p1, p2}
  FirstProfile = p1
  MaxAttempts = 2
  HumanMoves = 1
  Asks = 1
  Faults = 1
SPECIFICATION Spec
INVARIANTS ReceiptIsTheMerge UnattendedIsAccounted
PROPERTIES MergesOnlyTheCheckedCommit KeepsThePromise EventuallyDelivered
CHECK_DEADLOCK FALSE
