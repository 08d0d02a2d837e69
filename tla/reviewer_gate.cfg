SPECIFICATION GateFairSpec
CONSTANTS
  a = a
  b = b
  c = c
  Task <- MCTask
  Nobody = Nobody
  MaxClock = 3
INVARIANTS OneReviewer
PROPERTIES KnownExhaustedIsNotCalled EveryTurnComes
CHECK_DEADLOCK FALSE
