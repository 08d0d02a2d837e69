SPECIFICATION FairSpec
CONSTANTS
  a = a
  b = b
  c = c
  Tasks <- MCTasks
  Order <- MCOrder
  Readings <- Plans
  PlanMayChange = FALSE
  Damageable <- MCDamageable
  Legacy <- MCLegacy
  MaxMain = 1
  MaxSaves = 2
  MaxRuns = 2
  WriteMayFail = TRUE
  None = None
INVARIANTS BuiltOnDependencies LedgerHoldsUnderLease
PROPERTIES  RunEnds
CHECK_DEADLOCK FALSE
