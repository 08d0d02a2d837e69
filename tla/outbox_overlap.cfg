SPECIFICATION Spec
CONSTANTS
  i1 = i1
  i2 = i2
  Invocations <- MCInvocations
  Repos = {1}
  Enlisted <- MCBoth
  Troubled = {1}
  Moves <- MCStill
  MaxAnnounced = 1
  MaxFaults = 0
  Counted = 2
INVARIANT NeverMissing
