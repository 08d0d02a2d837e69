SPECIFICATION FairSpec
CONSTANTS
  i1 = i1
  i2 = i2
  Invocations <- MCInvocations
  Repos = {1, 2}
  Enlisted <- MCEnlisted
  Troubled = {1}
  Moves <- MCMoves
  MaxAnnounced = 1
  MaxFaults = 2
  Counted = 3
INVARIANTS NoneIsSilenced HeardOnce
PROPERTIES DismissedWasGone StandingIsAnnounced
