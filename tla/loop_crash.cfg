SPECIFICATION Spec
CONSTANTS
  MaxReviewRounds = 2
  MaxReviewBudget = 3
  AttemptsKept = 2
  MaxSteps = 3
  MaxCommits = 3
  Grants <- AllGrants
  FlagSets <- MixedFlags
  Edits <- AllEdits
  Recycle = FALSE
  GitMayFail = TRUE
  MayHalt = TRUE
  None = None
INVARIANTS NeverSelfDiverged ClaimsAreBacked NoStepIsInVain ReadyIsWithinScope
