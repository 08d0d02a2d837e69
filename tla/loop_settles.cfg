SPECIFICATION CalledSpec
CONSTANTS
  MaxReviewRounds = 2
  MaxReviewBudget = 3
  AttemptsKept = 2
  MaxSteps = 2
  MaxCommits = 2
  Grants <- AttendedOnly
  FlagSets <- OneFlag
  Edits <- NoEdits
  Recycle = TRUE
  GitMayFail = TRUE
  MayHalt = FALSE
  None = None
PROPERTIES InFlightSettles
