SPECIFICATION FairSpec
CONSTANTS
  Repos <- MCRepos
  CommonDir <- MCCommonDir
  Tasks <- MCTasks
  RepoOf <- MCRepoOf
  DependsOn <- MCDependsOn
  Registries <- MCRegistries
  Rank <- MCRank
  MaxCapacity = 2
  MaxAdmissions = 2
  MaxClock = 2
  MaxFaults = 1
  MaxCycles = 2
  MaxWait = 2
  IdlePoll = 1
INVARIANTS NeverItsOwnObstacle PassIsExhaustive HoldsNothingAcrossAWait
PROPERTIES NoWakeIsMissed EventuallyEnds
