CONSTANTS
  w1 = w1
  c1 = c1
  c2 = c2
  Launch <- MCLaunch
  Writers <- MCWriters
  NoLaunch = NoLaunch
  MaxEpochs = 2
  MaxEntries = 1
  MaxOpen = 1
  IoMayFail = TRUE
SPECIFICATION FairSpec
INVARIANTS SafeMeansQuiet UnrecordedIsNeverLicensed
PROPERTY LicensedIsRecovered
CHECK_DEADLOCK FALSE
