SPECIFICATION Spec
CONSTANTS
  a = a
  b = b
  c = c
  d = d
  Proc <- FourProcs
  Recoverers <- TwoRecoverers
  MaxFiles = 1
  LinkRefused <- AllButOne
  IoMayFail = TRUE
  None = None
  Blank = Blank
INVARIANTS LiveRecordKept ExclusiveEffects DisplacedIsStoppedAndKept
CHECK_DEADLOCK FALSE
SYMMETRY SwapWithinRoles
