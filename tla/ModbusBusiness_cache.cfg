SPECIFICATION Spec
CONSTANTS
  Requests = {"ws0", "ws1"}
  TaskId <- MCTaskId
  Target <- MCTarget
  HasCallback <- MCHasCallback
  SettleCycles = 1
  WatchCycles = 0
  VerifyPeriod = 1
  IdleCycles = 2
  LinkMayFail = TRUE
  Stray = {}
  MayStop = FALSE
CHECK_DEADLOCK FALSE
INVARIANT
  SuccessMeansCommanded
