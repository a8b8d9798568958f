SPECIFICATION Spec
CONSTANTS
  Requests = {"ws1", "ws2"}
  TaskId <- MCTaskId
  Target <- MCTarget
  HasCallback <- MCHasCallback
  SettleCycles = 1
  WatchCycles = 0
  VerifyPeriod = 1
  IdleCycles = 2
  LinkMayFail = FALSE
  Stray = {}
  MayStop = FALSE
CHECK_DEADLOCK FALSE
PROPERTY
  OnlyResetTaskCleared
