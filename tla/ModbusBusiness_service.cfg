SPECIFICATION FairSpec
CONSTANTS
  Requests = {"ws1", "http", "none"}
  TaskId <- MCTaskId
  Target <- MCTarget
  HasCallback <- MCHasCallback
  SettleCycles = 1
  WatchCycles = 0
  VerifyPeriod = 0
  IdleCycles = 2
  LinkMayFail = TRUE
  Stray = {}
  MayStop = TRUE
CHECK_DEADLOCK FALSE
PROPERTIES
  ServingEnds
  QueuedLeaves
  ImplementsService
