\* safety
SPECIFICATION Spec
CONSTANTS
  Requests = {"ws0", "ws1", "ws2"}
  TaskId <- MCTaskId
  Target <- MCTarget
  HasCallback <- MCHasCallback
  SettleCycles = 1
  WatchCycles = 0
  VerifyPeriod = 0
  IdleCycles = 1
  LinkMayFail = TRUE
  Stray = {1}
  MayStop = TRUE
CHECK_DEADLOCK FALSE
INVARIANTS
  TypeOK
  AtMostOneAnswer
  ResetConfined
  BusyMeansServing
  ActiveAxisOwned
  CancelStopsWithinOneCommand
  NoPushMissed
PROPERTY
  MovementAdvances
