SPECIFICATION FairSpec
CONSTANTS
  Chunks <- MCChunks
  Moves = {"ws", "raw"}
  Target <- MCTarget
  HasCallback <- MCHasCallback
  Direct = {"raw"}
  StartPosition <- Power
  Gradient = 1
  MaxChunks = 2
  MaxLate = 1
CHECK_DEADLOCK FALSE
INVARIANTS
  TypeOK
  JogFromRealPosition
  JogsPerPosition
  OneCommandAfterStop
  CommandNotMissed
PROPERTY
  CommandWakesConsole
