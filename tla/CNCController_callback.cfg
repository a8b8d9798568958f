SPECIFICATION LiveSpec
CONSTANTS
  Chunks = {}
  Moves = {"ws"}
  Target <- MCTarget
  HasCallback <- MCHasCallback
  Direct = {}
  StartPosition <- PowerC
  Gradient = 1
  MaxChunks = 0
  MaxLate = 0
CHECK_DEADLOCK FALSE
PROPERTY
  CallbackComes
