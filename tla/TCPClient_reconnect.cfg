SPECIFICATION FairSpec
CONSTANTS
  MaxDescriptors = 2
  MaxAttempts = 0
  MaxUps = 2
  MaxQueue = 0
  MaxStarts = 1
CHECK_DEADLOCK FALSE
PROPERTY
  LossWakesConnect
