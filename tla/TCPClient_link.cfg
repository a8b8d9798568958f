SPECIFICATION FairSpec
CONSTANTS
  MaxDescriptors = 2
  MaxAttempts = 2
  MaxUps = 3
  MaxQueue = 1
  MaxStarts = 2
CHECK_DEADLOCK FALSE
INVARIANTS
  TypeOK
  LossHandledOnce
  ClosedSocketReplaced
  PacketNotMissed
PROPERTY
  PacketWakesSender
