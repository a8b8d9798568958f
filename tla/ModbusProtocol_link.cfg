SPECIFICATION FairSpec
CONSTANTS
  Callers <- MCCallers
  Calls <- MCCalls
  MaxSends = 3
  Unread = {9}
INVARIANTS TypeOK AnswerLag CoordinateReal SpeedCacheTrue
PROPERTIES ExchangeEnds AtomicCalls
