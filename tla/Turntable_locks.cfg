SPECIFICATION FairSpec
CONSTANTS
  Pool = {"http"}
  Tasks = {0, 1}
  HttpId = 7777
  MaxQueue = 2
INVARIANTS TypeOK NoCircularWait EndedLeaves
PROPERTY LoopReturns
