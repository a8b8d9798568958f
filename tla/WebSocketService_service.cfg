SPECIFICATION FairSpec
CONSTANTS
  Sockets = {"c1", "c2"}
  MaxTasks = 2
  TestTasks = 1
INVARIANTS
  TypeOK
  OneAnswer
  CompletedMeansAll
  NeverStuckBusy
  ResetAtEnd
PROPERTIES
  EveryTaskAnswered
  ImplementsLedger
