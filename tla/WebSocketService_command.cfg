SPECIFICATION Spec
CONSTANTS
  Sockets = {"c1", "c2"}
  MaxTasks = 2
  TestTasks = 0
INVARIANT
  OneTaskPerClient
