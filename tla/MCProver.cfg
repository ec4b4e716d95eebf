SPECIFICATION Spec
CONSTANTS
  None = None
  Tasks <- MCTasks
  MaxRows = 2
  RetryCount = 1
  MaxFaults = 2
INVARIANTS
  ProvenAtMostThrice
  WorksOnItsTask
PROPERTIES
  KeepsOpenTasks
  TaskLeavesStack
  LogsInAgain
