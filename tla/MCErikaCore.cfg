SPECIFICATION FairSpec
CONSTANTS
  task1 = task1
  task2 = task2
  task3 = task3
  Task <- TwoTasks
  ready_prio <- TwoPrios
  dispatch_prio <- TwoPrios
  Activations <- TwoInOrder
  MAX_TASK_PRIORITY <- Ceiling
INVARIANTS
  OnePlace
  TokenStatusTrue
PROPERTIES
  PhasesKept
  ImplementsClient
  RequestServed
