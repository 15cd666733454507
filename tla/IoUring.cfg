CONSTANTS
  copy = copy
  file = file
  Tasks <- DemoTasks
  Program <- DemoProgram
  Entries = 2
  MaxFailures = 1
  MaxStarts = 1
SPECIFICATION Spec
INVARIANT UringInv
PROPERTY WaitingIsResumed
PROPERTY StopReturns
CHECK_DEADLOCK FALSE
