SPECIFICATION Spec

CONSTANTS
  MaxProcs = 2
  MaxFailures = 0
  AutoRestart = TRUE

INVARIANTS
  StopLeavesNothing
