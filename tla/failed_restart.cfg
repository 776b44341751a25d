SPECIFICATION FairSpec

CONSTANTS
  MaxProcs = 3
  MaxFailures = 1
  AutoRestart = TRUE

PROPERTIES
  CrashIsRepaired
