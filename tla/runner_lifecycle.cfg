SPECIFICATION FairSpec

CONSTANTS
  MaxProcs = 3
  MaxFailures = 1
  AutoRestart = TRUE

INVARIANTS
  TypeOK
  AtMostOneRunner
  FailedStartLeavesNothing

PROPERTIES
  NoRestartAfterFatal
  CrashIsRepairedIfSpawnWorks
  SupervisorEnds
