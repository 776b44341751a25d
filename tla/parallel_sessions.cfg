SPECIFICATION Spec

CONSTANTS
  i1 = i1
  i2 = i2
  sim = sim
  p1 = p1
  p2 = p2
  s1 = s1
  s2 = s2
  NoUdid = NoUdid
  Nobody = Nobody
  NoExpiry = NoExpiry
  Today = 3
  Known <- TwoPhones
  Sdks = {18}
  FirstSdk = 18
  Earlier = {}
  MaxChanges = 0
  Setups = {p1}
  Commands <- FewCommands
  Files <- MCFiles
  EnvironmentTeam = {}
  CertificateTeam = {}
  PreferenceTeam = {}
  SkipSdkCheck = FALSE
  DefaultDemo <- Demo0
  DefaultAgent <- Agent0
  Sessions = {s1, s2}
  MaxFaults = 0
  MaxRuns = 3


INVARIANTS
  ParallelSessionsAreServed

\* Every setup and every session may have ended.
CHECK_DEADLOCK FALSE
