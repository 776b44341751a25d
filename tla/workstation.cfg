SPECIFICATION Spec

CONSTANTS
  i1 = i1
  i2 = i2
  sim = sim
  p1 = p1
  p2 = p2
  s1 = s1
  s2 = s2
  NoUdid = NoUdid
  Nobody = Nobody
  NoExpiry = NoExpiry
  Today = 3
  Known <- OnePhone
  Sdks = {18, 26}
  FirstSdk = 26
  Earlier = {"iphonesimulator"}
  MaxChanges = 1
  Setups = {p1, p2}
  Commands <- MCCommands
  Files <- MCFiles
  EnvironmentTeam = {}
  CertificateTeam = {}
  PreferenceTeam = {}
  SkipSdkCheck = FALSE
  DefaultDemo <- Demo0
  DefaultAgent <- Agent0
  Sessions = {s1, s2}
  MaxFaults = 1
  MaxRuns = 3

SYMMETRY Symmetry

INVARIANTS
  TypeOK
  SignsWhatItBuilds
  ReportsItsOwnBuild
  StaleSessionsEnd
  ServedByItsOwnAgent

\* Every setup and every session may have ended.
CHECK_DEADLOCK FALSE
