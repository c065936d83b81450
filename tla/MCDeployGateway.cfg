CONSTANTS
  Installers = {p1, p2}
  Machines = {m1, m2}
  Old = Old
  New = New
  None = None
  Failing <- Noticed
  MaxSignals = 1
  MacFailing <- MacCommands
  MacTorn <- TornSafely
  Placements <- OneOrTwo
  MaxMishaps = 1
SPECIFICATION DeploySpec
INVARIANTS
  OneAtATime
  StatusIsHonest
  HandlerRestores
  ArtifactIsKept
  NothingDeployedIsLost
  NeverLost
  ReportIsHonest
PROPERTY
  Finishes
CHECK_DEADLOCK FALSE
