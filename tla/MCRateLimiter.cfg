CONSTANTS
  Ids = {k1}
  Configs <- SampleConfigs
  Unit = 4
  Second = 1
  MaxTime = 6
  MaxBack = 2
SPECIFICATION Spec
INVARIANTS
  TypeOK
  AdmissionBound
PROPERTIES
  RetryIsHonest
