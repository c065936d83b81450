SPECIFICATION FairSpec
CONSTANTS
  r1 = r1
  r2 = r2
  gemma = gemma
  Apple = Apple
  None = None
  Requests = {r1, r2}
  Models = {gemma, Apple}
  HasApfel = TRUE
  Asks <- SomeAsks
  Grants <- SomeGrants
  Faults = {"read", "open", "write"}
INVARIANTS
  OneVersion
  Released
  ListIsRight
PROPERTIES
  Answered
CHECK_DEADLOCK FALSE
