SPECIFICATION FairSpec
CONSTANTS
  Runs = {a, b}
  Operator = Operator
  Options <- SomeOptions
  Handwritten <- SomeHandwritten
  Environments <- SomeEnvironments
  MaxPort = 2
  MaxMishaps = 2
INVARIANTS
  SetupIsComplete
  AdminComesWithKeys
PROPERTIES
  NeverOverwritten
  SetUpInTheEnd
CHECK_DEADLOCK FALSE
