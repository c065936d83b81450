\* two calls on models of both providers, which the gateway starts and stops
SPECIFICATION FairSpec
CONSTANTS
  c1 = c1
  c2 = c2
  local = local
  apple = apple
  None = None
  Calls = {c1, c2}
  Locals = {local}
  Clouds = {}
  Absents = {}
  Apfels = {apple}
  Controlled = TRUE
  MayLaunch = {"ollama"}
  HostControl = TRUE
  MaxPolls = 1
  MaxChanges = 1
INVARIANTS
  TypeOK
  NobodyStranded
  EntriesExact
  ControlIsHonest
PROPERTIES
  Answered
CHECK_DEADLOCK FALSE
