\* a stop while a check is under way
SPECIFICATION Spec
CONSTANTS
  c1 = c1
  c2 = c2
  local = local
  None = None
  Calls = {c1, c2}
  Locals = {local}
  Clouds = {}
  Absents = {}
  Apfels = {}
  Controlled = TRUE
  MayLaunch = {}
  HostControl = FALSE
  MaxPolls = 1
  MaxChanges = 1
SYMMETRY Symmetric
INVARIANTS
  StopFailureIsReal
CHECK_DEADLOCK FALSE
