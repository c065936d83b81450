CONSTANTS
  Installers = {p1, p2, p3}
  Old = Old
  None = None
  Failing = {}
  MaxSignals = 1
SPECIFICATION Spec
INVARIANT
  MutualExclusion
CHECK_DEADLOCK FALSE
