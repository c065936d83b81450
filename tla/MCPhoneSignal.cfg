CONSTANTS
  Installers = {p1, p2}
  Old = Old
  None = None
  Failing <- BadCandidate
  MaxSignals = 1
SPECIFICATION Spec
INVARIANT
  RestoresPrevious
CHECK_DEADLOCK FALSE
