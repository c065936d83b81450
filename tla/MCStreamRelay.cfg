CONSTANTS
  MaxEvent = 2
  Separator = 2
  MaxEvents = 3
  Sizes = {1, 2, 3}
  Wires <- ShortWires
SPECIFICATION FairSpec
INVARIANTS
  EndsWithDone
  FaithfulPrefix
  UpstreamReleased
PROPERTIES
  ReadsOnDemand
  NoFalseAlarm
  QuietAfterEnd
  ImplementsContract
  Terminates
CHECK_DEADLOCK FALSE
