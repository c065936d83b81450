SPECIFICATION Spec
CONSTANTS
  Octets = 2
  OctetBits = 2
  Groups = 3
  GroupBits = 1
  NoHeader = NoHeader
  Empty = Empty
  Logins = {l1, l2}
  Requests <- SomeRequests
  ProxyLists <- SomeLists
  Direct = Direct
  MaxLoginAttempts = 2
  LoginWindow = 2
SYMMETRY LoginSymmetry
INVARIANTS
  AttemptBound
  LockedOutForCause
  MatchIsMembership
