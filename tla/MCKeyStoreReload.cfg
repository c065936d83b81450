CONSTANTS
  Secrets = {s1, s2}
  Ids = {i1, i2}
  Edits <- Content
  Mishaps = {}
SPECIFICATION FairSpec
PROPERTY
  HotReloaded
