CONSTANTS
  Secrets = {s1, s2}
  Ids = {i1, i2}
  Edits <- Content
  Mishaps <- AllMishaps
SPECIFICATION FairSpec
INVARIANTS
  TypeOK
  AnswersHold
PROPERTIES
  OnlyAsked
  Converges
