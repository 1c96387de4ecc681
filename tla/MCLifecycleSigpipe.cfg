SPECIFICATION Spec
CONSTANTS
  m1 = m1  m2 = m2  v1 = v1  v2 = v2
  NFds = 7
  Miners <- OneMiner
  Visitors <- OneVisitor
  StdinOpen = TRUE
  Builds <- Linux
INVARIANT
  SurvivesReset
