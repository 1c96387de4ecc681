SPECIFICATION PartSpec
CONSTANTS
  m1 = m1  m2 = m2  v1 = v1  v2 = v2
  NFds = 8
  Miners <- TwoMiners
  Visitors <- TwoVisitors
  StdinOpen = TRUE
  Builds <- BothBuilds
  Hosts <- TwoHosts
  Digits <- ThreeDigits
  DigitValue <- ThreeValues
  PortMax = 15
  MaxDigits = 2
  MaxServers = 2
  NBlocks = 9
INVARIANTS
  HandlesOwned ExitReleasesAll WinsockHeld
  HeapOwned LoadAllOrNothing
PROPERTY
  StopCompletes
