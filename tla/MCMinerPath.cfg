SPECIFICATION PathSpec
CONSTANTS
  HeaderSize = 2
  RxCapacity = 5
  FrameSize <- SmallFrames
  HeaderOnly = FALSE
  MaxFrames = 3
  UIntMax = 27
  Scale = 3
  \* Quotients, remainders and rates on both sides of every test of the code.
  Inputs = {0, 1, 2, 19, 27}
  MaxSessions = 3
  Base = 4
  NDigits = 3
  Factor = 3
  Sessions = {"s1"}
  Jobs = {"j1", "j2"}
  Nonces = {1, 2}
  Identities = {"i1"}
  \* Below the header, at the capacity of a job and beyond it.
  Sizes = {2, 5, 7}
  BlockHeaderSize = 3
  BlockCapacity = 5
  PrefixSize = 2
  MaxPayload = 8
  DuplicateCapacity = 1
  MaxTip = 2
  MaxInits = 2
  MaxCalls = 3
  Null = "null"
INVARIANTS
  SessionTypeOK WholeFrames
  HashratesExact
  ShareTargetExact VerdictMatchesJob
  ForwardedOnce
PROPERTIES
  ImplementsQueue SessionImplementsLedger
