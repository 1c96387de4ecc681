SPECIFICATION Spec
CONSTANTS
  c1 = c1  c2 = c2  a1 = a1  a2 = a2  j1 = j1  j2 = j2  null = null
  Conns <- OneConn
  Addresses <- OneAddress
  Jobs <- TwoJobs
  BadTargetJobs <- SecondJob
  NServers = 2
  PollTicks = 1
  TemplateReplies <- AllTemplateReplies
  SubmitReplies <- AllSubmitReplies
  FrameMenu <- AllFrames
  Flaky <- NoServers
  MayStop = FALSE
  MaxInbox = 1
  MaxSubmits = 2
  Null <- null
INVARIANTS
  TypeOK StatusCoherent SilentUntilRegistered OneResultPerSubmit
PROPERTY ImplementsLedger
