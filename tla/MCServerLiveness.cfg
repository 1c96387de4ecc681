SPECIFICATION FairSpec
CONSTANTS
  c1 = c1  c2 = c2  a1 = a1  a2 = a2  j1 = j1  j2 = j2  null = null
  Conns <- OneConn
  Addresses <- OneAddress
  Jobs <- OneJob
  BadTargetJobs <- NoJobs
  NServers = 2
  PollTicks = 2
  TemplateReplies <- AllTemplateReplies
  SubmitReplies <- FewSubmitReplies
  FrameMenu <- BlockFrames
  Flaky <- BothServers
  MayStop = TRUE
  MaxInbox = 1
  MaxSubmits = 1
  Null <- null
PROPERTIES
  StopCompletes WorkRecovers
