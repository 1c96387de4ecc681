SPECIFICATION Spec
CONSTANTS
  c1 = c1  c2 = c2  a1 = a1  a2 = a2  j1 = j1  j2 = j2  null = null
  Conns <- TwoConns
  Addresses <- TwoAddresses
  Jobs <- OneJob
  BadTargetJobs <- NoJobs
  NServers = 2
  PollTicks = 1
  TemplateReplies <- FewTemplateReplies
  SubmitReplies <- FewSubmitReplies
  FrameMenu <- SubmitFrames
  Flaky <- NoServers
  MayStop = FALSE
  MaxInbox = 1
  MaxSubmits = 1
  Null <- null
SYMMETRY Symmetric
INVARIANTS
  JobsAgree ListCoherent AcceptedMeansApplied MutationsGoToIssuer SpentWorkDropped
