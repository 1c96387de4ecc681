SPECIFICATION FairSpec
CONSTANTS
  Called = {"MINING_TEMPLATE", "SUBMIT_WORK"}
  MaxCalls = 3
  MaxConns = 3
  IdModulus = 3
  Replies = {"OK", "REJECTED", "MALFORMED", "OVERSIZE"}
INVARIANTS
  TypeOK AppliedAtMostOnce OwnReply TruthfulOutcome
PROPERTIES
  CallReturns ImplementsLedger
