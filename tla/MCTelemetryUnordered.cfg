SPECIFICATION Spec
CONSTANTS
  f1 = f1  f2 = f2  v1 = v1  v2 = v2
  Fields <- TwoFields
  Visitors <- OneVisitor
  MaxPublish = 2
  SeqModulus = 16
  Ordered = FALSE
INVARIANT
  AnswersWhole
