SPECIFICATION FairSpec
CONSTANTS
  q1 = q1
  q2 = q2
  q3 = q3
  Request <- TwoRequests
  Kinds <- Shapes
  None = None
  NoReply = NoReply
  MaxLinks = 2
CHECK_DEADLOCK FALSE
INVARIANTS AnswersTellTheTruth SuccessWasServed SilenceHasACause BlankHidesOnlyGets
PROPERTIES EveryRequestServed
