CONSTANTS
  Requests = {r1}
  NoCall = NoCall
  MaxSteps = 3
  Offered <- AllCalls
SPECIFICATION FairSpec
INVARIANTS
  ErrorMeansUnanswered
  HalfTurnsAreStreams
  AuditMatchesRun
  AnswerHidesOnlyAgentErrors
PROPERTIES
  StoreSpec
  EveryCallerAnswered
CHECK_DEADLOCK FALSE
