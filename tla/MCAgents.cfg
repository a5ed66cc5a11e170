CONSTANTS
  Limits = {1, 2, 3}
  Questions <- MCQuestions
  PlanReplies <- MCReplies
  MaxRetries = 2
  Chunks = {c1, c2, c3, c4}
  TopK = 3
  Unknown = made_up
  MaxNamed = 3
  Configurations <- MCConfigurations
SPECIFICATION AgentsSpec
SYMMETRY AnyOrder
INVARIANTS
  PlanBounded
  CutKeepsOrder
  VerdictSound
  AnswerSpeaks
  FusionKeepsBest
  OnlyTheseFail
  RowTellsRun
PROPERTIES
  CallPromise
  RerankKeepsAll
