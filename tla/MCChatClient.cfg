CONSTANTS
  Sessions = {s1, s2}
  Old = {s1}
  NoSession = NoSession
  Limit = 3
  MaxTurns = 2
  MaxLoads = 2
SPECIFICATION PageFairSpec
INVARIANTS
  QuietScreenIsRight
  ShownIsWhole
PROPERTIES
  SendingEnds
