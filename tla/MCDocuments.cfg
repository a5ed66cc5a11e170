CONSTANTS
  Docs = {d1}
  Users = {alice, bob, admin}
  alice = alice
  bob = bob
  admin = admin
  Admins = {admin}
  MaxChunks = 1
  NoDoc = NoDoc
  NoCall = NoCall
  NoRow = NoRow
  Requests = {r1, r2}
  Offered <- MCCalls
  Texts <- MCTexts
  Configs <- RoomyConfigs
  Window = 3
SPECIFICATION DocumentsSpec
INVARIANTS
  DocumentsAreWhole
  AnswersAreReadable
  DeletedStaysHidden
  CoversText
  RecursiveKeepsAll
PROPERTIES
  LifeSpec
  OnlyEntitledDelete
  EveryRequestEnds
  MovesOn
  RecursiveMovesOn
CHECK_DEADLOCK FALSE
