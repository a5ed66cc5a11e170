CONSTANTS
  Docs = {d1}
  Users = {alice, bob, admin}
  alice = alice
  bob = bob
  admin = admin
  Admins = {admin}
  MaxChunks = 1
  NoDoc = NoDoc
  NoCall = NoCall
  NoRow = NoRow
  Requests = {r1, r2}
  Offered <- MCCalls
SPECIFICATION Spec
PROPERTIES
  OnlyOwnersDeletePrivate
CHECK_DEADLOCK FALSE
