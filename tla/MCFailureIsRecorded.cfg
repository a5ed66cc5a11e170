CONSTANTS
  Docs = {d1}
  Users = {alice, bob, admin}
  alice = alice
  bob = bob
  admin = admin
  Admins = {admin}
  MaxChunks = 1
  NoDoc = NoDoc
  NoCall = NoCall
  NoRow = NoRow
  Requests = {r1}
  Offered <- MCCalls
SPECIFICATION Spec
PROPERTIES
  FailureIsRecorded
CHECK_DEADLOCK FALSE
