CONSTANTS
  ada = ada  r1 = r1  r2 = r2
  mail = mail  demo_mail = demo_mail  nick = nick  demo_user = demo_user
  NoUser = NoUser  NoCall = NoCall  NoRow = NoRow
  Requests = {r1, r2}
  Users <- MCUsers  Emails <- MCEmails  Names <- MCNames  Offered <- MCOffered
  DemoEmail = demo_mail  DemoName = demo_user
SPECIFICATION FairSpec
CHECK_DEADLOCK FALSE
INVARIANTS ActsAsItIs
PROPERTIES BookSpec ChangesOnlyAsked EveryCallEnds
