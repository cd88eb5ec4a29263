CONSTANTS
  m1 = m1
  m2 = m2
  c1 = c1
  c2 = c2
  c3 = c3
  Machine = {m1, m2}
  Client = {c1, c2, c3}
  Host <- MCHost
  Tester = {c1, c3}
  Caller = {c1, c2}
  Box = {0, 1}
  Settings <- MCSettings
  MaxOps = 4
  MaxCalls = 3
  NoMail = NoMail
SPECIFICATION FairSpec
CHECK_DEADLOCK FALSE
INVARIANT PostInv
PROPERTY ImplementsLossyMail
PROPERTY MailArrives
PROPERTY MailTestEnds
