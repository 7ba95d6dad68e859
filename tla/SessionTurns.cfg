SPECIFICATION FairSpec
CONSTANTS
  Users = {u1, u2}
  Mails = {m1}
  Injects = {j1}
  Idles = {x1}
  MaxInputs = 2
  MaxAborts = 1
  MaxTurns = 3
INVARIANTS TypeOK OneEnd OneRuns InputKept
PROPERTIES TurnEnds MailDelivered
CHECK_DEADLOCK FALSE
