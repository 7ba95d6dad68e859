SPECIFICATION Spec
CONSTANTS
  Users = {u1, u2}
  Mails = {m1}
  Injects = {}
  Idles = {}
  MaxInputs = 3
  MaxAborts = 0
  MaxTurns = 3
INVARIANTS NotReplaced
CHECK_DEADLOCK FALSE
