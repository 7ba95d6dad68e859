SPECIFICATION FairSpec
CONSTANTS
  Threads = {t1}
  Cap = 1
  MaxRequests = 1
  MaxNotes = 1
  MaxTurns = 2
PROPERTIES TurnReplied
CHECK_DEADLOCK FALSE
