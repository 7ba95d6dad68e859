SPECIFICATION FairSpec
CONSTANTS
  Threads = {t1}
  Cap = 1
  MaxRequests = 2
  MaxNotes = 2
  MaxTurns = 0
PROPERTIES UnsupportedAnswered ApprovalSurfaces ClickSettles
CHECK_DEADLOCK FALSE
