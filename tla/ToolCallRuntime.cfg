SPECIFICATION FairSpec
CONSTANTS
  Calls = {c1, c2, c3}
  Parallel = {c1, c3}
  Waits = {c1}
  Unknown = {c3}
INVARIANTS OneOutcome NoWorkAfterReply
PROPERTIES InterruptStopsTools
CHECK_DEADLOCK FALSE
