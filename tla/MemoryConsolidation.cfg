SPECIFICATION FairSpec
CONSTANTS
  Threads = {t1}
  Sessions = {s1, s2}
  NoSession = NoSession
  MaxRaw = 1
  MaxVersion = 2
  MaxFaults = 1
  MaxActs = 2
INVARIANTS OneWriter BaselineIsDigested DoneIsClean
PROPERTIES FinishedByOwner ForgottenLeavesArtifacts
