SPECIFICATION FairSpec
CONSTANTS
  s1 = s1
  s2 = s2
  p1 = p1
  p2 = p2
  Calls = {s1, p1}
  Parallel = {p1}
  LocalBranches <- RepoBranches
  StartHeads <- Heads
  Default <- Trunk
  Remote = "show"
  Settings <- AllSettings
  Insides = {TRUE, FALSE}
  Grants = {TRUE, FALSE}
  Timeouts = FALSE
  GitErrors = TRUE
  MaxClock = 1
  MaxCheckouts = 0
INVARIANTS OnePatchOneBranch WritesAreConsented
PROPERTIES QueuedIsAdmitted
CHECK_DEADLOCK FALSE
