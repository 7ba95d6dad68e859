SPECIFICATION Spec
CONSTANTS
  s1 = s1
  s2 = s2
  p1 = p1
  p2 = p2
  Calls = {p1, p2}
  Parallel = {p1, p2}
  LocalBranches <- RepoBranches
  StartHeads <- Heads
  Default <- Release
  Remote = "symref"
  Settings <- AppSettings
  Insides = {FALSE}
  Grants = {FALSE}
  Timeouts = TRUE
  GitErrors = TRUE
  MaxClock = 1
  MaxCheckouts = 1
INVARIANTS ProtectedWriteHasCause
CHECK_DEADLOCK FALSE
