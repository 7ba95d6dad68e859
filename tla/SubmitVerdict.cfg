SPECIFICATION FairSpec
CONSTANTS
  Calls = {a, b}
  Large = {b}
  Verdicts = {"confirmed", "false_positive"}
  Usages = {1}
  MaxEdits = 1
INVARIANTS VerdictIsEarned TokensAddUp ChildSeesWholeConfig NoOrphans
PROPERTIES CallReturns
CHECK_DEADLOCK FALSE
