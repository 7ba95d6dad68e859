SPECIFICATION FairSpec
CONSTANTS
  Threads = {t1, t2}
  Sessions = {s1, s2}
  NoSession = NoSession
  Cap = 1
  Retries = 2
  MaxVersion = 2
  MaxFaults = 1
  MaxActs = 1
INVARIANTS LeasesBounded OutputIsLastSuccess ForgottenStaysForgotten FailuresBounded
PROPERTIES ExtractionSettles
