SPECIFICATION FairSpec
CONSTANTS
  MaxSubmits = 3
  MaxLaunches = 2
INVARIANTS SessionIsWhatWasSaved EnvKeyIsSessions
PROPERTIES WizardSettles ChatGetsSession
CHECK_DEADLOCK FALSE
