CONSTANTS
  Runs = 2
  Overlap = FALSE
  LOOP = 2
  MaxSigints = 1
  MaxKills = 1
  OldRuns = 3
  OldKills = 2
  CtlSigints = 2
SPECIFICATION ForkedSpec
INVARIANTS
  ForkedTypeOK
  ExclusionOnSet
  LockedByTheLiving
  NothingLeft
PROPERTIES
  ReadsFib
  RunsEnd
CHECK_DEADLOCK FALSE
