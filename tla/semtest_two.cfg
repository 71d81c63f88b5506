CONSTANTS
  Runs = 2
  Overlap = TRUE
  LOOP = 2
  MaxSigints = 0
  MaxKills = 0
SPECIFICATION SemtestSpec
INVARIANT OneInCritical
CHECK_DEADLOCK FALSE
