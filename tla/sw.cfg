CONSTANTS
  r1 = r1
  w1 = w1
  w2 = w2
  Readers = {r1}
  Writers = {w1, w2}
  LIMIT = 2
  MaxSigint = 1
SPECIFICATION SWFairSpec
INVARIANTS
  SWTypeOK
  OvertakesOnce
  EveryWriteCounts
