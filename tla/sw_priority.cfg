CONSTANTS
  r1 = r1
  r2 = r2
  w1 = w1
  Readers = {r1, r2}
  Writers = {w1}
  LIMIT = 1
  MaxSigint = 0
SPECIFICATION SWFairSpec
PROPERTY
  WriterPreference
