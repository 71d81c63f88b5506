CONSTANTS
  r1 = r1
  w1 = w1
  Readers = {r1}
  Writers = {w1}
  LIMIT = 2
  MaxSigint = 1
SPECIFICATION Spec
INVARIANT
  ExclusiveUse
