CONSTANTS
  N = 5
  LIMIT = 1
SPECIFICATION DiningFairSpec
PROPERTY
  EveryoneEats
CHECK_DEADLOCK FALSE
