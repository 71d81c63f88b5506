CONSTANT
  LIMIT = 3
SPECIFICATION Lab6FairSpec
PROPERTY
  Joins
CHECK_DEADLOCK FALSE
