CONSTANTS
  N = 5
  MAX = 1
  LIMIT = 1
SPECIFICATION PhilSpec
INVARIANTS
  PhilTypeOK
  WaitsOnlyForEaters
PROPERTIES
  Lab8KeepsTable
  DiningKeepsTable
  MealsEnd
CHECK_DEADLOCK FALSE
