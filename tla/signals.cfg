SPECIFICATION SignalProgramsSpec
CONSTANT MaxSends = 4
INVARIANTS
  SignalsTypeOK
  NoLostWakeup
  Uninterrupted
  WaitReports
  EndsBecause
PROPERTIES
  SignalsEnd
CHECK_DEADLOCK FALSE
