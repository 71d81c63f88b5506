CONSTANTS
  LIMIT = 4
  FISH = 3
  MaxKills = 2
  CHARS = 4
  RUNNERS = 5
  MAX_TURNS = 1
  RelayKills = 2
  Senders = {s1, s2}
  Receivers = {r1, r2, r3}
  QBYTES = 2
  CellRuns = 3
  NUMTHRDS = 4
  ARGLEN = 3
  PIPESIZE = 2
SPECIFICATION HandoffsSpec
INVARIANTS
  HandoffsTypeOK
  PrintsNextChar
  UndoRestores
  BatonInOrder
  OnlyWhatWasSent
  NothingMissing
PROPERTIES
  Lab6TakesTurns
  MineTakesTurns
  HandoffsEnd
CHECK_DEADLOCK FALSE
