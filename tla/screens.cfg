CONSTANTS
  run1 = run1
  run2 = run2
  Runs = {run1, run2}
  WinEvents = 3
  FAR = 1
SPECIFICATION ScreensSpec
INVARIANTS
  ScreensTypeOK
  ColourToggles
  OneTextAway
PROPERTIES
  ScreensGoOn
CHECK_DEADLOCK FALSE
