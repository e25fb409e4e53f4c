SPECIFICATION MCSpec
CONSTANTS
  Enabled = {0}
  SECTORS = 2
  LEN = 1
  Blank <- MCBlank
  Absent = absent
  Short = short
  Outcomes = {"ok", "no_open", "short", "close_error"}
  Disciplined = TRUE
  Slots = {s1}
  N = 3
  ClockSec = 2
  DevSec = 3
  Unsaved = {mdec}
  Builds = {b1, b2}
  Cap = 2
  GteLatency = 1
  NoSlot = none
  Missing = missing
  MaxStamp = 3
  MaxClock = 4
INVARIANTS CleanIsOnDisk GoodSurvives LoadRestoresLastSave ClockCoherent
PROPERTY GoodMeansStored
CHECK_DEADLOCK FALSE
