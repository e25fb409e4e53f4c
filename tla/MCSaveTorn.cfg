CONSTANTS
  Slots = {s1}
  N = 3
  ClockSec = 2
  DevSec = 3
  Unsaved = {mdec}
  Builds = {b1}
  Cap = 2
  GteLatency = 1
  NoSlot = none
  Missing = missing
  MaxStamp = 4
  MaxClock = 4
SPECIFICATION Spec
INVARIANT NeverIncomplete
CHECK_DEADLOCK FALSE
