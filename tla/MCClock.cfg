SPECIFICATION Spec
CONSTANTS
  HARD_CAP = 4
  VBLANK_CYCLES = 5
  STALE = 4
  MaxCharge = 2
  MaxDebt = 6
  W = 3
  Divisors = {1, 2}
  Cmds = {"ReadN", "SeekL"}
  HasDisc = TRUE
  PRESENT_DELAY = 2
  PendDelay = 3
  ReadDelay = 2
  SectorWords = 2
  Paced = {}
  Delayed = {2}
  Immediate = {}
  Reversible = {}
  MaxAccum = 8
  BAUD = 3
  ACK = 2
  DeviceSets <- MCDeviceSets
  TimerModes <- MCTimerModes
  CyclesPerWord <- MCCyclesPerWord
  Lengths <- MCLengths
  CtrlValues <- MCCtrlValues
INVARIANTS OtherIrqsOnTime ReplayIsExact
