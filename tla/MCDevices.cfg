SPECIFICATION DevicesSpec
CONSTANTS
  W = 4
  Divisors = {1, 3}
  MaxTicks = 12
  BAUD = 2
  ACK = 1
  MaxSioStep = 5
  CtrlValues <- MCCtrlValues
  Cmds = {"GetStat", "ReadN", "Stop", "SeekL"}
  HasDisc = TRUE
  PRESENT_DELAY = 2
  PendDelay = 2
  ReadDelay = 2
  SectorWords = 2
  MaxCdromStep = 3
  Paced = {1, 3}
  Delayed = {4}
  Immediate = {6}
  Reversible = {}
  MaxAccum = 4
  MaxDmaStep = 4
  DmaPrograms <- MCDmaPrograms
  CyclesPerWord <- MCCyclesPerWord
  Lengths <- MCLengths
INVARIANTS
  TimerBulkEqualsSingle ChargesMaySplit NoIrqBeforeItsDistance
  AckBeforeNextByte IdleCardIsReady PresentedOnce CdromHeldUntilAck
  OneIrqPerLevel PacedFinishes
