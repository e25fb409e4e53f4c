SPECIFICATION MCSpec
CONSTANTS
  t1 = t1
  t2 = t2
  p1 = p1
  p2 = p2
  vblank = vblank
  sio = sio
  None = None
  Handler = Handler
  Sentinel = Sentinel
  Junk = Junk
  SIO = sio
  Threads = {t1, t2}
  Sources = {vblank, sio}
  PCs = {p1, p2}
  Programs <- MCDefault
  CLAIMED = 1
  UNCLAIMED = 2
  Cmds = {"GetStat", "ReadN", "MotorOn", "Stop", "Pause", "SeekL"}
  HasDisc = TRUE
  PRESENT_DELAY = 3
  PendDelay = 3
  ReadDelay = 3
  SectorWords = 1
  MaxCdromStep = 2
  IsrCycles = 2
  Paced = {0, 1}
  Delayed = {}
  Immediate = {}
  CyclesPerWord <- MCCyclesPerWord
  Reversible = {}
  Lengths <- MCLengths
  MaxAccum = 4
  MaxDmaStep = 3
  Commands <- MCCommands
  MdecWords = 3
INVARIANTS NoLostInterrupt DmaKeepsOutput
PROPERTIES ThreadsGoOn CommandsFinish StreamFinishes
