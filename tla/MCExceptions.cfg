SPECIFICATION Spec
CONSTANTS
  t1 = t1
  t2 = t2
  p1 = p1
  p2 = p2
  vblank = vblank
  sio = sio
  None = None
  Handler = Handler
  Sentinel = Sentinel
  Junk = Junk
  SIO = sio
  Threads = {t1, t2}
  Sources = {vblank, sio}
  PCs = {p1}
  Programs <- MCPrograms
  CLAIMED = 1
  UNCLAIMED = 2
INVARIANTS InExceptionMatchesHost RunsOwnRegisters SuspendedContextSaved
PROPERTY InterruptsComeBack
SYMMETRY ThreadSymmetry
CHECK_DEADLOCK FALSE
