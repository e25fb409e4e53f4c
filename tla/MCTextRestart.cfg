SPECIFICATION TextSpec
CONSTANTS
  RamWords = {2, 3, 4}
  PAGE = 2
  KERNEL_END = 2
  TEXT_LO = 2
  TEXT_HI = 5
  WIN = 3
  Instrs = {2, 4}
  Vals = {0, 1}
  Image <- MCImage
  Target <- MCTarget
  Compiled = {2}
  OldSaves = TRUE
INVARIANT FastPathIsPristine
CHECK_DEADLOCK FALSE
