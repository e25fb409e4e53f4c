SPECIFICATION MCSpec
CONSTANTS
  Words <- MCWords
  Bytes = {0, 1}
  Pages <- MCPages
  PageOf <- MCPageOf
  Buckets <- MCBuckets
  BktOf <- MCBktOf
  Cands = {"o1", "o2", "f", "k"}
  Addr <- MCAddr
  Ranges <- MCRanges
  Src <- MCSrc
  Shards = {"k"}
  NoCand = "-"
  CAND_CAP = 3
  ACTIVE_CAP = 2
  OVERLAY_DIFF_BUDGET = 2
  Settings <- MCSettings
  MaxGen = 2
  MaxDepth = 2
  RamWords = {2, 3, 4}
  PAGE = 2
  KERNEL_END = 2
  TEXT_LO = 2
  TEXT_HI = 5
  WIN = 3
  Instrs = {2, 4}
  Vals = {0, 1}
  Image <- MCImage
  Target <- MCTarget
  Compiled = {2}
  OldSaves = FALSE
INVARIANTS GenerationTrust FastPathIsPristine GuardedCallsRunLiveCode
PROPERTIES NativeRunsLiveBytes SelfModCaught OnlyExecutingDemoted
  ShardEarnsTrust
CHECK_DEADLOCK FALSE
