SPECIFICATION MCSpec
CONSTANTS
  Keys = {"k1", "k2", "k3", "k4"}
  NoKey = "none"
  WQ_CAP = 2
  STATE_CAP = 3
  MaxEnq = 4
  Phys = {"p", "q"}
  PhysOf <- MCPhysOf
  Bad = {"k3"}
  MAX_LOADED_BLOBS = 1
  MAX_SLJIT_TRIED = 1
  CAND_DYNAMIC_CAP = 3
  Variants = {"v1", "v2"}
  NoVariant = "none"
  Entries <- DistinctEntries
  AUTOCAP_MAX_TRIGGERS = 2
  Faults = {FALSE, TRUE}
INVARIANTS InFlightTracked NoShardMissed RegisteredOnce
PROPERTIES ImplementsQueue RequestFinishes StopReturns PublishedIsUsable CompiledGoesNative
