SPECIFICATION AutoSpec
CONSTANTS
  Variants = {"v1", "v2"}
  NoVariant = "none"
  Entries <- SameEntries
  AUTOCAP_MAX_TRIGGERS = 3
  Faults = {FALSE}
PROPERTY CompiledGoesNative
