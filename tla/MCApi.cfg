\* Every call but the low-level GCM ones, with any null, empty or unaligned argument
SPECIFICATION Spec
CONSTANTS
  Engines = {e1}
  HasCC310 = TRUE
  Apis <- CheckedCalls
INVARIANTS SupportsIsHonest NullReachesNoPrimitive RefusesOnlyBadArgs
