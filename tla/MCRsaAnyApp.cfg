\* One engine, an application that copies, drops and keeps handles at will
SPECIFICATION Spec
CONSTANTS
  Engines = {e1}
  Handles = {h1, h2}
  NullPtr = NullPtr
  SlotCount = 2
  MaxKeys = 2
  Materials = {11}
  CrysErrors = {7}
  HasCC310 = TRUE
SYMMETRY HandleSymmetry
INVARIANTS TypeOK LibraryBalanced ErasedWhenStopped ReadySlotIsWhole GuardedBackendRuns
PROPERTIES LiveKeyKept ImplementsKeyPool
