\* An application that releases each key before it reuses the handle or restarts
SPECIFICATION CarefulSpec
CONSTANTS
  Engines = {e1, e2}
  Handles = {h1, h2, h3}
  NullPtr = NullPtr
  SlotCount = 2
  MaxKeys = 2
  Materials = {11}
  CrysErrors = {7}
  HasCC310 = TRUE
SYMMETRY Symmetry
INVARIANTS HandlesOwnSlots PubIsSlotsPublicHalf LibraryBalanced ErasedWhenStopped
PROPERTIES FullOnlyWhenAllHeld
