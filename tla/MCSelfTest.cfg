\* One engine, an application with up to two keys of its own, two slots, and up
\* to two faults in a self test
SPECIFICATION STSpec
CONSTANTS
  Engines = {e1}
  Handles = {h1, h2, key, again}
  KeyVar = key
  AgainVar = again
  NullPtr = NullPtr
  SlotCount = 2
  MaxKeys = 3
  Materials = {11}
  CrysErrors = {7}
  HasCC310 = TRUE
  MaxFaults = 2
SYMMETRY AppSymmetry
INVARIANTS DocumentedCounts OkIsEarned GivesSlotsBack
