\* Three threads, two slots, the lock around everything but rsaExportPublic
SPECIFICATION Spec
CONSTANTS
  Threads = {t1, t2, t3}
  SlotCount = 2
  MaxKeys = 3
  Materials = {11}
  Locked = {"generate", "import", "release", "begin", "end"}
SYMMETRY Symmetry
INVARIANTS KeysStayOwned ExportsOwnKey
PROPERTY ThreadsImplementKeyPool
