\* Two threads, one call at a time: every kind of call over every chunk boundary
SPECIFICATION LockedSpec
CONSTANTS
  Threads = {1, 2}
  Scratch = 7
  HashBlock = 4
  AesBlock = 2
  KeyRam = 2
  KeyLimit = 9
  RndLimit = 3
  InLens = {0, 1, 2, 3, 4, 5, 6, 7, 8, 9, 15}
  KeyLens = {0, 2, 3, 7, 10}
  HkdfLens <- OneLongInput
INVARIANTS OkMeansOwnInput CopiesFit
PROPERTIES CallsReturn
