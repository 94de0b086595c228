\* Digests of two bytes, hash blocks of four, a counter of three values: output
\* lengths go beyond its wrap
SPECIFICATION Spec
CONSTANTS
  HashLen = 2
  BlockLen = 4
  CounterMod = 3
  OkmCap = 11
  KeyLens = {0, 1, 4, 5}
  MsgLens = {0, 2}
  OkmLens = {1, 2, 3, 4, 9, 10}
INVARIANTS MacIsStandard OkmIsStandard BlocksDiffer
PROPERTIES HkdfReturns
