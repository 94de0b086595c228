\* A message longer than the Poly1305 buffer holds
SPECIFICATION Spec
CONSTANTS
  Keys = {1, 2}
  Nonces = {1}
  Aads <- MCAads
  Plains <- MCPlains
  BufLen = 3
  MacBlock = 2
  XorBlock <- MCXorBlock
  StackBuf = 6
  CtrMod = 8
  MaxSeals = 1
INVARIANTS OpensWhatWasSealed
