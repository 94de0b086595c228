\* Both ciphers, lengths up to the capacity of the Poly1305 buffer
SPECIFICATION Spec
CONSTANTS
  Keys = {1, 2}
  Nonces = {1}
  Aads <- MCAads
  Plains <- MCPlains
  BufLen = 3
  MacBlock = 2
  XorBlock <- MCXorBlock
  StackBuf = 8
  CtrMod = 8
  MaxSeals = 2
INVARIANTS OpensWhatWasSealed KeystreamUsedOnce
PROPERTIES RejectWritesNothing
