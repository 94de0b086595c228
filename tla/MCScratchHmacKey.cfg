\* HMAC keys up to the longest accepted
SPECIFICATION Spec
CONSTANTS
  Threads = {1}
  Scratch = 7
  HashBlock = 4
  AesBlock = 2
  KeyRam = 2
  KeyLimit = 9
  RndLimit = 3
  InLens = {3}
  KeyLens = {0, 4, 9}
  HkdfLens <- NoHkdf
INVARIANTS CopiesFit
