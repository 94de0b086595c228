\* Blocks of two bytes, bytes of four values, buffers of three blocks
SPECIFICATION Spec
CONSTANTS
  BlockLen = 2
  ByteMod = 4
  Cap = 6
  Texts <- SmallTexts
  Ivs <- CarryingIvs
  Lens = {0, 3, 4, 6}
  MaxCalls = 3
INVARIANTS ModeIsStandard WritesOnlyItsRange OpensToPlaintext Pkcs7Exact AesIsFips DecryptUndoesEncrypt
