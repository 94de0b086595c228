\* All three context types: any chunks, refused calls, reuse and reset
SPECIFICATION FairSpec
CONSTANTS
  BlockLen <- MCBlockLen
  LenBytes <- MCLenBytes
  WordSize = 256
  Data = {1, 2}
  MaxChunk = 5
  MaxLen = 6
INVARIANTS TypeOK DigestIsOfMessage
PROPERTIES CallReturns
