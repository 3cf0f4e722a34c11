SPECIFICATION FairSpec
CONSTANTS
  ByteMax = 7
  SOF = 5
  MaxPayload = 1
  CmdPing = 1
  Noise = {0, 2, 3, 4, 5}
  Xor <- MCXor
INVARIANTS
  TypeOK
  BufferBound
PROPERTIES
  DeliveredIffFrame
  RetryIsHeard
