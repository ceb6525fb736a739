CONSTANTS
  W = 2
  BlockSize = 1
  Inodes = {1}
  b1 = b1
  b2 = b2
  b3 = b3
  Block = {b1, b2, b3}
  Garbage = Garbage
  NoBuf = NoBuf
  Payloads <- ShortAndLong
  MaxSize = 3
  MaxOps = 6
  MaxLoose = 0
SPECIFICATION Spec
INVARIANT NoOverflow
