CONSTANTS
  W = 3
  BlockSize = 1
  Inodes = {1}
  b1 = b1
  b2 = b2
  b3 = b3
  Block = {b1, b2, b3}
  Garbage = Garbage
  NoBuf = NoBuf
  Payloads <- OnlyLong
  MaxSize = 2
  MaxOps = 3
  MaxLoose = 0
SPECIFICATION FairSpec
PROPERTIES HandlersEnd AllCatchUp AllEnd
