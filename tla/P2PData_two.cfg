CONSTANTS
  W = 2
  BlockSize = 1
  Inodes = {file1, file2}
  b1 = b1
  b2 = b2
  b3 = b3
  Block = {b1, b2, b3}
  Garbage = Garbage
  NoBuf = NoBuf
  Payloads <- ShortAndLong
  MaxSize = 3
  MaxOps = 5
  MaxLoose = 4
SYMMETRY FileSymmetry
SPECIFICATION Spec
INVARIANTS TypeOK InStep RoomIsThere SameFiles
PROPERTY ImplementsBlockStore
