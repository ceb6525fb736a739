\* One file and two handles: open at once, flushed while in use, truncated, read
\* past the end, and none of that.
CONSTANTS
    f = f
    a = a
    b = b
    h1 = h1
    h2 = h2
    Inodes = {f}
    Handles = {h1, h2}
    Byte = {a, b}
    Junk = Junk
    BlockSize = 2
    MaxSize = 3
    MaxWrite = 2
    MaxUsed = 3
    MaxStrays = 2
SYMMETRY Symmetry
SPECIFICATION Spec
INVARIANTS TypeOK StaysInBuffer ClosedIsStored FreeBlocksExist
PROPERTY ImplementsFileContents
\* The process stops at an access outside of the buffer.
CHECK_DEADLOCK FALSE
