\* One file over three processes; reads may ask for any size; fairness.
CONSTANTS
    W = 3
    BlockSize = 2
    f = f
    u = u
    v = v
    Inodes = {f}
    Block = {u, v}
    Garbage = Garbage
    MaxFileSize = 7
    MaxOps = 2
    WholeReads = FALSE
SPECIFICATION FairSpec
INVARIANT StepInv
PROPERTY ImplementsBlockStore OperationsEnd AllTerminate
