\* Two files over a master and a node, three operations: rewrites longer and shorter.
CONSTANTS
    W = 2
    BlockSize = 2
    f = f
    g = g
    u = u
    v = v
    Inodes = {f, g}
    Block = {u, v}
    Garbage = Garbage
    MaxFileSize = 5
    MaxOps = 3
    WholeReads = TRUE
SYMMETRY BlockSymmetry
SPECIFICATION Spec
INVARIANT TypeOK NodesInStep GathersInStep BlocksAtHome
PROPERTY ImplementsBlockStore
