\* Two processes, two names, directories in the root with files in them.
CONSTANTS
    p1 = p1
    p2 = p2
    a1 = a1
    b1 = b1
    Procs = {p1, p2}
    Names = {a1, b1}
    Threshold = 0
    MaxDepth = 2
    MaxOps = 3
    MaxLoose = 2
SPECIFICATION FairSpec
INVARIANT TypeOK NoneFails SameNumbers ShowsItsPrefix
PROPERTY ImplementsLog AllCatchUp
