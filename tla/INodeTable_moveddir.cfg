\* Directories move between parents: is a number in DeletedINodes ever named?
CONSTANTS
    a = a
    b = b
    Names = {a, b}
    MaxINodes = 5
    MaxLookups = 1
    MaxLinks = 2
    Threshold = 1
    DirsMove = TRUE
SYMMETRY NameSymmetry
SPECIFICATION Spec
INVARIANT DeletedAreNameless
