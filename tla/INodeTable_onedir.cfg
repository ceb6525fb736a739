\* Renames may replace an existing name; directories keep their parent.
CONSTANTS
    a = a
    b = b
    Names = {a, b}
    MaxINodes = 5
    MaxLookups = 2
    MaxLinks = 2
    Threshold = 1
    DirsMove = FALSE
SYMMETRY NameSymmetry
SPECIFICATION Spec
INVARIANTS TypeOK KernelRefs ReclaimSafe LinksCoverEntries LinksExact StatfsAccounts
