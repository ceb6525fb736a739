\* A directory that changes while it is listed.
CONSTANTS
    Names = {1, 2, 3, 4, 5}
    Size <- Sizes
    BufSize = 6
    Limit = 4
    DotsSize = 2
SPECIFICATION FairSpec
INVARIANTS TypeOK Complete
PROPERTIES OnlyLastAgain ListingEnds
