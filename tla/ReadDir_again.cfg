\* Is an entry sent twice?
CONSTANTS
    Names = {1, 2, 3, 4, 5}
    Size <- Sizes
    BufSize = 6
    Limit = 4
    DotsSize = 2
SPECIFICATION Spec
PROPERTY NothingAgain
