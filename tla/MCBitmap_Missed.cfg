CONSTANTS
    Word = 2
    BitsOfByte = 3
    MdSize = 9
    Total = 31
    Sizes = {4, 7, 13}
    Candidates <- Blocks
SPECIFICATION Spec
INVARIANT LeaksFreed
CHECK_DEADLOCK FALSE
