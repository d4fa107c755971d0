CONSTANTS
    BlockSize = 2
    IntMax = 3
    Copies = 1
    PreadMigrants = 2
    Length = 2
    Sizes = {0, 2, 3, 5, 8}
    Limits = {1, 2, 3, 4}
SPECIFICATION FairSpec
INVARIANTS
    IoVecsFit
    CopiesAreComplete
    DescriptorsSuffice
PROPERTIES
    MainReturns
CHECK_DEADLOCK FALSE
