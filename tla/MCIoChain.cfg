CONSTANTS
    Chains = {c1, c2}
    FileNo <- SameNumber
    Length = 3
    Fds = {3, 4}
    NoFd = noFd
    NoTask = noTask
SPECIFICATION FairChainSpec
INVARIANTS
    InputsAreOfTheirTypes
    RequestsAreOfOwnFiles
    FilesAreClosed
    FilesAreCopiedInOrder
    CopiesAreComplete
PROPERTIES
    ChainsFinish
CHECK_DEADLOCK FALSE
