SPECIFICATION FairSpec
CONSTANTS
    i1 = i1
    i2 = i2
    i3 = i3
    Inodes = {i1, i2, i3}
    Split = {2}
    Ending <- MCEnding
    None = None
    MaxLines = 3
    MaxRotations = 2
    MaxFaults = 1
INVARIANTS
    TypeOK
    LinesInOrder
    LossIsAccountedFor
PROPERTIES
    CatchesUp
