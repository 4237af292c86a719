\* Four calls around and between the requests of a command.
SPECIFICATION ViewSpec
CONSTANTS
    Owners = {w1, w2}
    TokenIds = {0, 1}
    Amounts = {1, 2}
    MaxBlocks = 5
    MaxInt64 = 3
INVARIANTS
    ViewTypeOK
    NothingVanishes
    ShownTokensDefined
