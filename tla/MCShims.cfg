\* A call of a string function ends when it returns.
CHECK_DEADLOCK FALSE
SPECIFICATION ShimsSpec
CONSTANTS
    EB = 4
    MB = 5
    Bytes = {0, 1, 200}
    MAX_LEN = 3
    SIZE_MOD = 128
INVARIANTS
    DirectedRounding
    RintHalfEven
    RoundedStays
    StringsIInv
    ReadsInside
    ResultRight
    AllocTypeOK
    BlockHolds
