SPECIFICATION Spec
CONSTANTS
    HALF32 = 8
    HALF64 = 128
    Ints <- Boundaries
    Floats <- Doubles
    ToSingle <- UpperHalf
    ToDouble <- ZeroExtended
INVARIANTS
    TypeOK
    ArgumentCrosses
    ResultCrosses
    I64Exact
    F64Exact
