SPECIFICATION Spec
CONSTANTS
    HALF32 = 8
    HALF64 = 128
    Ints <- Boundaries
    Floats <- Doubles
    ToSingle <- UpperHalf
    ToDouble <- ZeroExtended
INVARIANT SmallIntsOnly
