SPECIFICATION PySpec
CONSTANTS
    MAX_SLOTS = 2
    MAX_FNS = 2
    MAX_LOADS = 3
    Names = {add, sub}
    Imports = {print}
    Callables = {f}
    NATMOD = FALSE
    ABORTS = FALSE
    Objects = {m1, m2, m3}
    Nobody = Nobody
SYMMETRY Symmetry
INVARIANTS
    OwnsSlot
    SlotsAccounted
    OneEntryPerName
    FunctionsRight
    StaleRunsLater
    PyIInv
    NoDangling
    NothingLeaks
PROPERTY ModulesImplementHandleTable
