SPECIFICATION Spec
CONSTANTS
    MAX_SLOTS = 2
    MAX_FNS = 2
    MAX_LOADS = 3
    Names = {add, sub}
    Imports = {print}
    Callables = {f, g}
    NATMOD = TRUE
    ABORTS = TRUE
INVARIANTS
    TypeOK
    NoDangling
    Coherent
    NothingLeaks
    BlobAlive
    CallableAlive
    IInv
PROPERTIES
    IndicesStable
    ImplementsHandleTable
