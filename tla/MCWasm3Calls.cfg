SPECIFICATION CallsSpec
CONSTANTS
    MAX_SLOTS = 2
    MAX_FNS = 1
    MAX_LOADS = 2
    Names = {add}
    Imports = {print}
    Callables = {f, g}
    NATMOD = TRUE
    ABORTS = TRUE
    MAX_DEPTH = 2
    MAX_PAGES = 2
    ADVISED = FALSE
SYMMETRY Symmetry
INVARIANTS
    CalleeAlive
    SizeDetectsGrow
    CallsIInv
PROPERTY FramesKept
