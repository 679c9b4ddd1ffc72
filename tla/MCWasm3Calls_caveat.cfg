SPECIFICATION CallsSpec
CONSTANTS
    MAX_SLOTS = 2
    MAX_FNS = 1
    MAX_LOADS = 2
    Names = {add}
    Imports = {print}
    Callables = {f}
    NATMOD = TRUE
    ABORTS = FALSE
    MAX_DEPTH = 2
    MAX_PAGES = 2
    ADVISED = TRUE
INVARIANT FramesLive
