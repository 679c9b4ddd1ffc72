SPECIFICATION Spec
CONSTANTS
    MAX_SLOTS = 2
    MAX_FNS = 1
    MAX_LOADS = 2
    Names = {add}
    Imports = {print}
    Callables = {f}
    NATMOD = FALSE
    ABORTS = FALSE
INVARIANT CallableAlive
