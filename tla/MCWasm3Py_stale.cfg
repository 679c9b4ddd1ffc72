SPECIFICATION PySpec
CONSTANTS
    MAX_SLOTS = 2
    MAX_FNS = 2
    MAX_LOADS = 2
    Names = {add}
    Imports = {}
    Callables = {}
    NATMOD = TRUE
    ABORTS = TRUE
    Objects = {m1, m2}
    Nobody = Nobody
INVARIANT StaleRejected
