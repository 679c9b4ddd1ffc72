SPECIFICATION Spec
CONSTANTS
    STACK = 18
    BUDGET = 4
    PY_LIMIT = 7
    PY_FRAME = 2
    CALL_FRAME = 2
    WASM_FRAME = 2
    IMPORT_FRAME = 1
INVARIANTS
    DepthBounded
    FullBudget
    FramesBounded
    SIInv
PROPERTY RunawayEnds
