\* In units of 512 bytes: the whole stack is 8 KB, and so is the default budget.
\* Python alone stays clear of the end of the stack.
SPECIFICATION Spec
CONSTANTS
    STACK = 16
    BUDGET = 16
    PY_LIMIT = 8
    PY_FRAME = 1
    CALL_FRAME = 1
    WASM_FRAME = 1
    IMPORT_FRAME = 1
INVARIANT StackBounded
