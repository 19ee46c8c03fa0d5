SPECIFICATION Spec
CONSTANTS
    Callers = {a, b, c}
    Limits = {1, 2}
INVARIANTS
    NoStrandedWaiter
