SPECIFICATION FairSpec
CONSTANTS
    Callers = {a, b, c, d}
    Limits = {1, 2, 3}
INVARIANTS
    SlotAccounting
    WorkConserving
PROPERTIES
    HeadLeavesQueue
    ImplementsPool
