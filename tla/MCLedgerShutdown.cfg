SPECIFICATION Spec
CONSTANTS
    c1 = c1
    c2 = c2
    Calls = {c1, c2}
    Plans <- AllPlans
    Capacity = 2
    Budget = 2
    Size <- Bodies
    BusyRetries = 2
    MaxFaults = 0
    MaxCrashes = 0
INVARIANTS
    ShutdownKeepsRecords
CHECK_DEADLOCK FALSE
