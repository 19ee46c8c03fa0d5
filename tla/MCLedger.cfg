SPECIFICATION FairSpec
CONSTANTS
    c1 = c1
    c2 = c2
    Calls = {c1, c2}
    Plans <- AllPlans
    Capacity = 2
    Budget = 2
    Size <- Bodies
    BusyRetries = 2
    MaxFaults = 1
    MaxCrashes = 1
INVARIANTS
    OnlyPayloadsAreDropped
    BacklogIsExactAndBounded
    AfterSeesTheRow
PROPERTIES
    ImplementsCallLog
    EveryCallIsSettled
CHECK_DEADLOCK FALSE
