SPECIFICATION FairSpec
CONSTANTS
    a = a
    b = b
    u = u
    Clients = {a, b}
    Users = {u}
    UserOf <- Owner
    Capturing = {u}
    Budget = 2
    MaxCost = 2
    RPM = 2
    Window = 2
    Capacity = 1
    MaxBlind = 1
INVARIANTS
    OvershootBounded
    RateHeld
    SpendMatchesRows
    RowsTellTheAnswer
    TracesMatchOutcomes
PROPERTY EveryCallEnds
