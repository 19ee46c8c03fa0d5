SPECIFICATION FairSpec
CONSTANTS
    Users = {u1, u2}
    Readers = {r1}
    NoUser = NoUser
    MaxCharge = 2
    MaxCrashes = 1
    MaxDeletes = 1
INVARIANTS
    BalanceIsExact
    RowLagsByPending
PROPERTIES
    ChargesReachTheRow
CHECK_DEADLOCK FALSE
