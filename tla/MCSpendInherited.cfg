SPECIFICATION Spec
CONSTANTS
    Users = {u1, u2}
    Readers = {r1}
    NoUser = NoUser
    MaxCharge = 2
    MaxCrashes = 0
    MaxDeletes = 1
SYMMETRY Symm
INVARIANTS
    NothingInherited
CHECK_DEADLOCK FALSE
