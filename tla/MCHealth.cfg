SPECIFICATION Spec
CONSTANTS
    v1 = v1
    v2 = v2
    key1 = key1
    Vendors = {v1, v2}
    CredOf <- Keys
    Models = {m1}
    Sessions = {s1, s2, s3}
    Attempts = {a1, a2}
    FailThreshold = 2
    ClientFailThreshold = 2
    DeadAfter = 2
    Cooldown = 1
    CooldownMax = 3
    ModelCooldown = 1
    MaxFails = 3
    MaxDemotions = 3
SYMMETRY Symm
INVARIANTS
    DemotedIffIndicted
    RefusedKeyReachesSiblings
PROPERTIES
    RevivedByProofOrOperator
    FailureNeverShortensCooldown
CHECK_DEADLOCK FALSE
