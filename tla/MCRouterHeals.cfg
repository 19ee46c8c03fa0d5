SPECIFICATION FairSpec
CONSTANTS
    primary = primary
    backup = backup
    backup2 = backup2
    keyP = keyP
    keyB = keyB
    m1 = m1
    m2 = m2
    s1 = s1
    NoVendor = NoVendor
    NoSession = NoSession
    NoModel = NoModel
    Sessions = {s1}
    Declared <- FailoverOrder
    CredOf <- Keyed
    Default <- FailoverDefault
    Routes <- FailoverRoutes
    Requests <- FailoverRequests
    Slots = {a1}
    FailThreshold = 2
    ClientFailThreshold = 2
    DeadAfter = 2
    Cooldown = 1
    CooldownMax = 1
    ModelCooldown = 1
    StickyTTL = 1
    StickyMax = 2
    SweepInterval = 2
    HealthySignals = {"ok"}
    MaxOutages = 2
PROPERTIES
    SelfInflictedOutageHeals
CHECK_DEADLOCK FALSE
