SPECIFICATION Spec
CONSTANTS
    primary = primary
    backup = backup
    backup2 = backup2
    keyP = keyP
    keyB = keyB
    m1 = m1
    m2 = m2
    s1 = s1
    NoVendor = NoVendor
    NoSession = NoSession
    NoModel = NoModel
    Sessions = {s1}
    Declared <- Order
    CredOf <- Keyed
    Default <- TierDefault
    Routes <- TierRoutes
    Requests <- TierRequests
    Slots = {a1, a2}
    FailThreshold = 1
    ClientFailThreshold = 2
    DeadAfter = 2
    Cooldown = 1
    CooldownMax = 1
    ModelCooldown = 1
    StickyTTL = 2
    StickyMax = 1
    SweepInterval = 2
    HealthySignals = {"ok", "failModel"}
    MaxOutages = 1
SYMMETRY Symm
INVARIANTS
    RecentSessionsKeepTheirPin
PROPERTIES
    SessionsStayAndEscape
    ParkedTakesNoNewSession
CHECK_DEADLOCK FALSE
