SPECIFICATION FairSpec
CONSTANTS
    Inherit = inherit
    NoCatalog = "none"
    NoProxy = "direct"
    Admins = {a1, a2}
    Refresher = refresher
    MaxTurns = 2
    MaxSaneTokenRate = 50
    CatalogIds <- SmallCatalogIds
    Mapped <- SmallMapped
    Rehosts <- SmallRehosts
    IdRank <- SmallIdRank
    Undated <- SmallUndated
    Wires <- SmallWires
    ProxyIds <- SmallProxyIds
    ProxySettings <- SmallProxySettings
    Saved <- SmallSaved
    Drafts <- SmallDrafts
    Patches <- SmallPatches
    RoutePatches <- SmallRoutePatches
    Quotes <- SmallQuotes
    Catalogues <- SmallCatalogues
    Operators = {o1}
    Unset = unset
    Names = {"n"}
    Budgets = {1}
    AdminUserID = 0
    EnvKeys = {10, 11}
    MaxUsers = 2
    MaxRestarts = 1
    Readings <- Samples
    Lines <- Thresholds
    Absent <- NoReading
    Cooldown = 3
    MaxGap = 2
    Held <- LeftRows
    Parsed <- LeftParsed
    Window <- Retention
    Batch <- OneRow
    DrainBatch = 1
    MaxNow = 1
    MaxWrites = 1
    MaxFailures = 1
    MaxSweeps = 1
    Agents = {"main", "sub"}
    Main = "main"
    ViewBudget = 4
    MaxCalls = 3
    MaxMessages = 3
    MaxPrunes = 1
    MaxSwaps <- SubagentSwaps
    ParseSlots = 2
    ParseBudget = 4
    JobSizes = {0, 1, 3, 6}
    MaxJobs = 4
    Calls = {c1, c2, c3}
    Kinds <- SmallKinds
    InsightSlots = 1
    MaxTime = 2
    Downstreams <- SmallDownstreams
    ChanDepth = 2
    MaxFrameBuffer = 4
    MaxJSONMessage = 3
    NibbleAt = 2
    MaxSlab = 4
    Workers = {w1, w2}
    Registry <- SmallRegistry
    NameRank <- SmallNameRank
    Answers <- SmallAnswers
    PriceTables <- SmallTables
    Instants <- StartMinutes
    MaxLineBytes = 4
    MinutesPerDay = 6
    DaysPerWeek = 2
    Null <- SmallNull
    CallIds <- SmallCallIds
    Logged <- SmallLogged
    Arrivals <- SmallArrivals
    Endings <- SmallEndings
    Dimensions <- SmallDimensions
    Scopes <- SmallScopes
    Depth <- SmallDepth
    Blank = 0
    Unnamed = 8
    OtherModelKey = 4
    TopN = 2
    PageSize = 3
    BucketSize = 2
    Windows <- SmallWindows
    Horizon = 3
    Eras <- SmallEras
    DefaultWires <- SmallDefaultWires
    Scale <- SmallScale
    Suffixed = {"chat", "messages"}
    NoKey = ""
    Unpriced = 0
    MaxStops = 2
    MaxOpens = 3
    MaxChanges = 1
INVARIANTS
    SnapshotFollowsChanges
    RoutableMeansRouted
    NothingIsLost
    NothingRunsOnAClosedStore
    RollupIsOrderFree
    ParseQueueIsExact
    CapturedIsShown
    PanelsReconcile
    RevocationIsFinal
    
    SocketsNeverGuess
    ContextAddsUp
PROPERTIES
    ShedsAtOnceRestoresSlowly
    HousekeepingEnds
CHECK_DEADLOCK FALSE
