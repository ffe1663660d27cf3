SPECIFICATION PartsSpec
CONSTANTS
    loop = loop
    request = request
    own = own
    api = api
    Api = api
    Evaluators = {request}
    Instances = {own, api}
    InstanceOf <- OfRequest
    MaxLosses = 2
    TripCount = 2
    DecisionLimit = 2
    Cooldown = 2
    TTL = 1
    ClockEnd = 3
    MaxEvents = 2
    MaxActs = 2

    t1 = t1
    main = main
    Traders = {t1}
    Profiles = {main}
    Equities <- FineEquities
    BlockAt = 300
    Hysteresis = 50
    ResumeAfter = 1
    MaxPositions = 2
    MaxNotional = 1
    Notionals = {1, 2}
    Horizon = 3
    MaxHeld = 2
    MaxManual = 1

    Threads = {t1}
    Orders = {o1, o2}
    Manual = {o1}
    Directions = {"BUY"}
    Prices = {1, 2, 3}
    Quantities = {0, 1}
    Deposits = {1}
    Default = 3
    AllowUnfunded = TRUE
    MaxOps = 5
    MaxFailures = 1

    Files = {"file"}
    MaxIters = 2
    MaxRetries = 1
    MaxRuns = 2
    MaxStops = 2

    Series = {"btc", "eth"}
    PageSize = 2
    LastCandle = 3
    MaxBackfills = 2
    MaxBreaks = 1

    Appenders = {"w1", "w2"}
    Symbols = {"btc", "eth"}
    PerSymbol = 2
    FlushThreshold = 2
    MaxTroubles = 1
INVARIANTS
    TypeOK
    OneUnresolvedEvent
    CacheIsAsOldAsItsStamp
    BlocksInDrawdownOnly
    BooksBalance
    NothingLeaks
    CompleteIsStored
    OutcomesStoredOnce
PROPERTIES
    CooldownIsServed
    
    InterfaceStopHalts
\* Nobody has to evaluate, trade, operate, start a run, backfill or append.
CHECK_DEADLOCK FALSE
