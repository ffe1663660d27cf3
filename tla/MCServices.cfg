SPECIFICATION ServicesSpec
CONSTANTS
    KeepaliveEvery = 1
    RotateAfter = 2
    StaleAfter = 2
    MaxErrors = 2
    MaxAsks = 1

    a1 = a1
    a2 = a2
    Clients = {a1, a2}
    Slots = {1, 2}
    MaxRequests = 2
    MaxOutages = 1

    Intervals = {"30m", "1h", "4h"}
    HigherOf <- Higher
    PoolSize = 2
INVARIANTS
    TypeOK
    OneLoop
    NoLostWakeup
    OneFetchAtATime
PROPERTIES
    LinkIsRenewed
    TriggerIsFollowed
    FetchTasksEnd
\* Fetch tasks come to an end, and a stopped loop waits for requests.
CHECK_DEADLOCK FALSE
