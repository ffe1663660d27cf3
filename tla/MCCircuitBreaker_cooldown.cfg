SPECIFICATION BreakerSpec
CONSTANTS
    loop = loop
    request = request
    own = own
    api = api
    Api = api
    Evaluators = {loop, request}
    Instances = {own, api}
    InstanceOf <- OfBoth
    MaxLosses = 1
    TripCount = 2
    DecisionLimit = 0
    Cooldown = 2
    TTL = 1
    ClockEnd = 3
    MaxEvents = 2
    MaxActs = 0
PROPERTIES
    CooldownIsServed
\* Nobody has to evaluate, trade or operate.
CHECK_DEADLOCK FALSE
