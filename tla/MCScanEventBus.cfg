SPECIFICATION FairSpec
CONSTANTS
    p1 = p1
    p2 = p2
    all = all
    one = one
    Publishers <- MCPublishers
    Subscribers <- MCSubscribers
    Wants <- MCWants
    EventsEach = 2
    MaxRecent = 2
    QueueSize = 2
INVARIANTS
    TypeOK
    EachEventOnce
    LostOnlyByOverflow
    OrderedPerPublisher
PROPERTIES
    DeliveryEnds
\* Every event may have been published and read.
CHECK_DEADLOCK FALSE
