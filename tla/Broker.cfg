SPECIFICATION FairSpec
CONSTANTS
    Channel = {c1}
    NoChannel = NoChannel
    Sender = {p1}
    QueueDepth = 2
    MaxSubs = 2
    MaxPub = 3
    MaxSent = 3
INVARIANTS
    TypeOK
    GapFreeRun
    AttachedMissesNothing
    NobodyLeftHanging
    PerSenderOrder
PROPERTIES
    ImplementsFeed
    ClosedIsTornDown
    PublishedReachesClient
CHECK_DEADLOCK FALSE
