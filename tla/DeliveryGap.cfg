SPECIFICATION Spec
CONSTANTS
    Topic = Topic
    NoChannel = NoChannel
    Session = {s1}
    WsSender = {w1}
    HttpSender = {h1}
    QueueDepth = 2
    Batch = 2
    MaxSent = 2
    MaxExpired = 1
    MaxGone = 1
    MaxAhead = 1
INVARIANT NothingLostInTheGap
CHECK_DEADLOCK FALSE
