SPECIFICATION FairSpec
CONSTANTS
    h1 = h1
    h2 = h2
    h3 = h3
    p1 = p1
    i1 = i1
    Conn = {h1, h2, h3}
    Poster = {p1}
    Caller = {h1, h2, h3, p1}
    Name = {c1}
    NoName = NoName
    IP = {i1}
    ip <- OneAddress
    BucketKey = {c1, i1}
    Burst = 1
    Cost = 1
    NoBucket = NoBucket
    MaxConns = 2
    MaxNow = 1
INVARIANTS
    TypeOK
    SlotsMatch
    PostedWithinRate
PROPERTIES
    RefusedAfterBurst
    SlotComesBack
CHECK_DEADLOCK FALSE
