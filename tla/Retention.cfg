SPECIFICATION FairSpec
CONSTANTS
    c1 = c1
    c2 = c2
    o1 = o1
    Channel = {c1, c2}
    Account = {o1}
    NoAccount = NoAccount
    owner <- TwoOwned
    Appender = {a1, a2}
    Limit <- Switched
    Size = {1, 2}
    AcctCap = 3
    MaxSeq <- TwoAndOne
    MaxNow = 2
    MaxLag = 0
    MaxFaults = 1
INVARIANTS
    TypeOK
    CountersExact
    NeverUndercounted
    QuotaHolds
PROPERTIES
    AppendFitsCaps
    GoneForAReason
    ImplementsShelf
    ExpiredIsSwept
CHECK_DEADLOCK FALSE
