SPECIFICATION Spec
CONSTANTS
    c1 = c1
    c2 = c2
    o1 = o1
    Channel = {c1}
    Account = {o1}
    NoAccount = NoAccount
    owner <- OneOwned
    Appender = {a1}
    Limit <- OnlyAging
    Size = {1}
    AcctCap = 4
    MaxSeq <- Three
    MaxNow = 3
    MaxLag = 0
    MaxFaults = 0
PROPERTY EvictsOnlyPastCaps
CHECK_DEADLOCK FALSE
