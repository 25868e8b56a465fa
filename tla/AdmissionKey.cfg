SPECIFICATION Spec
CONSTANTS
    c1 = c1
    c2 = c2
    t1 = t1
    Channel = {c1, c2}
    Key = {k1, k2}
    NoKey = NoKey
    Account = {o1}
    NoAccount = NoAccount
    Ticket = {t1}
    NoTicket = NoTicket
    match <- CoversBoth
    Request = {r1, r2}
    Reader = {d1}
    ChannelCap = 1
    MaxRestarts = 1
INVARIANT CreatedKeyAdmits
CHECK_DEADLOCK FALSE
