SPECIFICATION Spec
CONSTANTS
    Channel = {c1}
    TtlSec <- Word
    Half = 128
    Second = 10
    DefaultTTL = 1
    MaxTTL = 7
    MaxNow = 1
INVARIANT TtlIsCapped
CHECK_DEADLOCK FALSE
