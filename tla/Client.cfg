SPECIFICATION FairSpec
CONSTANTS
    Topic = {t1}
    \* A PLAINTEXT topic is a SEALED one to which no garbage is sent.
    Mode = {"ENCRYPTED", "SEALED"}
    Text = {x1, x2}
    Garbage = {x2}
    NoSnapshot = NoSnapshot
    SeenCap = 1
    Batch = 1
    MaxLog = 2
    MaxLost = 1
    MaxDrops = 1
    MaxRestarts = 1
INVARIANTS
    TypeOK
    CursorIsCovered
    RepeatsOnlyAcrossSeam
    
PROPERTY WantedIsServed
CHECK_DEADLOCK FALSE
