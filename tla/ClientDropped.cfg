SPECIFICATION FairSpec
CONSTANTS
    Topic = {t1}
    Mode = {"ENCRYPTED", "PLAINTEXT", "SEALED"}
    Text = {x1}
    Garbage = {}
    NoSnapshot = NoSnapshot
    SeenCap = 4
    Batch = 2
    MaxLog = 1
    MaxLost = 0
    MaxDrops = 0
    MaxRestarts = 0
INVARIANT DroppedIsClosed
CHECK_DEADLOCK FALSE
