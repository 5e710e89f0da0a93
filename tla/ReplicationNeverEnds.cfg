SPECIFICATION FairSpec
CONSTANTS
    Server = {s1, s2}
    Key = {k1}
    Value = {v1}
    NoServer = NoServer
    NoValue = NoValue
    BootLinks <- SequentialBoot
    GarbageTerms <- Zeros
    MaxTerm = 2
    MaxLog = 2
    MaxDrops = 0
CHECK_DEADLOCK FALSE
PROPERTIES
    LockReleased
