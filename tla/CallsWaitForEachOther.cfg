SPECIFICATION FairSpec
CONSTANTS
    Server = {s1, s2}
    Key = {k1}
    Value = {v1}
    NoServer = NoServer
    NoValue = NoValue
    BootLinks <- SimultaneousBoot
    GarbageTerms <- Zeros
    MaxTerm = 1
    MaxLog = 0
    MaxDrops = 0
CHECK_DEADLOCK FALSE
PROPERTIES
    LockReleased
