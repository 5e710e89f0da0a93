SPECIFICATION FairClusterSpec
CONSTANTS
    Server = {s1, s2}
    Key = {k1}
    Value = {v1, v2}
    NoServer = NoServer
    NoValue = NoValue
    BootLinks <- NoLinks
    GarbageTerms <- Zeros
    MaxTerm = 1
    MaxLog = 2
    MaxDrops = 0
    MaxStops = 1
CHECK_DEADLOCK FALSE
INVARIANTS
    OneCanCall
    AppliedMatchesLog
    LengthsWithinLog
PROPERTIES
    CommitsKept
    RejoinedRecovers
