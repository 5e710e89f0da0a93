SPECIFICATION Spec
CONSTANTS
    Server = {s1, s2}
    Key = {k1}
    Value = {v1}
    NoServer = NoServer
    NoValue = NoValue
    BootLinks <- SimultaneousBoot
    GarbageTerms <- AnyTerm
    MaxTerm = 2
    MaxLog = 2
    MaxDrops = 1
SYMMETRY ServerSymmetry
CHECK_DEADLOCK FALSE
INVARIANTS
    TypeOK
    AckedLengthHeld
    CommittedOnMajority
    LeaderIdInitialised
    SingleReign
    LengthsWithinLog
PROPERTIES
    LeaderKeepsTerm
    
    CommittedForever
    ImplementsStore
