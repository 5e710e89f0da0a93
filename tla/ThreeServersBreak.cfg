SPECIFICATION Spec
CONSTANTS
    Server = {s1, s2, s3}
    Key = {k1}
    Value = {v1}
    NoServer = NoServer
    NoValue = NoValue
    BootLinks <- SimultaneousBoot
    GarbageTerms <- Zeros
    MaxTerm = 1
    MaxLog = 1
    MaxDrops = 1
SYMMETRY ServerSymmetry
CHECK_DEADLOCK FALSE
INVARIANTS
    AckedLengthHeld
    CommittedOnMajority
    SingleReign

    
