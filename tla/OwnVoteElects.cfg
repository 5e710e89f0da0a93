SPECIFICATION Spec
CONSTANTS
    Server = {s1, s2, s3}
    Key = {k1}
    Value = {v1}
    NoServer = NoServer
    NoValue = NoValue
    BootLinks <- SimultaneousBoot
    GarbageTerms <- AnyTerm
    MaxTerm = 1
    MaxLog = 0
    MaxDrops = 1
SYMMETRY ServerSymmetry
CHECK_DEADLOCK FALSE
INVARIANTS
    ElectedByMajority
