SPECIFICATION Spec
CONSTANTS
    Server = {s1, s2}
    NoServer = NoServer
    LeaderThread = {t1, t2}
    Updater = {c1}
    Reader = {c2}
    NumRequests = 2
    Free = Free
    Idle = Idle
    MaxChanges = 2
    MaxStops = 0
SYMMETRY Symmetric
CHECK_DEADLOCK FALSE
INVARIANTS
    AnswersMatch
