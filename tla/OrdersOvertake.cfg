SPECIFICATION Spec
CONSTANTS
    Server = {s1, s2}
    NoServer = NoServer
    LeaderThread = {t1, t2}
    Updater = {c1}
    Reader = {}
    NumRequests = 2
    Free = Free
    Idle = Idle
    MaxChanges = 1
    MaxStops = 0
SYMMETRY Symmetric
CHECK_DEADLOCK FALSE
INVARIANTS
    OrdersInOrder
