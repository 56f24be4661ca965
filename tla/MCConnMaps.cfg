SPECIFICATION Safety
CONSTANTS
    c1 = c1  c2 = c2  c3 = c3  c4 = c4  w1 = w1  w2 = w2
    Conns = {c1, c2, c3, c4}
    Workers = {w1, w2}
    WorkerOf <- TwoWorkers
    Cids = {1}
    Threads = {t1}
    NProcess = 1
    MaxCidOps = 2
    Uses = {"defer", "deny", "refuse", "close", "task", "closeInTask"}
    NoConn = NoConn
INVARIANTS
    MapsLive
    NoDanglingTag
    AssertionsHold
PROPERTIES
    NewerSurvives
CHECK_DEADLOCK FALSE
