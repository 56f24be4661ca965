SPECIFICATION SpecClientsLogIn
CONSTANTS
    c1 = c1  c2 = c2  c3 = c3  c4 = c4  w1 = w1  w2 = w2
    Conns = {c1, c2, c3}
    Workers = {w1}
    WorkerOf <- OneWorker
    Cids = {1}
    Threads = {}
    NProcess = 1
    MaxCidOps = 0
    Uses = {"defer", "refuse", "startup", "shutdown"}
    NoConn = NoConn
INVARIANTS
    NothingLeft
    NoUseAfterFree
PROPERTIES
    GoneDeleted
    ShutdownEnds
CHECK_DEADLOCK FALSE
