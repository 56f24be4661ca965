SPECIFICATION Safety
CONSTANTS
    c1 = c1  c2 = c2  c3 = c3  c4 = c4  w1 = w1  w2 = w2
    Conns = {c1, c2}
    Workers = {w1}
    WorkerOf <- OneWorker
    Cids = {1}
    Threads = {t1}
    NProcess = 1
    MaxCidOps = 1
    Uses = {"task"}
    NoConn = NoConn
INVARIANT NoUseAfterFree
CHECK_DEADLOCK FALSE
