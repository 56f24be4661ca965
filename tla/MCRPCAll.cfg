SPECIFICATION Safety
CONSTANTS
    Threads = {t1}
    MaxOpen = 2
    MaxCalls = 1
    Events = {"net", "reset", "unready", "deny", "late", "close"}
INVARIANTS
    OneCallback
CHECK_DEADLOCK FALSE
