SPECIFICATION Spec
CONSTANTS
    Threads = {t1, t2}
    Replies = {r1, r2, r3}
    MaxClosers = 2
INVARIANTS
    RefCountExact
    FreedIffUnheld
    OneWrite
    InOrder
PROPERTIES
    AllDelivered
    EventuallyFreed
    ImplementsChannel
CHECK_DEADLOCK FALSE
