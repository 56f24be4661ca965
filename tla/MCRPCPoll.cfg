SPECIFICATION Spec
CONSTANTS
    Threads = {}
    MaxOpen = 2
    MaxCalls = 1
    Events = {"net", "close"}
INVARIANTS
    NoMisuse
    StatusTruthful
PROPERTIES
    ReconnectsUnlessWriteFailed
    StopEnds
    CallsSettle
CHECK_DEADLOCK FALSE
