SPECIFICATION Safety
CONSTANTS
    MaxAttempts = 40
    Jitters = {800, 1000, 1299}
INVARIANT WaitInRange
CHECK_DEADLOCK FALSE
