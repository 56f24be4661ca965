SPECIFICATION Spec
CONSTANTS
    Starts <- MCStarts
    Cids = {300}
    Sends <- MCSends
    Pushes <- MCPushes
    Payloads <- MCPayloads
    MaxOpen = 2
    MaxPushes = 1
    MaxHeld = 2
INVARIANTS
    ServerHears
    ClientHears
    ConnectHears
    Readable
CHECK_DEADLOCK FALSE
