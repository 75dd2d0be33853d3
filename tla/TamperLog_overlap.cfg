\* Two calls overlap; no failure, no restart.
CONSTANTS
    Call = {c1, c2}
    Genesis = Genesis
    Garbage = Garbage
    Split = {}
    MaxInFlight = 2
    MaxLife = 1
    QueueCap = 1
    DiskMayFail = FALSE
    HonoursCtx = FALSE
    SendMayFail = FALSE
SPECIFICATION SafeSpec
INVARIANT AlwaysVerifies
CHECK_DEADLOCK FALSE
