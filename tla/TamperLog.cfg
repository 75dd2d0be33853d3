\* Three calls, two of them at once, two processes, a disk and a broker that fail, and Close.
CONSTANTS
    Call = {c1, c2, c3}
    Genesis = Genesis
    Garbage = Garbage
    Split = {}
    MaxInFlight = 2
    MaxLife = 2
    QueueCap = 1
    DiskMayFail = TRUE
    HonoursCtx = TRUE
    SendMayFail = TRUE
SPECIFICATION Spec
INVARIANTS
    ChainLinear
    SmoothVerifies
    FirstLifeComplete
    DisplacementBound
    ReplicaRecorded
PROPERTY CloseTerminates
CHECK_DEADLOCK FALSE
