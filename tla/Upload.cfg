\* Three uploads to two targets, failures, and a crash.
CONSTANTS
    Up = {u1, u2, u3}
    Name = {a, b}
    Suffixes = {0}
    None = None
    MaxCrashes = 1
    DiskMayFail = TRUE
SPECIFICATION Spec
INVARIANTS
    NeverPartial
    StoredIsOwn
    TempOwned
PROPERTIES
    ConflictExplained
    EveryUploadEnds
    ImplementsStore
CHECK_DEADLOCK FALSE
