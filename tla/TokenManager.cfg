\* Three generations of tokens, every failure and every outsider.
CONSTANTS
    Token = {k1, k2, k3}
    Request = {r1}
    None = None
    Empty = Empty
    Outsiders = TRUE
    DiskMayFail = TRUE
    ChmodMayFail = TRUE
SPECIFICATION Spec
INVARIANTS
    FileWhole
    FileTokenWelcome
    RotationRevokes
    PrintedValid
PROPERTIES TriggerHonoured
CHECK_DEADLOCK FALSE
