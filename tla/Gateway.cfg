\* Integers of six bits; a second has six nanoseconds.
CONSTANTS
    Unset = Unset
    Unreadable = Unreadable
    Default <- MCDefault
    Setup <- MCSetup
    ExecRequest <- MCExecRequest
    UploadRequest <- MCUploadRequest
    Cwd <- MCCwd
    AllowedCommands = {"ls"}
    BlockedWords = {"mkfs"}
    Unit = 6
    Half = 32
SPECIFICATION Spec
INVARIANTS
    ConfigSound
    LimitRight
    WorkDirRight
    UploadRight
CHECK_DEADLOCK FALSE
