\* One task and one GET after another.
CONSTANTS
    Nobody = Nobody
    TaskId = {t1}
    MaxRunning = 1
    Cancellable = {t1}
    Detaching = {}
SPECIFICATION ReadSpec
INVARIANTS
    ShownOutcomeIsFinal
    LateGetExact
CHECK_DEADLOCK FALSE
