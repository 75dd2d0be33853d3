\* Two tasks, both cancellable, compete for one slot.
CONSTANTS
    TaskId = {t1, t2}
    MaxRunning = 1
    Cancellable = {t1, t2}
    Detaching = {}
SPECIFICATION Spec
INVARIANTS
    SlotAccounting
    OvershootBound
    CleanupSafe
    OutcomeHonest
    RunningCancelWins
PROPERTIES
    ImplementsLifecycle
    EveryTaskEnds
    FinishedForgotten
CHECK_DEADLOCK FALSE
