\* Two tasks for one slot and two requests, for shutdown at any moment.
CONSTANTS
    TaskId = {t1, t2}
    MaxRunning = 1
    Cancellable = {t1}
    Detaching = {}
    Request = {r1, r2}
SPECIFICATION AgentSpec
INVARIANTS
    OrphansExplained
PROPERTIES
    ShutdownEnds
    DrainedIsQuiet
CHECK_DEADLOCK FALSE
