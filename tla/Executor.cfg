\* Output up to twice the limit on both streams, all kinds of children.
CONSTANTS
    Limit = 2
    PipeCap = 1
    MaxOut = 4
    ChildKinds = {"none", "holding", "quiet"}
    PidsRecycled = TRUE
    Patient = FALSE
SPECIFICATION Spec
INVARIANTS
    OutcomeHonest
    OutputComplete
PROPERTY ExecuteReturns
CHECK_DEADLOCK FALSE
