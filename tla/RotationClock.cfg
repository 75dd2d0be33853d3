\* The hours around midnight, noon and the changes, in zones that change at
\* midnight or at night, days of every length.
CONSTANTS
    Hours = {0, 1, 2, 3, 4, 12, 21, 22, 23}
    Skipped = {0, 1, 2, 23}
    Repeated = {0, 1, 2, 23}
SPECIFICATION ClockSpec
INVARIANTS
    AttemptEveryDay
    DriftBounded
