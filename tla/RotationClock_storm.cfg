\* The default of rotation_hour, in a zone that changes at two o'clock.
CONSTANTS
    Hours = {0}
    Skipped = {2}
    Repeated = {2}
SPECIFICATION ClockSpec
INVARIANT RotatesDaily
