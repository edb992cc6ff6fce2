CONSTANTS
    Count = 2
    Returning = {1, 2}
    Second = 4
    Timeout = 2
    MaxTime = 6
SPECIFICATION Spec
INVARIANTS KilledAfterStop
