SPECIFICATION DurableSpec
CONSTANTS
    None = None
    Savers = {s1, s2}
    Values <- State
    Faults = {}
    Plans = {p1, p2}
    StartEpoch = 1
    kMaxPersistCount = 3
    MaxStarts = 2
INVARIANT
    AcknowledgedResultsSurvive
CHECK_DEADLOCK FALSE
