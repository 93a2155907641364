SPECIFICATION DurableSpec
CONSTANTS
    None = None
    Savers = {s1}
    Values <- State
    Faults = {"create", "write", "flush", "move", "delete", "power"}
    Plans = {p1, p2, p3}
    StartEpoch = 1
    kMaxPersistCount = 3
    MaxStarts = 3
INVARIANTS
    SavedResultsSurvive
    RecoveryAdvancesEpoch
CHECK_DEADLOCK FALSE
