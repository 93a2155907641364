SPECIFICATION StoreSpec
CONSTANTS
    None = None
    Savers = {s1, s2, s3}
    Values = {v1, v2, v3}
    Faults = {"create", "move", "power"}
INVARIANTS
    PathIsWhole
    HandleDiscipline
PROPERTY
    ActsAsRegister
