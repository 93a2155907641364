SPECIFICATION Spec
CONSTANTS
    None = None
    t1 = t1
    t2 = t2
    Threads = {t1, t2}
    Traffic <- MCTraffic
    kMaxList = 2
    kMaxEntries = 2
    kMaxFramePayload = 30
    MaxMessages = 2
    MaxPartial = 2
    Kept = {0, 5, 6, 7, 20}
INVARIANTS
    ReceivedWereSent
    ArriveInOrder
    OnlyMixingBreaks
PROPERTY SentArrives
CHECK_DEADLOCK FALSE
