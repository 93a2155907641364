SPECIFICATION RecoverySpec
CONSTANTS
    None = None
    U64 = 1024
    ConvLatencyNs = 2
    BytesPerNs = 4
    Targets = {1}
    PlanIds = {1, 2}
    Operations = {"o1"}
    Regions = {"r"}
    Boots = {"b1"}
    Workers = {"w1"}
    DispatchIds = {"d1"}
    OpClasses = {"SUM"}
    Shapes = {"u8"}
    DescriptorIds <- MCIds
    DefaultPolicy = "default"
    Descriptors <- NoInputs
    OperationSpecs <- OneOp
    TargetMsgs <- OneTarget
    CapabilityMsgs <- Supported
    EvidenceMsgs <- OneData
    HeartbeatMsgs <- OneHeartbeat
    StrayResults <- NoInputs
    MaxEpoch = 2
    MaxSaves = 1
INVARIANTS
    ResultMatchesPlan
    LivePlansAreOfThisEpoch
    NoAuthorityCrossesRestart
    FileIsRemembered
