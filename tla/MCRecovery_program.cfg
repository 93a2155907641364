SPECIFICATION RecoverySpec
CONSTANTS
    None = None
    U64 = 1024
    ConvLatencyNs = 2
    BytesPerNs = 4
    Targets = {1}
    PlanIds = {1}
    Operations = {"o1", "o2"}
    Regions = {"r"}
    Boots = {"b1"}
    Workers = {"w1"}
    DispatchIds = {"d1"}
    OpClasses = {"SUM"}
    Shapes = {"u8"}
    DescriptorIds <- MCIds
    DefaultPolicy = "default"
    Descriptors <- NoInputs
    OperationSpecs <- WithProgram
    TargetMsgs <- OneTarget
    CapabilityMsgs <- Supported
    EvidenceMsgs <- OneData
    HeartbeatMsgs <- OneHeartbeat
    StrayResults <- NoInputs
    MaxEpoch = 2
    MaxSaves = 1
INVARIANT
    PublishedResultsSurvive
