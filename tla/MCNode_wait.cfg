SPECIFICATION NodeSpec
CONSTANTS
    None = None
    U64 = 1024
    ConvLatencyNs = 2
    BytesPerNs = 4
    Boots = {"b1"}
    Targets = {1}
    PlanIds = {1, 2}
    Operations = {"o1", "o2"}
    DispatchIds = {"d1", "d2"}
    Clients = {"c1", "c2"}
    Holding = {}
    Slots = 2
    TargetOf <- FirstTarget
    WorkerOf <- FirstWorker
    Workers = {"w1"}
    Regions = {"r"}
    OpClasses = {"SUM"}
    Shapes = {"u8"}
    DescriptorIds <- MCIds
    DefaultPolicy = "default"
    Descriptors <- NoInputs
    OperationSpecs <- Ops
    TargetMsgs <- Registrations
    CapabilityMsgs <- Capabilities
    EvidenceMsgs <- Evidence
    HeartbeatMsgs <- Heartbeats
    StrayResults <- NoInputs
    Published <- Handshakes
    MaxEpoch = 1
PROPERTY EveryWaitEnds
CHECK_DEADLOCK FALSE
