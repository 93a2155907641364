SPECIFICATION NodeSpec
CONSTANTS
    None = None
    U64 = 1024
    ConvLatencyNs = 2
    BytesPerNs = 4
    Boots = {"b1", "b2"}
    Targets = {1, 2}
    PlanIds = {1, 2}
    Operations = {"o1"}
    DispatchIds = {"d1", "d2"}
    Clients = {"c1", "c2"}
    Holding = {"b2"}
    Slots = 1
    TargetOf <- TwoTargets
    WorkerOf <- TwoWorkers
    Workers = {"w1", "w2"}
    Regions = {"r"}
    OpClasses = {"SUM"}
    Shapes = {"u8"}
    DescriptorIds <- MCIds
    DefaultPolicy = "default"
    Descriptors <- NoInputs
    OperationSpecs <- Ops
    TargetMsgs <- Registrations
    CapabilityMsgs <- Capabilities
    EvidenceMsgs <- Evidence
    HeartbeatMsgs <- Heartbeats
    StrayResults <- NoInputs
    Published <- Handshakes
    MaxEpoch = 1
INVARIANTS
    AnswersAreTrue
    LostWorkerHasNoLivePlan
    WaitIsServed
CHECK_DEADLOCK FALSE
