SPECIFICATION Spec
CONSTANTS
    None = None
    U64 = 1024
    ConvLatencyNs = 2
    BytesPerNs = 4
    Targets = {1}
    PlanIds = {1}
    Operations = {"o1"}
    Regions = {"r"}
    Boots = {"b1", "b2"}
    Workers = {"w1"}
    DispatchIds = {"d1", "d2"}
    OpClasses = {"SUM"}
    Shapes = {"u8"}
    DescriptorIds <- MCIds
    DefaultPolicy = "default"
    Descriptors <- AuthorityDescriptors
    OperationSpecs <- OneOp
    TargetMsgs <- AuthorityTargets
    CapabilityMsgs <- Supported
    EvidenceMsgs <- AuthorityData
    HeartbeatMsgs <- OneHeartbeat
    StrayResults <- AuthorityStrays
    MaxEpoch = 2
INVARIANTS
    TypeOK
    ResultMatchesPlan
    DispatchCarriesPinnedAuthority
    CommitsWereHandedOut
    LivePlansAreOfThisEpoch
    RevokedNeverCommits
PROPERTY
    ExecutionMovesForward
    ActsAsAuthority
