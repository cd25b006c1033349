SPECIFICATION Spec
CONSTANTS
    p1 = p1
    p2 = p2
    r1 = r1
    r2 = r2
    r3 = r3
    NoRequest = NoRequest
    Procs = {p1, p2}
    Resumers = {}
    Requests = {r1, r2}
    Forceable = {}
    NeedsApproval = {r2}
    MayWrite = {r1, r2}
    StrictDeny = {}
    Unroutable = {}
    GovernorConfigs <- NormalOnly
    MaxParallel = 1
    MaxRuns = 2
    MaxTokens = 4
    ModATokens = 1
    ModBTokens = 1
    GateAction = "suspend"
    MaxLaunches = 4
    MaxCrashes = 2
    CfgMode = "full_auto"
    MinSamples = 2
    ThresholdNum = 1
    ThresholdDen = 2
INVARIANTS
    
    EvidenceSealed
    MappingsComplete
