SPECIFICATION FairSpec
CONSTANTS
    p1 = p1
    p2 = p2
    r1 = r1
    r2 = r2
    r3 = r3
    NoRequest = NoRequest
    Procs = {p1, p2}
    Resumers = {}
    Requests = {r1, r2}
    Forceable = {r1}
    NeedsApproval = {r2}
    MayWrite = {r1, r2}
    StrictDeny = {}
    Unroutable = {}
    GovernorConfigs <- NormalOnly
    MaxParallel = 1
    MaxRuns = 2
    MaxTokens = 3
    ModATokens = 1
    ModBTokens = 1
    GateAction = "pass"
    MaxLaunches = 3
    MaxCrashes = 0
    CfgMode = "full_auto"
    MinSamples = 2
    ThresholdNum = 1
    ThresholdDen = 2
INVARIANTS
    TypeOK
    OneRunAtATime
    AdmissionsCounted
    TokensAccounted
    OutcomesCounted
PROPERTIES
    TokenQuotaBeforeEffects
    CompletedIsFinal
    LockFreed
    ImplementsFairLifecycle
