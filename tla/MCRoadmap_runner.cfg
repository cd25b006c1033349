SPECIFICATION FairSpec
CONSTANTS
    m1 = m1
    m82 = m82
    m35 = m35
    NoMilestone = NoMilestone
    f = f
    Milestones = {m1, m35, m82}
    Order <- MCOrder
    Core = {m1}
    Marked = {m1, m82, m35}
    MaxVersion = 2
    ResetBy <- MCResetBy
    BackoffOf <- MCBackoffOf
    Day = 2
    Runners = {f}
    Iso = m1
    Session = m35
    Bundle = m82
    IsoRequired = TRUE
    SyncAfterEdit = FALSE
    MaxTroubles = 1
    MaxCommands = 1
INVARIANTS
    InOrder
    DriftKept
PROPERTIES
    QuarantineHolds
    
    ProgressKept
    EventuallyDone
