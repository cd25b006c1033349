SPECIFICATION Spec
CONSTANTS
    a1 = a1
    a2 = a2
    note = note
    gap = gap
    NoItem = NoItem
    Items = {note, gap}
    Agents = {a1, a2}
    Executors = {a1, a2}
    Operators = {a1, a2}
    Ticket <- Tickets
    RunIdOf <- OwnRunIds
    Limit = 1
    LeaseTtl = 1
    ClaimTtl = 1
    MaxTime = 1
    MaxVersion = 1
    MaxCommands = 2
    MaxKills = 1
    Overlap = FALSE
SYMMETRY AnyAgents
INVARIANTS
    ActedOnce
    
    AppliedIsReal
    ClaimKept
PROPERTIES
    ImplementsTicketLifecycle
