SPECIFICATION Spec
CONSTANTS
    a1 = a1
    a2 = a2
    note = note
    gap = gap
    NoItem = NoItem
    Items = {note, gap}
    Agents = {a1}
    Executors = {a1}
    Operators = {}
    Ticket <- Tickets
    RunIdOf <- OwnRunIds
    Limit = 1
    LeaseTtl = 1
    ClaimTtl = 2
    MaxTime = 1
    MaxVersion = 1
    MaxCommands = 0
    MaxKills = 0
    Overlap = FALSE
INVARIANTS
    InProgressIsActive
