SPECIFICATION Spec
SYMMETRY AnyRunners
CONSTANTS
    r1 = r1
    r2 = r2
    fullA = fullA
    fastA = fastA
    publish = publish
    seed = seed
    A = A
    B = B
    NoTick = NoTick
    Runners = {r1, r2}
    Loopers = {r1, r2}
    Jobs = {fullA, fastA, publish}
    Seeded = {}
    TypeOf <- MCTypeOf
    TickOf <- MCTickOf
    Rank <- MCRank
    LeaseOf <- MCLeaseOf
    Smoke = {"SMOKE_FULL", "SMOKE_FAST"}
    Network = {"RELEASE_PUBLISH"}
    TickIds = {A, B}
    MaxRunning = 1
    MaxConcurrent = 1
    MaxPoll = 2
    MaxKills = 1
    Overlap = FALSE
INVARIANTS
    TypeOK
    
    ProcessesWatched
    RunningBounded
    Covered

    
