SPECIFICATION FairSpec
CONSTANTS
    r1 = r1
    r2 = r2
    fullA = fullA
    fastA = fastA
    publish = publish
    seed = seed
    A = A
    B = B
    NoTick = NoTick
    Runners = {r1, r2}
    Loopers = {}
    Jobs = {fullA, seed}
    Seeded = {seed}
    TypeOf <- MCTypeOf
    TickOf <- MCTickOf
    Rank <- MCRank
    LeaseOf <- MCLeaseOf
    Smoke = {"SMOKE_FULL", "SMOKE_FAST"}
    Network = {"RELEASE_PUBLISH"}
    TickIds = {A}
    MaxRunning = 1
    MaxConcurrent = 1
    MaxPoll = 2
    MaxKills = 1
    Overlap = FALSE
PROPERTIES
    JobsEnd
    LockFreed
