SPECIFICATION Spec
CONSTANTS
    CfgMode = "human_review"
    MinSamples = 3
    ThresholdNum = 4
    ThresholdDen = 5
    MaxOutcomes = 8
INVARIANTS
    DigestOfHistory
    FullAutoIsEarned
PROPERTIES
    ModeMovesForCause
