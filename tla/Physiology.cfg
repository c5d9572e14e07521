SPECIFICATION Spec
CONSTANTS
    ExitStreak = 2
    Proposals = {"proposal"}
    Samples <- AllSamples
    Statuses = {"OK", "ERROR"}
    MaxCycles = 3
    MaxFaults = 1
INVARIANTS
    EffectsAuthorized
    ExitNeedsNormalStreak
    CommitsTellTheTruth
PROPERTY CounterNeverMovesBack
CHECK_DEADLOCK FALSE
