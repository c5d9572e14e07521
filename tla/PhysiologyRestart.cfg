SPECIFICATION FairSpec
CONSTANTS
    ExitStreak = 2
    Proposals = {"proposal"}
    Samples <- AllSamples
    Statuses = {"OK", "ERROR"}
    MaxCycles = 2
    MaxFaults = 3
INVARIANTS
    NoEventIdCollision
    CyclesEvaluatedOnce
PROPERTY RestartCompletes
CHECK_DEADLOCK FALSE
