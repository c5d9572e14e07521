SPECIFICATION Spec
CONSTANTS
    ExitStreak = 2
    Proposals = {"proposal"}
    Samples <- AllSamples
    Statuses = {"OK", "ERROR"}
    MaxCycles = 2
    MaxFaults = 2
INVARIANTS
    AbortedNeverCommitted
CHECK_DEADLOCK FALSE
