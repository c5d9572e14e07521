SPECIFICATION FairSuperSpec
CONSTANTS
    ExitStreak = 1
    Proposals = {"recovery", "stale"}
    Samples <- TwoSamples
    Statuses = {"OK", "FAILED"}
    MaxCycles = 2
    MaxFaults = 2
    GateAfter = 1
    Policies = {P1, P2}
    NoPolicy = NoPolicy
    MaxAttempts = 2
    ReadLimit = 100
INVARIANTS
    GateMatchesJournal
    FailedEffectClosesTheGate
    PolicyBoundBeforeFailure
    AttemptNumbersGrow
PROPERTIES
    OnlyRecoveryActsWhileGated
    PendingRecoveryIsAttempted
CHECK_DEADLOCK FALSE
