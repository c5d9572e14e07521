SPECIFICATION CeremonySpec
CONSTANTS
    p1 = p1
    a1 = a1
    a2 = a2
    None = None
    Torn = Torn
    Procs <- OneCommandAtATime
    Authorities <- OneAuthority
    Modes <- OnlyTyped
    MaxRevision = 2
    MaxChallenges = 1
    MaxApprovals = 1
    MaxCrashes = 0
    ClickRaisesLate = TRUE
INVARIANT UncertainIsHeld
CHECK_DEADLOCK FALSE
