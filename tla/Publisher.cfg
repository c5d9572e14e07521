SPECIFICATION CeremonySpec
CONSTANTS
    p1 = p1
    a1 = a1
    a2 = a2
    None = None
    Torn = Torn
    Procs <- OneCommandAtATime
    Authorities <- TwoAuthorities
    Modes <- EveryWay
    MaxRevision = 2
    MaxChallenges = 2
    MaxApprovals = 2
    MaxCrashes = 1
    ClickRaisesLate = TRUE
SYMMETRY AuthoritySymmetry
INVARIANTS
    OneClickPerApproval
    PerformedIsHeld
    PackIsConfirmed
    SealedIsIntended
PROPERTY ClickedWasApproved
CHECK_DEADLOCK FALSE
