SPECIFICATION Spec
CONSTANTS
    t1 = t1
    t2 = t2
    Threads <- TwoThreads
    Ops <- Requests
    Capabilities <- Registry
    Kinds = {"task"}
    Databases <- InUse
    Window = 1
    MaxTime = 2
    MaxRequests = 2
    MaxFaults = 1
SYMMETRY ThreadSymmetry
INVARIANTS
    AcceptedOncePerWindow
    TablesAreLedgered
    HandoffsFormAHistory
    KeptPayloadsAreAuthorized
    CallsAreAccounted
CHECK_DEADLOCK FALSE
