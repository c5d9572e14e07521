SPECIFICATION GateSpec
CONSTANTS
    left = left
    right = right
    k1 = k1
    k2 = k2
    k3 = k3
    h1 = h1
    None = None
    Authorities <- BothAuthorities
    Keys <- ThreeKeys
    Reasons = {"retired"}
    Presented <- SomeRecords
    Relations <- SomeRelations
    Handlers <- OneHandler
    MaxTime = 2
    MaxLedger = 4
INVARIANTS
    OneEffectiveKey
    LedgerMatchesTables
    ReceiptsNameTheRequest
    BoundKeysCover
    ReplayIsStable
    OneMomentDecides
CHECK_DEADLOCK FALSE
