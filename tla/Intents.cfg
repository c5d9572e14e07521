SPECIFICATION Spec
CONSTANTS
    h1 = h1
    h2 = h2
    a = a
    b = b
    Other = Other
    Ids = {"i1", "i2"}
    Principals <- Both
    Delegates <- Delegate
    Handlers <- TwoHandlers
    Backends = {"sqlite", "object"}
    MaxLedger = 2
    MaxMessages = 2
SYMMETRY Symmetry
INVARIANTS
    RetriesAreIdempotent
PROPERTY ImplementsRegister
CHECK_DEADLOCK FALSE
