SPECIFICATION Spec
CONSTANTS
    c1 = c1
    c2 = c2
    l1 = l1
    None = None
    Callers <- TwoCallers
    Leases <- OneLease
    MaxVersion = 2
    MaxUses = 2
    MaxRestarts = 2
INVARIANTS
    UsesBounded
    InvalidatedForGood
    SecretAuthorityHolds
SYMMETRY Symmetry
CHECK_DEADLOCK FALSE
