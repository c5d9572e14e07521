SPECIFICATION Spec
CONSTANTS
    r1 = r1
    r2 = r2
    e1 = e1
    e2 = e2
    generator = generator
    steward = steward
    None = None
    Runtimes <- TwoRuntimes
    Events <- TwoEvents
    Principals <- TwoPrincipals
    Proposals <- TwoProposals
    Gates = {"PASS", "BLOCK"}
    MaxLineage = 3
    MaxStarts = 1
    MaxExports = 1
INVARIANTS
    ConstraintsAreGrounded
    ConstraintsAreInherited
SYMMETRY Symmetry
CHECK_DEADLOCK FALSE
