SPECIFICATION FederatedSpec
CONSTANTS
    Absent = Absent
    Requests <- Requested
    Unit = 2
    FederatedRequests <- Federated
    MaxTime = 3
INVARIANTS
    RouteIsOptimal
    ConservativeMeansPathFree
    BoundariesAreGoverned
PROPERTIES
    RequestsAreAnswered
CHECK_DEADLOCK FALSE
