SPECIFICATION Spec
CONSTANTS
    q1 = q1
    q2 = q2
    q3 = q3
    q4 = q4
    t1 = t1
    t2 = t2
    p1 = p1
    p2 = p2
    Requests <- FourRequests
    Tenants <- TwoTenants
    Keys = {k1}
    Prints <- TwoPrints
    Limit = 0
    Window = 2
    MaxTime = 0
    Faults = FALSE
SYMMETRY Symmetry
INVARIANT
    ConflictsAreNotExecuted
CHECK_DEADLOCK FALSE
